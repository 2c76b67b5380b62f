---------------------------- MODULE AccountsProofs ----------------------------
(***************************************************************************)
(* What holds of Accounts for any number of accounts, names and tasks: the *)
(* types, what the file can differ by from the memory (FileInv), and from  *)
(* that, that nothing seen is lost, that names are unique, that deleted    *)
(* accounts stay deleted, and that Accounts implements UserStore.          *)
(***************************************************************************)
EXTENDS Accounts, TLAPS

(***************************************************************************)
(* Types.                                                                  *)
(***************************************************************************)

\* The call of a task, by where it is.
LEMMA CallFields ==
  ASSUME TypeOK, NEW h \in Tasks
  PROVE  /\ At(h, "lock") => /\ calls[h].op \in Writers /\ calls[h].user \in Users
         /\ At(h, "writing") \/ At(h, "renamed") =>
              /\ calls[h].op \in Writers /\ calls[h].user \in Users
              /\ calls[h].snap \in Database
         /\ calls[h].op = "verified" => calls[h].user \in Users
         /\ calls[h].op = "upsert" => calls[h].user \in Users /\ calls[h].device \in Devices
         /\ calls[h].op = "saving" => calls[h].saved \in SUBSET Users
<1>1. calls[h] \in Call
  BY DEF TypeOK
<1>2. CASE calls[h] \in {Idle, ToSave}
  BY <1>2 DEF Idle, ToSave, At, Writers
<1>3. CASE calls[h] \in [op : Writers, pc : {"lock"}, user : Users]
  BY <1>3 DEF At, Writers
<1>4. CASE calls[h] \in [op : Writers, pc : {"writing", "renamed"}, user : Users, snap : Database]
  BY <1>4 DEF At, Writers
<1>5. CASE calls[h] \in [op : {"verified"}, user : Users]
  BY <1>5 DEF At, Writers
<1>6. CASE calls[h] \in [op : {"upsert"}, user : Users, device : Devices]
  BY <1>6 DEF At, Writers
<1>7. CASE calls[h] \in [op : {"saving"}, saved : SUBSET Users]
  BY <1>7 DEF At, Writers
<1>. QED
  BY <1>1, <1>2, <1>3, <1>4, <1>5, <1>6, <1>7 DEF Call

\* The calls that the actions make are calls.
LEMMA CallTypes ==
  /\ Idle \in Call /\ ToSave \in Call
  /\ \A op \in Writers, u \in Users : Locking(op, u) \in Call
  /\ \A op \in Writers, u \in Users, s \in Database :
       Writing(op, u, s) \in Call /\ Renamed(op, u, s) \in Call
  /\ \A u \in Users : Verified(u) \in Call /\ \A d \in Devices : Upserting(u, d) \in Call
  /\ \A s \in SUBSET Users : Saving(s) \in Call
<1>1. Idle \in Call /\ ToSave \in Call
  BY DEF Call
<1>2. \A op \in Writers, u \in Users : Locking(op, u) \in Call
  BY DEF Call, Locking
<1>3. \A op \in Writers, u \in Users, s \in Database :
        Writing(op, u, s) \in Call /\ Renamed(op, u, s) \in Call
  BY DEF Call, Writing, Renamed
<1>4. \A u \in Users : Verified(u) \in Call /\ \A d \in Devices : Upserting(u, d) \in Call
  BY DEF Call, Verified, Upserting
<1>5. \A s \in SUBSET Users : Saving(s) \in Call
  BY DEF Call, Saving
<1>. QED
  BY <1>1, <1>2, <1>3, <1>4, <1>5

\* The snapshot of an allowed change is a database (After).
LEMMA AfterType ==
  ASSUME AccountParameters, TypeOK, NEW op \in Writers, NEW u \in Users, Allowed(op, u)
  PROVE  After(op, u) \in Database
<1>1. CASE op = "register"
  BY <1>1 DEF After, Database, Option, TypeOK
<1>2. CASE op = "wake"
  <2>1. users[u] \in Nat
    BY <1>2 DEF Allowed, TypeOK, Database, Option
  <2>2. users[u] + 1 \in Nat
    BY <2>1
  <2>3. After(op, u) = [users EXCEPT ![u] = users[u] + 1]
    BY <1>2 DEF After
  <2>. QED
    BY <2>2, <2>3 DEF Database, Option, TypeOK
<1>3. CASE op = "delete"
  BY <1>3 DEF After, Database, Option, TypeOK
<1>. QED
  BY <1>1, <1>2, <1>3 DEF Writers

\* The calls that begin, up to the lock of the store, keep the types.
LEMMA BeginTypes ==
  ASSUME AccountParameters, TypeOK, NEW h \in Handlers,
         \/ \E n \in Names : Login(h, n) \/ \E u \in Users : Register(h, n, u)
         \/ \E u \in Users : Delete(h, u) \/ Wake(h, u) \/ \E d \in Devices : Upsert(h, u, d)
         \/ UpsertInserts(h) \/ TakeLock(h) \/ Refuse(h)
  PROVE  TypeOK'
<1>. USE CallTypes
<1>. h \in Tasks
  BY DEF Tasks
<1>1. ASSUME NEW n \in Names, Login(h, n)  PROVE TypeOK'
  <2>1. index[n] \in Users
    BY <1>1 DEF Login, TypeOK, Option
  <2>. QED
    BY <1>1, <2>1 DEF Login, Begin, Goto, TypeOK, store, history
<1>2. ASSUME NEW n \in Names, NEW u \in Users, Register(h, n, u)  PROVE TypeOK'
  <2>1. Locking("register", u) \in Call
    BY DEF Writers
  <2>2. names' \in [Users -> Option(Names)]
    BY <1>2 DEF Register, TypeOK, Option
  <2>. QED
    BY <1>2, <2>1, <2>2 DEF Register, Begin, Goto, TypeOK, store
<1>3. ASSUME NEW u \in Users, Delete(h, u)  PROVE TypeOK'
  <2>1. Locking("delete", u) \in Call
    BY DEF Writers
  <2>. QED
    BY <1>3, <2>1 DEF Delete, Begin, Goto, TypeOK, store
<1>4. ASSUME NEW u \in Users, Wake(h, u)  PROVE TypeOK'
  <2>1. Locking("wake", u) \in Call
    BY DEF Writers
  <2>. QED
    BY <1>4, <2>1 DEF Wake, Begin, Goto, TypeOK, store, history
<1>5. ASSUME NEW u \in Users, NEW d \in Devices, Upsert(h, u, d)  PROVE TypeOK'
  BY <1>5 DEF Upsert, Begin, Goto, TypeOK, store, history
<1>6. CASE UpsertInserts(h)
  <2>1. calls[h].user \in Users /\ calls[h].device \in Devices
    BY <1>6, CallFields DEF UpsertInserts
  <2>. QED
    BY <1>6, <2>1 DEF UpsertInserts, Goto, TypeOK, store, history, Option
<1>7. CASE TakeLock(h)
  <2>. DEFINE op == calls[h].op  u == calls[h].user
  <2>1. op \in Writers /\ u \in Users
    BY <1>7, CallFields DEF TakeLock
  <2>2. After(op, u) \in Database
    BY <1>7, <2>1, AfterType DEF TakeLock
  <2>3. Writing(op, u, After(op, u)) \in Call
    BY <2>1, <2>2
  <2>. QED
    BY <1>7, <2>3 DEF TakeLock, Goto, TypeOK, store, history, Option
<1>8. CASE Refuse(h)
  BY <1>8 DEF Refuse, Goto, TypeOK, store, history
<1>. QED
  BY <1>1, <1>2, <1>3, <1>4, <1>5, <1>6, <1>7, <1>8

\* A call that publishes its snapshot keeps the types of the memory.
LEMMA PublishTypes ==
  ASSUME TypeOK, NEW h \in Tasks, NEW op \in Writers, NEW u \in Users, Publish(h, op, u)
  PROVE  users' \in Database /\ told' \in Database /\ lock' = None
<1>1. calls[h].snap \in Database
  BY CallFields DEF Publish
<1>2. calls[h].snap[u] \in Option(Nat)
  BY <1>1 DEF Database
<1>. QED
  BY <1>2 DEF Publish, TypeOK, Database

\* The writing and publishing of a change, and its ends, keep the types.
LEMMA EndTypes ==
  ASSUME AccountParameters, TypeOK, NEW h \in Handlers,
         \/ Rename(h) \/ WriteFails(h) \/ Drop(h)
         \/ \E u \in Users : Registered(h, u) \/ Revised(h, u) \/ Deleted(h, u)
  PROVE  TypeOK'
<1>. USE CallTypes
<1>. h \in Tasks
  BY DEF Tasks
<1>. \A S : None \in Option(S)
  BY DEF Option
<1>1. CASE Rename(h)
  <2>1. /\ calls[h].op \in Writers /\ calls[h].user \in Users
        /\ calls[h].snap \in Database
    BY <1>1, CallFields DEF Rename
  <2>. QED
    BY <1>1, <2>1 DEF Rename, Goto, TypeOK, history
<1>2. CASE WriteFails(h)
  BY <1>2 DEF WriteFails, Goto, TypeOK, store, history
<1>3. CASE Drop(h)
  <2>1. lock' \in Option(Tasks) /\ file' \in Database
    BY <1>3, CallFields DEF Drop, TypeOK
  <2>. QED
    BY <1>3, <2>1 DEF Drop, Goto, TypeOK, history
<1>4. ASSUME NEW u \in Users, Registered(h, u)  PROVE TypeOK'
  <2>1. users' \in Database /\ told' \in Database /\ lock' = None
    BY <1>4, PublishTypes DEF Registered, Writers
  <2>2. index' \in [Names -> Option(Users)]
    BY <1>4 DEF Registered, TypeOK, Option
  <2>. QED
    BY <1>4, <2>1, <2>2 DEF Registered, Goto, TypeOK
<1>5. ASSUME NEW u \in Users, Revised(h, u)  PROVE TypeOK'
  <2>1. users' \in Database /\ told' \in Database /\ lock' = None
    BY <1>5, PublishTypes DEF Revised, Writers
  <2>. QED
    BY <1>5, <2>1 DEF Revised, Goto, TypeOK
<1>6. ASSUME NEW u \in Users, Deleted(h, u)  PROVE TypeOK'
  <2>1. users' \in Database /\ told' \in Database /\ lock' = None
    BY <1>6, PublishTypes DEF Deleted, Writers
  <2>2. index' \in [Names -> Option(Users)]
    BY <1>6 DEF Deleted, TypeOK, Option
  <2>3. presence' \in [Devices -> Option(Users)]
    BY <1>6 DEF Deleted, TypeOK, Option
  <2>. QED
    BY <1>6, <2>1, <2>2, <2>3 DEF Deleted, Goto, TypeOK
<1>. QED
  BY <1>1, <1>2, <1>3, <1>4, <1>5, <1>6

\* Sessions, their file and presence keep the types.
LEMMA SessionTypes ==
  ASSUME TypeOK,
         \/ \E h \in Tasks : SaveBegins(h) \/ SaveEnds(h)
         \/ \E h \in Handlers : SignIn(h) \/ DropSave(h)
         \/ \E u \in Users : SessionEnds(u)
         \/ \E d \in Devices : PresenceEnds(d)
         \/ PeriodicSave
  PROVE  TypeOK'
<1>. USE CallTypes
<1>. Handlers \subseteq Tasks /\ \A S : None \in Option(S) /\ S \subseteq Option(S)
  BY DEF Option, Tasks
<1>1. ASSUME NEW h \in Tasks, SaveBegins(h)  PROVE TypeOK'
  <2>1. Saving(sessions) \in Call
    BY DEF TypeOK
  <2>. QED
    BY <1>1, <2>1 DEF SaveBegins, Goto, TypeOK, store, history
<1>2. ASSUME NEW h \in Tasks, SaveEnds(h)  PROVE TypeOK'
  <2>1. sessionFile' \in Option(SUBSET Users)
    BY <1>2, CallFields DEF SaveEnds
  <2>. QED
    BY <1>2, <2>1 DEF SaveEnds, Goto, TypeOK, store, history
<1>3. ASSUME NEW h \in Handlers, SignIn(h)  PROVE TypeOK'
  <2>1. calls[h].user \in Users
    BY <1>3, CallFields DEF SignIn
  <2>. QED
    BY <1>3, <2>1 DEF SignIn, Goto, TypeOK, store, history
<1>4. ASSUME NEW h \in Handlers, DropSave(h)  PROVE TypeOK'
  <2>1. sessionFile' \in Option(SUBSET Users) /\ lock' \in Option(Tasks)
    BY <1>4, CallFields DEF DropSave, TypeOK
  <2>. QED
    BY <1>4, <2>1 DEF DropSave, Goto, TypeOK, store, history
<1>5. ASSUME NEW u \in Users, SessionEnds(u)  PROVE TypeOK'
  BY <1>5 DEF SessionEnds, TypeOK, store, history
<1>6. ASSUME NEW d \in Devices, PresenceEnds(d)  PROVE TypeOK'
  BY <1>6 DEF PresenceEnds, TypeOK, store, history
<1>7. CASE PeriodicSave
  BY <1>7 DEF PeriodicSave, Begin, Goto, TypeOK, store, history
<1>. QED
  BY <1>1, <1>2, <1>3, <1>4, <1>5, <1>6, <1>7

\* The owner of a name in a database is a user or nobody.
LEMMA OwnerType ==
  \A db, n : Owner(db, n) \in Option(Users)
BY DEF Owner, Option

LEMMA RestartTypes ==
  ASSUME TypeOK, Restart
  PROVE  TypeOK'
<1>1. index' \in [Names -> Option(Users)]
  BY OwnerType DEF Restart
<1>2. sessions' \subseteq Users
  BY DEF Restart, Loaded, TypeOK, Option
<1>. QED
  BY <1>1, <1>2, CallTypes DEF Restart, TypeOK, Option, history

LEMMA NextTypes ==
  ASSUME AccountParameters, TypeOK, [Next]_vars
  PROVE  TypeOK'
<1>1. CASE UNCHANGED vars
  BY <1>1 DEF vars, TypeOK
<1>2. CASE Restart
  BY <1>2, RestartTypes
<1>3. CASE Live
  BY <1>3, BeginTypes, EndTypes, SessionTypes DEF Live, Serve, Transaction
<1>. QED
  BY <1>1, <1>2, <1>3 DEF Next

LEMMA InitTypes == ASSUME Init PROVE TypeOK
BY CallTypes DEF Init, TypeOK, Database, Option

\* Every variable keeps its type (the state of AppState and of the two files).
THEOREM TypeCorrect == Spec => []TypeOK
BY AccountParameters, InitTypes, NextTypes, PTL DEF Spec

(***************************************************************************)
(* The invariant.  FileInv is its heart: the file is the memory, or one    *)
(* change ahead of it that may still be made.  CallInv says what the calls *)
(* in progress have made sure of, and that the lock is theirs.             *)
(***************************************************************************)

\* An id that was given to a registration, which has not been carried out.
Fresh(u) == names[u] # None /\ users[u] = None /\ told[u] = None /\ u \notin gone

\* The change op of u may be made now.
Entitled(op, u) == (op = "register" => Fresh(u)) /\ (op = "delete" => u \in asked)
Due(op, u) == Allowed(op, u) /\ Entitled(op, u)

CallOK(h) ==
  LET op == calls[h].op  u == calls[h].user IN
  /\ At(h, "lock") => Entitled(op, u)
  /\ At(h, "writing") => Due(op, u) /\ calls[h].snap = After(op, u) /\ lock = h
  /\ At(h, "renamed") => /\ Due(op, u) /\ calls[h].snap = After(op, u) /\ lock = h
                         /\ file = After(op, u)
  /\ op = "saving" => lock = h
CallInv == \A h \in Tasks : CallOK(h)

Registers(h) == calls[h].op = "register"
Distinct ==
  \A g, h \in Tasks : g # h /\ Registers(g) /\ Registers(h) => calls[g].user # calls[h].user
Named == \A h \in Tasks : Registers(h) => names[calls[h].user] # None

FileInv == file = users \/ \E op \in Writers, u \in Users : Due(op, u) /\ file = After(op, u)

IndexInv ==
  /\ \A u \in Users : users[u] # None => names[u] # None /\ index[names[u]] = u
  /\ \A n \in Names : index[n] # None => users[index[n]] # None /\ names[index[n]] = n

ToldInv ==
  \A u \in Users : told[u] # None =>
    /\ names[u] # None
    /\ u \notin asked => users[u] # None /\ users[u] >= told[u]

GoneInv == \A u \in gone : names[u] # None /\ users[u] = None

IInv == TypeOK /\ CallInv /\ Distinct /\ Named /\ FileInv /\ IndexInv /\ ToldInv /\ GoneInv

\* An allowed change of the users, user by user (After).
LEMMA AfterUser ==
  ASSUME TypeOK, NEW op \in Writers, NEW u \in Users
  PROVE  /\ \A v \in Users : v # u => After(op, u)[v] = users[v]
         /\ op = "register" => After(op, u)[u] = 0
         /\ op = "wake" => After(op, u)[u] = users[u] + 1
         /\ op = "delete" => After(op, u)[u] = None
<1>. users \in [Users -> Option(Nat)]
  BY DEF TypeOK, Database
<1>1. After(op, u) = [users EXCEPT ![u] = CASE op = "register" -> 0
                         [] op = "wake" -> users[u] + 1
                         [] op = "delete" -> None]
  BY DEF After
<1>2. CASE op = "register"
  BY <1>1, <1>2
<1>3. CASE op = "wake"
  BY <1>1, <1>3
<1>4. CASE op = "delete"
  BY <1>1, <1>4
<1>. QED
  BY <1>2, <1>3, <1>4 DEF Writers

\* What holds of the file because it is at most one change ahead: whoever is told
\* of is in it, nobody who is gone is, and the names in it are unique.
LEMMA FileFollows ==
  ASSUME AccountParameters, IInv
  PROVE  /\ \A u \in Users : told[u] # None /\ u \notin asked =>
              file[u] # None /\ file[u] >= told[u]
         /\ \A u \in gone : file[u] = None
         /\ \A u \in Users : file[u] # None => names[u] # None
         /\ \A u, v \in Users : names[u] = names[v] /\ file[u] # None /\ file[v] # None => u = v
<1>. users \in [Users -> Option(Nat)] /\ told \in [Users -> Option(Nat)] /\ gone \subseteq Users
     /\ names \in [Users -> Option(Names)]
  BY DEF IInv, TypeOK, Database
<1>0. 0 # None /\ \A k \in Nat : k + 1 # None
  BY DEF AccountParameters
<1>1. CASE file = users
  <2>1. \A u, v \in Users : names[u] = names[v] /\ users[u] # None /\ users[v] # None => u = v
    BY DEF IInv, IndexInv
  <2>. QED
    BY <1>1, <2>1 DEF IInv, ToldInv, GoneInv, IndexInv
<1>2. ASSUME NEW op \in Writers, NEW u \in Users, Due(op, u), file = After(op, u)
      PROVE  /\ \A v \in Users : told[v] # None /\ v \notin asked =>
                  file[v] # None /\ file[v] >= told[v]
             /\ \A v \in gone : file[v] = None
             /\ \A v \in Users : file[v] # None => names[v] # None
             /\ \A v, w \in Users : names[v] = names[w] /\ file[v] # None /\ file[w] # None => v = w
  <2>1. /\ \A v \in Users : v # u => file[v] = users[v]
        /\ op = "register" => file[u] = 0
        /\ op = "wake" => file[u] = users[u] + 1
        /\ op = "delete" => file[u] = None
    <3>1. TypeOK
      BY DEF IInv
    <3>. HIDE DEF IInv
    <3>. QED
      BY <1>2, <3>1, AfterUser
  <2>2. /\ op = "register" => Fresh(u) /\ index[names[u]] = None
        /\ op # "register" => users[u] # None
        /\ op = "delete" => u \in asked
    BY <1>2 DEF Due, Allowed, Entitled
  <2>3. op \in {"register", "wake", "delete"}
    BY DEF Writers
  <2>4. ASSUME NEW v \in Users, told[v] # None, v \notin asked
        PROVE  file[v] # None /\ file[v] >= told[v]
    <3>1. users[v] \in Nat /\ told[v] \in Nat /\ users[v] >= told[v]
      BY <2>4 DEF IInv, ToldInv, Option
    <3>2. CASE v # u
      BY <3>1, <3>2, <2>1, <2>4 DEF IInv, ToldInv
    <3>3. CASE v = u
      <4>1. op = "wake"
        BY <3>3, <2>2, <2>3, <2>4 DEF Fresh
      <4>2. file[v] = users[v] + 1
        BY <4>1, <2>1, <3>3
      <4>. QED
        BY <4>2, <3>1, <1>0
    <3>. QED
      BY <3>2, <3>3
  <2>5. ASSUME NEW v \in gone
        PROVE  file[v] = None
    BY <2>1, <2>2, <2>3 DEF IInv, GoneInv, Fresh
  <2>6. ASSUME NEW v \in Users, file[v] # None
        PROVE  names[v] # None
    BY <2>6, <2>1, <2>2 DEF IInv, IndexInv, Fresh
  <2>7. ASSUME NEW v \in Users, NEW w \in Users, names[v] = names[w], file[v] # None, file[w] # None
        PROVE  v = w
    <3>1. CASE v # u /\ w # u
      BY <3>1, <2>1, <2>7 DEF IInv, IndexInv
    <3>2. ASSUME NEW x \in Users, x # u, names[x] = names[u], users[x] # None, file[u] # None
          PROVE  FALSE
      <4>1. index[names[u]] = x
        BY <3>2 DEF IInv, IndexInv
      <4>2. op # "register"
        BY <4>1, <2>2, <3>2 DEF AccountParameters
      <4>3. users[u] # None /\ index[names[u]] = u
        BY <4>2, <2>2 DEF IInv, IndexInv
      <4>. QED
        BY <4>1, <4>3, <3>2
    <3>. QED
      BY <3>1, <3>2, <2>1, <2>7
  <2>. QED
    BY <2>4, <2>5, <2>6, <2>7
<1>. QED
  BY <1>1, <1>2 DEF IInv, FileInv

(***************************************************************************)
(* Steps that leave the store and what was seen of it alone.               *)
(***************************************************************************)

Unseen == UNCHANGED <<users, index, file, names, told, gone>> /\ asked \subseteq asked'

\* What may be done of a change is not taken back.
LEMMA DueStays ==
  ASSUME Unseen, NEW op, NEW u
  PROVE  /\ Entitled(op, u) => Entitled(op, u)'
         /\ Due(op, u) => Due(op, u)'
         /\ After(op, u)' = After(op, u)
BY DEF Unseen, Entitled, Due, Allowed, Fresh, After

LEMMA QuietData ==
  ASSUME IInv, Unseen
  PROVE  FileInv' /\ IndexInv' /\ ToldInv' /\ GoneInv'
<1>1. FileInv'
  <2>1. CASE file = users
    BY <2>1 DEF Unseen, FileInv
  <2>2. ASSUME NEW op \in Writers, NEW u \in Users, Due(op, u), file = After(op, u)
        PROVE  FileInv'
    BY <2>2, DueStays DEF Unseen, FileInv
  <2>. QED
    BY <2>1, <2>2 DEF IInv, FileInv
<1>. QED
  BY <1>1 DEF IInv, Unseen, IndexInv, ToldInv, GoneInv

\* The call of a task that is left alone is as it was (CallOK).
LEMMA OtherCall ==
  ASSUME IInv, Unseen, NEW g \in Tasks, calls'[g] = calls[g],
         lock' = lock \/ lock # g
  PROVE  CallOK(g)'
<1>1. CallOK(g)
  BY DEF IInv, CallInv
<1>2. At(g, "lock")' = At(g, "lock") /\ At(g, "writing")' = At(g, "writing")
      /\ At(g, "renamed")' = At(g, "renamed")
  BY DEF At
<1>3. file' = file
  BY DEF Unseen
<1>4. CASE lock' = lock
  BY <1>1, <1>2, <1>3, <1>4, DueStays DEF CallOK
<1>5. CASE lock # g
  BY <1>1, <1>2, <1>3, <1>5, DueStays DEF CallOK
<1>. QED
  BY <1>4, <1>5

LEMMA QuietStep ==
  ASSUME IInv, TypeOK', Unseen, NEW h \in Tasks, NEW x, Goto(h, x),
         lock' = lock \/ lock = None \/ lock = h,
         CallOK(h)', AccountParameters,
         x.op = "register" => Registers(h) /\ x.user = calls[h].user
  PROVE  IInv'
<1>1. calls' \in [Tasks -> Call] /\ calls'[h] = x /\ \A g \in Tasks : g # h => calls'[g] = calls[g]
  BY DEF Goto, IInv, TypeOK
<1>2. CallInv'
  <2>1. ASSUME NEW g \in Tasks, g # h  PROVE CallOK(g)'
    <3>1. lock' = lock \/ lock # g
      BY <2>1 DEF AccountParameters
    <3>. QED
      BY <1>1, <2>1, <3>1, OtherCall
  <2>. QED
    BY <2>1 DEF CallInv
<1>3. Distinct' /\ Named'
  BY <1>1 DEF IInv, Distinct, Named, Registers, Unseen
<1>. QED
  BY <1>2, <1>3, QuietData DEF IInv

\* ... when the new call has nothing to do with the store.
LEMMA FreeStep ==
  ASSUME IInv, TypeOK', AccountParameters, Unseen, NEW h \in Tasks, NEW x, Goto(h, x),
         lock' = lock \/ lock = None \/ lock = h,
         x.op \notin Writers \cup {"saving"}
  PROVE  IInv'
<1>1. calls'[h] = x
  BY DEF Goto, IInv, TypeOK
<1>2. CallOK(h)'
  BY <1>1 DEF CallOK, At
<1>3. x.op # "register"
  BY DEF Writers
<1>. QED
  BY <1>2, <1>3, QuietStep

\* Steps that change no call.
LEMMA NoCallStep ==
  ASSUME IInv, TypeOK', Unseen, UNCHANGED <<calls, lock>>
  PROVE  IInv'
<1>1. CallInv'
  BY OtherCall DEF CallInv
<1>2. Distinct' /\ Named'
  BY DEF IInv, Distinct, Named, Registers, Unseen
<1>. QED
  BY <1>1, <1>2, QuietData DEF IInv

\* The holder of the lock.
LEMMA Holder ==
  ASSUME IInv, NEW h \in Tasks
  PROVE  /\ At(h, "writing") \/ At(h, "renamed") => lock = h
         /\ calls[h].op = "saving" => lock = h
BY DEF IInv, CallInv, CallOK

LEMMA BeginSteps ==
  ASSUME AccountParameters, IInv, TypeOK', NEW h \in Handlers,
         \/ \E n \in Names : Login(h, n)
         \/ \E u \in Users : Delete(h, u) \/ Wake(h, u) \/ \E d \in Devices : Upsert(h, u, d)
         \/ UpsertInserts(h) \/ TakeLock(h) \/ Refuse(h)
  PROVE  IInv'
<1>. h \in Tasks
  BY DEF Tasks
<1>1. ASSUME NEW n \in Names, Login(h, n)  PROVE IInv'
  <2>1. Verified(index[n]).op \notin Writers \cup {"saving"}
    BY DEF Verified, Writers
  <2>. QED
    BY <1>1, <2>1, FreeStep DEF Login, Begin, Unseen, store, history
<1>2. ASSUME NEW u \in Users, Delete(h, u)  PROVE IInv'
  <2>1. calls'[h] = Locking("delete", u)
    BY <1>2 DEF Delete, Begin, Goto, IInv, TypeOK
  <2>2. CallOK(h)'
    BY <1>2, <2>1 DEF CallOK, At, Locking, Entitled, Delete
  <2>3. Locking("delete", u).op # "register"
    BY DEF Locking
  <2>. QED
    BY <1>2, <2>2, <2>3, QuietStep DEF Delete, Begin, Unseen, store
<1>3. ASSUME NEW u \in Users, Wake(h, u)  PROVE IInv'
  <2>1. calls'[h] = Locking("wake", u)
    BY <1>3 DEF Wake, Begin, Goto, IInv, TypeOK
  <2>2. CallOK(h)'
    BY <1>3, <2>1 DEF CallOK, At, Locking, Entitled
  <2>3. Locking("wake", u).op # "register"
    BY DEF Locking
  <2>. QED
    BY <1>3, <2>2, <2>3, QuietStep DEF Wake, Begin, Unseen, store, history
<1>4. ASSUME NEW u \in Users, NEW d \in Devices, Upsert(h, u, d)  PROVE IInv'
  <2>1. Upserting(u, d).op \notin Writers \cup {"saving"}
    BY DEF Upserting, Writers
  <2>. QED
    BY <1>4, <2>1, FreeStep DEF Upsert, Begin, Unseen, store, history
<1>5. Idle.op \notin Writers \cup {"saving"}
  BY DEF Idle, Writers
<1>6. CASE UpsertInserts(h)
  BY <1>5, <1>6, FreeStep DEF UpsertInserts, Unseen, store, history
<1>7. CASE Refuse(h)
  BY <1>5, <1>7, FreeStep DEF Refuse, Unseen, store, history
<1>8. CASE TakeLock(h)
  <2>1. PICK op \in Writers, u \in Users : calls[h].op = op /\ calls[h].user = u
    BY <1>8, CallFields DEF TakeLock, IInv
  <2>2. PICK snap : snap = After(op, u)
    OBVIOUS
  <2>3. Unseen /\ Goto(h, Writing(op, u, snap)) /\ lock = None /\ lock' = h
    BY <1>8, <2>1, <2>2 DEF TakeLock, Unseen, store, history
  <2>4. calls'[h] = Writing(op, u, snap)
    BY <2>3 DEF Goto, IInv, TypeOK
  <2>5. Due(op, u)
    BY <1>8, <2>1 DEF TakeLock, Due, IInv, CallInv, CallOK
  <2>6. Due(op, u)' /\ After(op, u)' = snap
    BY <2>2, <2>3, <2>5, DueStays
  <2>7. /\ calls'[h].op = op /\ calls'[h].user = u /\ calls'[h].snap = snap
        /\ calls'[h].pc = "writing"
    BY <2>4 DEF Writing
  <2>8. CallOK(h)'
    BY <2>1, <2>3, <2>6, <2>7 DEF CallOK, At, Writers
  <2>9. Writing(op, u, snap).op = op /\ Writing(op, u, snap).user = u
    BY DEF Writing
  <2>. QED
    BY <2>1, <2>3, <2>8, <2>9, QuietStep DEF Registers
<1>. QED
  BY <1>1, <1>2, <1>3, <1>4, <1>6, <1>7, <1>8

LEMMA SessionSteps ==
  ASSUME AccountParameters, IInv, TypeOK',
         \/ \E h \in Tasks : SaveBegins(h) \/ SaveEnds(h)
         \/ \E h \in Handlers : SignIn(h) \/ DropSave(h) \/ WriteFails(h)
         \/ \E u \in Users : SessionEnds(u)
         \/ \E d \in Devices : PresenceEnds(d)
         \/ PeriodicSave
  PROVE  IInv'
<1>. Handlers \subseteq Tasks /\ Cleaner \in Tasks
  BY DEF Tasks
<1>1. /\ Idle.op \notin Writers \cup {"saving"}
      /\ ToSave.op \notin Writers \cup {"saving"}
  BY DEF Idle, ToSave, Writers
<1>2. ASSUME NEW h \in Tasks, SaveBegins(h)  PROVE IInv'
  <2>1. PICK s : s = sessions
    OBVIOUS
  <2>2. calls'[h] = Saving(s) /\ lock' = h /\ Unseen /\ Goto(h, Saving(s))
    BY <1>2, <2>1 DEF SaveBegins, Goto, IInv, TypeOK, Unseen, store, history
  <2>3. Saving(s).op = "saving"
    BY DEF Saving
  <2>4. CallOK(h)'
    BY <2>2, <2>3 DEF CallOK, At, Writers
  <2>. QED
    BY <1>2, <2>2, <2>3, <2>4, QuietStep DEF SaveBegins
<1>3. ASSUME NEW h \in Tasks, SaveEnds(h)  PROVE IInv'
  BY <1>1, <1>3, Holder, FreeStep DEF SaveEnds, Unseen, store, history
<1>4. ASSUME NEW h \in Handlers, SignIn(h)  PROVE IInv'
  BY <1>1, <1>4, FreeStep DEF SignIn, Unseen, store, history
<1>5. ASSUME NEW h \in Handlers, DropSave(h)  PROVE IInv'
  <2>1. lock' = lock \/ lock = h
    BY <1>5, Holder DEF DropSave
  <2>. QED
    BY <1>1, <1>5, <2>1, FreeStep DEF DropSave, Unseen, store, history
<1>6. ASSUME NEW h \in Handlers, WriteFails(h)  PROVE IInv'
  BY <1>1, <1>6, Holder, FreeStep DEF WriteFails, Unseen, store, history
<1>7. ASSUME NEW u \in Users, SessionEnds(u)  PROVE IInv'
  BY <1>7, NoCallStep DEF SessionEnds, Unseen, store, history
<1>8. ASSUME NEW d \in Devices, PresenceEnds(d)  PROVE IInv'
  BY <1>8, NoCallStep DEF PresenceEnds, Unseen, store, history
<1>9. CASE PeriodicSave
  BY <1>1, <1>9, FreeStep DEF PeriodicSave, Begin, Unseen, store, history
<1>. QED
  BY <1>2, <1>3, <1>4, <1>5, <1>6, <1>7, <1>8, <1>9

(***************************************************************************)
(* Register: a new id.                                                     *)
(***************************************************************************)

LEMMA RegisterStep ==
  ASSUME AccountParameters, IInv, TypeOK', NEW h \in Handlers, NEW n \in Names, NEW u \in Users,
         Register(h, n, u)
  PROVE  IInv'
<1>. h \in Tasks /\ "register" \in Writers
  BY DEF Tasks, Writers
<1>1. /\ calls'[h] = Locking("register", u) /\ \A g \in Tasks : g # h => calls'[g] = calls[g]
      /\ names' = [names EXCEPT ![u] = n] /\ names[u] = None /\ n # None
      /\ UNCHANGED <<users, index, file, told, gone, asked, lock>>
  BY DEF Register, Begin, Goto, IInv, TypeOK, store, AccountParameters
<1>2. names'[u] # None /\ \A v \in Users : v # u => names'[v] = names[v]
  BY <1>1 DEF IInv, TypeOK
<1>3. users[u] = None /\ told[u] = None /\ u \notin gone
  BY <1>1 DEF IInv, IndexInv, ToldInv, GoneInv
<1>4. ASSUME NEW op \in Writers, NEW v \in Users, Entitled(op, v)
      PROVE  Entitled(op, v)'
  BY <1>1, <1>2, <1>4 DEF Entitled, Fresh
<1>5. ASSUME NEW op \in Writers, NEW v \in Users, Due(op, v)
      PROVE  Due(op, v)' /\ After(op, v)' = After(op, v)
  <2>1. op = "register" => v # u
    BY <1>1, <1>5 DEF Due, Entitled, Fresh
  <2>2. Allowed(op, v)'
    BY <1>1, <1>2, <1>5, <2>1 DEF Due, Allowed
  <2>. QED
    BY <1>1, <1>4, <1>5, <2>2 DEF Due, After
<1>6. CallInv'
  <2>1. ASSUME NEW g \in Tasks, g # h  PROVE CallOK(g)'
    <3>1. CallOK(g) /\ calls'[g] = calls[g]
      BY <1>1, <2>1 DEF IInv, CallInv
    <3>2. PICK op, v, s : calls[g].op = op /\ calls[g].user = v /\ calls[g].snap = s
      OBVIOUS
    <3>3. CASE op \in Writers /\ v \in Users
      <4>1. /\ Entitled(op, v) => Entitled(op, v)'
            /\ Due(op, v) => Due(op, v)' /\ After(op, v)' = After(op, v)
        BY <1>4, <1>5, <3>3
      <4>. QED
        BY <1>1, <3>1, <3>2, <4>1 DEF CallOK, At
    <3>4. CASE ~(op \in Writers /\ v \in Users)
      <4>1. ~At(g, "lock") /\ ~At(g, "writing") /\ ~At(g, "renamed")
        BY <3>2, <3>4, CallFields DEF IInv
      <4>. QED
        BY <1>1, <3>1, <3>2, <4>1 DEF CallOK, At
    <3>. QED
      BY <3>3, <3>4
  <2>2. CallOK(h)'
    <3>1. Entitled("register", u)'
      BY <1>1, <1>2, <1>3 DEF Entitled, Fresh
    <3>. QED
      BY <1>1, <3>1 DEF CallOK, At, Locking
  <2>. QED
    BY <2>1, <2>2 DEF CallInv
<1>7. Distinct' /\ Named'
  <2>1. ASSUME NEW g \in Tasks, g # h, Registers(g)
        PROVE  calls[g].user # u /\ names'[calls[g].user] # None
    <3>1. names[calls[g].user] # None
      BY <2>1 DEF IInv, Named
    <3>2. calls[g].user \in Users
      <4>1. calls[g] \in Call
        BY DEF IInv, TypeOK
      <4>. QED
        BY <2>1, <4>1 DEF Call, Registers, Idle, ToSave
    <3>. QED
      BY <1>1, <1>2, <3>1, <3>2
  <2>2. calls'[h].user = u
    BY <1>1 DEF Locking
  <2>. QED
    BY <1>1, <1>2, <2>1, <2>2 DEF IInv, Distinct, Named, Registers
<1>8. FileInv'
  <2>1. CASE file = users
    BY <1>1, <2>1 DEF FileInv
  <2>2. ASSUME NEW op \in Writers, NEW v \in Users, Due(op, v), file = After(op, v)
        PROVE  FileInv'
    BY <1>1, <1>5, <2>2 DEF FileInv
  <2>. QED
    BY <2>1, <2>2 DEF IInv, FileInv
<1>9. IndexInv' /\ ToldInv' /\ GoneInv'
  <2>1. IndexInv'
    <3>1. \A m \in Names : index[m] # None => index[m] \in Users
      BY DEF IInv, TypeOK, Option
    <3>. QED
      BY <1>1, <1>2, <1>3, <3>1 DEF IInv, IndexInv
  <2>. QED
    BY <1>1, <1>2, <1>3, <2>1 DEF IInv, ToldInv, GoneInv, TypeOK
<1>. QED
  BY <1>6, <1>7, <1>8, <1>9 DEF IInv

(***************************************************************************)
(* The file moves one change ahead: Rename, and Drop in the middle of it.  *)
(***************************************************************************)

Unstored == UNCHANGED <<users, index, names, told, asked, gone>>

LEMMA AheadStep ==
  ASSUME AccountParameters, IInv, TypeOK', Unstored, NEW h \in Tasks, NEW x, Goto(h, x),
         At(h, "writing"), file' = calls[h].snap,
         \/ x.op \notin Writers \cup {"saving"}
         \/ lock' = lock /\ x = Renamed(calls[h].op, calls[h].user, calls[h].snap)
  PROVE  IInv'
<1>1. PICK op \in Writers, u \in Users : calls[h].op = op /\ calls[h].user = u
  BY CallFields DEF IInv
<1>2. PICK snap : snap = calls[h].snap
  OBVIOUS
<1>3. Due(op, u) /\ snap = After(op, u) /\ lock = h
  BY <1>1, <1>2 DEF IInv, CallInv, CallOK
<1>4. calls'[h] = x /\ \A g \in Tasks : g # h => calls'[g] = calls[g]
  BY DEF Goto, IInv, TypeOK
<1>5. \A o, v : /\ (Entitled(o, v) => Entitled(o, v)') /\ (Due(o, v) => Due(o, v)')
                /\ After(o, v)' = After(o, v)
  BY DEF Unstored, Entitled, Due, Allowed, Fresh, After
<1>6. FileInv'
  BY <1>2, <1>3, <1>5 DEF FileInv
<1>7. ASSUME NEW g \in Tasks, g # h  PROVE CallOK(g)'
  <2>1. CallOK(g) /\ lock # g
    BY <1>3, <1>7 DEF IInv, CallInv
  <2>2. ~At(g, "writing") /\ ~At(g, "renamed") /\ calls[g].op # "saving"
    BY <2>1 DEF CallOK
  <2>. QED
    BY <1>4, <1>5, <1>7, <2>1, <2>2 DEF CallOK, At
<1>8. CallOK(h)'
  <2>1. CASE x.op \notin Writers \cup {"saving"}
    BY <1>4, <2>1 DEF CallOK, At
  <2>2. CASE lock' = lock /\ x = Renamed(op, u, snap)
    <3>1. /\ calls'[h].op = op /\ calls'[h].user = u /\ calls'[h].snap = snap
          /\ calls'[h].pc = "renamed"
      BY <1>4, <2>2 DEF Renamed
    <3>2. Due(op, u)' /\ After(op, u)' = snap /\ file' = snap
      BY <1>2, <1>3, <1>5
    <3>. QED
      BY <1>1, <1>3, <2>2, <3>1, <3>2 DEF CallOK, At, Writers
  <2>. QED
    BY <1>1, <1>2, <2>1, <2>2
<1>9. Distinct' /\ Named'
  <2>1. x.op = "register" => Registers(h) /\ x.user = calls[h].user
    BY DEF Renamed, Registers, Writers
  <2>. QED
    BY <1>4, <2>1 DEF IInv, Distinct, Named, Registers, Unstored
<1>10. IndexInv' /\ ToldInv' /\ GoneInv'
  BY DEF IInv, IndexInv, ToldInv, GoneInv, Unstored
<1>. QED
  BY <1>6, <1>7, <1>8, <1>9, <1>10 DEF IInv, CallInv

LEMMA RenameStep ==
  ASSUME AccountParameters, IInv, TypeOK', NEW h \in Handlers, Rename(h)
  PROVE  IInv'
<1>1. h \in Tasks
  BY DEF Tasks
<1>. QED
  BY <1>1, AheadStep DEF Rename, Unstored, history

LEMMA DropStep ==
  ASSUME AccountParameters, IInv, TypeOK', NEW h \in Handlers, Drop(h)
  PROVE  IInv'
<1>1. h \in Tasks /\ Idle.op \notin Writers \cup {"saving"}
  BY DEF Tasks, Idle, Writers
<1>2. CASE At(h, "writing") /\ file' = calls[h].snap
  BY <1>1, <1>2, AheadStep DEF Drop, Unstored, history
<1>3. CASE UNCHANGED file
  <2>1. lock' = lock \/ lock = h
    BY <1>1, Holder DEF Drop
  <2>. QED
    BY <1>1, <1>3, <2>1, FreeStep DEF Drop, Unseen, history
<1>. QED
  BY <1>2, <1>3 DEF Drop

(***************************************************************************)
(* The memory follows the file.                                            *)
(***************************************************************************)

\* What Registered, Revised and Deleted have in common.
LEMMA Publishing ==
  ASSUME AccountParameters, IInv, TypeOK', NEW h \in Tasks, NEW op \in Writers, NEW u \in Users,
         Publish(h, op, u)
  PROVE  /\ Due(op, u) /\ lock = h
         /\ file = users' /\ told' = users'
         /\ \A v \in Users : v # u => users'[v] = users[v]
         /\ op = "register" => users'[u] = 0
         /\ op = "wake" => users'[u] = users[u] + 1
         /\ op = "delete" => users'[u] = None
<1>1. /\ At(h, "renamed") /\ calls[h].op = op /\ calls[h].user = u
      /\ users' = [users EXCEPT ![u] = calls[h].snap[u]] /\ told' = users'
  BY DEF Publish
<1>2. PICK snap : snap = After(op, u)
  OBVIOUS
<1>3. Due(op, u) /\ calls[h].snap = snap /\ file = snap /\ lock = h
  BY <1>1, <1>2 DEF IInv, CallInv, CallOK
<1>4. users \in [Users -> Option(Nat)] /\ file \in [Users -> Option(Nat)]
  BY DEF IInv, TypeOK, Database
<1>5. \A v \in Users : v # u => snap[v] = users[v]
  BY <1>2, AfterUser DEF IInv
<1>6. file = users'
  BY <1>1, <1>3, <1>4, <1>5
<1>7. /\ op = "register" => snap[u] = 0
      /\ op = "wake" => snap[u] = users[u] + 1
      /\ op = "delete" => snap[u] = None
  BY <1>2, AfterUser DEF IInv
<1>. QED
  BY <1>1, <1>3, <1>4, <1>5, <1>6, <1>7

\* The other calls, when h publishes a change of u.
LEMMA OthersPublished ==
  ASSUME AccountParameters, IInv, TypeOK', NEW h \in Tasks, NEW op \in Writers, NEW u \in Users,
         Publish(h, op, u), UNCHANGED names, asked' = asked,
         NEW x, Goto(h, x), x.op \notin Writers \cup {"saving"},
         gone' \subseteq gone \cup (IF op = "delete" THEN {u} ELSE {})
  PROVE  CallInv' /\ Distinct' /\ Named'
<1>1. /\ Due(op, u) /\ lock = h /\ told' = users'
      /\ \A v \in Users : v # u => users'[v] = users[v]
  BY Publishing
<1>2. calls'[h] = x /\ calls[h].op = op /\ calls[h].user = u
      /\ \A g \in Tasks : g # h => calls'[g] = calls[g]
  BY DEF Goto, IInv, TypeOK, Publish
<1>3. Distinct' /\ Named'
  BY <1>2 DEF IInv, Distinct, Named, Registers, Writers
<1>4. ASSUME NEW g \in Tasks, g # h, At(g, "lock")
      PROVE  Entitled(calls[g].op, calls[g].user)'
  <2>1. PICK o \in Writers, v \in Users : calls[g].op = o /\ calls[g].user = v
    BY <1>4, CallFields DEF IInv
  <2>2. Entitled(o, v)
    BY <1>4, <2>1 DEF IInv, CallInv, CallOK
  <2>3. ASSUME o = "register"  PROVE v # u
    <3>1. Fresh(v)
      BY <2>2, <2>3 DEF Entitled
    <3>2. CASE op = "register"
      BY <1>2, <1>4, <2>1, <2>3, <3>2 DEF IInv, Distinct, Registers
    <3>3. CASE op # "register"
      BY <1>1, <3>1, <3>3 DEF Due, Allowed, Fresh
    <3>. QED
      BY <3>2, <3>3
  <2>4. Entitled(o, v)'
    BY <1>1, <2>2, <2>3 DEF Entitled, Fresh
  <2>. QED
    BY <1>2, <1>4, <2>1, <2>4
<1>5. ASSUME NEW g \in Tasks, g # h  PROVE CallOK(g)'
  <2>1. CallOK(g) /\ lock # g
    BY <1>1, <1>5 DEF IInv, CallInv
  <2>2. ~At(g, "writing") /\ ~At(g, "renamed") /\ calls[g].op # "saving"
    BY <2>1 DEF CallOK
  <2>. QED
    BY <1>2, <1>4, <1>5, <2>1, <2>2 DEF CallOK, At
<1>6. CallOK(h)'
  BY <1>2 DEF CallOK, At
<1>. QED
  BY <1>3, <1>5, <1>6 DEF CallInv

LEMMA RegisteredStep ==
  ASSUME AccountParameters, IInv, TypeOK', NEW h \in Handlers, NEW u \in Users, Registered(h, u)
  PROVE  IInv'
<1>. h \in Tasks /\ "register" \in Writers /\ 0 # None
  BY DEF Tasks, Writers, AccountParameters
<1>1. /\ Publish(h, "register", u) /\ Goto(h, Verified(u))
      /\ index' = [index EXCEPT ![names[u]] = u]
      /\ UNCHANGED <<file, names, asked, gone>>
  BY DEF Registered
<1>2. /\ Due("register", u) /\ file = users' /\ told' = users'
      /\ \A v \in Users : v # u => users'[v] = users[v]
      /\ users'[u] = 0
  BY <1>1, Publishing
<1>3. Fresh(u) /\ index[names[u]] = None
  BY <1>2 DEF Due, Allowed, Entitled
<1>4. names[u] \in Names
  BY <1>3 DEF IInv, TypeOK, Option, Fresh
<1>5. index'[names[u]] = u /\ \A n \in Names : n # names[u] => index'[n] = index[n]
  BY <1>1, <1>4 DEF IInv, TypeOK
<1>6. CallInv' /\ Distinct' /\ Named'
  <2>1. Verified(u).op \notin Writers \cup {"saving"}
    BY DEF Verified, Writers
  <2>. QED
    BY <1>1, <2>1, OthersPublished
<1>7. FileInv'
  BY <1>1, <1>2 DEF FileInv
<1>8. IndexInv'
  <2>1. ASSUME NEW v \in Users, users'[v] # None
        PROVE  names[v] # None /\ index'[names[v]] = v
    <3>1. CASE v = u
      BY <1>3, <1>5, <3>1 DEF Fresh
    <3>2. CASE v # u
      <4>1. users[v] # None /\ names[v] # None /\ index[names[v]] = v
        BY <1>2, <2>1, <3>2 DEF IInv, IndexInv
      <4>2. names[v] \in Names /\ names[v] # names[u]
        BY <1>3, <4>1 DEF IInv, TypeOK, Option, AccountParameters
      <4>. QED
        BY <1>5, <4>1, <4>2
    <3>. QED
      BY <3>1, <3>2
  <2>2. ASSUME NEW n \in Names, index'[n] # None
        PROVE  users'[index'[n]] # None /\ names[index'[n]] = n
    <3>1. CASE n = names[u]
      BY <1>2, <1>5, <3>1
    <3>2. CASE n # names[u]
      <4>1. users[index[n]] # None /\ names[index[n]] = n /\ index[n] \in Users
        BY <1>5, <2>2, <3>2 DEF IInv, IndexInv, TypeOK, Option
      <4>. QED
        BY <1>2, <1>5, <3>2, <4>1
    <3>. QED
      BY <3>1, <3>2
  <2>. QED
    BY <1>1, <2>1, <2>2 DEF IndexInv
<1>9. ToldInv'
  <2>1. users' \in [Users -> Option(Nat)]
    BY DEF TypeOK, Database
  <2>. QED
    BY <1>1, <1>2, <1>8, <2>1 DEF ToldInv, IndexInv, Option
<1>10. GoneInv'
  BY <1>1, <1>2, <1>3 DEF IInv, GoneInv, Fresh, TypeOK
<1>. QED
  BY <1>6, <1>7, <1>8, <1>9, <1>10 DEF IInv

LEMMA RevisedStep ==
  ASSUME AccountParameters, IInv, TypeOK', NEW h \in Handlers, NEW u \in Users, Revised(h, u)
  PROVE  IInv'
<1>. h \in Tasks /\ "wake" \in Writers
  BY DEF Tasks, Writers
<1>1. Publish(h, "wake", u) /\ Goto(h, Idle) /\ UNCHANGED <<index, file, names, asked, gone>>
  BY DEF Revised
<1>2. /\ Due("wake", u) /\ file = users' /\ told' = users'
      /\ \A v \in Users : v # u => users'[v] = users[v]
      /\ users'[u] = users[u] + 1
  BY <1>1, Publishing
<1>3. users[u] \in Nat /\ users'[u] # None /\ users[u] # None
  BY <1>2 DEF Due, Allowed, IInv, TypeOK, Database, Option, AccountParameters
<1>4. CallInv' /\ Distinct' /\ Named'
  <2>1. Idle.op \notin Writers \cup {"saving"}
    BY DEF Idle, Writers
  <2>. QED
    BY <1>1, <2>1, OthersPublished
<1>5. FileInv'
  BY <1>1, <1>2 DEF FileInv
<1>6. IndexInv'
  <2>1. \A v \in Users : users'[v] # None <=> users[v] # None
    BY <1>2, <1>3
  <2>2. \A n \in Names : index[n] # None => index[n] \in Users
    BY DEF IInv, TypeOK, Option
  <2>. QED
    BY <1>1, <2>1, <2>2 DEF IInv, IndexInv
<1>7. ToldInv'
  <2>1. users' \in [Users -> Option(Nat)]
    BY DEF TypeOK, Database
  <2>. QED
    BY <1>1, <1>2, <1>6, <2>1 DEF ToldInv, IndexInv, Option
<1>8. GoneInv'
  BY <1>1, <1>2, <1>3 DEF IInv, GoneInv, TypeOK
<1>. QED
  BY <1>4, <1>5, <1>6, <1>7, <1>8 DEF IInv

LEMMA DeletedStep ==
  ASSUME AccountParameters, IInv, TypeOK', NEW h \in Handlers, NEW u \in Users, Deleted(h, u)
  PROVE  IInv'
<1>. h \in Tasks /\ "delete" \in Writers
  BY DEF Tasks, Writers
<1>1. /\ Publish(h, "delete", u) /\ Goto(h, ToSave)
      /\ index' = [index EXCEPT ![names[u]] = None] /\ gone' = gone \cup {u}
      /\ UNCHANGED <<file, names, asked>>
  BY DEF Deleted
<1>2. /\ Due("delete", u) /\ file = users' /\ told' = users'
      /\ \A v \in Users : v # u => users'[v] = users[v]
      /\ users'[u] = None
  BY <1>1, Publishing
<1>3. users[u] # None /\ names[u] # None /\ index[names[u]] = u
  BY <1>2 DEF Due, Allowed, IInv, IndexInv
<1>4. names[u] \in Names
  BY <1>3 DEF IInv, TypeOK, Option
<1>5. index'[names[u]] = None /\ \A n \in Names : n # names[u] => index'[n] = index[n]
  BY <1>1, <1>4 DEF IInv, TypeOK
<1>6. CallInv' /\ Distinct' /\ Named'
  <2>1. ToSave.op \notin Writers \cup {"saving"}
    BY DEF ToSave, Writers
  <2>. QED
    BY <1>1, <2>1, OthersPublished
<1>7. FileInv'
  BY <1>1, <1>2 DEF FileInv
<1>8. IndexInv'
  <2>1. ASSUME NEW v \in Users, users'[v] # None
        PROVE  names[v] # None /\ index'[names[v]] = v
    <3>1. v # u /\ users[v] # None /\ names[v] # None /\ index[names[v]] = v
      BY <1>2, <2>1 DEF IInv, IndexInv
    <3>2. names[v] \in Names /\ names[v] # names[u]
      BY <1>3, <3>1 DEF IInv, TypeOK, Option
    <3>. QED
      BY <1>5, <3>1, <3>2
  <2>2. ASSUME NEW n \in Names, index'[n] # None
        PROVE  users'[index'[n]] # None /\ names[index'[n]] = n
    <3>1. n # names[u] /\ index'[n] = index[n]
      BY <1>5, <2>2
    <3>2. users[index[n]] # None /\ names[index[n]] = n /\ index[n] \in Users
      BY <2>2, <3>1 DEF IInv, IndexInv, TypeOK, Option
    <3>. QED
      BY <1>2, <3>1, <3>2
  <2>. QED
    BY <1>1, <2>1, <2>2 DEF IndexInv
<1>9. ToldInv'
  <2>1. users' \in [Users -> Option(Nat)]
    BY DEF TypeOK, Database
  <2>. QED
    BY <1>1, <1>2, <1>8, <2>1 DEF ToldInv, IndexInv, Option
<1>10. GoneInv'
  BY <1>1, <1>2, <1>3 DEF IInv, GoneInv, TypeOK
<1>. QED
  BY <1>6, <1>7, <1>8, <1>9, <1>10 DEF IInv

(***************************************************************************)
(* The server starts again with the file.                                  *)
(***************************************************************************)

LEMMA OwnerIs ==
  ASSUME NEW db, NEW n
  PROVE  /\ Owner(db, n) # None =>
              /\ Owner(db, n) \in Users /\ db[Owner(db, n)] # None /\ names[Owner(db, n)] = n
         /\ \A u \in Users : /\ u # None
                             /\ db[u] # None /\ names[u] = n
                             /\ \A v \in Users : db[v] # None /\ names[v] = n => v = u
                             => Owner(db, n) = u
BY DEF Owner

LEMMA RestartStep ==
  ASSUME AccountParameters, IInv, TypeOK', Restart
  PROVE  IInv'
<1>1. /\ users' = file /\ index' = [n \in Names |-> Owner(file, n)]
      /\ calls' = [h \in Tasks |-> Idle]
      /\ UNCHANGED <<file, names, told, asked, gone>>
  BY DEF Restart, history
<1>2. /\ \A u \in Users : told[u] # None /\ u \notin asked =>
            file[u] # None /\ file[u] >= told[u]
      /\ \A u \in gone : file[u] = None
      /\ \A u \in Users : file[u] # None => names[u] # None
      /\ \A u, v \in Users : names[u] = names[v] /\ file[u] # None /\ file[v] # None => u = v
  BY FileFollows
<1>3. CallInv' /\ Distinct' /\ Named'
  BY <1>1 DEF CallInv, CallOK, At, Idle, Distinct, Named, Registers, Writers
<1>4. FileInv'
  BY <1>1 DEF FileInv
<1>5. IndexInv'
  <2>1. ASSUME NEW u \in Users, file[u] # None
        PROVE  names[u] # None /\ index'[names[u]] = u
    <3>1. names[u] \in Names /\ u # None
      BY <1>2, <2>1 DEF IInv, TypeOK, Option, AccountParameters
    <3>2. Owner(file, names[u]) = u
      BY <1>2, <2>1, <3>1, OwnerIs
    <3>. QED
      BY <1>1, <1>2, <2>1, <3>1, <3>2
  <2>2. ASSUME NEW n \in Names, index'[n] # None
        PROVE  file[index'[n]] # None /\ names[index'[n]] = n
    BY <1>1, <2>2, OwnerIs
  <2>. QED
    BY <1>1, <2>1, <2>2 DEF IndexInv
<1>6. ToldInv' /\ GoneInv'
  BY <1>1, <1>2 DEF IInv, ToldInv, GoneInv
<1>. QED
  BY <1>3, <1>4, <1>5, <1>6 DEF IInv

(***************************************************************************)
(* The theorems.                                                           *)
(***************************************************************************)

LEMMA NextInv ==
  ASSUME AccountParameters, IInv, [Next]_vars
  PROVE  IInv'
<1>. USE DEF Live, Serve, Transaction
<1>0. TypeOK'
  BY NextTypes DEF IInv
<1>1. CASE UNCHANGED vars
  BY <1>0, <1>1, NoCallStep DEF vars, Unseen
<1>2. CASE Restart
  BY <1>0, <1>2, RestartStep
<1>3. CASE Live
  <2>1. ASSUME NEW h \in Handlers, Serve(h)  PROVE IInv'
    BY <1>0, <2>1, BeginSteps, RegisterStep, RenameStep, DropStep, SessionSteps,
       RegisteredStep, RevisedStep, DeletedStep
  <2>2. CASE \E h \in Tasks : SaveBegins(h) \/ SaveEnds(h)
    BY <1>0, <2>2, SessionSteps
  <2>3. CASE (\E u \in Users : SessionEnds(u)) \/ (\E d \in Devices : PresenceEnds(d)) \/ PeriodicSave
    BY <1>0, <2>3, SessionSteps
  <2>. QED
    BY <1>3, <2>1, <2>2, <2>3
<1>. QED
  BY <1>1, <1>2, <1>3 DEF Next

LEMMA InitInv == ASSUME AccountParameters, Init PROVE IInv
<1>1. TypeOK
  BY InitTypes
<1>2. CallInv /\ Distinct /\ Named
  BY DEF Init, CallInv, CallOK, At, Idle, Distinct, Named, Registers, Writers
<1>3. FileInv /\ IndexInv /\ ToldInv /\ GoneInv
  BY DEF Init, FileInv, IndexInv, ToldInv, GoneInv
<1>. QED
  BY <1>1, <1>2, <1>3 DEF IInv

LEMMA Inductive == Spec => []IInv
BY AccountParameters, InitInv, NextInv, PTL DEF Spec

\* What a client has seen of its account is in memory and in the file until it asks
\* for its deletion (write_user_snapshot under user_store_write).
THEOREM SeenKept == Spec => []SeenIsKept
<1>1. ASSUME IInv  PROVE SeenIsKept
  BY <1>1, AccountParameters, FileFollows DEF SeenIsKept, IInv, ToldInv
<1>. QED
  BY <1>1, Inductive, PTL

\* A name belongs to one account, in memory and in the file, and the index leads to
\* it (register_account, load_users).
THEOREM NamesAreUnique == Spec => []NamesUnique
<1>1. ASSUME IInv  PROVE NamesUnique
  <2>1. \A u, v \in Users : names[u] = names[v] => (file[u] # None /\ file[v] # None => u = v)
    BY <1>1, AccountParameters, FileFollows
  <2>2. \A u, v \in Users : names[u] = names[v] => (users[u] # None /\ users[v] # None => u = v)
    BY <1>1 DEF IInv, IndexInv
  <2>3. ASSUME NEW n \in Names  PROVE index[n] = Owner(users, n)
    <3>1. CASE index[n] = None
      <4>1. \A u \in Users : ~(users[u] # None /\ names[u] = n)
        BY <1>1, <3>1, AccountParameters DEF IInv, IndexInv, AccountParameters
      <4>. QED
        BY <3>1, <4>1 DEF Owner
    <3>2. CASE index[n] # None
      <4>1. index[n] \in Users /\ users[index[n]] # None /\ names[index[n]] = n
        BY <1>1, <3>2 DEF IInv, IndexInv, TypeOK, Option
      <4>. QED
        BY <2>2, <3>2, <4>1, OwnerIs
    <3>. QED
      BY <3>1, <3>2
  <2>. QED
    BY <2>1, <2>2, <2>3 DEF NamesUnique
<1>. QED
  BY <1>1, Inductive, PTL

\* A deleted account does not come back, in memory, in the file or in the index
\* (delete_account).
THEOREM Deletion == Spec => []DeletedForGood
<1>1. ASSUME IInv  PROVE DeletedForGood
  <2>1. \A u \in gone : users[u] = None /\ file[u] = None
    BY <1>1, AccountParameters, FileFollows DEF IInv, GoneInv
  <2>2. \A u \in gone : u \in Users /\ u # None
    BY <1>1, AccountParameters DEF IInv, TypeOK, AccountParameters
  <2>. QED
    BY <1>1, <2>1, <2>2 DEF DeletedForGood, IInv, IndexInv
<1>. QED
  BY <1>1, Inductive, PTL

(***************************************************************************)
(* Accounts implements UserStore: a rename writes, what is seen publishes. *)
(***************************************************************************)

\* The file after a rename is a change of the memory that was due.
LEMMA RenameWrites ==
  ASSUME IInv, NEW h \in Tasks, At(h, "writing"), file' = calls[h].snap, UNCHANGED users
  PROVE  Store!Write
<1>1. PICK op \in Writers, u \in Users : calls[h].op = op /\ calls[h].user = u
  BY CallFields DEF IInv
<1>2. Due(op, u) /\ file' = After(op, u)
  BY <1>1 DEF IInv, CallInv, CallOK
<1>3. CASE op = "register"
  <2>1. users[u] = None /\ file' = Store!Added(users, u)
    BY <1>2, <1>3 DEF Due, Entitled, Fresh, After, Store!Added
  <2>. QED
    BY <2>1 DEF Store!Write, Store!Change
<1>4. CASE op = "wake"
  <2>1. users[u] # None /\ file' = Store!Revised(users, u)
    BY <1>2, <1>4 DEF Due, Allowed, After, Store!Revised
  <2>. QED
    BY <2>1 DEF Store!Write, Store!Change
<1>5. CASE op = "delete"
  <2>1. users[u] # None /\ file' = Store!Removed(users, u)
    BY <1>2, <1>5 DEF Due, Allowed, After, Store!Removed
  <2>. QED
    BY <2>1 DEF Store!Write, Store!Change
<1>. QED
  BY <1>3, <1>4, <1>5 DEF Writers

LEMMA StoreStep ==
  ASSUME AccountParameters, IInv, [Next]_vars
  PROVE  [Store!Next]_<<users, file>>
<1>. USE DEF Store!Next
<1>0. TypeOK' /\ Handlers \subseteq Tasks
  BY NextTypes DEF IInv, Tasks
<1>1. CASE UNCHANGED vars
  BY <1>1 DEF vars
<1>2. CASE Restart
  BY <1>2 DEF Restart, Store!Publish
<1>3. ASSUME NEW h \in Handlers, Rename(h) \/ Drop(h)
      PROVE  [Store!Next]_<<users, file>>
  <2>1. UNCHANGED users /\ (UNCHANGED file \/ (At(h, "writing") /\ file' = calls[h].snap))
    <3>1. CASE Rename(h)
      BY <3>1 DEF Rename
    <3>2. CASE Drop(h)
      BY <3>2 DEF Drop
    <3>. QED
      BY <1>3, <3>1, <3>2
  <2>. QED
    BY <1>0, <2>1, RenameWrites
<1>4. ASSUME NEW h \in Handlers, NEW u \in Users, Registered(h, u) \/ Revised(h, u) \/ Deleted(h, u)
      PROVE  Store!Publish
  <2>1. UNCHANGED file /\ \E op \in Writers : Publish(h, op, u)
    BY <1>4 DEF Registered, Revised, Deleted, Writers
  <2>2. file = users'
    BY <1>0, <2>1, Publishing
  <2>. QED
    BY <2>1, <2>2 DEF Store!Publish
<1>5. ASSUME NEW h \in Handlers, TakeLock(h) \/ Refuse(h) \/ WriteFails(h) \/ SignIn(h)
                              \/ UpsertInserts(h) \/ DropSave(h)
      PROVE  UNCHANGED <<users, file>>
  BY <1>5 DEF TakeLock, Refuse, WriteFails, SignIn, UpsertInserts, DropSave, store
<1>6. ASSUME NEW h \in Handlers,
             \/ \E n \in Names : Login(h, n) \/ \E u \in Users : Register(h, n, u)
             \/ \E u \in Users : Delete(h, u) \/ Wake(h, u) \/ \E d \in Devices : Upsert(h, u, d)
      PROVE  UNCHANGED <<users, file>>
  BY <1>6 DEF Login, Register, Delete, Wake, Upsert, store
<1>7. ASSUME \/ \E h \in Tasks : SaveBegins(h) \/ SaveEnds(h)
             \/ \E u \in Users : SessionEnds(u)
             \/ \E d \in Devices : PresenceEnds(d)
             \/ PeriodicSave
      PROVE  UNCHANGED <<users, file>>
  BY <1>7 DEF SaveBegins, SaveEnds, SessionEnds, PresenceEnds, PeriodicSave, store
<1>8. CASE Live
  BY <1>8, <1>3, <1>4, <1>5, <1>6, <1>7 DEF Live, Serve, Transaction
<1>. QED
  BY <1>1, <1>2, <1>8 DEF Next

\* The users in memory and their file are the store of UserStore: the file is never
\* more than one change ahead, and nothing is seen that is not in it (store.rs).
THEOREM Implements == Spec => ImplementsStore
<1>1. Init => Store!Init
  BY DEF Init, Store!Init
<1>2. IInv /\ [Next]_vars => [Store!Next]_<<users, file>>
  BY AccountParameters, StoreStep
<1>. QED
  BY <1>1, <1>2, Inductive, PTL DEF Spec, ImplementsStore, Store!Spec
=============================================================================

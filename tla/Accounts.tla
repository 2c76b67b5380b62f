------------------------------- MODULE Accounts -------------------------------
(***************************************************************************)
(* The accounts of rdesk_server: register, log in and delete an account,   *)
(* changes of an account's data through update_wake, presence of devices,  *)
(* the file of accounts and the file of sessions, and the restart.         *)
(*                                                                         *)
(* A step is what a handler does between two awaits.  The calls of one     *)
(* account run on several threads, so that whatever reads a map and writes *)
(* another one later is two steps also where there is no await.  Passwords *)
(* are right: a call with a wrong one changes nothing.                     *)
(***************************************************************************)
EXTENDS Integers, FiniteSets

CONSTANTS
  Users,         \* user ids (new_token: never used twice)
  Names,         \* user names
  Devices,
  Handlers,      \* tasks that serve HTTP calls
  Cleaner,       \* the task that runs every 15 seconds
  None

CONSTANTS        \* bounds of the model
  MaxRev         \* changes of one account's data

Tasks == Handlers \cup {Cleaner}

ASSUME AccountParameters ==
  /\ MaxRev \in Nat
  /\ None \notin Nat \cup Users \cup Names \cup Tasks
  /\ \A S \in SUBSET Users : S # None
  /\ Cleaner \notin Handlers
  /\ IsFiniteSet(Users)

VARIABLES
  users,         \* AppState.users: the revision of each account's data
  index,         \* username_index
  file,          \* the file at user_store_path
  sessions,      \* users with a session in auth_sessions
  sessionFile,   \* auth_sessions.json; None: cut off in the middle
  presence,      \* account_presence: the user a device is listed for
  lock,          \* user_store_write: the task that holds it
  calls          \* what each task is in the middle of

VARIABLES        \* what has happened so far
  names,         \* the name each user id was created for
  told,          \* the revision a client of the account has seen
  asked,         \* accounts whose deletion was asked for
  gone           \* accounts whose deletion went through

store == <<users, index, file>>
history == <<names, told, asked, gone>>
vars == <<users, index, file, sessions, sessionFile, presence, lock, calls, names, told, asked, gone>>

Option(S) == S \cup {None}
Database == [Users -> Option(Nat)]

-----------------------------------------------------------------------------
(* Calls in progress *)

Writers == {"register", "delete", "wake"}

Idle == [op |-> "idle"]
Locking(op, u) == [op |-> op, pc |-> "lock", user |-> u]
Writing(op, u, snap) == [op |-> op, pc |-> "writing", user |-> u, snap |-> snap]
Renamed(op, u, snap) == [op |-> op, pc |-> "renamed", user |-> u, snap |-> snap]
Verified(u) == [op |-> "verified", user |-> u]
Upserting(u, d) == [op |-> "upsert", user |-> u, device |-> d]
ToSave == [op |-> "save"]
Saving(s) == [op |-> "saving", saved |-> s]

Call ==
       {Idle, ToSave}
  \cup [op : Writers, pc : {"lock"}, user : Users]
  \cup [op : Writers, pc : {"writing", "renamed"}, user : Users, snap : Database]
  \cup [op : {"verified"}, user : Users]
  \cup [op : {"upsert"}, user : Users, device : Devices]
  \cup [op : {"saving"}, saved : SUBSET Users]

At(h, pc) == calls[h].op \in Writers /\ calls[h].pc = pc
Goto(h, call) == calls' = [calls EXCEPT ![h] = call]
Begin(h, call) == calls[h] = Idle /\ Goto(h, call)

Init ==
  /\ users = [u \in Users |-> None] /\ file = users
  /\ index = [n \in Names |-> None]
  /\ sessions = {} /\ sessionFile = {}
  /\ presence = [d \in Devices |-> None]
  /\ lock = None
  /\ calls = [h \in Tasks |-> Idle]
  /\ names = [u \in Users |-> None] /\ told = [u \in Users |-> None]
  /\ asked = {} /\ gone = {}

-----------------------------------------------------------------------------
(* Calls begin: authenticated_user, or the index *)

Authenticated(u) == u \in sessions /\ users[u] # None

\* register_account: the name is free and the password hashed.
Register(h, n, u) ==
  /\ index[n] = None /\ names[u] = None
  /\ names' = [names EXCEPT ![u] = n]
  /\ Begin(h, Locking("register", u))
  /\ UNCHANGED <<store, sessions, sessionFile, presence, lock, told, asked, gone>>

\* login_account
Login(h, n) ==
  /\ index[n] # None /\ users[index[n]] # None
  /\ Begin(h, Verified(index[n]))
  /\ UNCHANGED <<store, sessions, sessionFile, presence, lock, history>>

\* delete_account
Delete(h, u) ==
  /\ Authenticated(u)
  /\ asked' = asked \cup {u}
  /\ Begin(h, Locking("delete", u))
  /\ UNCHANGED <<store, sessions, sessionFile, presence, lock, names, told, gone>>

\* Any call of the wake service that goes through update_wake.
Wake(h, u) ==
  /\ Authenticated(u) /\ users[u] < MaxRev
  /\ Begin(h, Locking("wake", u))
  /\ UNCHANGED <<store, sessions, sessionFile, presence, lock, history>>

\* Mutant: a session is enough to be listed.
UpsertBySession(h, u, d) ==
  /\ u \in sessions
  /\ Begin(h, Upserting(u, d))
  /\ UNCHANGED <<store, sessions, sessionFile, presence, lock, history>>

\* upsert_account_presence
Upsert(h, u, d) ==
  /\ Authenticated(u)
  /\ Begin(h, Upserting(u, d))
  /\ UNCHANGED <<store, sessions, sessionFile, presence, lock, history>>

UpsertInserts(h) ==
  /\ calls[h].op = "upsert"
  /\ presence' = [presence EXCEPT ![calls[h].device] = calls[h].user]
  /\ Goto(h, Idle)
  /\ UNCHANGED <<store, sessions, sessionFile, lock, history>>

-----------------------------------------------------------------------------
(* The transaction on the file of accounts, under user_store_write *)

After(op, u) ==
  [users EXCEPT ![u] = CASE op = "register" -> 0
                         [] op = "wake" -> users[u] + 1
                         [] op = "delete" -> None]

\* Mutant: the name is not looked up again under the lock.
AllowedByName(op, u) == op = "register" \/ users[u] # None

\* What was looked up before the lock is looked up again.
Allowed(op, u) ==
  IF op = "register" THEN index[names[u]] = None ELSE users[u] # None

\* Mutant: update_wake does not wait for the lock.
TakeLockUnlessWake(h) ==
  /\ At(h, "lock") /\ (lock = None \/ calls[h].op = "wake")
  /\ Allowed(calls[h].op, calls[h].user)
  /\ lock' = h
  /\ Goto(h, Writing(calls[h].op, calls[h].user, After(calls[h].op, calls[h].user)))
  /\ UNCHANGED <<store, sessions, sessionFile, presence, history>>

TakeLock(h) ==
  /\ At(h, "lock") /\ lock = None
  /\ Allowed(calls[h].op, calls[h].user)
  /\ lock' = h
  /\ Goto(h, Writing(calls[h].op, calls[h].user, After(calls[h].op, calls[h].user)))
  /\ UNCHANGED <<store, sessions, sessionFile, presence, history>>

Refuse(h) ==
  /\ At(h, "lock") /\ lock = None
  /\ ~Allowed(calls[h].op, calls[h].user)
  /\ Goto(h, Idle)
  /\ UNCHANGED <<store, sessions, sessionFile, presence, lock, history>>

\* write_user_snapshot
Rename(h) ==
  /\ At(h, "writing")
  /\ file' = calls[h].snap
  /\ Goto(h, Renamed(calls[h].op, calls[h].user, calls[h].snap))
  /\ UNCHANGED <<users, index, sessions, sessionFile, presence, lock, history>>

\* Mutant: the memory follows although the write failed.
WriteFailsUnnoticed(h) ==
  /\ At(h, "writing")
  /\ users' = calls[h].snap
  /\ lock' = None /\ Goto(h, Idle)
  /\ UNCHANGED <<index, file, sessions, sessionFile, presence, history>>

WriteFails(h) ==
  /\ At(h, "writing")
  /\ lock' = None /\ Goto(h, Idle)
  /\ UNCHANGED <<store, sessions, sessionFile, presence, history>>

-----------------------------------------------------------------------------
(* The memory follows the file, still under the lock *)

Publish(h, op, u) ==
  /\ At(h, "renamed") /\ calls[h].op = op /\ calls[h].user = u
  /\ users' = [users EXCEPT ![u] = calls[h].snap[u]]
  /\ told' = users'
  /\ lock' = None

Registered(h, u) ==
  /\ Publish(h, "register", u)
  /\ index' = [index EXCEPT ![names[u]] = u]
  /\ Goto(h, Verified(u))
  /\ UNCHANGED <<file, sessions, sessionFile, presence, names, asked, gone>>

Revised(h, u) ==
  /\ Publish(h, "wake", u)
  /\ Goto(h, Idle)
  /\ UNCHANGED <<index, file, sessions, sessionFile, presence, names, asked, gone>>

\* Mutant: the name stays in the index.
DeletedKeepsName(h, u) ==
  /\ Publish(h, "delete", u)
  /\ sessions' = sessions \ {u}
  /\ presence' = [d \in Devices |-> IF presence[d] = u THEN None ELSE presence[d]]
  /\ gone' = gone \cup {u}
  /\ Goto(h, ToSave)
  /\ UNCHANGED <<index, file, sessionFile, names, asked>>

Deleted(h, u) ==
  /\ Publish(h, "delete", u)
  /\ index' = [index EXCEPT ![names[u]] = None]
  /\ sessions' = sessions \ {u}
  /\ presence' = [d \in Devices |-> IF presence[d] = u THEN None ELSE presence[d]]
  /\ gone' = gone \cup {u}
  /\ Goto(h, ToSave)
  /\ UNCHANGED <<file, sessionFile, names, asked>>

-----------------------------------------------------------------------------
(* Sessions *)

\* create_account_session, for an account that was looked up before.
SignIn(h) ==
  /\ calls[h].op = "verified"
  /\ sessions' = sessions \cup {calls[h].user}
  /\ Goto(h, ToSave)
  /\ UNCHANGED <<store, sessionFile, presence, lock, history>>

\* persist_auth_sessions: the file is cut to nothing and written in place.
SaveBegins(h) ==
  /\ calls[h] = ToSave /\ lock = None
  /\ lock' = h /\ sessionFile' = None
  /\ Goto(h, Saving(sessions))
  /\ UNCHANGED <<store, sessions, presence, history>>

\* Its callers do not ask how it went.
SaveEnds(h) ==
  /\ calls[h].op = "saving"
  /\ sessionFile' \in {calls[h].saved, None}
  /\ lock' = None /\ Goto(h, Idle)
  /\ UNCHANGED <<store, sessions, presence, history>>

\* cleanup_expired, and validate_auth_session for what it finds expired.
SessionEnds(u) ==
  /\ u \in sessions
  /\ sessions' = sessions \ {u}
  /\ UNCHANGED <<store, sessionFile, presence, lock, calls, history>>

PresenceEnds(d) ==
  /\ presence[d] # None
  /\ presence' = [presence EXCEPT ![d] = None]
  /\ UNCHANGED <<store, sessions, sessionFile, lock, calls, history>>

PeriodicSave ==
  /\ Begin(Cleaner, ToSave)
  /\ UNCHANGED <<store, sessions, sessionFile, presence, lock, history>>

-----------------------------------------------------------------------------
(* Faults *)

\* The client of h disconnects: its handler is dropped where it awaits, and the
\* lock with it.  A rename that was handed over to the file system's thread is
\* executed nevertheless, before the next call has written a file of its own
\* (AccountsLate drops this assumption).
Drop(h) ==
  /\ h \in Handlers
  /\ \/ At(h, "lock") /\ UNCHANGED <<file, lock>>
     \/ At(h, "renamed") /\ lock' = None /\ UNCHANGED file
     \/ At(h, "writing") /\ lock' = None /\ file' \in {file, calls[h].snap}
  /\ Goto(h, Idle)
  /\ UNCHANGED <<users, index, sessions, sessionFile, presence, history>>

DropSave(h) ==
  /\ h \in Handlers
  /\ \/ calls[h] = ToSave /\ UNCHANGED <<sessionFile, lock>>
     \/ /\ calls[h].op = "saving" /\ lock' = None
        /\ sessionFile' \in {calls[h].saved, None}
  /\ Goto(h, Idle)
  /\ UNCHANGED <<store, sessions, presence, history>>

Owner(db, n) ==
  IF \E u \in Users : db[u] # None /\ names[u] = n
  THEN CHOOSE u \in Users : db[u] # None /\ names[u] = n
  ELSE None

\* load_auth_sessions, whose failure is only logged.
Loaded == IF sessionFile = None THEN {} ELSE sessionFile

\* The process dies and starts again: load_users, persist_users.
Restart ==
  /\ users' = file /\ index' = [n \in Names |-> Owner(file, n)]
  /\ sessions' = Loaded
  /\ presence' = [d \in Devices |-> None]
  /\ lock' = None /\ calls' = [h \in Tasks |-> Idle]
  /\ UNCHANGED <<file, sessionFile, history>>

Transaction(h) ==
  \/ TakeLock(h) \/ Refuse(h) \/ Rename(h) \/ WriteFails(h)
  \/ \E u \in Users : Registered(h, u) \/ Revised(h, u) \/ Deleted(h, u)

Serve(h) ==
  \/ \E n \in Names : Login(h, n) \/ \E u \in Users : Register(h, n, u)
  \/ \E u \in Users : Delete(h, u) \/ Wake(h, u) \/ \E d \in Devices : Upsert(h, u, d)
  \/ UpsertInserts(h) \/ Transaction(h) \/ SignIn(h)
  \/ Drop(h) \/ DropSave(h)

Live ==
  \/ \E h \in Handlers : Serve(h)
  \/ \E h \in Tasks : SaveBegins(h) \/ SaveEnds(h)
  \/ \E u \in Users : SessionEnds(u)
  \/ \E d \in Devices : PresenceEnds(d)
  \/ PeriodicSave

Next == Live \/ Restart

Spec == Init /\ [][Next]_vars

\* cleanup_expired runs every 15 seconds; what nobody can refresh any more, it
\* finds expired one day.
Forgotten(d) == presence[d] \in gone /\ PresenceEnds(d)

FairSpec == Spec /\ \A d \in Devices : WF_vars(Forgotten(d))

-----------------------------------------------------------------------------
(* Every variable has its type. *)
TypeOK ==
  /\ users \in Database /\ file \in Database
  /\ index \in [Names -> Option(Users)]
  /\ sessions \subseteq Users /\ sessionFile \in Option(SUBSET Users)
  /\ presence \in [Devices -> Option(Users)]
  /\ lock \in Option(Tasks) /\ calls \in [Tasks -> Call]
  /\ names \in [Users -> Option(Names)] /\ told \in Database
  /\ asked \subseteq Users /\ gone \subseteq Users

\* A name belongs to one account, in memory and in the file, however
\* registrations of it overlap and wherever they end; and the index leads to it
\* (register_account, load_users, which would let the later of two win).
NamesUnique ==
  /\ \A u, v \in Users : names[u] = names[v] =>
       /\ users[u] # None /\ users[v] # None => u = v
       /\ file[u] # None /\ file[v] # None => u = v
  /\ \A n \in Names : index[n] = Owner(users, n)

\* What a client has seen of its account is never lost, whatever fails, is dropped
\* or restarts afterwards, until it asks for its deletion (store.rs: a snapshot is
\* taken, written and published under one lock).
SeenIsKept ==
  \A u \in Users : told[u] # None /\ u \notin asked =>
    /\ users[u] # None /\ users[u] >= told[u]
    /\ file[u] # None /\ file[u] >= told[u]

\* A deleted account does not come back, neither in memory nor in the file a
\* restart begins with, and its name is free (delete_account: for good).
DeletedForGood ==
  \A u \in gone : /\ users[u] = None /\ file[u] = None
                  /\ \A n \in Names : index[n] # u

\* list_account_devices, what it takes from account_presence.
ListedFor(u) == {d \in Devices : presence[d] = u}

\* No device stays listed for a deleted account, although an upsert that was
\* authenticated before may come in after the deletion's sweep, and a login that
\* was verified before leaves a session behind.
DeletedUnlisted == <>[](\A u \in gone : ListedFor(u) = {})

\* The users in memory and their file are the store that UserStore describes.
Store == INSTANCE UserStore WITH accounts <- users
ImplementsStore == Store!Spec
=============================================================================

---------------------------- MODULE PairingProofs ----------------------------
(***************************************************************************)
(* What holds of Pairing for any number of codes, targets, tokens and      *)
(* tasks: the types, who holds the two locks, and that the file is never   *)
(* more than one change ahead of the memory (FileInv); from that, that a   *)
(* claim is whole, that a computer is one target, that answers are kept,   *)
(* and that the locks come free.                                           *)
(***************************************************************************)
EXTENDS Pairing, TLAPS

(***************************************************************************)
(* Types.                                                                  *)
(***************************************************************************)

\* What a job carries, by its kind.
LEMMA JobFields ==
  ASSUME NEW job \in Jobs
  PROVE  /\ job.op \in {"claim", "create", "delete", "close", "touch"}
         /\ job.op = "claim" => job.code \in Codes /\ job.token \in Tokens
                                /\ job.session \in Sessions
         /\ job.op = "create" => job.device \in Devices
         /\ job.op = "delete" => job.target \in Ids
<1>1. CASE job \in Claims
  BY <1>1 DEF Claims
<1>2. CASE job \in {Close, Touch}
  BY <1>2 DEF Close, Touch
<1>3. CASE job \in [op : {"create"}, device : Devices]
  BY <1>3
<1>4. CASE job \in [op : {"delete"}, target : Ids]
  BY <1>4
<1>. QED
  BY <1>1, <1>2, <1>3, <1>4 DEF Jobs

LEMMA JobTypes ==
  /\ Touch \in Jobs /\ Close \in Jobs
  /\ \A c \in Codes, k \in Tokens, s \in Sessions : Claim(c, k, s) \in Jobs
  /\ \A d \in Devices : CreateTarget(d) \in Jobs
  /\ \A t \in Ids : DeleteTarget(t) \in Jobs
<1>1. Touch \in Jobs /\ Close \in Jobs
  BY DEF Jobs
<1>2. \A c \in Codes, k \in Tokens, s \in Sessions : Claim(c, k, s) \in Jobs
  BY DEF Jobs, Claims, Claim
<1>3. \A d \in Devices : CreateTarget(d) \in Jobs
  BY DEF Jobs, CreateTarget
<1>4. \A t \in Ids : DeleteTarget(t) \in Jobs
  BY DEF Jobs, DeleteTarget
<1>. QED
  BY <1>1, <1>2, <1>3, <1>4

\* The fields of a call, and that calls are made of such fields.
LEMMA CallFields ==
  ASSUME TypeOK, NEW h \in Tasks
  PROVE  /\ calls[h].job \in Jobs /\ calls[h].target \in Option(Ids)
         /\ calls[h].snap \in Database
         /\ calls[h].pc \in {"idle", "wait", "queue", "writing", "renamed"}
         /\ At(h, "wait") => Claiming(h)
BY DEF TypeOK, Calls, Jobs, Claims, Option, Database, At, Claiming

LEMMA CallTypes ==
  /\ Idle \in Calls
  /\ \A pc \in {"idle", "queue", "writing", "renamed"},
        job \in Jobs, t \in Option(Ids), snap \in Database : Call(pc, job, t, snap) \in Calls
  /\ \A job \in Claims : Call("wait", job, None, None) \in Calls
<1>1. \A pc \in {"idle", "queue", "writing", "renamed"},
         job \in Jobs, t \in Option(Ids), snap \in Database : Call(pc, job, t, snap) \in Calls
  BY DEF Call, Calls
<1>2. \A job \in Claims : Call("wait", job, None, None) \in Calls
  BY DEF Call, Calls
<1>. QED
  BY <1>1, <1>2, JobTypes DEF Idle, Option, Database

\* A pairing of the right type stays one, whichever field is set.
LEMMA RecordTypes ==
  /\ Unborn \in PairingRecords /\ Gone \in PairingRecords
  /\ \A d \in Devices, s \in Sessions :
       [Unborn EXCEPT !.state = "kept", !.device = d, !.creator = s] \in PairingRecords
  /\ \A p \in PairingRecords :
       /\ [p EXCEPT !.expired = TRUE] \in PairingRecords
       /\ [p EXCEPT !.confirmed = TRUE] \in PairingRecords
       /\ [p EXCEPT !.cancelled = TRUE] \in PairingRecords
       /\ \A t \in Option(Ids) : [p EXCEPT !.claimed = t] \in PairingRecords
BY DEF Unborn, Gone, PairingRecords, Option

\* prune
LEMMA PrunedType ==
  ASSUME TypeOK
  PROVE  Pruned \in [Codes -> PairingRecords]
BY RecordTypes DEF Pruned, TypeOK

LEMMA EndsTypes ==
  ASSUME TypeOK, NEW h, Ends(h)
  PROVE  /\ pairingLock' \in Option(Tasks) /\ storeLock' \in Option(Tasks)
         /\ calls' \in [Tasks -> Calls]
BY CallTypes DEF Ends, Released, Goto, TypeOK, Option

\* Calls that need only the pairing lock, and time, keep the types.
LEMMA PairingTypes ==
  ASSUME TypeOK,
         \/ CreateRefused \/ Sweep
         \/ \E c \in Codes :
              \/ Confirm(c) \/ Cancel(c) \/ Expire(c)
              \/ \E s \in Sessions, d \in Devices : Create(s, d, c)
         \/ \E s \in Sessions : CancelAll(s) \/ SessionEnds(s)
  PROVE  TypeOK'
<1>. USE RecordTypes, PrunedType DEF history
<1>1. CASE CreateRefused \/ Sweep
  BY <1>1 DEF CreateRefused, Sweep, TypeOK
<1>2. ASSUME NEW c \in Codes, Confirm(c) \/ Cancel(c) \/ Expire(c)  PROVE TypeOK'
  <2>1. pairings[c] \in PairingRecords
    BY DEF TypeOK
  <2>2. pairings' \in [Codes -> PairingRecords]
    BY <1>2, <2>1 DEF Confirm, Cancel, Expire, TypeOK
  <2>. QED
    BY <1>2, <2>2 DEF Confirm, Cancel, Expire, TypeOK
<1>3. ASSUME NEW c \in Codes, NEW s \in Sessions, NEW d \in Devices, Create(s, d, c)
      PROVE  TypeOK'
  <2>1. [Unborn EXCEPT !.state = "kept", !.device = d, !.creator = s] \in PairingRecords
    BY RecordTypes
  <2>2. pairings' \in [Codes -> PairingRecords]
    BY <1>3, <2>1, PrunedType DEF Create
  <2>. QED
    BY <1>3, <2>2 DEF Create, TypeOK
<1>4. ASSUME NEW s \in Sessions, CancelAll(s)  PROVE TypeOK'
  <2>1. pairings' \in [Codes -> PairingRecords]
    BY <1>4 DEF CancelAll, TypeOK
  <2>. QED
    BY <1>4, <2>1 DEF CancelAll, TypeOK
<1>5. ASSUME NEW s \in Sessions, SessionEnds(s)  PROVE TypeOK'
  BY <1>5 DEF SessionEnds, TypeOK
<1>. QED
  BY <1>1, <1>2, <1>3, <1>4, <1>5

\* The calls up to the store lock keep the types.
LEMMA BeginTypes ==
  ASSUME TypeOK, NEW h \in Tasks,
         \/ \E c \in Codes, k \in Tokens, s \in Sessions : ClaimBegins(h, c, k, s)
         \/ TakesPairing(h)
         \/ \E job \in Jobs : Begins(h, job)
  PROVE  TypeOK'
<1>. USE CallTypes DEF history
<1>0. None \in Option(Ids) /\ None \in Database /\ calls[h].job \in Jobs /\ h \in Option(Tasks)
  BY CallFields DEF Option, Database
<1>1. ASSUME NEW c \in Codes, NEW k \in Tokens, NEW s \in Sessions, ClaimBegins(h, c, k, s)
      PROVE  TypeOK'
  <2>1. Claim(c, k, s) \in Claims
    BY DEF Claim, Claims
  <2>. QED
    BY <1>0, <1>1, <2>1 DEF ClaimBegins, Goto, TypeOK
<1>2. ASSUME NEW job \in Jobs, Begins(h, job)  PROVE TypeOK'
  <2>1. asked' \subseteq Ids
    BY <1>2, JobFields DEF Begins, TypeOK
  <2>. QED
    BY <1>0, <1>2, <2>1 DEF Begins, Goto, TypeOK
<1>3. CASE Locks(h)
  BY <1>0, <1>3 DEF Locks, Goto, TypeOK
<1>4. CASE ClaimRefused(h)
  BY <1>4 DEF ClaimRefused, Goto, TypeOK
<1>5. CASE ClaimedAlready(h)
  <2>. DEFINE t == pairings[calls[h].job.code].claimed  k == calls[h].job.token
  <2>1. told' \in [Ids -> SUBSET Option(Tokens)]
    <3>1. CASE told' = told
      BY <3>1 DEF TypeOK
    <3>2. CASE told' = [told EXCEPT ![t] = @ \cup {k}]
      <4>1. k \in Option(Tokens)
        BY <1>5, CallFields, JobFields DEF ClaimedAlready, Claiming, Option
      <4>. QED
        BY <3>2, <4>1 DEF TypeOK
    <3>. QED
      BY <1>5, <3>1, <3>2 DEF ClaimedAlready, SameClaim
  <2>. QED
    BY <1>5, <2>1 DEF ClaimedAlready, Goto, TypeOK
<1>. QED
  BY <1>1, <1>2, <1>3, <1>4, <1>5 DEF TakesPairing

\* A new target has the type of a target, a changed list that of a list.
LEMMA TargetTypes ==
  ASSUME TypeOK, NEW job \in Jobs
  PROVE  /\ job.op \in {"claim", "create"} => NewTarget(job) \in Option(TargetRecords)
         /\ job.op \notin {"claim", "create"} /\ mem # None => Without(job) \in Database
<1>1. CASE job.op = "claim"
  <2>1. pairings[job.code].device \in Option(Devices)
    BY <1>1, JobFields DEF TypeOK, PairingRecords
  <2>. QED
    BY <1>1, <2>1, JobFields DEF NewTarget, DeviceOf, TargetRecords, Option
<1>2. CASE job.op = "create"
  BY <1>2, JobFields DEF NewTarget, TargetRecords, Option
<1>3. CASE job.op = "delete"
  BY <1>3 DEF Without, Database, Option, TypeOK
<1>4. CASE job.op = "close"
  BY <1>4 DEF Without, Database, Option
<1>5. CASE job.op = "touch"
  BY <1>5 DEF Without, TypeOK
<1>. QED
  BY <1>1, <1>2, <1>3, <1>4, <1>5, JobFields

LEMMA TransactionTypes ==
  ASSUME PairingParameters, TypeOK, NEW h \in Tasks, Transaction(h)
  PROVE  TypeOK'
<1>. USE CallTypes DEF history
<1>. DEFINE job == calls[h].job
<1>0. /\ None \in Option(Ids) /\ None \in Database /\ job \in Jobs /\ h \in Option(Tasks)
      /\ calls[h].target \in Option(Ids) /\ calls[h].snap \in Database
  BY CallFields DEF Option, Database
<1>1. CASE Adds(h)
  <2>1. PICK t \in Ids : /\ made' = [made EXCEPT ![t] = NewTarget(job)]
                         /\ Goto(h, Call("writing", job, t, mem \cup {t}))
    BY <1>1 DEF Adds
  <2>2. NewTarget(job) \in Option(TargetRecords)
    BY <1>0, <1>1, TargetTypes DEF Adds
  <2>3. mem \cup {t} \in Database /\ t \in Option(Ids)
    BY <1>1 DEF Adds, Admitted, TypeOK, Database, Option
  <2>4. Call("writing", job, t, mem \cup {t}) \in Calls
    BY <1>0, <2>3
  <2>. QED
    BY <1>0, <1>1, <2>1, <2>2, <2>4 DEF Adds, Goto, TypeOK
<1>2. CASE Changes(h)
  <2>1. Without(job) \in Database
    BY <1>0, <1>2, TargetTypes DEF Changes, Admitted
  <2>. QED
    BY <1>0, <1>2, <2>1 DEF Changes, Goto, TypeOK
<1>3. CASE Refused(h)
  BY <1>3, EndsTypes DEF Refused, TypeOK
<1>4. CASE Rename(h)
  <2>1. [calls[h] EXCEPT !.pc = "renamed"] \in Calls
    BY <1>4 DEF Rename, TypeOK, Calls, At
  <2>. QED
    BY <1>0, <1>4, <2>1 DEF Rename, Goto, TypeOK
<1>5. CASE WriteFails(h)
  BY <1>5, EndsTypes DEF WriteFails, TypeOK
<1>6. CASE Published(h)
  <2>. DEFINE t == calls[h].target
  <2>1. told' \in [Ids -> SUBSET Option(Tokens)]
    <3>1. CASE t = None
      BY <1>6, <3>1 DEF Published, TypeOK
    <3>2. CASE t # None
      <4>1. NewTarget(job).token \in Option(Tokens)
        BY <1>0, JobFields DEF NewTarget, Option
      <4>. QED
        BY <1>6, <3>2, <4>1 DEF Published, TypeOK
    <3>. QED
      BY <3>1, <3>2
  <2>2. pairings' \in [Codes -> PairingRecords]
    BY <1>0, <1>6, RecordTypes DEF Published, TypeOK
  <2>. QED
    BY <1>0, <1>6, <2>1, <2>2, EndsTypes DEF Published, TypeOK
<1>. QED
  BY <1>1, <1>2, <1>3, <1>4, <1>5, <1>6 DEF Transaction

\* A dropped call and a restart keep the types.
LEMMA FaultTypes ==
  ASSUME TypeOK, Restart \/ \E h \in Handlers : Drop(h)
  PROVE  TypeOK'
<1>. USE DEF history
<1>1. CASE Restart
  BY <1>1, CallTypes, RecordTypes DEF Restart, TypeOK, Option
<1>2. ASSUME NEW h \in Handlers, Drop(h)  PROVE TypeOK'
  <2>1. file' \in Database
    BY <1>2, CallFields DEF Drop, TypeOK, Tasks
  <2>. QED
    BY <1>2, <2>1, EndsTypes DEF Drop, TypeOK
<1>. QED
  BY <1>1, <1>2

LEMMA NextTypes ==
  ASSUME PairingParameters, TypeOK, [Next]_vars
  PROVE  TypeOK'
<1>. Handlers \subseteq Tasks /\ Cleaner \in Tasks
  BY DEF Tasks
<1>1. CASE UNCHANGED vars
  BY <1>1 DEF vars, TypeOK
<1>2. CASE Environment
  BY <1>2, PairingTypes, FaultTypes DEF Environment
<1>3. CASE \E h \in Handlers : Serve(h) \/ Drop(h)
  BY <1>3, BeginTypes, FaultTypes, JobTypes DEF Serve
<1>4. CASE Begins(Cleaner, Touch)
  BY <1>4, BeginTypes, JobTypes
<1>5. CASE \E h \in Tasks : Transaction(h)
  BY <1>5, TransactionTypes
<1>. QED
  BY <1>1, <1>2, <1>3, <1>4, <1>5 DEF Next

LEMMA InitTypes == ASSUME Init PROVE TypeOK
BY CallTypes, RecordTypes DEF Init, TypeOK, Database, Option

\* Every variable keeps its type (PairingRuntime, and the targets of a UserRecord).
THEOREM TypeCorrect == Spec => []TypeOK
BY PairingParameters, InitTypes, NextTypes, PTL DEF Spec

(***************************************************************************)
(* The invariant.  A change that is on its way to the file is one that may *)
(* be made of the memory (Ahead): a target that nobody was told of, of a   *)
(* computer that is none yet, or a removal that was asked for.             *)
(***************************************************************************)

\* t was made for a change that nobody has seen.
New(t) ==
  /\ made[t] # None /\ told[t] = {}
  /\ mem # None /\ t \notin mem
  /\ \A v \in mem : made[v].device # made[t].device

Ahead(db) ==
  \/ db = mem
  \/ \E t \in Ids : New(t) /\ db = mem \cup {t}
  \/ mem # None /\ \E t \in asked : db = mem \ {t}
  \/ db = None /\ asked = Ids

\* The pairing whose claim waits for the store, or writes.
Held(c) == Unclaimed(c) /\ pairings[c].confirmed /\ ~pairings[c].cancelled

Working(h) == At(h, "queue") \/ AtWork(h)
Makes(h) == calls[h].job.op \in {"claim", "create"}

CallOK(h) ==
  LET job == calls[h].job  t == calls[h].target  snap == calls[h].snap IN
  /\ Working(h) =>
       /\ Claiming(h) => pairingLock = h /\ Held(job.code)
       /\ job.op = "delete" => job.target \in asked
       /\ job.op = "close" => asked = Ids
  /\ AtWork(h) =>
       /\ storeLock = h
       /\ IF Makes(h)
          THEN /\ t \in Ids /\ New(t) /\ snap = mem \cup {t}
               /\ made[t].token = NewTarget(job).token
               /\ made[t].code = IF Claiming(h) THEN job.code ELSE None
          ELSE t = None /\ Ahead(snap) /\ Stored(snap) \subseteq Stored(mem)
  /\ At(h, "renamed") => file = snap
CallInv == \A h \in Tasks : CallOK(h)

LockInv ==
  /\ storeLock # None => storeLock \in Tasks /\ AtWork(storeLock)
  /\ pairingLock # None => pairingLock \in Tasks /\ Claiming(pairingLock) /\ Working(pairingLock)

FileInv == Ahead(file)

MemInv ==
  /\ \A t \in Stored(mem) : made[t] # None
  /\ \A t, u \in Stored(mem) : made[t].device = made[u].device => t = u

\* A target's pairing was created before it.
MadeInv ==
  \A t \in Ids : made[t] # None /\ made[t].code # None =>
    pairings[made[t].code].state # "unborn"

ToldInv ==
  \A t \in Ids : told[t] # {} =>
    /\ made[t] # None /\ told[t] = {made[t].token}
    /\ t \notin asked => t \in Stored(mem)

IInv ==
  /\ TypeOK /\ CallInv /\ LockInv /\ FileInv /\ MemInv /\ MadeInv /\ ToldInv /\ ClaimWhole

\* What may be in the file: targets that were made, one per computer, and all of
\* whose deletion was not asked for and that somebody was told of (Ahead).
LEMMA AheadFollows ==
  ASSUME PairingParameters, IInv, NEW db \in Database, Ahead(db)
  PROVE  /\ \A t \in Stored(db) : made[t] # None
         /\ \A t, u \in Stored(db) : made[t].device = made[u].device => t = u
         /\ \A t \in Ids : told[t] # {} /\ t \notin asked => t \in Stored(db)
<1>0. /\ \A S \in SUBSET Ids : S # None
      /\ mem # None => mem \in SUBSET Ids /\ Stored(mem) = mem
      /\ asked \subseteq Ids
  BY DEF PairingParameters, IInv, TypeOK, Database, Option, Stored
<1>1. CASE db = mem
  BY <1>1 DEF IInv, MemInv, ToldInv
<1>2. ASSUME NEW t \in Ids, New(t), db = mem \cup {t}
      PROVE  /\ \A v \in Stored(db) : made[v] # None
             /\ \A v, w \in Stored(db) : made[v].device = made[w].device => v = w
             /\ \A v \in Ids : told[v] # {} /\ v \notin asked => v \in Stored(db)
  <2>1. mem # None /\ mem \cup {t} # None
    BY <1>0, <1>2 DEF New
  <2>2. Stored(db) = mem \cup {t} /\ Stored(mem) = mem
    BY <1>0, <1>2, <2>1 DEF Stored
  <2>. QED
    BY <1>2, <2>2 DEF New, IInv, MemInv, ToldInv
<1>3. ASSUME NEW t \in asked, mem # None, db = mem \ {t}
      PROVE  /\ \A v \in Stored(db) : made[v] # None
             /\ \A v, w \in Stored(db) : made[v].device = made[w].device => v = w
             /\ \A v \in Ids : told[v] # {} /\ v \notin asked => v \in Stored(db)
  <2>1. mem \ {t} # None
    BY <1>0, <1>3
  <2>2. Stored(db) = mem \ {t} /\ Stored(mem) = mem
    BY <1>0, <1>3, <2>1 DEF Stored
  <2>. QED
    BY <1>3, <2>2 DEF IInv, MemInv, ToldInv
<1>4. CASE db = None /\ asked = Ids
  BY <1>4 DEF Stored
<1>. QED
  BY <1>1, <1>2, <1>3, <1>4 DEF Ahead

(***************************************************************************)
(* Steps that leave the memory alone.                                      *)
(***************************************************************************)

\* The list in memory stays, and what is known of the targets grows.
Grows ==
  /\ mem' = mem /\ asked \subseteq asked'
  /\ \A t \in Ids : made[t] # None => made'[t] = made[t]
  /\ \A t \in Ids \ Stored(mem) : told'[t] = told[t]

LEMMA AheadStays ==
  ASSUME PairingParameters, IInv, TypeOK', Grows
  PROVE  /\ \A t \in Ids : New(t) => New(t)'
         /\ \A db : Ahead(db) => Ahead(db)'
<1>0. mem # None => mem \subseteq Ids /\ Stored(mem) = mem
  BY DEF PairingParameters, IInv, TypeOK, Database, Option, Stored
<1>1. ASSUME NEW t \in Ids, New(t)  PROVE New(t)'
  <2>1. /\ made'[t] = made[t] /\ mem # None /\ t \notin mem
        /\ \A v \in mem : made'[v] = made[v]
    BY <1>0, <1>1 DEF Grows, New, IInv, MemInv
  <2>2. told'[t] = told[t]
    BY <1>0, <2>1 DEF Grows
  <2>. QED
    BY <1>1, <2>1, <2>2 DEF New, Grows
<1>2. asked' \subseteq Ids
  BY DEF TypeOK
<1>3. ASSUME NEW db, Ahead(db)  PROVE Ahead(db)'
  <2>1. CASE db = mem
    BY <2>1 DEF Ahead, Grows
  <2>2. CASE \E t \in Ids : New(t) /\ db = mem \cup {t}
    BY <1>1, <2>2 DEF Ahead, Grows
  <2>3. CASE mem # None /\ \E t \in asked : db = mem \ {t}
    BY <2>3 DEF Ahead, Grows
  <2>4. CASE db = None /\ asked = Ids
    BY <1>2, <2>4 DEF Ahead, Grows
  <2>. QED
    BY <1>3, <2>1, <2>2, <2>3, <2>4 DEF Ahead
<1>. QED
  BY <1>1, <1>3

\* The call of a task that is left alone is as it was (CallOK).
LEMMA OtherCall ==
  ASSUME PairingParameters, IInv, TypeOK', Grows, NEW g \in Tasks, calls'[g] = calls[g],
         storeLock = g => storeLock' = storeLock /\ file' = file,
         pairingLock = g => pairingLock' = pairingLock /\ \A c \in Codes : Held(c) => Held(c)'
  PROVE  CallOK(g)'
<1>. DEFINE job == calls[g].job  t == calls[g].target
<1>1. CallOK(g)
  BY DEF IInv, CallInv
<1>2. /\ Working(g)' = Working(g) /\ AtWork(g)' = AtWork(g) /\ Claiming(g)' = Claiming(g)
      /\ Makes(g)' = Makes(g) /\ At(g, "renamed")' = At(g, "renamed")
  BY DEF Working, AtWork, At, Claiming, Makes
<1>3. job \in Jobs
  BY CallFields DEF IInv
<1>4. ASSUME Working(g)
      PROVE  /\ Claiming(g) => pairingLock' = g /\ Held(job.code)'
             /\ job.op = "delete" => job.target \in asked'
             /\ job.op = "close" => asked' = Ids
  <2>1. ASSUME Claiming(g)  PROVE pairingLock' = g /\ Held(job.code)'
    <3>1. pairingLock = g /\ Held(job.code)
      BY <1>1, <1>4, <2>1 DEF CallOK
    <3>2. job.code \in Codes
      BY <1>3, <2>1, JobFields DEF Claiming
    <3>. QED
      BY <3>1, <3>2
  <2>2. /\ job.op = "delete" => job.target \in asked'
        /\ job.op = "close" => asked' = Ids
    BY <1>1, <1>4 DEF CallOK, Grows, TypeOK
  <2>. QED
    BY <2>1, <2>2
<1>5. ASSUME AtWork(g)
      PROVE  /\ storeLock' = g
             /\ IF Makes(g)
                THEN /\ t \in Ids /\ New(t)' /\ calls[g].snap = mem' \cup {t}
                     /\ made'[t].token = NewTarget(job).token
                     /\ made'[t].code = IF Claiming(g) THEN job.code ELSE None
                ELSE t = None /\ Ahead(calls[g].snap)' /\ Stored(calls[g].snap) \subseteq Stored(mem')
  <2>1. storeLock' = g
    BY <1>1, <1>5 DEF CallOK
  <2>2. CASE Makes(g)
    <3>1. /\ t \in Ids /\ New(t) /\ calls[g].snap = mem \cup {t}
          /\ made[t].token = NewTarget(job).token
          /\ made[t].code = IF Claiming(g) THEN job.code ELSE None
      BY <1>1, <1>5, <2>2 DEF CallOK
    <3>2. made'[t] = made[t] /\ New(t)' /\ mem' = mem
      BY <3>1, AheadStays DEF Grows, New
    <3>. QED
      BY <2>1, <2>2, <3>1, <3>2
  <2>3. CASE ~Makes(g)
    <3>1. t = None /\ Ahead(calls[g].snap) /\ Stored(calls[g].snap) \subseteq Stored(mem)
      BY <1>1, <1>5, <2>3 DEF CallOK
    <3>2. Ahead(calls[g].snap)'
      <4>1. PICK db : db = calls[g].snap
        OBVIOUS
      <4>2. Ahead(db)'
        BY <3>1, <4>1, AheadStays
      <4>3. db = calls'[g].snap
        BY <4>1
      <4>. QED
        BY <4>2, <4>3 DEF Ahead
    <3>3. mem' = mem
      BY DEF Grows
    <3>. QED
      BY <2>1, <2>3, <3>1, <3>2, <3>3
  <2>. QED
    BY <2>2, <2>3
<1>6. NewTarget(calls[g].job)'.token = NewTarget(job).token
  BY DEF NewTarget
<1>7. At(g, "renamed") => file' = calls[g].snap
  BY <1>1, <1>5 DEF CallOK, AtWork, PairingParameters, Tasks
<1>. QED
  BY <1>2, <1>4, <1>5, <1>6, <1>7 DEF CallOK

\* A step of h's call.
LEMMA CallStep ==
  ASSUME PairingParameters, IInv, TypeOK', Grows, NEW h \in Tasks, NEW x, Goto(h, x),
         \A c \in Codes : pairingLock # h /\ Held(c) => Held(c)',
         storeLock' \in {storeLock, h, None}, storeLock' # storeLock => storeLock \in {h, None},
         pairingLock' \in {pairingLock, h, None},
         pairingLock' # pairingLock => pairingLock \in {h, None},
         file' # file => storeLock \in {h, None},
         CallOK(h)',
         storeLock' = h => AtWork(h)',
         pairingLock' = h => Claiming(h)' /\ Working(h)'
  PROVE  CallInv' /\ LockInv'
<1>1. \A g \in Tasks : g # h => calls'[g] = calls[g]
  BY DEF Goto, IInv, TypeOK
<1>2. \A g \in Tasks : g # None
  BY DEF PairingParameters
<1>3. CallInv'
  <2>1. ASSUME NEW g \in Tasks, g # h  PROVE CallOK(g)'
    <3>1. /\ storeLock = g => storeLock' = storeLock /\ file' = file
          /\ pairingLock = g => pairingLock' = pairingLock /\ \A c \in Codes : Held(c) => Held(c)'
      BY <1>2, <2>1
    <3>. QED
      BY <1>1, <2>1, <3>1, OtherCall
  <2>. QED
    BY <2>1 DEF CallInv
<1>4. LockInv'
  <2>1. ASSUME storeLock' # None, storeLock' # h  PROVE storeLock' \in Tasks /\ AtWork(storeLock)'
    <3>1. storeLock' = storeLock /\ storeLock \in Tasks /\ AtWork(storeLock)
      BY <2>1 DEF IInv, LockInv
    <3>. QED
      BY <1>1, <2>1, <3>1 DEF AtWork, At
  <2>2. ASSUME pairingLock' # None, pairingLock' # h
        PROVE  pairingLock' \in Tasks /\ Claiming(pairingLock)' /\ Working(pairingLock)'
    <3>1. /\ pairingLock' = pairingLock /\ pairingLock \in Tasks
          /\ Claiming(pairingLock) /\ Working(pairingLock)
      BY <2>2 DEF IInv, LockInv
    <3>. QED
      BY <1>1, <2>2, <3>1 DEF Working, AtWork, At, Claiming
  <2>. QED
    BY <2>1, <2>2 DEF LockInv
<1>. QED
  BY <1>3, <1>4

\* What is in the file, and what was told, while the memory stays.
LEMMA DataStays ==
  ASSUME PairingParameters, IInv, TypeOK', Grows, file' = file \/ Ahead(file'),
         \A t \in Ids : told'[t] # {} =>
           made'[t] # None /\ told'[t] = {made'[t].token} /\ (t \in Stored(mem) \/ told'[t] = told[t])
  PROVE  FileInv' /\ MemInv' /\ ToldInv'
<1>1. FileInv'
  <2>1. PICK db : db = file'
    OBVIOUS
  <2>2. Ahead(db)
    BY <2>1 DEF IInv, FileInv
  <2>3. Ahead(db)'
    BY <2>2, AheadStays
  <2>. QED
    BY <2>1, <2>3 DEF FileInv, Ahead
<1>2. Stored(mem)' = Stored(mem) /\ Stored(mem) \subseteq Ids
  BY DEF Grows, Stored, IInv, TypeOK, Database, Option
<1>3. MemInv'
  BY <1>2 DEF MemInv, IInv, Grows
<1>4. ToldInv'
  BY <1>2 DEF ToldInv, IInv, Grows
<1>. QED
  BY <1>1, <1>3, <1>4

\* The pairings of the targets keep what ClaimWhole says.
PairingsFollow ==
  \A c \in Codes : pairings[c].state # "unborn" =>
    /\ pairings'[c].state # "unborn"
    /\ Kept(c)' => Kept(c) /\ (\/ Unclaimed(c)
                               \/ /\ pairings'[c].claimed = pairings[c].claimed
                                  /\ pairings[c].confirmed => pairings'[c].confirmed
                                  /\ pairings'[c].cancelled => pairings[c].cancelled)

LEMMA ClaimsFollow ==
  ASSUME PairingParameters, IInv, TypeOK', PairingsFollow, UNCHANGED <<mem, made>>
  PROVE  MadeInv' /\ ClaimWhole'
<1>1. \A t \in Ids : made[t] # None /\ made[t].code # None => made[t].code \in Codes
  BY DEF IInv, TypeOK, Option, TargetRecords
<1>2. MadeInv'
  BY <1>1 DEF IInv, MadeInv, PairingsFollow
<1>3. ClaimWhole'
  <2>1. Stored(mem)' = Stored(mem) /\ Stored(mem) \subseteq Ids
    BY DEF Stored, IInv, TypeOK, Database, Option
  <2>2. ASSUME NEW t \in Stored(mem), made[t].code # None, Kept(made[t].code)'
        PROVE  /\ pairings'[made[t].code].claimed = t
               /\ pairings'[made[t].code].confirmed /\ ~pairings'[made[t].code].cancelled
    <3>1. PICK c \in Codes : c = made[t].code /\ pairings[c].state # "unborn"
      BY <1>1, <2>1, <2>2 DEF IInv, MemInv, MadeInv
    <3>2. Kept(c) /\ (\/ Unclaimed(c)
                      \/ /\ pairings'[c].claimed = pairings[c].claimed
                         /\ pairings[c].confirmed => pairings'[c].confirmed
                         /\ pairings'[c].cancelled => pairings[c].cancelled)
      BY <2>2, <3>1 DEF PairingsFollow
    <3>3. pairings[c].claimed = t /\ pairings[c].confirmed /\ ~pairings[c].cancelled
      BY <2>2, <3>1, <3>2 DEF IInv, ClaimWhole
    <3>4. ~Unclaimed(c)
      BY <2>1, <3>3 DEF Unclaimed, PairingParameters, Ids
    <3>. QED
      BY <3>1, <3>2, <3>3, <3>4
  <2>. QED
    BY <2>1, <2>2 DEF ClaimWhole
<1>. QED
  BY <1>2, <1>3

(***************************************************************************)
(* Steps of the pairings alone.                                            *)
(***************************************************************************)

LEMMA PairingStep ==
  ASSUME PairingParameters, IInv, TypeOK', PairingsFollow,
         UNCHANGED <<calls, pairingLock, mem, file, storeLock, made, told, asked>>,
         pairingLock = None \/ \A c \in Codes : Held(c) => Held(c)'
  PROVE  IInv'
<1>1. Grows
  BY DEF Grows
<1>2. CallInv'
  <2>1. \A g \in Tasks : g # None
    BY DEF PairingParameters
  <2>. QED
    BY <1>1, <2>1, OtherCall DEF CallInv
<1>3. LockInv'
  BY DEF IInv, LockInv, AtWork, Working, At, Claiming
<1>4. FileInv' /\ MemInv' /\ ToldInv'
  BY <1>1, DataStays DEF IInv, ToldInv
<1>. QED
  BY <1>2, <1>3, <1>4, ClaimsFollow DEF IInv

\* What pruning does to the pairings.
LEMMA PrunedIs ==
  ASSUME NEW c \in Codes
  PROVE  \/ Pruned[c] = pairings[c]
         \/ Kept(c) /\ Pruned[c].state = "gone"
BY DEF Pruned, Gone, Unborn

LEMMA PairingSteps ==
  ASSUME PairingParameters, IInv, TypeOK',
         \/ CreateRefused \/ Sweep
         \/ \E c \in Codes :
              \/ Confirm(c) \/ Cancel(c) \/ Expire(c)
              \/ \E s \in Sessions, d \in Devices : Create(s, d, c)
         \/ \E s \in Sessions : CancelAll(s) \/ SessionEnds(s)
  PROVE  IInv'
<1>. USE DEF history
<1>0. pairings \in [Codes -> PairingRecords]
  BY DEF IInv, TypeOK
<1>1. CASE CreateRefused \/ Sweep
  <2>1. pairings' = Pruned /\ pairingLock = None
    BY <1>1 DEF CreateRefused, Sweep
  <2>2. PairingsFollow
    BY <2>1, PrunedIs DEF PairingsFollow, Kept
  <2>. QED
    BY <1>1, <2>1, <2>2, PairingStep DEF CreateRefused, Sweep
<1>2. ASSUME NEW c \in Codes, Confirm(c)  PROVE IInv'
  <2>1. PairingsFollow
    BY <1>0, <1>2 DEF Confirm, PairingsFollow, Kept, Unclaimed, PairingRecords
  <2>. QED
    BY <1>2, <2>1, PairingStep DEF Confirm
<1>3. ASSUME NEW c \in Codes, Cancel(c)  PROVE IInv'
  <2>1. PairingsFollow
    BY <1>0, <1>3 DEF Cancel, PairingsFollow, Kept, Unclaimed, PairingRecords
  <2>. QED
    BY <1>3, <2>1, PairingStep DEF Cancel
<1>4. ASSUME NEW c \in Codes, Expire(c)  PROVE IInv'
  <2>1. PairingsFollow
    BY <1>0, <1>4 DEF Expire, PairingsFollow, Kept, Unclaimed, PairingRecords
  <2>2. \A b \in Codes : Held(b) => Held(b)'
    BY <1>0, <1>4 DEF Expire, Held, Unclaimed, Kept, PairingRecords
  <2>. QED
    BY <1>4, <2>1, <2>2, PairingStep DEF Expire
<1>5. ASSUME NEW c \in Codes, NEW s \in Sessions, NEW d \in Devices, Create(s, d, c)
      PROVE  IInv'
  <2>1. /\ pairingLock = None /\ pairings[c] = Unborn
        /\ \A b \in Codes : b # c => pairings'[b] = Pruned[b]
    BY <1>5 DEF Create, Pruned
  <2>2. pairings[c].state = "unborn"
    BY <2>1 DEF Unborn
  <2>3. PairingsFollow
    BY <2>1, <2>2, PrunedIs DEF PairingsFollow, Kept
  <2>. QED
    BY <1>5, <2>1, <2>3, PairingStep DEF Create
<1>6. ASSUME NEW s \in Sessions, CancelAll(s)  PROVE IInv'
  <2>1. \A c \in Codes : \/ pairings'[c] = pairings[c]
                         \/ Unclaimed(c) /\ pairings'[c] = [pairings[c] EXCEPT !.cancelled = TRUE]
    BY <1>6 DEF CancelAll
  <2>2. PairingsFollow
    BY <1>0, <2>1 DEF PairingsFollow, Kept, Unclaimed, PairingRecords
  <2>. QED
    BY <1>6, <2>2, PairingStep DEF CancelAll
<1>7. ASSUME NEW s \in Sessions, SessionEnds(s)  PROVE IInv'
  <2>1. PairingsFollow /\ \A c \in Codes : Held(c) => Held(c)'
    BY <1>7 DEF SessionEnds, PairingsFollow, Held, Unclaimed, Kept
  <2>. QED
    BY <1>7, <2>1, PairingStep DEF SessionEnds
<1>. QED
  BY <1>1, <1>2, <1>3, <1>4, <1>5, <1>6, <1>7

(***************************************************************************)
(* A call up to the lock of the store, and its end.                        *)
(***************************************************************************)

\* A call ends without having changed anything (what else Ends does).
LEMMA EndsStep ==
  ASSUME PairingParameters, IInv, TypeOK', NEW h \in Tasks, Ends(h),
         UNCHANGED <<pairings, mem, made, told, asked>>,
         file' = file \/ (storeLock = h /\ Ahead(file'))
  PROVE  IInv'
<1>1. Grows /\ PairingsFollow
  BY DEF Grows, PairingsFollow, Kept
<1>2. /\ Goto(h, Idle) /\ pairingLock' \in {pairingLock, None} /\ storeLock' \in {storeLock, None}
      /\ pairingLock' # pairingLock => pairingLock = h
      /\ storeLock' # storeLock => storeLock = h
      /\ pairingLock' # h /\ storeLock' # h
  BY DEF Ends, Released, PairingParameters
<1>3. CallOK(h)'
  <2>1. calls'[h] = Idle
    BY <1>2 DEF Goto, IInv, TypeOK
  <2>2. calls'[h].pc = "idle"
    BY <2>1 DEF Idle, Call
  <2>. QED
    BY <2>2 DEF CallOK, Working, AtWork, At
<1>4. \A c \in Codes : Held(c) => Held(c)'
  BY DEF Held, Unclaimed, Kept
<1>5. CallInv' /\ LockInv'
  BY <1>1, <1>2, <1>3, <1>4, CallStep
<1>6. FileInv' /\ MemInv' /\ ToldInv'
  BY <1>1, DataStays DEF IInv, ToldInv
<1>. QED
  BY <1>1, <1>5, <1>6, ClaimsFollow DEF IInv

\* A step of a call that changes nothing but itself, the locks and what was told.
LEMMA QuietStep ==
  ASSUME PairingParameters, IInv, TypeOK', NEW h \in Tasks, NEW x, Goto(h, x), Grows,
         UNCHANGED <<pairings, made, file>>,
         \A t \in Ids : told'[t] # {} =>
           made[t] # None /\ told'[t] = {made[t].token} /\ (t \in Stored(mem) \/ told'[t] = told[t]),
         storeLock' \in {storeLock, h}, storeLock' # storeLock => storeLock = None,
         pairingLock' \in {pairingLock, h}, pairingLock' # pairingLock => pairingLock = None,
         CallOK(h)',
         storeLock' = h => AtWork(h)',
         pairingLock' = h => Claiming(h)' /\ Working(h)'
  PROVE  IInv'
<1>1. PairingsFollow /\ \A c \in Codes : Held(c) => Held(c)'
  BY DEF PairingsFollow, Kept, Held, Unclaimed
<1>2. CallInv' /\ LockInv'
  BY <1>1, CallStep
<1>3. FileInv' /\ MemInv' /\ ToldInv'
  BY DataStays
<1>4. MadeInv' /\ ClaimWhole'
  BY <1>1, ClaimsFollow DEF Grows
<1>. QED
  BY <1>2, <1>3, <1>4 DEF IInv

\* An idle or waiting call holds no lock (LockInv).
LEMMA HoldsNone ==
  ASSUME IInv, NEW h \in Tasks, At(h, "idle") \/ At(h, "wait"), h # None
  PROVE  pairingLock # h /\ storeLock # h
BY DEF IInv, LockInv, Working, AtWork, At

\* A call that has not come to the lock of the store promises nothing (CallOK).
LEMMA EarlyCall ==
  ASSUME NEW h \in Tasks, calls'[h].pc \in {"idle", "wait"}
  PROVE  CallOK(h)'
BY DEF CallOK, Working, AtWork, At

LEMMA BeginSteps ==
  ASSUME PairingParameters, IInv, TypeOK', NEW h \in Tasks,
         \/ \E c \in Codes, k \in Tokens, s \in Sessions : ClaimBegins(h, c, k, s)
         \/ TakesPairing(h)
         \/ \E job \in Jobs \ Claims : Begins(h, job)
  PROVE  IInv'
<1>. USE DEF history
<1>. DEFINE job == calls[h].job
<1>0. /\ h # None /\ calls \in [Tasks -> Calls] /\ told \in [Ids -> SUBSET Option(Tokens)]
      /\ \A t \in Ids : told[t] # {} => made[t] # None /\ told[t] = {made[t].token}
  BY DEF PairingParameters, IInv, TypeOK, ToldInv
<1>1. ASSUME NEW c \in Codes, NEW k \in Tokens, NEW s \in Sessions, ClaimBegins(h, c, k, s)
      PROVE  IInv'
  <2>1. calls'[h].pc = "wait"
    BY <1>0, <1>1 DEF ClaimBegins, Goto, Call
  <2>2. CallOK(h)' /\ pairingLock # h /\ storeLock # h
    BY <1>0, <1>1, <2>1, EarlyCall, HoldsNone DEF ClaimBegins
  <2>3. Grows
    BY <1>1 DEF ClaimBegins, Grows
  <2>. QED
    BY <1>0, <1>1, <2>2, <2>3, QuietStep DEF ClaimBegins
<1>2. CASE ClaimRefused(h)
  <2>1. calls'[h].pc = "idle"
    BY <1>0, <1>2 DEF ClaimRefused, Goto, Call, Idle
  <2>2. CallOK(h)' /\ pairingLock # h /\ storeLock # h
    BY <1>0, <1>2, <2>1, EarlyCall, HoldsNone DEF ClaimRefused
  <2>3. Grows
    BY <1>2 DEF ClaimRefused, Grows
  <2>. QED
    BY <1>0, <1>2, <2>2, <2>3, QuietStep DEF ClaimRefused
<1>3. CASE Locks(h)
  <2>1. /\ Goto(h, Call("queue", job, None, None)) /\ pairingLock = None /\ pairingLock' = h
        /\ UNCHANGED <<pairings, mem, file, storeLock, live, made, told, asked>>
        /\ Claiming(h) /\ Held(job.code)
    BY <1>3, CallFields DEF Locks, Claimable, Valid, Held, IInv
  <2>2. calls'[h].pc = "queue" /\ calls'[h].job = job
    BY <1>0, <2>1 DEF Goto, Call
  <2>3. Working(h)' /\ Claiming(h)' /\ ~AtWork(h)' /\ ~At(h, "renamed")' /\ Held(calls[h].job.code)'
    BY <2>1, <2>2 DEF Working, AtWork, At, Claiming, Held, Unclaimed, Kept
  <2>4. CallOK(h)'
    BY <2>1, <2>2, <2>3 DEF CallOK, Claiming
  <2>5. Grows
    BY <2>1 DEF Grows
  <2>6. storeLock # h
    BY <1>0, <1>3, HoldsNone DEF Locks
  <2>. QED
    BY <1>0, <2>1, <2>3, <2>4, <2>5, <2>6, QuietStep
<1>4. CASE ClaimedAlready(h)
  <2>. DEFINE p == pairings[job.code].claimed
  <2>1. calls'[h].pc = "idle"
    BY <1>0, <1>4 DEF ClaimedAlready, Goto, Call, Idle
  <2>2. CallOK(h)' /\ pairingLock # h /\ storeLock # h
    BY <1>0, <1>4, <2>1, EarlyCall, HoldsNone DEF ClaimedAlready
  <2>3. \/ told' = told
        \/ /\ p \in Stored(mem) /\ made[p].token = job.token
           /\ told' = [told EXCEPT ![p] = @ \cup {job.token}]
    BY <1>4 DEF ClaimedAlready, SameClaim
  <2>4. Stored(mem) \subseteq Ids /\ \A t \in Stored(mem) : made[t] # None
    BY DEF IInv, MemInv, TypeOK, Stored, Database, Option
  <2>5. \A t \in Ids : /\ t # p \/ told' = told => told'[t] = told[t]
                       /\ t = p /\ told' # told => told'[t] = told[t] \cup {job.token}
    BY <1>0, <2>3
  <2>6. Grows
    <3>1. \A t \in Ids \ Stored(mem) : told'[t] = told[t]
      BY <2>3, <2>5
    <3>. QED
      BY <1>4, <3>1 DEF ClaimedAlready, Grows
  <2>7. ASSUME NEW t \in Ids, told'[t] # {}
        PROVE  made[t] # None /\ told'[t] = {made[t].token} /\ (t \in Stored(mem) \/ told'[t] = told[t])
    <3>1. told[t] # {} => made[t] # None /\ told[t] = {made[t].token}
      BY DEF IInv, ToldInv
    <3>2. CASE told'[t] = told[t]
      BY <2>7, <3>1, <3>2
    <3>3. CASE told'[t] # told[t]
      <4>1. t = p /\ told'[t] = told[t] \cup {job.token}
        BY <2>5, <3>3
      <4>2. p \in Stored(mem) /\ made[p].token = job.token
        BY <2>3, <3>3
      <4>. QED
        BY <2>4, <3>1, <4>1, <4>2
    <3>. QED
      BY <3>2, <3>3
  <2>. QED
    BY <1>4, <2>2, <2>6, <2>7, QuietStep DEF ClaimedAlready
<1>5. ASSUME NEW x \in Jobs \ Claims, Begins(h, x)  PROVE IInv'
  <2>1. calls'[h].pc = "queue" /\ calls'[h].job = x
    BY <1>0, <1>5 DEF Begins, Goto, Call
  <2>2. x.op # "claim"
    BY DEF Jobs, Close, Touch
  <2>3. asked \subseteq asked' /\ (x.op = "delete" => x.target \in asked')
        /\ (x.op = "close" => asked' = Ids)
    BY <1>5 DEF Begins, IInv, TypeOK
  <2>4. CallOK(h)'
    BY <2>1, <2>2, <2>3 DEF CallOK, Working, AtWork, At, Claiming
  <2>5. pairingLock # h /\ storeLock # h
    BY <1>0, <1>5, HoldsNone DEF Begins
  <2>6. Grows
    BY <1>5, <2>3 DEF Begins, Grows
  <2>. QED
    BY <1>0, <1>5, <2>4, <2>5, <2>6, QuietStep DEF Begins
<1>. QED
  BY <1>1, <1>2, <1>3, <1>4, <1>5 DEF TakesPairing

(***************************************************************************)
(* The transaction.                                                        *)
(***************************************************************************)

LEMMA AddsStep ==
  ASSUME PairingParameters, IInv, TypeOK', NEW h \in Tasks, Adds(h)
  PROVE  IInv'
<1>. DEFINE job == calls[h].job
<1>1. PICK t \in Ids : /\ made[t] = None /\ made' = [made EXCEPT ![t] = NewTarget(job)]
                       /\ Goto(h, Call("writing", job, t, mem \cup {t}))
  BY DEF Adds
<1>2. /\ At(h, "queue") /\ storeLock = None /\ storeLock' = h
      /\ job.op \in {"claim", "create"} /\ Admitted(job) /\ job \in Jobs
      /\ UNCHANGED <<pairings, pairingLock, mem, file, live, told, asked>>
  BY CallFields DEF Adds, IInv
<1>3. /\ mem # None /\ \A v \in mem : made[v].device # DeviceOf(job)
      /\ job.op = "claim" => Kept(job.code)
  BY <1>2 DEF Admitted, RoomFor, Valid
<1>4. /\ NewTarget(job).device = DeviceOf(job)
      /\ NewTarget(job).code = IF job.op = "claim" THEN job.code ELSE None
  BY <1>2 DEF NewTarget, DeviceOf
<1>5. NewTarget(job) # None
  <2>1. NewTarget(job) \in TargetRecords
    <3>1. job.op = "claim" => pairings[job.code].device \in Option(Devices)
      BY <1>2, JobFields DEF IInv, TypeOK, PairingRecords
    <3>. QED
      BY <1>2, <3>1, JobFields DEF NewTarget, DeviceOf, TargetRecords, Option
  <2>. QED
    BY <2>1 DEF PairingParameters
<1>6. /\ made'[t] = NewTarget(job) /\ \A v \in Ids : v # t => made'[v] = made[v]
      /\ calls'[h] = Call("writing", job, t, mem \cup {t})
  BY <1>1 DEF Goto, IInv, TypeOK
<1>7. Stored(mem) = mem /\ mem \subseteq Ids /\ t \notin mem /\ told[t] = {}
  BY <1>1, <1>3 DEF IInv, MemInv, ToldInv, Stored, TypeOK, Database, Option
<1>8. \A v \in mem : made'[v] = made[v]
  BY <1>6, <1>7
<1>9. New(t)'
  BY <1>2, <1>3, <1>4, <1>5, <1>6, <1>7, <1>8 DEF New
<1>10. Grows
  BY <1>1, <1>2, <1>6 DEF Grows
<1>11. CallOK(h)'
  <2>1. /\ calls'[h].pc = "writing" /\ calls'[h].job = job /\ calls'[h].target = t
        /\ calls'[h].snap = mem \cup {t}
    BY <1>6 DEF Call
  <2>2. /\ Claiming(h) => pairingLock = h /\ Held(job.code)
        /\ job.op = "delete" => job.target \in asked
        /\ job.op = "close" => asked = Ids
    BY <1>2 DEF IInv, CallInv, CallOK, Working
  <2>3. Claiming(h)' = Claiming(h) /\ Makes(h)' /\ ~At(h, "renamed")' /\ (Claiming(h) <=> job.op = "claim")
    BY <1>2, <2>1 DEF Claiming, Makes, At
  <2>4. Held(job.code)' = Held(job.code)
    BY <1>2, <2>1 DEF Held, Unclaimed, Kept
  <2>5. Claiming(h)' => pairingLock' = h /\ Held(calls[h].job.code)'
    BY <1>2, <2>1, <2>2, <2>3, <2>4
  <2>6. NewTarget(calls[h].job)'.token = made'[t].token
    BY <1>6, <2>1 DEF NewTarget
  <2>7. made'[t].code = IF Claiming(h)' THEN calls'[h].job.code ELSE None
    BY <1>4, <1>6, <2>1, <2>3
  <2>. QED
    BY <1>2, <1>9, <2>1, <2>2, <2>3, <2>5, <2>6, <2>7 DEF CallOK
<1>12. CallInv' /\ LockInv'
  <2>1. \A c \in Codes : Held(c) => Held(c)'
    BY <1>2 DEF Held, Unclaimed, Kept
  <2>2. AtWork(h)' /\ Working(h)'
    BY <1>6 DEF AtWork, At, Working, Call, PairingParameters
  <2>3. pairingLock = h => Claiming(h)'
    BY <1>6 DEF IInv, LockInv, Claiming, Call, PairingParameters
  <2>. QED
    BY <1>1, <1>2, <1>10, <1>11, <2>1, <2>2, <2>3, CallStep
<1>13. FileInv' /\ MemInv' /\ ToldInv'
  BY <1>2, <1>6, <1>7, <1>10, DataStays DEF IInv, ToldInv
<1>14. MadeInv'
  <2>1. made'[t].code # None => pairings'[made'[t].code].state # "unborn"
    BY <1>2, <1>3, <1>4, <1>6 DEF Kept
  <2>. QED
    BY <1>2, <1>6, <2>1 DEF IInv, MadeInv
<1>15. ClaimWhole'
  BY <1>2, <1>7, <1>8 DEF IInv, ClaimWhole, Kept, Stored
<1>. QED
  BY <1>12, <1>13, <1>14, <1>15 DEF IInv

LEMMA ChangesStep ==
  ASSUME PairingParameters, IInv, TypeOK', NEW h \in Tasks, Changes(h)
  PROVE  IInv'
<1>. USE DEF history
<1>1. PICK job, snap : /\ job \in Jobs /\ calls[h].job = job /\ snap = Without(job)
                       /\ job.op \notin {"claim", "create"} /\ Admitted(job)
  BY CallFields DEF Changes, IInv
<1>2. /\ At(h, "queue") /\ storeLock = None /\ storeLock' = h
      /\ Goto(h, Call("writing", job, None, snap))
      /\ UNCHANGED <<pairings, pairingLock, mem, file, live, made, told, asked>>
  BY <1>1 DEF Changes
<1>3. calls'[h] = Call("writing", job, None, snap)
  BY <1>2 DEF Goto, IInv, TypeOK
<1>4. /\ calls'[h].pc = "writing" /\ calls'[h].job = job /\ calls'[h].target = None
      /\ calls'[h].snap = snap
  BY <1>3 DEF Call
<1>5. /\ job.op = "delete" => job.target \in asked
      /\ job.op = "close" => asked = Ids
  BY <1>1, <1>2 DEF IInv, CallInv, CallOK, Working
<1>6. Ahead(snap) /\ Stored(snap) \subseteq Stored(mem)
  <2>1. mem # None /\ mem \subseteq Ids /\ Stored(mem) = mem
    BY <1>1 DEF Admitted, IInv, TypeOK, Database, Option, Stored
  <2>2. CASE job.op = "delete"
    <3>1. snap = mem \ {job.target} /\ job.target \in asked
      BY <1>1, <1>5, <2>2 DEF Without
    <3>. QED
      BY <2>1, <3>1 DEF Ahead, Stored
  <2>3. CASE job.op = "close"
    BY <1>1, <1>5, <2>3 DEF Without, Ahead, Stored
  <2>4. CASE job.op = "touch"
    BY <1>1, <2>4 DEF Without, Ahead
  <2>. QED
    BY <1>1, <2>2, <2>3, <2>4, JobFields
<1>7. Grows
  BY <1>2 DEF Grows
<1>8. /\ AtWork(h)' /\ ~Claiming(h)' /\ ~Makes(h)' /\ ~At(h, "renamed")'
  BY <1>1, <1>4 DEF AtWork, At, Claiming, Makes, PairingParameters
<1>9. Ahead(snap)'
  BY <1>6, <1>7, AheadStays
<1>10. Ahead(calls[h].snap)'
  BY <1>4, <1>9 DEF Ahead
<1>11. CallOK(h)'
  BY <1>2, <1>4, <1>5, <1>6, <1>8, <1>10 DEF CallOK
<1>12. pairingLock # h
  BY <1>1 DEF IInv, LockInv, Claiming, PairingParameters
<1>. QED
  BY <1>2, <1>7, <1>8, <1>11, <1>12, QuietStep DEF IInv, ToldInv, MemInv

\* What a call at work writes is a change that may be made.
LEMMA SnapAhead ==
  ASSUME IInv, NEW h \in Tasks, AtWork(h)
  PROVE  storeLock = h /\ Ahead(calls[h].snap)
BY DEF IInv, CallInv, CallOK, Ahead

LEMMA RenameStep ==
  ASSUME PairingParameters, IInv, TypeOK', NEW h \in Tasks, Rename(h)
  PROVE  IInv'
<1>. USE DEF history
<1>1. PICK job, t, snap : calls[h].job = job /\ calls[h].target = t /\ calls[h].snap = snap
  OBVIOUS
<1>2. /\ AtWork(h) /\ file' = snap
      /\ UNCHANGED <<pairings, pairingLock, mem, storeLock, live, made, told, asked>>
      /\ Goto(h, [calls[h] EXCEPT !.pc = "renamed"])
  BY <1>1 DEF Rename, AtWork, PairingParameters
<1>3. /\ calls'[h].pc = "renamed" /\ calls'[h].job = job /\ calls'[h].target = t
      /\ calls'[h].snap = snap
  <2>1. calls[h] \in Calls /\ calls'[h] = [calls[h] EXCEPT !.pc = "renamed"]
    BY <1>2 DEF Goto, IInv, TypeOK
  <2>. QED
    BY <1>1, <2>1 DEF Calls
<1>4. storeLock = h /\ Ahead(snap)
  BY <1>1, <1>2, SnapAhead
<1>5. Grows /\ PairingsFollow /\ \A c \in Codes : Held(c) => Held(c)'
  BY <1>2 DEF Grows, PairingsFollow, Held, Unclaimed, Kept
<1>6. /\ AtWork(h)' /\ Working(h)' /\ Working(h) /\ Claiming(h)' = Claiming(h) /\ Makes(h)' = Makes(h)
  BY <1>1, <1>2, <1>3 DEF AtWork, Working, At, Claiming, Makes
<1>7. CallOK(h)'
  <2>1. CallOK(h)
    BY DEF IInv, CallInv
  <2>2. /\ Claiming(h) => pairingLock = h /\ Held(job.code)
        /\ job.op = "delete" => job.target \in asked
        /\ job.op = "close" => asked = Ids
    BY <1>1, <1>6, <2>1 DEF CallOK
  <2>3. Claiming(h)' => pairingLock' = h /\ Held(calls[h].job.code)'
    BY <1>1, <1>2, <1>3, <1>6, <2>2 DEF Held, Unclaimed, Kept
  <2>4. CASE Makes(h)
    <3>1. /\ t \in Ids /\ New(t) /\ snap = mem \cup {t}
          /\ made[t].token = NewTarget(job).token
          /\ made[t].code = IF Claiming(h) THEN job.code ELSE None
      BY <1>1, <1>2, <2>1, <2>4 DEF CallOK
    <3>2. New(t)'
      BY <1>5, <3>1, AheadStays
    <3>3. New(calls[h].target)'
      BY <1>3, <3>2 DEF New
    <3>4. NewTarget(calls[h].job)'.token = NewTarget(job).token
      BY <1>3 DEF NewTarget
    <3>. QED
      BY <1>2, <1>3, <1>4, <1>6, <2>2, <2>3, <2>4, <3>1, <3>3, <3>4 DEF CallOK
  <2>5. CASE ~Makes(h)
    <3>1. t = None /\ Stored(snap) \subseteq Stored(mem)
      BY <1>1, <1>2, <2>1, <2>5 DEF CallOK
    <3>2. Ahead(snap)'
      BY <1>4, <1>5, AheadStays
    <3>3. Ahead(calls[h].snap)'
      BY <1>3, <3>2 DEF Ahead
    <3>. QED
      BY <1>2, <1>3, <1>4, <1>6, <2>2, <2>3, <2>5, <3>1, <3>3 DEF CallOK
  <2>. QED
    BY <2>4, <2>5
<1>8. CallInv' /\ LockInv'
  <2>1. pairingLock = h => Claiming(h)'
    BY <1>6 DEF IInv, LockInv, PairingParameters
  <2>. QED
    BY <1>2, <1>4, <1>5, <1>6, <1>7, <2>1, CallStep
<1>9. FileInv' /\ MemInv' /\ ToldInv'
  BY <1>2, <1>4, <1>5, DataStays DEF IInv, ToldInv
<1>. QED
  BY <1>2, <1>5, <1>8, <1>9, ClaimsFollow DEF IInv

\* Calls that end without a change of the memory.
LEMMA EndSteps ==
  ASSUME PairingParameters, IInv, TypeOK', NEW h \in Tasks,
         Refused(h) \/ WriteFails(h) \/ Drop(h)
  PROVE  IInv'
<1>. USE DEF history
<1>1. CASE Refused(h) \/ WriteFails(h)
  BY <1>1, EndsStep DEF Refused, WriteFails
<1>2. CASE Drop(h)
  <2>1. file' = file \/ (At(h, "writing") /\ file' = calls[h].snap)
    BY <1>2 DEF Drop
  <2>2. CASE At(h, "writing") /\ file' = calls[h].snap
    <3>1. AtWork(h)
      BY <2>2 DEF AtWork, PairingParameters
    <3>2. PICK db : db = calls[h].snap
      OBVIOUS
    <3>3. storeLock = h /\ Ahead(db) /\ file' = db
      BY <2>2, <3>1, <3>2, SnapAhead
    <3>. QED
      BY <1>2, <3>3, EndsStep DEF Drop
  <2>3. CASE file' = file
    BY <1>2, <2>3, EndsStep DEF Drop
  <2>. QED
    BY <2>1, <2>2, <2>3
<1>. QED
  BY <1>1, <1>2

(***************************************************************************)
(* The memory follows the file: a call's change is seen, or the server     *)
(* starts again.                                                           *)
(***************************************************************************)

LEMMA FileBecomesMem ==
  ASSUME PairingParameters, IInv, mem' = file, UNCHANGED <<made, file>>
  PROVE  FileInv' /\ MemInv'
<1>1. Stored(mem)' = Stored(file)
  BY DEF Stored
<1>2. /\ \A t \in Stored(file) : made[t] # None
      /\ \A t, u \in Stored(file) : made[t].device = made[u].device => t = u
  BY AheadFollows DEF IInv, FileInv, TypeOK
<1>. QED
  BY <1>1, <1>2 DEF FileInv, Ahead, MemInv

LEMMA PublishedStep ==
  ASSUME PairingParameters, IInv, TypeOK', NEW h \in Tasks, Published(h)
  PROVE  IInv'
<1>1. PICK job, t, snap :
        job \in Jobs /\ calls[h].job = job /\ calls[h].target = t /\ calls[h].snap = snap
  BY CallFields DEF IInv
<1>2. /\ At(h, "renamed") /\ mem' = snap /\ UNCHANGED <<file, made, asked>>
      /\ told' = IF t = None THEN told ELSE [told EXCEPT ![t] = @ \cup {NewTarget(job).token}]
      /\ pairings' = IF job.op = "claim"
                     THEN [pairings EXCEPT ![job.code].claimed = t] ELSE pairings
      /\ Ends(h)
  BY <1>1 DEF Published
<1>3. AtWork(h) /\ Working(h) /\ h # None
  BY <1>2 DEF AtWork, Working, PairingParameters
<1>4. /\ storeLock = h /\ file = snap
      /\ Claiming(h) => pairingLock = h /\ Held(job.code)
      /\ Makes(h) => /\ t \in Ids /\ New(t) /\ snap = mem \cup {t}
                     /\ made[t].token = NewTarget(job).token
                     /\ made[t].code = IF Claiming(h) THEN job.code ELSE None
      /\ ~Makes(h) => t = None /\ Stored(snap) \subseteq Stored(mem)
  BY <1>1, <1>2, <1>3 DEF IInv, CallInv, CallOK
<1>5. Claiming(h) <=> job.op = "claim"
  BY <1>1 DEF Claiming
<1>6. /\ FileInv' /\ MemInv'
      /\ \A v \in Ids : told[v] # {} /\ v \notin asked => v \in Stored(mem)'
  BY <1>2, <1>4, FileBecomesMem, AheadFollows DEF IInv, FileInv, TypeOK, Stored
<1>7. /\ calls'[h] = Idle /\ \A g \in Tasks : g # h => calls'[g] = calls[g]
      /\ pairingLock' = IF pairingLock = h THEN None ELSE pairingLock
      /\ storeLock' = None
  BY <1>2, <1>4 DEF Ends, Released, Goto, IInv, TypeOK
<1>8. ASSUME NEW g \in Tasks, g # h, Claiming(g), Working(g)
      PROVE  /\ pairingLock = g /\ pairingLock' = g
             /\ Held(calls[g].job.code)' /\ ~Claiming(h)
  <2>1. pairingLock = g /\ Held(calls[g].job.code) /\ ~Claiming(h)
    BY <1>4, <1>8 DEF IInv, CallInv, CallOK
  <2>2. pairings' = pairings /\ calls'[g] = calls[g]
    BY <1>2, <1>5, <1>7, <1>8, <2>1
  <2>. QED
    BY <1>7, <1>8, <2>1, <2>2 DEF Held, Unclaimed, Kept
<1>9. ASSUME NEW g \in Tasks, g # h
      PROVE  /\ ~AtWork(g) /\ ~AtWork(g)' /\ ~At(g, "renamed")'
             /\ Working(g)' = Working(g) /\ Claiming(g)' = Claiming(g)
             /\ calls'[g] = calls[g]
  <2>1. ~AtWork(g)
    BY <1>4, <1>9, SnapAhead
  <2>. QED
    BY <1>7, <1>9, <2>1 DEF AtWork, Working, At, Claiming, PairingParameters
<1>10. CallInv'
  <2>1. CallOK(h)'
    <3>1. calls'[h].pc = "idle"
      BY <1>7 DEF Idle, Call
    <3>. QED
      BY <3>1, EarlyCall
  <2>2. ASSUME NEW g \in Tasks, g # h  PROVE CallOK(g)'
    <3>1. CallOK(g)
      BY DEF IInv, CallInv
    <3>2. Working(g) => /\ calls[g].job.op = "delete" => calls[g].job.target \in asked
                        /\ calls[g].job.op = "close" => asked = Ids
      BY <3>1 DEF CallOK
    <3>. QED
      BY <1>2, <1>8, <1>9, <2>2, <3>2 DEF CallOK
  <2>. QED
    BY <2>1, <2>2 DEF CallInv
<1>11. LockInv'
  <2>1. ASSUME pairingLock' # None
        PROVE  pairingLock' \in Tasks /\ Claiming(pairingLock)' /\ Working(pairingLock)'
    <3>1. /\ pairingLock' = pairingLock /\ pairingLock \in Tasks /\ pairingLock # h
          /\ Claiming(pairingLock) /\ Working(pairingLock)
      BY <1>7, <2>1 DEF IInv, LockInv
    <3>2. calls'[pairingLock] = calls[pairingLock]
      BY <1>9, <3>1
    <3>. QED
      BY <3>1, <3>2 DEF Claiming, Working, AtWork, At
  <2>. QED
    BY <1>7, <2>1 DEF LockInv
<1>12. ToldInv'
  <2>1. told \in [Ids -> SUBSET Option(Tokens)]
    BY DEF IInv, TypeOK
  <2>2. CASE t = None
    BY <1>2, <1>6, <2>2 DEF IInv, ToldInv
  <2>3. CASE t # None
    <3>1. /\ t \in Ids /\ told[t] = {} /\ snap = mem \cup {t} /\ snap # None
          /\ made[t] # None /\ made[t].token = NewTarget(job).token
      <4>1. Makes(h)
        BY <1>4, <2>3
      <4>2. mem \cup {t} # None
        BY <1>4, <4>1 DEF New, PairingParameters, IInv, TypeOK, Database, Option
      <4>. QED
        BY <1>4, <4>1, <4>2 DEF New
    <3>2. told'[t] = {made'[t].token} /\ \A v \in Ids : v # t => told'[v] = told[v]
      BY <1>2, <2>1, <2>3, <3>1
    <3>3. t \in Stored(mem)'
      BY <1>2, <3>1 DEF Stored
    <3>. QED
      BY <1>2, <1>6, <3>1, <3>2, <3>3 DEF IInv, ToldInv
  <2>. QED
    BY <2>2, <2>3
<1>13. \A c \in Codes : pairings'[c].state = pairings[c].state
  <2>1. CASE job.op = "claim"
    <3>1. job.code \in Codes /\ pairings \in [Codes -> PairingRecords]
      BY <1>1, <2>1, JobFields DEF IInv, TypeOK
    <3>. QED
      BY <1>2, <2>1, <3>1 DEF PairingRecords
  <2>. QED
    BY <1>2, <2>1
<1>14. \A v \in Ids : made[v] # None /\ made[v].code # None => made[v].code \in Codes
  BY DEF IInv, TypeOK, Option, TargetRecords
<1>15. MadeInv'
  BY <1>2, <1>13, <1>14 DEF IInv, MadeInv
<1>16. ClaimWhole'
  <2>1. Stored(mem) \subseteq Ids /\ \A v \in Stored(mem) : made[v] # None
    BY DEF IInv, MemInv, TypeOK, Stored, Database, Option
  <2>2. CASE ~Makes(h)
    <3>1. pairings' = pairings /\ Stored(mem)' \subseteq Stored(mem)
      BY <1>1, <1>2, <1>4, <2>2 DEF Makes, Stored
    <3>. QED
      BY <1>2, <3>1 DEF IInv, ClaimWhole, Kept
  <2>3. CASE Makes(h)
    <3>1. Stored(mem)' = Stored(mem) \cup {t}
      BY <1>2, <1>4, <2>3 DEF Stored, New, PairingParameters, IInv, TypeOK, Database, Option
    <3>2. CASE ~Claiming(h)
      <4>1. pairings' = pairings /\ made[t].code = None
        BY <1>2, <1>4, <1>5, <2>3, <3>2
      <4>. QED
        BY <1>2, <3>1, <4>1 DEF IInv, ClaimWhole, Kept
    <3>3. CASE Claiming(h)
      <4>1. /\ Held(job.code) /\ made[t].code = job.code /\ job.code \in Codes
            /\ pairings \in [Codes -> PairingRecords]
            /\ pairings' = [pairings EXCEPT ![job.code].claimed = t]
        BY <1>2, <1>4, <1>5, <2>3, <3>3, JobFields DEF IInv, TypeOK
      <4>2. /\ pairings'[job.code].claimed = t
            /\ pairings'[job.code].confirmed = pairings[job.code].confirmed
            /\ pairings'[job.code].cancelled = pairings[job.code].cancelled
            /\ \A c \in Codes : c # job.code => pairings'[c] = pairings[c]
        BY <4>1 DEF PairingRecords
      <4>3. ASSUME NEW v \in Stored(mem), made[v].code # None, Kept(made[v].code)'
            PROVE  made[v].code # job.code
        <5>1. Kept(made[v].code)
          BY <1>2, <1>13, <1>14, <2>1, <4>3 DEF Kept
        <5>2. pairings[made[v].code].claimed = v /\ v # None
          BY <2>1, <4>3, <5>1 DEF IInv, ClaimWhole, PairingParameters, Ids
        <5>. QED
          BY <4>1, <5>2 DEF Held, Unclaimed
      <4>4. ASSUME NEW v \in Stored(mem), made[v].code # None, Kept(made[v].code)'
            PROVE  /\ pairings'[made[v].code].claimed = v
                   /\ pairings'[made[v].code].confirmed /\ ~pairings'[made[v].code].cancelled
        <5>1. pairings'[made[v].code] = pairings[made[v].code]
          BY <1>14, <2>1, <4>2, <4>3, <4>4
        <5>. QED
          <6>1. v \in Stored(mem) /\ made[v].code # None /\ Kept(made[v].code)
            BY <1>2, <2>1, <4>4, <5>1 DEF Kept
          <6>. QED
            BY <1>2, <5>1, <6>1 DEF IInv, ClaimWhole
      <4>5. /\ pairings'[made[t].code].claimed = t
            /\ pairings'[made[t].code].confirmed /\ ~pairings'[made[t].code].cancelled
        BY <4>1, <4>2 DEF Held
      <4>. QED
        BY <1>2, <3>1, <4>4, <4>5 DEF ClaimWhole
    <3>. QED
      BY <3>2, <3>3
  <2>. QED
    BY <2>2, <2>3
<1>. QED
  BY <1>6, <1>10, <1>11, <1>12, <1>15, <1>16 DEF IInv

LEMMA RestartStep ==
  ASSUME PairingParameters, IInv, TypeOK', Restart
  PROVE  IInv'
<1>1. /\ pairings' = [c \in Codes |-> IF Kept(c) THEN Gone ELSE pairings[c]]
      /\ mem' = file /\ pairingLock' = None /\ storeLock' = None
      /\ calls' = [g \in Tasks |-> Idle]
      /\ UNCHANGED <<file, made, told, asked>>
  BY DEF Restart, history
<1>2. CallInv' /\ LockInv'
  <2>1. \A g \in Tasks : calls'[g].pc = "idle"
    BY <1>1 DEF Idle, Call
  <2>. QED
    BY <1>1, <2>1, EarlyCall DEF CallInv, LockInv
<1>3. FileInv' /\ MemInv'
  BY <1>1, FileBecomesMem
<1>4. ToldInv'
  <2>1. \A t \in Ids : told[t] # {} /\ t \notin asked => t \in Stored(file)
    BY AheadFollows DEF IInv, FileInv, TypeOK
  <2>2. Stored(mem)' = Stored(file)
    BY <1>1 DEF Stored
  <2>. QED
    BY <1>1, <2>1, <2>2 DEF IInv, ToldInv
<1>5. \A c \in Codes : /\ ~Kept(c)'
                       /\ pairings[c].state # "unborn" => pairings'[c].state # "unborn"
  BY <1>1 DEF Kept, Gone, Unborn
<1>6. \A t \in Ids : made[t] # None /\ made[t].code # None => made[t].code \in Codes
  BY DEF IInv, TypeOK, Option, TargetRecords
<1>7. MadeInv'
  BY <1>1, <1>5, <1>6 DEF IInv, MadeInv
<1>8. ClaimWhole'
  <2>1. \A t \in Stored(file) : t \in Ids /\ made[t] # None
    BY AheadFollows DEF IInv, FileInv, TypeOK, Stored, Database, Option
  <2>. QED
    BY <1>1, <1>5, <1>6, <2>1 DEF ClaimWhole, Stored
<1>. QED
  BY <1>2, <1>3, <1>4, <1>7, <1>8 DEF IInv

(***************************************************************************)
(* The theorems.                                                           *)
(***************************************************************************)

LEMMA NextInv ==
  ASSUME PairingParameters, IInv, [Next]_vars
  PROVE  IInv'
<1>. Handlers \subseteq Tasks /\ Cleaner \in Tasks
  BY DEF Tasks
<1>0. TypeOK'
  BY NextTypes DEF IInv
<1>1. CASE UNCHANGED vars
  <2>1. PairingsFollow /\ \A c \in Codes : Held(c) => Held(c)'
    BY <1>1 DEF vars, PairingsFollow, Held, Unclaimed, Kept
  <2>. QED
    BY <1>0, <1>1, <2>1, PairingStep DEF vars
<1>2. CASE Environment
  BY <1>0, <1>2, PairingSteps, RestartStep DEF Environment
<1>3. ASSUME NEW h \in Handlers, Serve(h) \/ Drop(h)  PROVE IInv'
  <2>1. Close \in Jobs \ Claims /\ \A d \in Devices : CreateTarget(d) \in Jobs \ Claims
    BY JobTypes DEF Close, CreateTarget, Claims
  <2>2. \A t \in Ids : DeleteTarget(t) \in Jobs \ Claims
    BY JobTypes DEF DeleteTarget, Claims
  <2>. QED
    BY <1>0, <1>3, <2>1, <2>2, BeginSteps, EndSteps DEF Serve
<1>4. CASE Begins(Cleaner, Touch)
  <2>1. Touch \in Jobs \ Claims
    BY JobTypes DEF Touch, Claims
  <2>. QED
    BY <1>0, <1>4, <2>1, BeginSteps
<1>5. ASSUME NEW h \in Tasks, Transaction(h)  PROVE IInv'
  BY <1>0, <1>5, AddsStep, ChangesStep, RenameStep, EndSteps, PublishedStep DEF Transaction
<1>. QED
  BY <1>1, <1>2, <1>3, <1>4, <1>5 DEF Next

LEMMA InitInv == ASSUME PairingParameters, Init PROVE IInv
<1>1. TypeOK
  BY InitTypes
<1>2. CallInv /\ LockInv
  BY DEF Init, CallInv, CallOK, Working, AtWork, At, Idle, Call, LockInv
<1>3. FileInv /\ MemInv /\ ToldInv /\ ClaimWhole
  BY DEF Init, FileInv, Ahead, MemInv, ToldInv, ClaimWhole, Stored
<1>4. MadeInv
  BY DEF Init, MadeInv
<1>. QED
  BY <1>1, <1>2, <1>3, <1>4 DEF IInv

LEMMA Inductive == Spec => []IInv
BY PairingParameters, InitInv, NextInv, PTL DEF Spec

\* The pairing that a stored target came out of is marked as claimed by it
\* (PairingRuntime::claim: the commit and the mark are one).
THEOREM ClaimIsWhole == Spec => []ClaimWhole
<1>1. IInv => ClaimWhole
  BY DEF IInv
<1>. QED
  BY <1>1, Inductive, PTL

\* A computer is a target at most once, in memory and in the file (the conflict that
\* claim and create_target look for under the lock).
THEOREM OneTargetPerDevice == Spec => []OnePerDevice
<1>1. IInv => OnePerDevice
  BY PairingParameters, AheadFollows DEF IInv, MemInv, FileInv, OnePerDevice, TypeOK
<1>. QED
  BY <1>1, Inductive, PTL

\* Whoever was told that it is a target, is one in memory and in the file (claim).
THEOREM AnswersAreKept == Spec => []AnswersKept
<1>1. IInv => AnswersKept
  BY PairingParameters, AheadFollows DEF IInv, ToldInv, FileInv, AnswersKept, TypeOK
<1>. QED
  BY <1>1, Inductive, PTL

\* Whoever holds a lock is at work, or waits for somebody who is (claim over
\* update_wake).
THEOREM LocksAreFreed == Spec => []LocksComeFree
<1>1. ASSUME IInv  PROVE LocksComeFree
  <2>1. storeLock # None => AtWork(storeLock)
    BY <1>1 DEF IInv, LockInv
  <2>2. pairingLock # None /\ ~AtWork(pairingLock) => At(pairingLock, "queue")
    BY <1>1 DEF IInv, LockInv, Working
  <2>. QED
    BY <2>1, <2>2 DEF LocksComeFree
<1>. QED
  BY <1>1, Inductive, PTL
=============================================================================

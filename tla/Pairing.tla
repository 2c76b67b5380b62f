-------------------------------- MODULE Pairing --------------------------------
(***************************************************************************)
(* Pairing a computer with the wake service of one account                 *)
(* (wake/pairing.rs): a desktop creates a pairing, the phone confirms it,  *)
(* the desktop claims it and so becomes a target that can be woken.        *)
(*                                                                         *)
(* The lock of PairingRuntime is held over update_wake, which waits for    *)
(* user_store_write and writes the file; what else goes through            *)
(* update_wake does not take the first lock.  A step is what a handler     *)
(* does between two awaits.  Resolve and status only read.  The limits on  *)
(* pairings and wrong proofs of a window only ever refuse a call, and any  *)
(* call of the model may not happen: they are left out.  What becomes of a *)
(* target once it is there, its token rotated and its agent changed, is    *)
(* WakeServer's.                                                           *)
(***************************************************************************)
EXTENDS Integers, FiniteSets

CONSTANTS
  Devices,       \* device ids of computers
  Sessions,      \* login sessions of the account
  Tokens,        \* enrollment tokens that desktops choose
  Handlers,      \* tasks that serve HTTP calls
  Cleaner,       \* the task that runs wake::routes::cleanup
  None

CONSTANTS
  MaxOpen,       \* pairings neither claimed nor cancelled
  MaxTargets     \* targets of the account

CONSTANTS        \* bounds of the model
  MaxCodes,      \* pairings ever created
  MaxIds         \* targets ever made

Codes == 1 .. MaxCodes
Ids == 1 .. MaxIds
Tasks == Handlers \cup {Cleaner}
Option(S) == S \cup {None}

\* device_id and token_hash of a WakeTarget, and the pairing it comes from.
TargetRecords ==
  [code : Option(Codes), device : Option(Devices), token : Option(Tokens)]

ASSUME PairingParameters ==
  /\ {MaxOpen, MaxTargets, MaxCodes, MaxIds} \subseteq Nat
  /\ None \notin Nat \cup Tokens \cup Devices \cup Sessions \cup Tasks
  /\ None \notin TargetRecords
  /\ \A S \in SUBSET Ids : S # None
  /\ Cleaner \notin Handlers

VARIABLES
  pairings,      \* PairingRuntime.sessions, with those that are gone
  pairingLock,   \* the lock of PairingRuntime: the task that holds it
  mem,           \* the account's targets in AppState.users; None: no account
  file,          \* the same in the file
  storeLock,     \* user_store_write
  live,          \* sessions of the account that are valid
  calls          \* what each task is in the middle of

VARIABLES        \* what has happened so far
  made,          \* the target of each id
  told,          \* the tokens whose holders were told that they are target t
  asked          \* targets whose deletion was asked for

history == <<made, told, asked>>
vars == <<pairings, pairingLock, mem, file, storeLock, live, calls, made, told, asked>>

PairingRecords ==
  [state : {"unborn", "kept", "gone"}, device : Option(Devices),
   creator : Option(Sessions), expired : BOOLEAN, confirmed : BOOLEAN,
   cancelled : BOOLEAN, claimed : Option(Ids)]
Unborn ==
  [state |-> "unborn", device |-> None, creator |-> None, expired |-> FALSE,
   confirmed |-> FALSE, cancelled |-> FALSE, claimed |-> None]
Gone == [Unborn EXCEPT !.state = "gone"]

Database == Option(SUBSET Ids)
Stored(db) == IF db = None THEN {} ELSE db

-----------------------------------------------------------------------------
(* Calls that go through update_wake or delete the account *)

Claim(c, k, s) == [op |-> "claim", code |-> c, token |-> k, session |-> s]
CreateTarget(d) == [op |-> "create", device |-> d]
DeleteTarget(t) == [op |-> "delete", target |-> t]
Close == [op |-> "close"]        \* delete_account
Touch == [op |-> "touch"]        \* a change that leaves the list of targets

Claims == [op : {"claim"}, code : Codes, token : Tokens, session : Sessions]
Jobs == Claims \cup {Close, Touch} \cup [op : {"create"}, device : Devices]
               \cup [op : {"delete"}, target : Ids]

Call(pc, job, target, snap) ==
  [pc |-> pc, job |-> job, target |-> target, snap |-> snap]
Idle == Call("idle", Touch, None, None)
Calls ==
       [pc : {"idle", "queue", "writing", "renamed"}, job : Jobs,
        target : Option(Ids), snap : Database]
  \cup [pc : {"wait"}, job : Claims, target : {None}, snap : {None}]

At(h, pc) == calls[h].pc = pc
Goto(h, call) == calls' = [calls EXCEPT ![h] = call]
Claiming(h) == calls[h].job.op = "claim"

\* What h holds of the two locks when its call ends.
Released(h) ==
  /\ pairingLock' = IF pairingLock = h THEN None ELSE pairingLock
  /\ storeLock' = IF storeLock = h THEN None ELSE storeLock
Ends(h) == Released(h) /\ Goto(h, Idle)

Init ==
  /\ pairings = [c \in Codes |-> Unborn]
  /\ pairingLock = None /\ storeLock = None
  /\ mem = {} /\ file = {}
  /\ live = Sessions
  /\ calls = [h \in Tasks |-> Idle]
  /\ made = [t \in Ids |-> None] /\ told = [t \in Ids |-> {}] /\ asked = {}

-----------------------------------------------------------------------------
(* Pairing::valid, PairingRuntime::prune *)

Kept(c) == pairings[c].state = "kept"
Unclaimed(c) == Kept(c) /\ pairings[c].claimed = None
CreatorValid(c) == mem # None /\ pairings[c].creator \in live
Valid(c) ==
  /\ Kept(c) /\ ~pairings[c].expired /\ ~pairings[c].cancelled
  /\ CreatorValid(c)

Pruned == [c \in Codes |-> IF Kept(c) /\ pairings[c].expired THEN Gone
                           ELSE pairings[c]]

-----------------------------------------------------------------------------
(* Calls that need only the pairing lock.  Their session was valid when they *)
(* began; by the time they get the lock it may have ended.                   *)

CreateRefused ==
  /\ pairingLock = None
  /\ pairings' = Pruned
  /\ UNCHANGED <<pairingLock, mem, file, storeLock, live, calls, history>>

Create(s, d, c) ==
  /\ pairingLock = None
  /\ pairings[c] = Unborn /\ \A b \in Codes : b < c => pairings[b] # Unborn
  /\ Cardinality({b \in Codes : /\ Unclaimed(b) /\ ~pairings[b].expired
                                /\ ~pairings[b].cancelled}) < MaxOpen
  /\ mem # None /\ s \in live
  /\ pairings' = [Pruned EXCEPT ![c] =
                    [Unborn EXCEPT !.state = "kept", !.device = d, !.creator = s]]
  /\ UNCHANGED <<pairingLock, mem, file, storeLock, live, calls, history>>

\* phone_session, for a phone that shows the right proof.
PhoneSession(c) == Valid(c)

Confirm(c) ==
  /\ pairingLock = None
  /\ PhoneSession(c) /\ Unclaimed(c) /\ ~pairings[c].confirmed
  /\ pairings' = [pairings EXCEPT ![c].confirmed = TRUE]
  /\ UNCHANGED <<pairingLock, mem, file, storeLock, live, calls, history>>

Cancel(c) ==
  /\ pairingLock = None
  /\ Valid(c) /\ Unclaimed(c)
  /\ pairings' = [pairings EXCEPT ![c].cancelled = TRUE]
  /\ UNCHANGED <<pairingLock, mem, file, storeLock, live, calls, history>>

CancelAll(s) ==
  /\ pairingLock = None
  /\ pairings' = [c \in Codes |->
       IF Unclaimed(c) /\ pairings[c].creator = s
       THEN [pairings[c] EXCEPT !.cancelled = TRUE] ELSE pairings[c]]
  /\ UNCHANGED <<pairingLock, mem, file, storeLock, live, calls, history>>

-----------------------------------------------------------------------------
(* Claim *)

\* Bound: an id is left for every call that may make a target.
IdsLeft ==
  Cardinality({h \in Tasks : calls[h].job.op \in {"claim", "create"}})
    < Cardinality({t \in Ids : made[t] = None})

ClaimBegins(h, c, k, s) ==
  /\ At(h, "idle") /\ IdsLeft
  /\ mem # None /\ s \in live
  /\ Goto(h, Call("wait", Claim(c, k, s), None, None))
  /\ UNCHANGED <<pairings, pairingLock, mem, file, storeLock, live, history>>

\* desktop_session, and that the phone has confirmed.
Claimable(c) == Valid(c) /\ pairings[c].confirmed

\* Mutant: the lock is given back before update_wake.
LocksBriefly(h) ==
  /\ At(h, "wait") /\ pairingLock = None
  /\ Claimable(calls[h].job.code) /\ Unclaimed(calls[h].job.code)
  /\ Goto(h, Call("queue", calls[h].job, None, None))
  /\ UNCHANGED <<pairings, pairingLock, mem, file, storeLock, live, history>>

Locks(h) ==
  /\ At(h, "wait") /\ pairingLock = None
  /\ Claimable(calls[h].job.code) /\ Unclaimed(calls[h].job.code)
  /\ pairingLock' = h
  /\ Goto(h, Call("queue", calls[h].job, None, None))
  /\ UNCHANGED <<pairings, mem, file, storeLock, live, history>>

\* Mutant: whoever has the desktop's proof is told.
SameClaimOfAny(c, k) == pairings[c].claimed \in Stored(mem)

\* The same desktop again: the answer to its first call was lost.
SameClaim(c, k) ==
  /\ pairings[c].claimed \in Stored(mem)
  /\ made[pairings[c].claimed].token = k

ClaimedAlready(h) ==
  LET c == calls[h].job.code  k == calls[h].job.token IN
  /\ At(h, "wait") /\ pairingLock = None
  /\ Claimable(c) /\ pairings[c].claimed # None
  /\ told' = IF SameClaim(c, k)
             THEN [told EXCEPT ![pairings[c].claimed] = @ \cup {k}] ELSE told
  /\ Goto(h, Idle)
  /\ UNCHANGED <<pairings, pairingLock, mem, file, storeLock, live, made, asked>>

ClaimRefused(h) ==
  /\ At(h, "wait") /\ pairingLock = None
  /\ ~Claimable(calls[h].job.code)
  /\ Goto(h, Idle)
  /\ UNCHANGED <<pairings, pairingLock, mem, file, storeLock, live, history>>

-----------------------------------------------------------------------------
(* update_wake *)

\* Any other call, also of the cleanup.
Begins(h, job) ==
  /\ At(h, "idle") /\ mem # None /\ (job = Touch \/ live # {})
  /\ job.op = "create" => IdsLeft
  /\ Goto(h, Call("queue", job, None, None))
  /\ asked' = CASE job.op = "delete" -> asked \cup {job.target}
                [] job.op = "close" -> Ids
                [] OTHER -> asked
  /\ UNCHANGED <<pairings, pairingLock, mem, file, storeLock, live, made, told>>

DeviceOf(job) == IF job.op = "claim" THEN pairings[job.code].device ELSE job.device

\* Mutant: only the number of targets is looked at.
RoomForAny(device) == Cardinality(mem) < MaxTargets

RoomFor(device) ==
  /\ Cardinality(mem) < MaxTargets
  /\ \A t \in mem : made[t].device # device

\* The mutation, for an account that still is there.
Admitted(job) ==
  /\ mem # None
  /\ job.op = "claim" => Valid(job.code) /\ job.session \in live
  /\ job.op \in {"claim", "create"} => RoomFor(DeviceOf(job))
  /\ job.op = "delete" => job.target \in mem

NewTarget(job) ==
  IF job.op = "claim"
  THEN [code |-> job.code, device |-> DeviceOf(job), token |-> job.token]
  ELSE [code |-> None, device |-> job.device, token |-> None]

\* The snapshot with a target more; its id is the first one not yet given.
Adds(h) ==
  LET job == calls[h].job IN
  /\ At(h, "queue") /\ storeLock = None
  /\ job.op \in {"claim", "create"} /\ Admitted(job)
  /\ storeLock' = h
  /\ \E t \in Ids :
       /\ made[t] = None /\ \A i \in Ids : i < t => made[i] # None
       /\ made' = [made EXCEPT ![t] = NewTarget(job)]
       /\ Goto(h, Call("writing", job, t, mem \cup {t}))
  /\ UNCHANGED <<pairings, pairingLock, mem, file, live, told, asked>>

Without(job) ==
  CASE job.op = "delete" -> mem \ {job.target}
    [] job.op = "close" -> None
    [] job.op = "touch" -> mem

Changes(h) ==
  LET job == calls[h].job IN
  /\ At(h, "queue") /\ storeLock = None
  /\ job.op \notin {"claim", "create"} /\ Admitted(job)
  /\ storeLock' = h
  /\ Goto(h, Call("writing", job, None, Without(job)))
  /\ UNCHANGED <<pairings, pairingLock, mem, file, live, history>>

Refused(h) ==
  /\ At(h, "queue") /\ storeLock = None
  /\ ~Admitted(calls[h].job)
  /\ Ends(h)
  /\ UNCHANGED <<pairings, mem, file, live, history>>

Rename(h) ==
  /\ At(h, "writing")
  /\ file' = calls[h].snap
  /\ Goto(h, [calls[h] EXCEPT !.pc = "renamed"])
  /\ UNCHANGED <<pairings, pairingLock, mem, storeLock, live, history>>

WriteFails(h) ==
  /\ At(h, "writing")
  /\ Ends(h)
  /\ UNCHANGED <<pairings, mem, file, live, history>>

\* users.insert; a claim marks its pairing before it gives back the lock, with no
\* await in between.
Published(h) ==
  LET job == calls[h].job  t == calls[h].target IN
  /\ At(h, "renamed")
  /\ mem' = calls[h].snap
  /\ told' = IF t = None THEN told ELSE [told EXCEPT ![t] = @ \cup {NewTarget(job).token}]
  /\ pairings' = IF job.op = "claim"
                 THEN [pairings EXCEPT ![job.code].claimed = t] ELSE pairings
  /\ live' = IF job.op = "close" THEN {} ELSE live
  /\ Ends(h)
  /\ UNCHANGED <<file, made, asked>>

-----------------------------------------------------------------------------
(* Time, and the cleanup of every 15 seconds *)

Expire(c) ==
  /\ Kept(c) /\ ~pairings[c].expired
  /\ pairings' = [pairings EXCEPT ![c].expired = TRUE]
  /\ UNCHANGED <<pairingLock, mem, file, storeLock, live, calls, history>>

SessionEnds(s) ==
  /\ s \in live
  /\ live' = live \ {s}
  /\ UNCHANGED <<pairings, pairingLock, mem, file, storeLock, calls, history>>

\* Mutant: the cleanup takes the lock of the store first.
SweepUnderStore ==
  \/ /\ At(Cleaner, "idle") /\ storeLock = None
     /\ storeLock' = Cleaner
     /\ Goto(Cleaner, [Idle EXCEPT !.pc = "wait"])
     /\ UNCHANGED <<pairings, pairingLock, mem, file, live, history>>
  \/ /\ At(Cleaner, "wait") /\ pairingLock = None
     /\ pairings' = Pruned
     /\ Ends(Cleaner)
     /\ UNCHANGED <<mem, file, live, history>>

Sweep ==
  /\ At(Cleaner, "idle") /\ pairingLock = None
  /\ pairings' = Pruned
  /\ UNCHANGED <<pairingLock, mem, file, storeLock, live, calls, history>>

-----------------------------------------------------------------------------
(* Faults *)

\* The client of h disconnects: its handler is dropped where it awaits, with the
\* locks it holds (Accounts says what is assumed of a rename on its way).
Drop(h) ==
  /\ h \in Handlers /\ ~At(h, "idle")
  /\ IF At(h, "writing") THEN file' \in {file, calls[h].snap} ELSE UNCHANGED file
  /\ Ends(h)
  /\ UNCHANGED <<pairings, mem, live, history>>

\* The process dies and starts again; auth_sessions.json may lack sessions.
Restart ==
  /\ pairings' = [c \in Codes |-> IF Kept(c) THEN Gone ELSE pairings[c]]
  /\ mem' = file
  /\ live' \in SUBSET live
  /\ pairingLock' = None /\ storeLock' = None
  /\ calls' = [h \in Tasks |-> Idle]
  /\ UNCHANGED <<file, history>>

-----------------------------------------------------------------------------

Transaction(h) ==
  Adds(h) \/ Changes(h) \/ Refused(h) \/ Rename(h) \/ WriteFails(h) \/ Published(h)

TakesPairing(h) == Locks(h) \/ ClaimedAlready(h) \/ ClaimRefused(h)

Serve(h) ==
  \/ \E c \in Codes, k \in Tokens, s \in Sessions : ClaimBegins(h, c, k, s)
  \/ TakesPairing(h)
  \/ \E d \in Devices : Begins(h, CreateTarget(d))
  \/ \E t \in Ids : Begins(h, DeleteTarget(t))
  \/ Begins(h, Close)

Environment ==
  \/ CreateRefused \/ Sweep \/ Restart
  \/ \E c \in Codes :
       \/ Confirm(c) \/ Cancel(c) \/ Expire(c)
       \/ \E s \in Sessions, d \in Devices : Create(s, d, c)
  \/ \E s \in Sessions : CancelAll(s) \/ SessionEnds(s)

Next ==
  \/ Environment
  \/ \E h \in Handlers : Serve(h) \/ Drop(h)
  \/ Begins(Cleaner, Touch)
  \/ \E h \in Tasks : Transaction(h)

Spec == Init /\ [][Next]_vars

-----------------------------------------------------------------------------
(* Every variable has its type. *)
TypeOK ==
  /\ pairings \in [Codes -> PairingRecords]
  /\ pairingLock \in Option(Tasks) /\ storeLock \in Option(Tasks)
  /\ mem \in Database /\ file \in Database
  /\ live \subseteq Sessions
  /\ calls \in [Tasks -> Calls]
  /\ made \in [Ids -> Option(TargetRecords)]
  /\ told \in [Ids -> SUBSET Option(Tokens)]
  /\ asked \subseteq Ids

\* As long as the pairing is kept that a target of the account came out of, it is
\* marked as claimed by this target, was confirmed by the phone and not cancelled,
\* whatever was called while the claim waited for the store (claim: the commit to
\* the store and the mark in memory are one).
ClaimWhole ==
  \A t \in Stored(mem) : made[t].code # None /\ Kept(made[t].code) =>
    LET p == pairings[made[t].code] IN p.claimed = t /\ p.confirmed /\ ~p.cancelled

\* A computer is a target at most once, in memory and in the file, though several
\* pairings of it and create_target may be under way, and whatever is dropped.
OnePerDevice ==
  \A db \in {Stored(mem), Stored(file)} :
    \A t, u \in db : made[t].device = made[u].device => t = u

\* Whoever was told that it is a target, is: the target is stored with its token, in
\* memory and in the file, until its deletion is asked for; a desktop that calls again
\* because an answer was lost, hears of the same target.
AnswersKept ==
  \A t \in Ids : told[t] # {} =>
    /\ told[t] = {made[t].token}
    /\ t \notin asked => t \in Stored(mem) /\ t \in Stored(file)

\* No call waits for a lock that does not come free: whoever holds one is writing
\* the file, or waits for the lock of somebody who is.  The lock of the pairings is
\* held while that of the store is awaited, never the other way round, and a call
\* that fails or is dropped leaves none behind.
AtWork(h) == h # None /\ (At(h, "writing") \/ At(h, "renamed"))
LocksComeFree ==
  /\ storeLock # None => AtWork(storeLock)
  /\ pairingLock # None /\ ~AtWork(pairingLock) =>
       At(pairingLock, "queue") /\ (storeLock = None \/ AtWork(storeLock))
=============================================================================

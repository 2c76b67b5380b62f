----------------------------- MODULE WakeServer -----------------------------
(***************************************************************************)
(* The remote-wake service of rdesk_server for one account: the account    *)
(* data of wake/model.rs, the mutations of wake/routes.rs and              *)
(* wake/pairing.rs that go through update_wake (wake/store.rs), and the    *)
(* HTTP calls that read state before they take the store lock and commit   *)
(* after it.                                                               *)
(*                                                                         *)
(* A commit (the closure of update_wake, with the trailing prune and save) *)
(* is one step: user_store_write serialises the closures and no reader     *)
(* sees the account between the rename and users.insert.  Everything a     *)
(* call reads before it holds that lock is captured in its record in       *)
(* calls, so that any other commit may come in between.                    *)
(***************************************************************************)
EXTENDS Integers, FiniteSets

CONSTANTS
  Agents,        \* ids a helper can be given (a random token: never reused)
  Targets,       \* ids a wake target can be given
  Devices,       \* device ids of the computers to be woken
  Handlers,      \* tasks that serve HTTP calls
  Cleaner,       \* the task that runs wake::routes::cleanup
  None,          \* Option::None
  MaxRequests    \* bound: requests ever issued

CONSTANTS
  Validity,      \* expires_at_ms - created_at_ms
  Observe,       \* observe_until_ms - created_at_ms
  FreshFor,      \* age below which a heartbeat or a poll counts as online
  Cooldown,      \* same-target distance between two requests
  RateWindow,    \* window of the account's request limit
  RateMax,       \* requests stored in that window
  KeepFor,       \* age at which a stored request is pruned
  KeepMax,       \* stored requests
  MaxAgents, MaxTargets

CONSTANTS        \* bounds of the model, guards only
  MaxNow,        \* the clock
  LastCreate,    \* last time at which a request is issued
  CleanFrom,     \* first time at which the cleanup runs
  MaxGen,        \* credentials issued to one helper or target
  MaxRev         \* revisions of one target

Requests == 1 .. MaxRequests
Tasks == Handlers \cup {Cleaner}
Option(S) == S \cup {None}

ASSUME NoneAssumption == None \notin Nat \cup Agents \cup Targets
ASSUME CleanerAssumption == Cleaner \notin Handlers
ASSUME TimeAssumption ==
  /\ {Validity, Observe, FreshFor, Cooldown, RateWindow, KeepFor} \subseteq Nat \ {0}
  /\ Validity <= Observe
ASSUME BoundAssumption ==
  {MaxRequests, RateMax, KeepMax, MaxAgents, MaxTargets,
   MaxNow, LastCreate, CleanFrom, MaxGen, MaxRev} \subseteq Nat
\* 10 requests in 60 s and 50 stored, observed for 120 s and kept for a week:
\* those issued while one is observed fall in two windows of the limit.
ASSUME HistoryAssumption ==
  Observe <= 2 * RateWindow /\ Observe <= KeepFor /\ 2 * RateMax <= KeepMax

VARIABLES
  now,           \* now_ms(): the server's clock
  agents,        \* WakeAccountData.agents
  targets,       \* WakeAccountData.targets
  requests,      \* WakeAccountData.requests
  agentSeen,     \* Runtime.agents: last poll of each helper
  targetSeen,    \* Runtime.targets: last heartbeat of each computer
  calls          \* what each task of the server is in the middle of

data == <<agents, targets, requests>>
seen == <<agentSeen, targetSeen>>
vars == <<now, agents, targets, requests, agentSeen, targetSeen, calls>>

-----------------------------------------------------------------------------
(* Account data.  A credential is the number of its issue: the one stored  *)
(* (token_hash) is the last issued, and none is stored for a stopped       *)
(* helper.  An id keeps its record when it is deleted, so that it is never *)
(* issued again.                                                           *)

ActivePhases == {"queued", "claimed", "sent"}
TerminalPhases ==
  {"online", "unconfirmed", "expired", "failed", "cancelled", "interrupted"}

AgentRecords == [status : {"unborn", "enabled", "disabled", "deleted"},
                 gen : Nat]
TargetRecords == [status : {"unborn", "live", "deleted"}, gen : Nat,
                  device : Option(Devices), agent : Option(Agents),
                  rev : Nat, setup : BOOLEAN]
RequestRecords == [phase : ActivePhases \cup TerminalPhases \cup {"unmade", "gone"},
                   target : Option(Targets), agent : Option(Agents), rev : Nat,
                   created : Nat, authorized : Option(Nat), sent : Option(Nat),
                   online : Option(Nat)]

Active(r) == requests[r].phase \in ActivePhases
Stored(r) == requests[r].phase \notin {"unmade", "gone"}
Expires(r) == requests[r].created + Validity

AgentListed(a) == agents[a].status \in {"enabled", "disabled"}
Enabled(a) == a \in Agents /\ agents[a].status = "enabled"
Listed(t) == targets[t].status = "live"

\* device_owner: the credential is the one stored for an enabled helper,
\* or for a listed target.
AgentToken(a, gen) == Enabled(a) /\ agents[a].gen = gen
TargetToken(t, gen) == Listed(t) /\ targets[t].gen = gen

Fresh(time) == time # None /\ now - time < FreshFor

-----------------------------------------------------------------------------
(* wake/model.rs *)

ObservedOnline(q, beat, at) ==
  /\ q.sent # None
  /\ beat # None
  /\ beat > q.created /\ beat <= at /\ at - beat < FreshFor

\* WakeRequest::advance at time at, beat the target's last heartbeat.
Advance(q, at, beat) ==
  IF q.phase = "sent"
  THEN IF ObservedOnline(q, beat, at)
       THEN [q EXCEPT !.phase = "online", !.online = beat]
       ELSE IF at >= q.created + Observe
       THEN [q EXCEPT !.phase = "unconfirmed"]
       ELSE q
  ELSE IF q.phase \in {"queued", "claimed"} /\ at >= q.created + Validity
  THEN [q EXCEPT !.phase = "expired"]
  ELSE q

\* The order of the stored list: newest first, ties in order of insertion.
Before(rs, q, r) ==
  \/ rs[q].created > rs[r].created
  \/ rs[q].created = rs[r].created /\ q < r

\* WakeAccountData::prune, which ends every mutation.
Kept(rs) ==
  LET young == {r \in Requests : /\ rs[r].phase \notin {"unmade", "gone"}
                                 /\ now - rs[r].created < KeepFor}
  IN  {r \in young : Cardinality({q \in young : Before(rs, q, r)}) < KeepMax}

Prune(rs) ==
  LET kept == Kept(rs)
  IN  [r \in Requests |-> IF r \in kept \/ rs[r].phase = "unmade"
                          THEN rs[r]
                          ELSE [rs[r] EXCEPT !.phase = "gone"]]

\* The active requests in S get the phase given.
Finish(S, phase) ==
  [r \in Requests |-> IF Active(r) /\ r \in S
                      THEN [requests[r] EXCEPT !.phase = phase]
                      ELSE requests[r]]

OfTarget(t) == {r \in Requests : requests[r].target = t}
OfAgent(a) == {r \in Requests : requests[r].agent = a}

\* Mutant: what is already claimed is left running.
CancelUnclaimed(t) ==
  Finish({r \in OfTarget(t) : requests[r].phase = "queued"}, "cancelled")

CancelTarget(t) == Finish(OfTarget(t), "cancelled")
CancelAgent(a) == Finish(OfAgent(a), "cancelled")

-----------------------------------------------------------------------------
(* Calls in progress. *)

Idle == [op |-> "idle"]

Call ==
       {Idle}
  \cup [op : {"advance"}, at : Nat, beats : [Targets -> Option(Nat)],
        then : Option(Targets)]
  \cup [op : {"create"}, target : Targets]
  \cup [op : {"seen", "loop", "look", "claim", "disable"},
        agent : Agents, gen : Nat]
  \cup [op : {"authorize"}, agent : Agents, gen : Nat, req : Requests]
  \cup [op : {"result"}, agent : Agents, gen : Nat, req : Requests,
        outcome : {"sent", "failed"}]
  \cup [op : {"beat"}, target : Targets, gen : Nat]
  \cup [op : {"forgetAgent"}, agent : Agents]
  \cup [op : {"forgetTarget"}, target : Targets]
  \cup [op : {"retain"}, at : Nat, agents : SUBSET Agents, targets : SUBSET Targets]

Begin(h, call) == calls[h] = Idle /\ calls' = [calls EXCEPT ![h] = call]
Proceed(h, call) == calls' = [calls EXCEPT ![h] = call]
End(h) == calls' = [calls EXCEPT ![h] = Idle]

UnmadeRequest ==
  [phase |-> "unmade", target |-> None, agent |-> None, rev |-> 0, created |-> 0,
   authorized |-> None, sent |-> None, online |-> None]

Init ==
  /\ now = 0
  /\ agents = [a \in Agents |-> [status |-> "unborn", gen |-> 0]]
  /\ targets = [t \in Targets |->
                  [status |-> "unborn", gen |-> 0, device |-> None,
                   agent |-> None, rev |-> 0, setup |-> FALSE]]
  /\ requests = [r \in Requests |-> UnmadeRequest]
  /\ agentSeen = [a \in Agents |-> None]
  /\ targetSeen = [t \in Targets |-> None]
  /\ calls = [h \in Tasks |-> Idle]

-----------------------------------------------------------------------------
(* The account's own calls: one commit each, then (outside the lock) the   *)
(* removal of the runtime entry.                                           *)

CreateAgent(a) ==
  /\ agents[a].status = "unborn"
  /\ Cardinality({b \in Agents : AgentListed(b)}) < MaxAgents
  /\ agents' = [agents EXCEPT ![a] = [status |-> "enabled", gen |-> 1]]
  /\ requests' = Prune(requests)
  /\ UNCHANGED <<now, targets, seen, calls>>

AddTarget(t, d, a, setup) ==
  /\ targets[t].status = "unborn"
  /\ Cardinality({u \in Targets : Listed(u)}) < MaxTargets
  /\ \A u \in Targets : Listed(u) => targets[u].device # d
  /\ targets' = [targets EXCEPT ![t] =
                   [status |-> "live", gen |-> 1, device |-> d, agent |-> a,
                    rev |-> 1, setup |-> setup]]
  /\ requests' = Prune(requests)
  /\ UNCHANGED <<now, agents, seen, calls>>

CreateTarget(t, d, a) == Enabled(a) /\ AddTarget(t, d, a, TRUE)

\* pairing.rs claim: a target with no helper yet, to be completed.
EnrollTarget(t, d) == AddTarget(t, d, None, FALSE)

\* A new binding is a new revision; what was asked for the old one is cancelled.
Rebind(t, a, setup) ==
  /\ Enabled(a)
  /\ Listed(t)
  /\ targets[t].rev < MaxRev
  /\ targets' = [targets EXCEPT ![t].agent = a, ![t].setup = setup,
                                ![t].rev = @ + 1]
  /\ requests' = Prune(CancelTarget(t))
  /\ UNCHANGED <<now, agents, seen, calls>>

UpdateTarget(t, a) == Rebind(t, a, targets[t].setup)
CompleteSetup(t, a) == Rebind(t, a, TRUE)

DeleteTarget(h, t) ==
  /\ Listed(t)
  /\ targets' = [targets EXCEPT ![t].status = "deleted"]
  /\ requests' = Prune([r \in Requests |->
                          IF Stored(r) /\ requests[r].target = t
                          THEN [requests[r] EXCEPT !.phase = "gone"]
                          ELSE requests[r]])
  /\ Begin(h, [op |-> "forgetTarget", target |-> t])
  /\ UNCHANGED <<now, agents, seen>>

RotateTarget(h, t) ==
  /\ Listed(t)
  /\ targets[t].gen < MaxGen
  /\ targets' = [targets EXCEPT ![t].gen = @ + 1]
  /\ requests' = Prune(requests)
  /\ Begin(h, [op |-> "forgetTarget", target |-> t])
  /\ UNCHANGED <<now, agents, seen>>

DeleteAgent(h, a) ==
  /\ AgentListed(a)
  /\ agents' = [agents EXCEPT ![a].status = "deleted"]
  /\ requests' = Prune(CancelAgent(a))
  /\ Begin(h, [op |-> "forgetAgent", agent |-> a])
  /\ UNCHANGED <<now, targets, seen>>

\* stop_helper, reached with no expected credential by the account.
StopHelper(a) ==
  /\ AgentListed(a)
  /\ agents' = [agents EXCEPT ![a].status = "disabled"]
  /\ requests' = Prune(CancelAgent(a))

StopAgent(h, a) ==
  /\ StopHelper(a)
  /\ Begin(h, [op |-> "forgetAgent", agent |-> a])
  /\ UNCHANGED <<now, targets, seen>>

EnableAgent(h, a) ==
  /\ AgentListed(a)
  /\ agents[a].gen < MaxGen
  /\ agents' = [agents EXCEPT ![a].status = "enabled", ![a].gen = @ + 1]
  /\ requests' = Prune(CancelAgent(a))
  /\ Begin(h, [op |-> "forgetAgent", agent |-> a])
  /\ UNCHANGED <<now, targets, seen>>

\* The runtime entry goes after the commit, when its lock is already free.
Forget(h) ==
  /\ \/ /\ calls[h].op = "forgetAgent"
        /\ agentSeen' = [agentSeen EXCEPT ![calls[h].agent] = None]
        /\ UNCHANGED targetSeen
     \/ /\ calls[h].op = "forgetTarget"
        /\ targetSeen' = [targetSeen EXCEPT ![calls[h].target] = None]
        /\ UNCHANGED agentSeen
  /\ End(h)
  /\ UNCHANGED <<now, data>>

-----------------------------------------------------------------------------
(* Calls that advance the account first: the clock and the heartbeats are  *)
(* read before the lock, and used after it.  The code reads them one after *)
(* the other: a heartbeat in between would be later than the clock that is *)
(* captured, and observed_online does not take it for one.                 *)

AdvanceDue(beats) ==
  \E r \in Requests :
    /\ Stored(r)
    /\ \/ Advance(requests[r], now, beats[requests[r].target]) # requests[r]
       \/ now - requests[r].created >= KeepFor

AdvanceCall(t, beats) == [op |-> "advance", at |-> now, beats |-> beats, then |-> t]

\* A read of the account (targets, request_status, history) or, with a
\* target, create_request.
Read(h) ==
  /\ AdvanceDue(targetSeen)
  /\ Begin(h, AdvanceCall(None, targetSeen))
  /\ UNCHANGED <<now, data, seen>>

AskWake(h, t) ==
  /\ Begin(h, IF AdvanceDue(targetSeen) THEN AdvanceCall(t, targetSeen)
                            ELSE [op |-> "create", target |-> t])
  /\ UNCHANGED <<now, data, seen>>

\* cleanup, every 15 seconds: it collects the ids of what there is.
Cleanup ==
  /\ CleanFrom <= now
  /\ Begin(Cleaner, [op |-> "retain", at |-> now,
                     agents |-> {a \in Agents : AgentListed(a)},
                     targets |-> {t \in Targets : Listed(t)}])
  /\ UNCHANGED <<now, data, seen>>

\* Mutant: it looks only at the age of an entry.
RetainsByAge(map, x, live) == map[x] # None /\ calls[Cleaner].at - map[x] < KeepFor

\* Mutant: the requests are left to their readers.
Unadvanced(beats) == Idle

\* Then it drops the runtime entries of all others, whether their ids were not there
\* yet or are gone, and advances the account.  An id deleted in between keeps its
\* entry until the next time.
Retains(map, x, live) ==
  x \in live /\ map[x] # None /\ calls[Cleaner].at - map[x] < KeepFor
Advancing(beats) == IF AdvanceDue(beats) THEN AdvanceCall(None, beats) ELSE Idle
Retain ==
  LET call == calls[Cleaner]
      beats == [t \in Targets |->
                  IF Retains(targetSeen, t, call.targets) THEN targetSeen[t] ELSE None]
  IN  /\ call.op = "retain"
      /\ agentSeen' = [a \in Agents |->
           IF Retains(agentSeen, a, call.agents) THEN agentSeen[a] ELSE None]
      /\ targetSeen' = beats
      /\ Proceed(Cleaner, Advancing(beats))
      /\ UNCHANGED <<now, data>>

AdvanceCommit(h) ==
  /\ calls[h].op = "advance"
  /\ requests' = Prune([r \in Requests |->
                   IF Stored(r)
                   THEN Advance(requests[r], calls[h].at,
                                calls[h].beats[requests[r].target])
                   ELSE requests[r]])
  /\ Proceed(h, IF calls[h].then = None THEN Idle
                ELSE [op |-> "create", target |-> calls[h].then])
  /\ UNCHANGED <<now, agents, targets, seen>>

-----------------------------------------------------------------------------
(* create_request, once the account has been advanced. *)

Recent(window) == {r \in Requests : Stored(r) /\ now - requests[r].created < window}

RateLimited(t) ==
  \/ Cardinality(Recent(RateWindow)) >= RateMax
  \/ \E r \in Recent(Cooldown) : requests[r].target = t

\* Mutant: a request whose packets are sent no longer counts as active.
PendingFor(t) == {r \in Requests : /\ requests[r].phase \in {"queued", "claimed"}
                                 /\ requests[r].target = t}

ActiveFor(t) == {r \in Requests : Active(r) /\ requests[r].target = t}

NewRequest(t) ==
  [phase |-> "queued", target |-> t, agent |-> targets[t].agent,
   rev |-> targets[t].rev, created |-> now,
   authorized |-> None, sent |-> None, online |-> None]

Issue(h, r) ==
  LET t == calls[h].target
  IN  /\ calls[h].op = "create"
      /\ Listed(t) /\ targets[t].setup
      /\ ActiveFor(t) = {}
      /\ ~Fresh(targetSeen[t])
      /\ Enabled(targets[t].agent) /\ Fresh(agentSeen[targets[t].agent])
      /\ ~RateLimited(t)
      /\ now <= LastCreate
      /\ requests[r].phase = "unmade"
      /\ \A q \in Requests : q < r => requests[q].phase # "unmade"
      /\ requests' = Prune([requests EXCEPT ![r] = NewRequest(t)])
      /\ End(h)
      /\ UNCHANGED <<now, agents, targets, seen>>

\* The target's active request is the answer.
Deduplicate(h) ==
  /\ calls[h].op = "create"
  /\ Listed(calls[h].target) /\ targets[calls[h].target].setup
  /\ ActiveFor(calls[h].target) # {}
  /\ requests' = Prune(requests)
  /\ End(h)
  /\ UNCHANGED <<now, agents, targets, seen>>

-----------------------------------------------------------------------------
(* The helper's calls.  Its credential is checked before the lock. *)

Poll(h, a, gen) ==
  /\ AgentToken(a, gen)
  /\ Begin(h, [op |-> "seen", agent |-> a, gen |-> gen])
  /\ UNCHANGED <<now, data, seen>>

PollSeen(h) ==
  /\ calls[h].op = "seen"
  /\ agentSeen' = [agentSeen EXCEPT ![calls[h].agent] = now]
  /\ Proceed(h, [calls[h] EXCEPT !.op = "loop"])
  /\ UNCHANGED <<now, data, targetSeen>>

\* The credential is checked again on every turn of the long poll.
PollLoop(h) ==
  /\ calls[h].op = "loop"
  /\ AgentToken(calls[h].agent, calls[h].gen)
  /\ Proceed(h, [calls[h] EXCEPT !.op = "look"])
  /\ UNCHANGED <<now, data, seen>>

Claimable(a, r) ==
  /\ requests[r].agent = a
  /\ requests[r].phase \in {"queued", "claimed"}
  /\ requests[r].authorized = None
  /\ now < Expires(r)

PollLook(h) ==
  /\ calls[h].op = "look"
  /\ Proceed(h, [calls[h] EXCEPT !.op =
                   IF \E r \in Requests : Claimable(calls[h].agent, r)
                   THEN "claim" ELSE "loop"])
  /\ UNCHANGED <<now, data, seen>>

BoundTo(r, a) ==
  LET t == requests[r].target
  IN  Listed(t) /\ targets[t].agent = a /\ targets[t].rev = requests[r].rev

\* The first claimable request of the list is handed to the helper.
Claim(h, r) ==
  LET a == calls[h].agent
  IN  /\ calls[h].op = "claim"
      /\ Enabled(a)
      /\ Claimable(a, r)
      /\ \A q \in Requests : Claimable(a, q) => ~Before(requests, q, r)
      /\ BoundTo(r, a)
      /\ requests' = Prune([requests EXCEPT ![r].phase = "claimed"])
      /\ End(h)
      /\ UNCHANGED <<now, agents, targets, seen>>

\* owner_for_request
RequestToken(a, gen, r) == Stored(r) /\ requests[r].agent = a /\ AgentToken(a, gen)

Authorize(h, a, gen, r) ==
  /\ RequestToken(a, gen, r)
  /\ Begin(h, [op |-> "authorize", agent |-> a, gen |-> gen, req |-> r])
  /\ UNCHANGED <<now, data, seen>>

\* Mutant: a second call gets a second permit.
AuthorizeAgain(a, r) ==
  /\ Enabled(a)
  /\ Stored(r)
  /\ now < Expires(r)
  /\ requests[r].phase = "claimed"
  /\ BoundTo(r, a)

AuthorizeAllowed(a, r) ==
  /\ Enabled(a)
  /\ Stored(r)
  /\ now < Expires(r)
  /\ requests[r].phase = "claimed" /\ requests[r].authorized = None
  /\ BoundTo(r, a)

AuthorizeCommit(h) ==
  /\ calls[h].op = "authorize"
  /\ AuthorizeAllowed(calls[h].agent, calls[h].req)
  /\ requests' = Prune([requests EXCEPT ![calls[h].req].authorized = now])
  /\ End(h)
  /\ UNCHANGED <<now, agents, targets, seen>>

Result(h, a, gen, r, outcome) ==
  /\ RequestToken(a, gen, r)
  /\ Begin(h, [op |-> "result", agent |-> a, gen |-> gen, req |-> r,
               outcome |-> outcome])
  /\ UNCHANGED <<now, data, seen>>

ResultKnown(a, r) ==
  /\ Enabled(a)
  /\ requests[r].phase \in {"sent", "online", "unconfirmed", "failed"}

\* Mutants: a receipt without a permit; a receipt for what has ended.
ResultUnauthorized(a, r, outcome) ==
  /\ Enabled(a)
  /\ requests[r].phase = "claimed"
  /\ now < Expires(r)
ResultLate(a, r, outcome) ==
  /\ Enabled(a)
  /\ Stored(r) /\ requests[r].phase # "queued"
  /\ outcome = "sent" => requests[r].authorized # None
  /\ now < Expires(r)

ResultAllowed(a, r, outcome) ==
  /\ Enabled(a)
  /\ requests[r].phase = "claimed"
  /\ outcome = "sent" => requests[r].authorized # None
  /\ now < Expires(r)

Reported(r, outcome) ==
  IF outcome = "sent"
  THEN Advance([requests[r] EXCEPT !.phase = "sent", !.sent = now],
               now, targetSeen[requests[r].target])
  ELSE [requests[r] EXCEPT !.phase = "failed"]

ResultCommit(h) ==
  LET a == calls[h].agent
      r == calls[h].req
  IN  /\ calls[h].op = "result"
      /\ \/ /\ ResultKnown(a, r)
            /\ requests' = Prune(requests)
         \/ /\ ResultAllowed(a, r, calls[h].outcome)
            /\ requests' = Prune([requests EXCEPT ![r] =
                                    Reported(r, calls[h].outcome)])
      /\ End(h)
      /\ UNCHANGED <<now, agents, targets, seen>>

\* disable_agent: the helper stops itself with its own credential, which is
\* compared again under the lock.
Disable(h, a, gen) ==
  /\ AgentToken(a, gen)
  /\ Begin(h, [op |-> "disable", agent |-> a, gen |-> gen])
  /\ UNCHANGED <<now, data, seen>>

\* Mutant: the credential is not compared again under the lock.
DisableLate(h) ==
  /\ calls[h].op = "disable"
  /\ StopHelper(calls[h].agent)
  /\ Proceed(h, [op |-> "forgetAgent", agent |-> calls[h].agent])
  /\ UNCHANGED <<now, targets, seen>>

DisableCommit(h) ==
  /\ calls[h].op = "disable"
  /\ AgentToken(calls[h].agent, calls[h].gen)
  /\ StopHelper(calls[h].agent)
  /\ Proceed(h, [op |-> "forgetAgent", agent |-> calls[h].agent])
  /\ UNCHANGED <<now, targets, seen>>

Heartbeat(h, t, gen) ==
  /\ TargetToken(t, gen)
  /\ Begin(h, [op |-> "beat", target |-> t, gen |-> gen])
  /\ UNCHANGED <<now, data, seen>>

HeartbeatSeen(h) ==
  /\ calls[h].op = "beat"
  /\ targetSeen' = [targetSeen EXCEPT ![calls[h].target] = now]
  /\ End(h)
  /\ UNCHANGED <<now, data, agentSeen>>

-----------------------------------------------------------------------------
\* A call that ends without a commit: refused by a guard, failed by the
\* store, timed out, or dropped with its connection.
Abandon(h) ==
  /\ calls[h].op \notin
       {"idle", "seen", "look", "beat", "forgetAgent", "forgetTarget", "retain"}
  /\ End(h)
  /\ UNCHANGED <<now, data, seen>>

\* recover_after_restart.
Recovered ==
  LET p == Prune(requests)
  IN  [r \in Requests |-> IF p[r].phase \in ActivePhases
                          THEN [p[r] EXCEPT !.phase = "interrupted"] ELSE p[r]]

\* The process dies and starts again: load_users.
Restart ==
  /\ requests' = Recovered
  /\ agentSeen' = [a \in Agents |-> None]
  /\ targetSeen' = [t \in Targets |-> None]
  /\ calls' = [h \in Tasks |-> Idle]
  /\ UNCHANGED <<now, agents, targets>>

Tick ==
  /\ now < MaxNow
  /\ now' = now + 1
  /\ UNCHANGED <<data, seen, calls>>

AccountStep(h) ==
  \/ \E a \in Agents : \/ CreateAgent(a) \/ DeleteAgent(h, a)
                       \/ StopAgent(h, a) \/ EnableAgent(h, a)
  \/ \E t \in Targets : \/ DeleteTarget(h, t) \/ RotateTarget(h, t)
                        \/ AskWake(h, t)
                        \/ \E d \in Devices : EnrollTarget(t, d)
                        \/ \E a \in Agents : \/ UpdateTarget(t, a)
                                             \/ CompleteSetup(t, a)
                                             \/ \E d \in Devices : CreateTarget(t, d, a)
  \/ Read(h)

DeviceStep(h) ==
  \/ \E a \in Agents, gen \in 1 .. MaxGen :
       \/ Poll(h, a, gen) \/ Disable(h, a, gen)
       \/ \E r \in Requests :
            \/ Authorize(h, a, gen, r)
            \/ \E outcome \in {"sent", "failed"} : Result(h, a, gen, r, outcome)
  \/ \E t \in Targets, gen \in 1 .. MaxGen : Heartbeat(h, t, gen)

Serve(h) ==
  \/ Forget(h) \/ AdvanceCommit(h) \/ Deduplicate(h)
  \/ PollSeen(h) \/ PollLoop(h) \/ PollLook(h)
  \/ \E r \in Requests : Issue(h, r) \/ Claim(h, r)
  \/ AuthorizeCommit(h) \/ ResultCommit(h) \/ DisableCommit(h)
  \/ HeartbeatSeen(h) \/ Abandon(h)

Next ==
  \/ \E h \in Handlers : AccountStep(h) \/ DeviceStep(h)
  \/ \E h \in Tasks : Serve(h)
  \/ Cleanup \/ Retain \/ Restart \/ Tick

Spec == Init /\ [][Next]_vars

\* Time passes, cleanup runs every 15 seconds, and the store does not fail
\* every one of its commits.
Fairness ==
  /\ WF_vars(Tick)
  /\ WF_vars(Cleanup \/ Retain)
  /\ SF_vars(AdvanceCommit(Cleaner))

FairSpec == Spec /\ Fairness

-----------------------------------------------------------------------------
(* What the service promises. *)

RequestsTyped(rs) ==
  /\ rs \in [Requests -> RequestRecords]
  /\ \A r \in Requests : rs[r].phase \notin {"unmade", "gone"} =>
       rs[r].target \in Targets /\ rs[r].agent \in Agents

\* Every variable has its type, and a stored request names the target and
\* the helper it was issued for (model.rs).
TypeOK ==
  /\ now \in Nat
  /\ agents \in [Agents -> AgentRecords]
  /\ targets \in [Targets -> TargetRecords]
  /\ RequestsTyped(requests)
  /\ agentSeen \in [Agents -> Option(Nat)]
  /\ targetSeen \in [Targets -> Option(Nat)]
  /\ calls \in [Tasks -> Call]

\* A computer has at most one request in progress, whatever calls to
\* create_request overlap (docs/remote-wake.md: the active requests of a
\* target are deduplicated).
OneActivePerTarget ==
  \A q, r \in Requests :
    Active(q) /\ Active(r) /\ requests[q].target = requests[r].target => q = r

\* A request in progress is one its helper may still execute: the helper is
\* enabled, and the target is listed, set up, and bound to that helper in the
\* revision the request was issued for.  So the first claimable request of
\* poll never blocks the ones behind it with a conflict.
ActiveBound ==
  \A r \in Requests : Active(r) =>
    /\ Enabled(requests[r].agent)
    /\ BoundTo(r, requests[r].agent)
    /\ targets[requests[r].target].setup

\* The record of a request claims, at time t, only what may have happened.
Honest(q, t) ==
  /\ q.created <= t
  /\ q.authorized # None => /\ q.phase # "queued"
                            /\ q.created <= q.authorized
                            /\ q.authorized <= t
                            /\ q.authorized < q.created + Validity
  /\ q.sent # None => /\ q.authorized # None
                      /\ q.authorized <= q.sent
                      /\ q.sent < q.created + Validity
                      /\ q.phase \notin {"queued", "claimed", "expired", "failed"}
  /\ q.online # None => /\ q.created < q.online
                        /\ q.online <= t
                        /\ q.phase = "online"
  /\ q.phase \in {"sent", "online", "unconfirmed"} => q.sent # None
  /\ q.phase = "online" => q.online # None
  /\ q.phase = "expired" => t >= q.created + Validity
  /\ q.phase = "unconfirmed" => t >= q.created + Observe

\* What a stored request claims has happened, in the order it claims: a
\* permit within the validity; a receipt only for a permit given before it;
\* online only on a heartbeat later than the request; expired and unconfirmed
\* only when their time had come.  It holds whatever clock and heartbeats a
\* delayed advance was computed from.
Evidence == \A r \in Requests : Stored(r) => Honest(requests[r], now)

\* A permit is given once: no later call, and no restart, gives it again.
AuthorizedOnce ==
  [][\A r \in Requests : requests[r].authorized # None =>
        requests'[r].authorized = requests[r].authorized]_vars

\* What has ended stays as it ended, until it is deleted or pruned.
TerminalForGood ==
  [][\A r \in Requests : requests[r].phase \in TerminalPhases =>
        requests'[r].phase \in {requests[r].phase, "gone"}]_vars

\* A permit, a receipt or a stop takes effect only while the credential its
\* call presented is still the helper's.  authorize and result do not compare
\* it again under the lock; they rely on stop, delete and enable cancelling
\* what the old credential could name.
CommitsFor(h) == AuthorizeCommit(h) \/ ResultCommit(h) \/ DisableCommit(h)

OnlyCurrentCredentialActs ==
  [][\A h \in Tasks :
        CommitsFor(h) /\ ~AgentToken(calls[h].agent, calls[h].gen)
        => agents' = agents /\ requests' = Prune(requests)]_vars

\* A request is pruned from the history only when its observation is over:
\* the request limit keeps the list from overflowing before that.
PrunedWhenOver ==
  [][\A r \in Requests :
        (Active(r) /\ requests'[r].phase = "gone")
        => \/ now >= requests[r].created + Observe
           \/ targets'[requests[r].target].status = "deleted"]_vars

\* Every request is decided in the end, with no client to ask for it.
EveryRequestSettles == \A r \in Requests : Active(r) ~> ~Active(r)

\* A heartbeat or poll that overtakes the deletion of its target or helper
\* leaves an entry in the runtime maps; cleanup removes it.
RuntimeForgets ==
  /\ \A a \in Agents : agents[a].status = "deleted" ~> agentSeen[a] = None
  /\ \A t \in Targets : targets[t].status = "deleted" ~> targetSeen[t] = None
=============================================================================

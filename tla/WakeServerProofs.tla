-------------------------- MODULE WakeServerProofs --------------------------
(***************************************************************************)
(* What WakeServer guarantees for any number of helpers, targets, requests *)
(* and overlapping calls, and for any durations.                           *)
(***************************************************************************)
EXTENDS WakeServer, FiniteSetTheorems, TLAPS

\* A mutation's trailing prune leaves a record alone, or takes it out of the
\* list and changes nothing else of it.
LEMMA PruneShape ==
  ASSUME NEW rs, NEW r \in Requests
  PROVE  \/ Prune(rs)[r] = rs[r]
         \/ Prune(rs)[r] = [rs[r] EXCEPT !.phase = "gone"]
  BY DEF Prune

LEMMA PruneTyped ==
  ASSUME NEW rs, RequestsTyped(rs)
  PROVE  RequestsTyped(Prune(rs))
<1>1. Prune(rs) \in [Requests -> RequestRecords]
  <2>1. ASSUME NEW r \in Requests
        PROVE  Prune(rs)[r] \in RequestRecords
    <3>1. rs[r] \in RequestRecords
      BY DEF RequestsTyped
    <3>2. [rs[r] EXCEPT !.phase = "gone"] \in RequestRecords
      BY <3>1 DEF RequestRecords
    <3>. QED BY PruneShape, <3>1, <3>2
  <2>2. Prune(rs) = [r \in Requests |-> Prune(rs)[r]]
    BY DEF Prune
  <2>. QED BY <2>1, <2>2
<1>2. ASSUME NEW r \in Requests, Prune(rs)[r].phase \notin {"unmade", "gone"}
      PROVE  Prune(rs)[r].target \in Targets /\ Prune(rs)[r].agent \in Agents
  <2>1. rs[r] \in RequestRecords
    BY DEF RequestsTyped
  <2>2. [rs[r] EXCEPT !.phase = "gone"].phase = "gone"
    BY <2>1 DEF RequestRecords
  <2>3. Prune(rs)[r] = rs[r]
    BY <1>2, <2>2, PruneShape
  <2>. QED BY <1>2, <2>3 DEF RequestsTyped
<1>. QED BY <1>1, <1>2 DEF RequestsTyped

LEMMA AdvanceTyped ==
  ASSUME NEW q \in RequestRecords, NEW at, NEW beat \in Option(Nat)
  PROVE  /\ Advance(q, at, beat) \in RequestRecords
         /\ Advance(q, at, beat).target = q.target
         /\ Advance(q, at, beat).agent = q.agent
BY DEF Advance, RequestRecords, ActivePhases, TerminalPhases

\* The fields of a call in progress, by its operation.
LEMMA CallFields ==
  ASSUME NEW c \in Call
  PROVE  /\ c.op = "advance" => /\ c.at \in Nat
                                /\ c.beats \in [Targets -> Option(Nat)]
                                /\ c.then \in Option(Targets)
         /\ c.op = "create" => c.target \in Targets
         /\ c.op \in {"seen", "loop", "look", "claim", "disable"} =>
              /\ c.agent \in Agents /\ c.gen \in Nat
              /\ \A op \in {"loop", "look", "claim"} : [c EXCEPT !.op = op] \in Call
         /\ c.op = "authorize" => /\ c.agent \in Agents /\ c.gen \in Nat
                                  /\ c.req \in Requests
         /\ c.op = "result" => /\ c.agent \in Agents /\ c.gen \in Nat
                               /\ c.req \in Requests
                               /\ c.outcome \in {"sent", "failed"}
         /\ c.op \in {"beat", "forgetTarget"} => c.target \in Targets
         /\ c.op = "forgetAgent" => c.agent \in Agents
BY DEF Call, Idle


LEMMA CancelTyped ==
  ASSUME RequestsTyped(requests), NEW t
  PROVE  RequestsTyped(CancelTarget(t)) /\ RequestsTyped(CancelAgent(t))
<1>1. \A r \in Requests :
        [requests[r] EXCEPT !.phase = "cancelled"] \in RequestRecords
  BY DEF RequestsTyped, RequestRecords, TerminalPhases
<1>2. RequestsTyped(CancelTarget(t))
  BY <1>1 DEF CancelTarget, OfTarget, Finish, RequestsTyped, RequestRecords, Active, ActivePhases
<1>3. RequestsTyped(CancelAgent(t))
  BY <1>1 DEF CancelAgent, OfAgent, Finish, RequestsTyped, RequestRecords, Active, ActivePhases
<1>. QED BY <1>2, <1>3

\* A record of the list replaced by a well-formed one.
LEMMA UpdateTyped ==
  ASSUME RequestsTyped(requests), NEW r \in Requests, NEW q \in RequestRecords,
         q.target \in Targets, q.agent \in Agents
  PROVE  RequestsTyped([requests EXCEPT ![r] = q])
BY DEF RequestsTyped

\* A receipt changes neither the target nor the helper of its request.
LEMMA ReportedTyped ==
  ASSUME TypeOK, NEW r \in Requests, requests[r] \in RequestRecords,
         requests[r].target \in Targets, NEW outcome
  PROVE  /\ Reported(r, outcome) \in RequestRecords
         /\ Reported(r, outcome).target = requests[r].target
         /\ Reported(r, outcome).agent = requests[r].agent
<1>. DEFINE s == [requests[r] EXCEPT !.phase = "sent", !.sent = now]
            f == [requests[r] EXCEPT !.phase = "failed"]
            beat == targetSeen[requests[r].target]
<1>1. /\ s \in RequestRecords
      /\ s.target = requests[r].target /\ s.agent = requests[r].agent
  BY DEF TypeOK, RequestRecords, ActivePhases, Option
<1>2. /\ f \in RequestRecords
      /\ f.target = requests[r].target /\ f.agent = requests[r].agent
  BY DEF RequestRecords, TerminalPhases
<1>3. beat \in Option(Nat)
  BY DEF TypeOK
<1>4. Reported(r, outcome) \in {Advance(s, now, beat), f}
  BY DEF Reported
<1>. HIDE DEF s, f, beat
<1>5. /\ Advance(s, now, beat) \in RequestRecords
      /\ Advance(s, now, beat).target = s.target
      /\ Advance(s, now, beat).agent = s.agent
  BY <1>1, <1>3, AdvanceTyped
<1>. QED BY <1>1, <1>2, <1>4, <1>5

\* The empty account is well-formed.
LEMMA TypeInit == Init => TypeOK
<1>. SUFFICES ASSUME Init PROVE TypeOK
  OBVIOUS
<1>1. UnmadeRequest \in RequestRecords
  BY DEF UnmadeRequest, RequestRecords, Option
<1>2. RequestsTyped(requests)
  BY <1>1 DEF Init, RequestsTyped, UnmadeRequest
<1>3. Idle \in Call
  BY DEF Call
<1>. QED
  BY <1>2, <1>3 DEF Init, TypeOK, AgentRecords, TargetRecords, Option

\* Every mutation keeps the account well-formed, and every call carries what
\* it captured.
LEMMA TypeStep == TypeOK /\ [Next]_vars => TypeOK'
<1>. SUFFICES ASSUME TypeOK, [Next]_vars PROVE TypeOK'
  OBVIOUS
<1>. USE DEF TypeOK, seen, data
<1>. \A h \in Handlers : h \in Tasks
  BY DEF Tasks
<1>. Idle \in Call
  BY DEF Call
<1>1. ASSUME NEW a \in Agents, CreateAgent(a) PROVE TypeOK'
  BY <1>1, PruneTyped DEF CreateAgent, AgentRecords
<1>2. ASSUME NEW t \in Targets, NEW d \in Devices, NEW a \in Option(Agents),
             NEW setup \in BOOLEAN, AddTarget(t, d, a, setup)
      PROVE  TypeOK'
  BY <1>2, PruneTyped DEF AddTarget, TargetRecords, Option
<1>3. ASSUME NEW t \in Targets, NEW a \in Agents, NEW setup \in BOOLEAN,
             Rebind(t, a, setup)
      PROVE  TypeOK'
  BY <1>3, PruneTyped, CancelTyped DEF Rebind, TargetRecords, Option
<1>4. ASSUME NEW h \in Tasks, NEW t \in Targets, DeleteTarget(h, t)
      PROVE  TypeOK'
  <2>. DEFINE rs == [r \in Requests |-> IF Stored(r) /\ requests[r].target = t
                                        THEN [requests[r] EXCEPT !.phase = "gone"]
                                        ELSE requests[r]]
  <2>1. RequestsTyped(rs)
    BY DEF RequestsTyped, RequestRecords
  <2>2. RequestsTyped(requests')
    BY <1>4, <2>1, PruneTyped DEF DeleteTarget
  <2>3. targets' \in [Targets -> TargetRecords]
    BY <1>4 DEF DeleteTarget, TargetRecords
  <2>4. calls' \in [Tasks -> Call]
    BY <1>4 DEF DeleteTarget, Begin, Call
  <2>. QED BY <1>4, <2>2, <2>3, <2>4 DEF DeleteTarget
<1>5. ASSUME NEW h \in Tasks, NEW t \in Targets, RotateTarget(h, t)
      PROVE  TypeOK'
  <2>1. calls' \in [Tasks -> Call]
    BY <1>5 DEF RotateTarget, Begin, Call
  <2>. QED BY <1>5, <2>1, PruneTyped DEF RotateTarget, TargetRecords
<1>6. ASSUME NEW h \in Tasks, NEW a \in Agents,
             DeleteAgent(h, a) \/ StopAgent(h, a) \/ EnableAgent(h, a)
      PROVE  TypeOK'
  <2>1. calls' \in [Tasks -> Call]
    BY <1>6 DEF DeleteAgent, StopAgent, EnableAgent, Begin, Call
  <2>2. agents' \in [Agents -> AgentRecords]
    BY <1>6 DEF DeleteAgent, StopAgent, StopHelper, EnableAgent, AgentRecords
  <2>3. RequestsTyped(requests')
    BY <1>6, CancelTyped, PruneTyped
    DEF DeleteAgent, StopAgent, StopHelper, EnableAgent
  <2>. QED BY <1>6, <2>1, <2>2, <2>3 DEF DeleteAgent, StopAgent, EnableAgent
<1>7. ASSUME NEW h \in Tasks, Forget(h) PROVE TypeOK'
  BY <1>7, CallFields DEF Forget, End, Option
<1>8. ASSUME NEW h \in Tasks, Read(h) \/ \E t \in Targets : AskWake(h, t)
      PROVE  TypeOK'
  <2>1. \A u \in Option(Targets) : AdvanceCall(u, targetSeen) \in Call
    BY DEF AdvanceCall, Call, Option
  <2>2. \A t \in Targets : [op |-> "create", target |-> t] \in Call
    BY DEF Call
  <2>. QED BY <1>8, <2>1, <2>2 DEF Read, AskWake, Begin, Option
<1>9. ASSUME Cleanup PROVE TypeOK'
  <2>. DEFINE c == [op |-> "retain", at |-> now,
                    agents |-> {a \in Agents : AgentListed(a)},
                    targets |-> {t \in Targets : Listed(t)}]
  <2>1. c \in Call
    BY DEF Call
  <2>2. calls' = [calls EXCEPT ![Cleaner] = c]
    BY <1>9 DEF Cleanup, Begin
  <2>. HIDE DEF c
  <2>. QED BY <1>9, <2>1, <2>2 DEF Cleanup
<1>28. ASSUME Retain PROVE TypeOK'
  <2>1. /\ agentSeen' \in [Agents -> Option(Nat)]
        /\ targetSeen' \in [Targets -> Option(Nat)]
    BY <1>28 DEF Retain, Option
  <2>2. ASSUME NEW beats \in [Targets -> Option(Nat)] PROVE Advancing(beats) \in Call
    BY <2>2 DEF Advancing, AdvanceCall, Call, Option
  <2>3. calls' = [calls EXCEPT ![Cleaner] = Advancing(targetSeen')]
    BY <1>28 DEF Retain, Proceed
  <2>4. calls' \in [Tasks -> Call]
    BY <2>1, <2>2, <2>3
  <2>. QED BY <1>28, <2>1, <2>4 DEF Retain
<1>10. ASSUME NEW h \in Tasks, AdvanceCommit(h) PROVE TypeOK'
  <2>. DEFINE rs == [r \in Requests |->
                       IF Stored(r)
                       THEN Advance(requests[r], calls[h].at,
                                    calls[h].beats[requests[r].target])
                       ELSE requests[r]]
  <2>0. calls[h] \in Call /\ calls[h].op = "advance"
    BY <1>10 DEF AdvanceCommit
  <2>1. RequestsTyped(rs)
    <3>1. ASSUME NEW r \in Requests, Stored(r)
          PROVE  /\ rs[r] \in RequestRecords
                 /\ rs[r].target \in Targets /\ rs[r].agent \in Agents
      <4>1. /\ requests[r] \in RequestRecords
            /\ requests[r].target \in Targets /\ requests[r].agent \in Agents
        BY <3>1 DEF RequestsTyped, Stored
      <4>2. calls[h].beats[requests[r].target] \in Option(Nat)
        BY <2>0, <4>1, CallFields
      <4>3. rs[r] = Advance(requests[r], calls[h].at,
                            calls[h].beats[requests[r].target])
        BY <3>1
      <4>. QED BY <4>1, <4>2, <4>3, AdvanceTyped
    <3>2. ASSUME NEW r \in Requests, ~Stored(r) PROVE rs[r] = requests[r]
      BY <3>2
    <3>. QED BY <3>1, <3>2 DEF RequestsTyped, Stored
  <2>2. RequestsTyped(requests')
    BY <1>10, <2>1, PruneTyped DEF AdvanceCommit
  <2>3. calls' \in [Tasks -> Call]
    <3>1. calls[h].then \in Option(Targets)
      BY <2>0, CallFields
    <3>2. ASSUME calls[h].then # None
          PROVE  [op |-> "create", target |-> calls[h].then] \in Call
      BY <3>1, <3>2 DEF Option, Call
    <3>. QED BY <1>10, <3>2 DEF AdvanceCommit, Proceed
  <2>. QED BY <1>10, <2>2, <2>3 DEF AdvanceCommit
<1>11. ASSUME NEW h \in Tasks, NEW r \in Requests, Issue(h, r) PROVE TypeOK'
  <2>1. calls[h].target \in Targets
    BY <1>11, CallFields DEF Issue
  <2>2. NewRequest(calls[h].target) \in RequestRecords
    BY <1>11, <2>1 DEF Issue, Enabled, NewRequest, RequestRecords, TargetRecords,
                       ActivePhases, Option
  <2>3. RequestsTyped([requests EXCEPT ![r] = NewRequest(calls[h].target)])
    BY <1>11, <2>1, <2>2, UpdateTyped DEF Issue, Enabled, NewRequest
  <2>. QED BY <1>11, <2>3, PruneTyped DEF Issue, End
<1>12. ASSUME NEW h \in Tasks, Deduplicate(h) PROVE TypeOK'
  BY <1>12, PruneTyped DEF Deduplicate, End
<1>13. ASSUME NEW h \in Tasks, NEW a \in Agents, NEW gen \in 1 .. MaxGen,
              Poll(h, a, gen) \/ Disable(h, a, gen)
       PROVE  TypeOK'
  <2>1. calls' \in [Tasks -> Call]
    BY <1>13 DEF Poll, Disable, Begin, Call
  <2>. QED BY <1>13, <2>1 DEF Poll, Disable
<1>14. ASSUME NEW h \in Tasks, PollSeen(h) \/ PollLoop(h) \/ PollLook(h)
       PROVE  TypeOK'
  <2>1. calls[h] \in Call /\ calls[h].op \in {"seen", "loop", "look"}
    BY <1>14 DEF PollSeen, PollLoop, PollLook
  <2>2. calls' \in [Tasks -> Call]
    BY <1>14, <2>1, CallFields DEF PollSeen, PollLoop, PollLook, Proceed
  <2>. QED BY <1>14, <2>1, <2>2, CallFields DEF PollSeen, PollLoop, PollLook, Option
<1>15. ASSUME NEW h \in Tasks, NEW r \in Requests, Claim(h, r) PROVE TypeOK'
  <2>. DEFINE q == [requests[r] EXCEPT !.phase = "claimed"]
  <2>1. q \in RequestRecords /\ q.target \in Targets /\ q.agent \in Agents
    BY <1>15 DEF Claim, Claimable, RequestsTyped, RequestRecords, ActivePhases
  <2>2. RequestsTyped([requests EXCEPT ![r] = q])
    BY <2>1, UpdateTyped
  <2>. QED BY <1>15, <2>2, PruneTyped DEF Claim, End
<1>16. ASSUME NEW h \in Tasks, NEW a \in Agents, NEW gen \in 1 .. MaxGen,
              NEW r \in Requests, NEW outcome \in {"sent", "failed"},
              Authorize(h, a, gen, r) \/ Result(h, a, gen, r, outcome)
       PROVE  TypeOK'
  <2>1. calls' \in [Tasks -> Call]
    BY <1>16 DEF Authorize, Result, Begin, Call
  <2>. QED BY <1>16, <2>1 DEF Authorize, Result
<1>17. ASSUME NEW h \in Tasks, AuthorizeCommit(h) PROVE TypeOK'
  <2>. DEFINE r == calls[h].req
              q == [requests[r] EXCEPT !.authorized = now]
  <2>1. r \in Requests
    BY <1>17, CallFields DEF AuthorizeCommit
  <2>2. q \in RequestRecords /\ q.target \in Targets /\ q.agent \in Agents
    BY <1>17, <2>1 DEF AuthorizeCommit, AuthorizeAllowed, RequestsTyped,
                       RequestRecords, Stored, Option
  <2>3. RequestsTyped([requests EXCEPT ![r] = q])
    BY <2>1, <2>2, UpdateTyped
  <2>. QED BY <1>17, <2>3, PruneTyped DEF AuthorizeCommit, End
<1>18. ASSUME NEW h \in Tasks, ResultCommit(h) PROVE TypeOK'
  <2>. DEFINE r == calls[h].req
              q == Reported(r, calls[h].outcome)
  <2>1. r \in Requests /\ calls[h].outcome \in {"sent", "failed"}
    BY <1>18, CallFields DEF ResultCommit
  <2>2. CASE ResultAllowed(calls[h].agent, r, calls[h].outcome)
    <3>1. /\ requests[r] \in RequestRecords
          /\ requests[r].target \in Targets /\ requests[r].agent \in Agents
      BY <2>1, <2>2 DEF ResultAllowed, RequestsTyped
    <3>4. q \in RequestRecords /\ q.target \in Targets /\ q.agent \in Agents
      BY <2>1, <3>1, ReportedTyped
    <3>5. RequestsTyped([requests EXCEPT ![r] = q])
      BY <2>1, <3>4, UpdateTyped
    <3>6. RequestsTyped(requests')
      BY <1>18, <3>5, PruneTyped DEF ResultCommit
    <3>. QED BY <1>18, <3>6 DEF ResultCommit, End
  <2>3. CASE ~ResultAllowed(calls[h].agent, r, calls[h].outcome)
    BY <1>18, <2>3, PruneTyped DEF ResultCommit, End
  <2>. QED BY <2>2, <2>3
<1>19. ASSUME NEW h \in Tasks, DisableCommit(h) PROVE TypeOK'
  <2>1. calls[h].agent \in Agents
    BY <1>19, CallFields DEF DisableCommit
  <2>2. calls' \in [Tasks -> Call]
    BY <1>19, <2>1 DEF DisableCommit, Proceed, Call
  <2>3. RequestsTyped(requests')
    BY <1>19, CancelTyped, PruneTyped DEF DisableCommit, StopHelper
  <2>. QED BY <1>19, <2>1, <2>2, <2>3 DEF DisableCommit, StopHelper, AgentRecords
<1>20. ASSUME NEW h \in Tasks, NEW t \in Targets, NEW gen \in 1 .. MaxGen,
              Heartbeat(h, t, gen)
       PROVE  TypeOK'
  <2>1. calls' \in [Tasks -> Call]
    BY <1>20 DEF Heartbeat, Begin, Call
  <2>. QED BY <1>20, <2>1 DEF Heartbeat
<1>21. ASSUME NEW h \in Tasks, HeartbeatSeen(h) \/ Abandon(h) PROVE TypeOK'
  BY <1>21, CallFields DEF HeartbeatSeen, Abandon, End, Option
<1>22. ASSUME Restart PROVE TypeOK'
  <2>1. RequestsTyped(Prune(requests))
    BY PruneTyped
  <2>2. RequestsTyped(requests')
    <3>. DEFINE p == Prune(requests)
    <3>1. \A r \in Requests : p[r] \in RequestRecords
      BY <2>1 DEF RequestsTyped
    <3>2. \A r \in Requests :
            LET i == [p[r] EXCEPT !.phase = "interrupted"]
            IN  /\ i \in RequestRecords
                /\ i.target = p[r].target /\ i.agent = p[r].agent
      BY <3>1 DEF RequestRecords, TerminalPhases
    <3>3. requests' = [r \in Requests |-> IF p[r].phase \in ActivePhases
                                          THEN [p[r] EXCEPT !.phase = "interrupted"]
                                          ELSE p[r]]
      BY <1>22 DEF Restart, Recovered
    <3>4. \A r \in Requests : p[r].phase \in ActivePhases =>
            p[r].target \in Targets /\ p[r].agent \in Agents
      BY <2>1 DEF RequestsTyped, ActivePhases
    <3>5. RequestsTyped(p)
      BY <2>1
    <3>. HIDE DEF p
    <3>. QED BY <3>1, <3>2, <3>3, <3>4, <3>5 DEF RequestsTyped
  <2>. QED BY <1>22, <2>2 DEF Restart, Option
<1>23. ASSUME Tick PROVE TypeOK'
  BY <1>23 DEF Tick
<1>24. ASSUME UNCHANGED vars PROVE TypeOK'
  BY <1>24 DEF vars
<1>25. ASSUME NEW h \in Handlers, AccountStep(h) PROVE TypeOK'
  <2>1. ASSUME NEW t \in Targets, NEW d \in Devices, EnrollTarget(t, d)
        PROVE  TypeOK'
    BY <2>1, <1>2 DEF EnrollTarget, Option
  <2>2. ASSUME NEW t \in Targets, NEW d \in Devices, NEW a \in Agents,
               CreateTarget(t, d, a)
        PROVE  TypeOK'
    BY <2>2, <1>2 DEF CreateTarget, Option
  <2>3. ASSUME NEW t \in Targets, NEW a \in Agents,
               UpdateTarget(t, a) \/ CompleteSetup(t, a)
        PROVE  TypeOK'
    <3>1. targets[t].setup \in BOOLEAN
      BY DEF TargetRecords
    <3>. QED BY <2>3, <3>1, <1>3 DEF UpdateTarget, CompleteSetup
  <2>4. h \in Tasks
    BY DEF Tasks
  <2>5. CASE \E a \in Agents : \/ CreateAgent(a) \/ DeleteAgent(h, a)
                               \/ StopAgent(h, a) \/ EnableAgent(h, a)
    BY <2>4, <2>5, <1>1, <1>6
  <2>6. CASE \E t \in Targets : \/ DeleteTarget(h, t) \/ RotateTarget(h, t)
                                \/ AskWake(h, t)
    BY <2>4, <2>6, <1>4, <1>5, <1>8
  <2>7. CASE Read(h)
    BY <2>4, <2>7, <1>8
  <2>. QED BY <1>25, <2>1, <2>2, <2>3, <2>5, <2>6, <2>7 DEF AccountStep
<1>26. ASSUME NEW h \in Handlers, DeviceStep(h) PROVE TypeOK'
  BY <1>26, <1>13, <1>16, <1>20 DEF DeviceStep
<1>27. ASSUME NEW h \in Tasks, Serve(h) PROVE TypeOK'
  BY <1>27, <1>7, <1>10, <1>11, <1>12, <1>14, <1>15, <1>17, <1>18, <1>19, <1>21
  DEF Serve
<1>. QED BY <1>9, <1>22, <1>23, <1>24, <1>25, <1>26, <1>27, <1>28 DEF Next

\* Every variable keeps its type (TypeOK), for any number of helpers, targets,
\* requests and calls: the account data stays what model.rs declares.
THEOREM TypeCorrect == Spec => []TypeOK
<1>1. Init => TypeOK
  BY TypeInit
<1>2. TypeOK /\ [Next]_vars => TypeOK'
  BY TypeStep
<1>. QED BY <1>1, <1>2, PTL DEF Spec

-----------------------------------------------------------------------------
(***************************************************************************)
(* Binding.  Every step but Issue only takes requests out of the set of    *)
(* active ones and leaves the others bound as they were; a step that       *)
(* changes a helper or a target takes out those bound to it.               *)
(***************************************************************************)

Shrunk(rs) ==
  \A r \in Requests : rs[r].phase \in ActivePhases =>
    /\ Active(r)
    /\ rs[r].target = requests[r].target
    /\ rs[r].agent = requests[r].agent
    /\ rs[r].rev = requests[r].rev

Binding == TypeOK /\ OneActivePerTarget /\ ActiveBound

LEMMA PrunedActive ==
  ASSUME NEW rs, RequestsTyped(rs), NEW r \in Requests,
         Prune(rs)[r].phase \in ActivePhases
  PROVE  Prune(rs)[r] = rs[r]
<1>1. rs[r] \in RequestRecords
  BY DEF RequestsTyped
<1>2. [rs[r] EXCEPT !.phase = "gone"].phase \notin ActivePhases
  BY <1>1 DEF RequestRecords, ActivePhases
<1>. QED BY <1>2, PruneShape

LEMMA PruneShrinks ==
  ASSUME NEW rs, RequestsTyped(rs), Shrunk(rs)
  PROVE  Shrunk(Prune(rs))
BY PrunedActive DEF Shrunk

\* What is left active by a cancellation is of another target or helper.
LEMMA CancelShrinks ==
  ASSUME RequestsTyped(requests), NEW x
  PROVE  /\ Shrunk(CancelTarget(x)) /\ Shrunk(CancelAgent(x))
         /\ \A r \in Requests :
              /\ CancelTarget(x)[r].phase \in ActivePhases => requests[r].target # x
              /\ CancelAgent(x)[r].phase \in ActivePhases => requests[r].agent # x
<1>1. \A r \in Requests :
        /\ requests[r] \in RequestRecords
        /\ [requests[r] EXCEPT !.phase = "cancelled"].phase \notin ActivePhases
  BY DEF RequestsTyped, RequestRecords, ActivePhases
<1>. QED
  BY <1>1 DEF CancelTarget, CancelAgent, OfTarget, OfAgent, Finish, Shrunk, Active

\* Advance ends a request or leaves it alone.
LEMMA AdvanceShape ==
  ASSUME NEW q \in RequestRecords, NEW at, NEW beat,
         Advance(q, at, beat).phase \in ActivePhases
  PROVE  Advance(q, at, beat) = q
BY DEF Advance, RequestRecords, ActivePhases

\* The bindings of a helper and of a target that a step leaves alone.
LEMMA StillBound ==
  ASSUME Binding, TypeOK', Shrunk(requests'),
         \A r \in Requests : requests'[r].phase \in ActivePhases =>
            /\ agents'[requests[r].agent] = agents[requests[r].agent]
            /\ targets'[requests[r].target] = targets[requests[r].target]
  PROVE  Binding'
<1>1. OneActivePerTarget'
  BY DEF Binding, OneActivePerTarget, Shrunk, Active
<1>2. ASSUME NEW r \in Requests, Active(r)'
      PROVE  /\ Enabled(requests[r].agent)'
             /\ BoundTo(r, requests[r].agent)'
             /\ targets'[requests'[r].target].setup
  <2>1. /\ Active(r)
        /\ requests'[r].target = requests[r].target
        /\ requests'[r].agent = requests[r].agent
        /\ requests'[r].rev = requests[r].rev
    BY <1>2 DEF Active, Shrunk
  <2>2. /\ agents'[requests[r].agent] = agents[requests[r].agent]
        /\ targets'[requests[r].target] = targets[requests[r].target]
    BY <1>2 DEF Active
  <2>3. /\ Enabled(requests[r].agent)
        /\ BoundTo(r, requests[r].agent)
        /\ targets[requests[r].target].setup
    BY <2>1 DEF Binding, ActiveBound
  <2>. QED BY <2>1, <2>2, <2>3 DEF Enabled, BoundTo, Listed
<1>. QED BY <1>1, <1>2 DEF Binding, ActiveBound

LEMMA BindingStep == Binding /\ [Next]_vars => Binding'
<1>. SUFFICES ASSUME Binding, [Next]_vars PROVE Binding'
  OBVIOUS
<1>. TypeOK /\ TypeOK' /\ RequestsTyped(requests)
  BY TypeStep DEF Binding, TypeOK
<1>. USE DEF seen, data
<1>. Shrunk(requests)
  BY DEF Shrunk, Active
<1>. \A h \in Handlers : h \in Tasks
  BY DEF Tasks
<1>1. ASSUME NEW a \in Agents, CreateAgent(a) PROVE Binding'
  <2>1. Shrunk(requests')
    BY <1>1, PruneShrinks DEF CreateAgent
  <2>2. \A r \in Requests : requests'[r].phase \in ActivePhases => requests[r].agent # a
    BY <1>1, <2>1 DEF CreateAgent, Shrunk, Binding, ActiveBound, Enabled
  <2>. QED BY <1>1, <2>1, <2>2, StillBound DEF CreateAgent, TypeOK
<1>2. ASSUME NEW t \in Targets, NEW d \in Devices, NEW a \in Option(Agents),
             NEW setup \in BOOLEAN, AddTarget(t, d, a, setup)
      PROVE  Binding'
  <2>1. Shrunk(requests')
    BY <1>2, PruneShrinks DEF AddTarget
  <2>2. \A r \in Requests : requests'[r].phase \in ActivePhases => requests[r].target # t
    BY <1>2, <2>1 DEF AddTarget, Shrunk, Binding, ActiveBound, BoundTo, Listed
  <2>. QED BY <1>2, <2>1, <2>2, StillBound DEF AddTarget, TypeOK
<1>3. ASSUME NEW t \in Targets, NEW a \in Agents, NEW setup \in BOOLEAN,
             Rebind(t, a, setup)
      PROVE  Binding'
  <2>1. RequestsTyped(CancelTarget(t)) /\ Shrunk(CancelTarget(t))
    BY CancelTyped, CancelShrinks
  <2>2. Shrunk(requests')
    BY <1>3, <2>1, PruneShrinks DEF Rebind
  <2>3. \A r \in Requests : requests'[r].phase \in ActivePhases => requests[r].target # t
    BY <1>3, <2>1, PrunedActive, CancelShrinks DEF Rebind
  <2>4. \A r \in Requests : requests'[r].phase \in ActivePhases =>
          requests[r].target \in Targets
    BY <2>2 DEF Shrunk, Active, ActivePhases, RequestsTyped
  <2>5. \A u \in Targets \ {t} : targets'[u] = targets[u]
    BY <1>3 DEF Rebind, TypeOK
  <2>6. agents' = agents
    BY <1>3 DEF Rebind
  <2>. QED BY <2>2, <2>3, <2>4, <2>5, <2>6, StillBound
<1>4. ASSUME NEW h \in Tasks, NEW t \in Targets, DeleteTarget(h, t) PROVE Binding'
  <2>. DEFINE rs == [r \in Requests |-> IF Stored(r) /\ requests[r].target = t
                                        THEN [requests[r] EXCEPT !.phase = "gone"]
                                        ELSE requests[r]]
  <2>0. \A r \in Requests : /\ requests[r] \in RequestRecords
                            /\ [requests[r] EXCEPT !.phase = "gone"].phase = "gone"
    BY DEF RequestsTyped, RequestRecords
  <2>1. RequestsTyped(rs)
    BY DEF RequestsTyped, RequestRecords
  <2>2. \A r \in Requests : rs[r].phase \in ActivePhases =>
          rs[r] = requests[r] /\ requests[r].target # t
    BY <2>0 DEF ActivePhases, Stored
  <2>3. Shrunk(rs)
    BY <2>2 DEF Shrunk, Active
  <2>4. requests' = Prune(rs)
    BY <1>4 DEF DeleteTarget
  <2>. HIDE DEF rs
  <2>5. Shrunk(requests')
    BY <2>1, <2>3, <2>4, PruneShrinks
  <2>6. \A r \in Requests : requests'[r].phase \in ActivePhases => requests[r].target # t
    BY <2>1, <2>2, <2>4, PrunedActive
  <2>. QED BY <1>4, <2>5, <2>6, StillBound DEF DeleteTarget, TypeOK
<1>5. ASSUME NEW h \in Tasks, NEW t \in Targets, RotateTarget(h, t) PROVE Binding'
  <2>1. Shrunk(requests')
    BY <1>5, PruneShrinks DEF RotateTarget
  <2>2. \A u \in Targets : /\ Listed(u)' <=> Listed(u)
                           /\ targets'[u].agent = targets[u].agent
                           /\ targets'[u].rev = targets[u].rev
                           /\ targets'[u].setup = targets[u].setup
    BY <1>5 DEF RotateTarget, Listed, TypeOK, TargetRecords
  <2>3. OneActivePerTarget'
    BY <2>1 DEF Binding, OneActivePerTarget, Shrunk, Active
  <2>4. ASSUME NEW r \in Requests, Active(r)'
        PROVE  /\ Enabled(requests[r].agent)'
               /\ BoundTo(r, requests[r].agent)'
               /\ targets'[requests'[r].target].setup
    <3>1. /\ Active(r)
          /\ requests'[r].target = requests[r].target
          /\ requests'[r].agent = requests[r].agent
          /\ requests'[r].rev = requests[r].rev
      BY <2>1, <2>4 DEF Active, Shrunk
    <3>2. requests[r].target \in Targets
      BY <3>1 DEF RequestsTyped, Active, ActivePhases
    <3>. QED BY <1>5, <2>2, <3>1, <3>2
             DEF RotateTarget, Binding, ActiveBound, Enabled, BoundTo
  <2>. QED BY <2>3, <2>4 DEF Binding, ActiveBound
<1>6. ASSUME NEW a \in Agents, requests' = Prune(CancelAgent(a)), targets' = targets,
             \A b \in Agents \ {a} : agents'[b] = agents[b]
      PROVE  Binding'
  <2>1. RequestsTyped(CancelAgent(a)) /\ Shrunk(CancelAgent(a))
    BY CancelTyped, CancelShrinks
  <2>2. Shrunk(requests')
    BY <1>6, <2>1, PruneShrinks
  <2>3. \A r \in Requests : requests'[r].phase \in ActivePhases =>
          requests[r].agent # a /\ requests[r].agent \in Agents
    <3>1. \A r \in Requests : requests'[r].phase \in ActivePhases => requests[r].agent # a
      BY <1>6, <2>1, PrunedActive, CancelShrinks
    <3>2. \A r \in Requests : requests'[r].phase \in ActivePhases => requests[r].agent \in Agents
      BY <2>2 DEF Shrunk, Active, ActivePhases, RequestsTyped
    <3>. QED BY <3>1, <3>2
  <2>. QED BY <1>6, <2>2, <2>3, StillBound
<1>7. ASSUME NEW h \in Tasks, AdvanceCommit(h) PROVE Binding'
  <2>. DEFINE rs == [r \in Requests |->
                       IF Stored(r)
                       THEN Advance(requests[r], calls[h].at,
                                    calls[h].beats[requests[r].target])
                       ELSE requests[r]]
  <2>1. \A r \in Requests : rs[r].phase \in ActivePhases => rs[r] = requests[r]
    BY AdvanceShape DEF RequestsTyped
  <2>2. \A r \in Requests : requests'[r].phase \in ActivePhases => requests'[r] = requests[r]
    <3>1. requests' = Prune(rs)
      BY <1>7 DEF AdvanceCommit
    <3>2. \A r \in Requests : requests'[r] = rs[r] \/ requests'[r].phase \notin ActivePhases
      <4>1. ASSUME NEW r \in Requests
            PROVE  requests'[r] = rs[r] \/ requests'[r] = [rs[r] EXCEPT !.phase = "gone"]
        BY <3>1, PruneShape
      <4>2. ASSUME NEW r \in Requests, requests'[r] = [rs[r] EXCEPT !.phase = "gone"]
            PROVE  requests'[r].phase \notin ActivePhases
        <5>1. requests'[r] \in RequestRecords
          BY DEF TypeOK, RequestsTyped
        <5>2. "phase" \in DOMAIN requests'[r]
          BY <5>1 DEF RequestRecords
        <5>3. "phase" \in DOMAIN rs[r]
          BY <4>2, <5>2
        <5>4. requests'[r].phase = "gone"
          BY <4>2, <5>3
        <5>. QED BY <5>4 DEF ActivePhases
      <4>. QED BY <4>1, <4>2
    <3>. HIDE DEF rs
    <3>. QED BY <2>1, <3>2
  <2>3. Shrunk(requests')
    BY <2>2 DEF Shrunk, Active
  <2>. QED BY <1>7, <2>3, StillBound DEF AdvanceCommit
<1>8. ASSUME NEW h \in Tasks, NEW r \in Requests, Issue(h, r) PROVE Binding'
  <2>. DEFINE t == calls[h].target
              rs == [requests EXCEPT ![r] = NewRequest(t)]
  <2>1. /\ t \in Targets
        /\ targets[t].agent \in Agents
        /\ requests' = Prune(rs) /\ agents' = agents /\ targets' = targets
        /\ Listed(t) /\ targets[t].setup /\ ActiveFor(t) = {}
        /\ Enabled(targets[t].agent)
    BY <1>8, CallFields DEF Issue, TypeOK, Enabled
  <2>2. NewRequest(t) \in RequestRecords
    BY <2>1 DEF NewRequest, RequestRecords, TargetRecords, ActivePhases, Option, TypeOK
  <2>3. RequestsTyped(rs)
    BY <2>1, <2>2, UpdateTyped DEF NewRequest
  <2>4. \A q \in Requests : Active(q)' => requests'[q] = rs[q]
    BY <2>1, <2>3, PrunedActive DEF Active
  <2>5. \A q \in Requests : Active(q)' /\ q # r =>
          Active(q) /\ requests'[q] = requests[q] /\ requests[q].target # t
    BY <2>1, <2>4 DEF Active, ActiveFor, TypeOK, RequestsTyped
  <2>6. Active(r)' => requests'[r] = NewRequest(t)
    BY <2>4 DEF TypeOK, RequestsTyped
  <2>7. OneActivePerTarget'
    BY <2>5, <2>6 DEF OneActivePerTarget, NewRequest, Binding
  <2>8. ActiveBound'
    <3>1. ASSUME NEW q \in Requests, Active(q)', q # r
          PROVE  /\ Enabled(requests[q].agent)'
                 /\ BoundTo(q, requests[q].agent)'
                 /\ targets'[requests'[q].target].setup
      <4>1. Active(q) /\ requests'[q] = requests[q]
        BY <2>5, <3>1
      <4>2. /\ Enabled(requests[q].agent)
            /\ BoundTo(q, requests[q].agent)
            /\ targets[requests[q].target].setup
        BY <4>1 DEF Binding, ActiveBound
      <4>3. agents' = agents /\ targets' = targets
        BY <2>1
      <4>. QED BY <4>1, <4>2, <4>3 DEF Enabled, BoundTo, Listed
    <3>2. ASSUME Active(r)'
          PROVE  /\ Enabled(requests[r].agent)'
                 /\ BoundTo(r, requests[r].agent)'
                 /\ targets'[requests'[r].target].setup
      <4>1. /\ requests'[r].target = t
            /\ requests'[r].agent = targets[t].agent
            /\ requests'[r].rev = targets[t].rev
        BY <2>6, <3>2 DEF NewRequest
      <4>. QED BY <2>1, <4>1 DEF Enabled, BoundTo, Listed
    <3>. QED BY <3>1, <3>2 DEF ActiveBound
  <2>. QED BY <2>7, <2>8 DEF Binding
<1>9. ASSUME NEW h \in Tasks, NEW r \in Requests, Claim(h, r) PROVE Binding'
  <2>. DEFINE q == [requests[r] EXCEPT !.phase = "claimed"]
              rs == [requests EXCEPT ![r] = q]
  <2>1. requests[r] \in RequestRecords /\ Active(r)
    BY <1>9 DEF Claim, Claimable, Active, ActivePhases, RequestsTyped
  <2>2. /\ q \in RequestRecords
        /\ q.target = requests[r].target /\ q.agent = requests[r].agent
        /\ q.rev = requests[r].rev
    BY <2>1 DEF RequestRecords, ActivePhases
  <2>3. RequestsTyped(rs)
    BY <2>1, <2>2, UpdateTyped DEF RequestsTyped, Active, ActivePhases
  <2>4. Shrunk(rs)
    BY <2>1, <2>2 DEF Shrunk, Active, RequestsTyped
  <2>5. Shrunk(requests')
    BY <1>9, <2>3, <2>4, PruneShrinks DEF Claim
  <2>. QED BY <1>9, <2>5, StillBound DEF Claim
<1>10. ASSUME NEW h \in Tasks, AuthorizeCommit(h) PROVE Binding'
  <2>. DEFINE r == calls[h].req
              q == [requests[r] EXCEPT !.authorized = now]
              rs == [requests EXCEPT ![r] = q]
  <2>1. r \in Requests /\ requests[r] \in RequestRecords /\ Active(r)
    BY <1>10, CallFields
    DEF AuthorizeCommit, AuthorizeAllowed, Active, ActivePhases, TypeOK, RequestsTyped
  <2>2. /\ q \in RequestRecords
        /\ q.target = requests[r].target /\ q.agent = requests[r].agent
        /\ q.rev = requests[r].rev
    BY <2>1 DEF RequestRecords, Option, TypeOK
  <2>3. RequestsTyped(rs)
    BY <2>1, <2>2, UpdateTyped DEF RequestsTyped, Active, ActivePhases
  <2>4. Shrunk(rs)
    BY <2>1, <2>2 DEF Shrunk, Active, RequestsTyped
  <2>5. Shrunk(requests')
    BY <1>10, <2>3, <2>4, PruneShrinks DEF AuthorizeCommit
  <2>. QED BY <1>10, <2>5, StillBound DEF AuthorizeCommit
<1>11. ASSUME NEW h \in Tasks, ResultCommit(h) PROVE Binding'
  <2>. DEFINE r == calls[h].req
              q == Reported(r, calls[h].outcome)
              rs == [requests EXCEPT ![r] = q]
  <2>1. CASE ResultAllowed(calls[h].agent, r, calls[h].outcome)
    <3>1. /\ r \in Requests /\ requests[r] \in RequestRecords /\ Active(r)
          /\ requests[r].target \in Targets /\ requests[r].agent \in Agents
      BY <1>11, <2>1, CallFields
      DEF ResultCommit, ResultAllowed, Active, ActivePhases, TypeOK, RequestsTyped
    <3>2. /\ q \in RequestRecords
          /\ q.target = requests[r].target /\ q.agent = requests[r].agent
      BY <3>1, ReportedTyped DEF TypeOK
    <3>3. q.rev = requests[r].rev
      BY <3>1 DEF Reported, Advance, RequestRecords
    <3>4. RequestsTyped(rs)
      BY <3>1, <3>2, UpdateTyped
    <3>5. Shrunk(rs)
      BY <3>1, <3>2, <3>3 DEF Shrunk, Active, RequestsTyped
    <3>. HIDE DEF q
    <3>6. Shrunk(requests') \/ requests' = Prune(requests)
      BY <1>11, <3>4, <3>5, PruneShrinks DEF ResultCommit, q
    <3>7. Shrunk(requests')
      BY <3>6, PruneShrinks
    <3>. QED BY <1>11, <3>7, StillBound DEF ResultCommit
  <2>2. CASE ~ResultAllowed(calls[h].agent, r, calls[h].outcome)
    BY <1>11, <2>2, PruneShrinks, StillBound DEF ResultCommit
  <2>. QED BY <2>1, <2>2
<1>12. ASSUME NEW h \in Tasks, DisableCommit(h) PROVE Binding'
  <2>1. calls[h].agent \in Agents
    BY <1>12, CallFields DEF DisableCommit, TypeOK
  <2>. QED BY <1>12, <1>6, <2>1 DEF DisableCommit, StopHelper, TypeOK
<1>13. ASSUME Restart PROVE Binding'
  <2>. DEFINE p == Prune(requests)
  <2>1. \A r \in Requests : p[r] \in RequestRecords
    BY PruneTyped DEF RequestsTyped
  <2>2. \A r \in Requests : [p[r] EXCEPT !.phase = "interrupted"].phase \notin ActivePhases
    BY <2>1 DEF RequestRecords, ActivePhases
  <2>3. requests' = [r \in Requests |-> IF p[r].phase \in ActivePhases
                                        THEN [p[r] EXCEPT !.phase = "interrupted"]
                                        ELSE p[r]]
    BY <1>13 DEF Restart, Recovered
  <2>4. \A r \in Requests : requests'[r].phase \notin ActivePhases
    BY <2>2, <2>3
  <2>. QED BY <2>4 DEF Binding, OneActivePerTarget, ActiveBound, Active
<1>14. ASSUME requests' = Prune(requests) \/ requests' = requests,
              agents' = agents, targets' = targets
       PROVE  Binding'
  BY <1>14, PruneShrinks, StillBound
<1>15. ASSUME NEW h \in Handlers, AccountStep(h) PROVE Binding'
  <2>1. \A t \in Targets : targets[t].setup \in BOOLEAN
    BY DEF TypeOK, TargetRecords
  <2>2. ASSUME NEW t \in Targets, NEW d \in Devices, EnrollTarget(t, d)
        PROVE  Binding'
    BY <2>2, <1>2 DEF EnrollTarget, Option
  <2>3. ASSUME NEW t \in Targets, NEW d \in Devices, NEW a \in Agents,
               CreateTarget(t, d, a)
        PROVE  Binding'
    BY <2>3, <1>2 DEF CreateTarget, Option
  <2>4. ASSUME NEW t \in Targets, NEW a \in Agents, UpdateTarget(t, a) \/ CompleteSetup(t, a)
        PROVE  Binding'
    BY <2>1, <2>4, <1>3 DEF UpdateTarget, CompleteSetup
  <2>5. ASSUME NEW a \in Agents, DeleteAgent(h, a) \/ StopAgent(h, a) \/ EnableAgent(h, a)
        PROVE  Binding'
    BY <2>5, <1>6 DEF DeleteAgent, StopAgent, StopHelper, EnableAgent, TypeOK
  <2>6. ASSUME NEW t \in Targets, DeleteTarget(h, t) \/ RotateTarget(h, t)
        PROVE  Binding'
    BY <2>6, <1>4, <1>5
  <2>7. ASSUME Read(h) \/ \E t \in Targets : AskWake(h, t) PROVE Binding'
    BY <2>7, <1>14 DEF Read, AskWake
  <2>. QED BY <1>15, <1>1, <2>2, <2>3, <2>4, <2>5, <2>6, <2>7 DEF AccountStep
<1>16. ASSUME NEW h \in Handlers, DeviceStep(h) PROVE Binding'
  BY <1>16, <1>14 DEF DeviceStep, Poll, Disable, Authorize, Result, Heartbeat
<1>17. ASSUME NEW h \in Tasks, Serve(h) PROVE Binding'
  <2>1. ASSUME Forget(h) \/ Deduplicate(h) \/ PollSeen(h) \/ PollLoop(h)
               \/ PollLook(h) \/ HeartbeatSeen(h) \/ Abandon(h)
        PROVE  Binding'
    BY <2>1, <1>14
    DEF Forget, Deduplicate, PollSeen, PollLoop, PollLook, HeartbeatSeen, Abandon
  <2>. QED BY <1>17, <1>7, <1>8, <1>9, <1>10, <1>11, <1>12, <2>1 DEF Serve
<1>18. ASSUME Cleanup \/ Retain \/ Tick \/ UNCHANGED vars PROVE Binding'
  BY <1>18, <1>14 DEF Cleanup, Retain, Tick, vars
<1>. QED BY <1>13, <1>15, <1>16, <1>17, <1>18 DEF Next

\* A computer never has two requests in progress, and a request in progress is
\* always one its helper may execute, whatever calls overlap: create_request,
\* update_target, complete, delete_target, stop, enable and delete of helpers.
THEOREM BindingCorrect == Spec => [](OneActivePerTarget /\ ActiveBound)
<1>1. Init => Binding
  <2>. SUFFICES ASSUME Init PROVE Binding
    OBVIOUS
  <2>1. TypeOK
    BY TypeInit
  <2>2. \A r \in Requests : ~Active(r)
    BY DEF Init, UnmadeRequest, Active, ActivePhases
  <2>. QED BY <2>1, <2>2 DEF Binding, OneActivePerTarget, ActiveBound
<1>2. Binding => OneActivePerTarget /\ ActiveBound
  BY DEF Binding
<1>. QED BY <1>1, <1>2, BindingStep, PTL DEF Spec

\* The half of it about the helper: the first request that poll finds claimable
\* is one it can hand out, so that it never blocks the requests behind it.
THEOREM RequestsBound == Spec => []ActiveBound
<1>1. OneActivePerTarget /\ ActiveBound => ActiveBound
  OBVIOUS
<1>. QED BY <1>1, BindingCorrect, PTL

-----------------------------------------------------------------------------
(***************************************************************************)
(* Evidence.  A delayed advance carries a clock and heartbeats of the past *)
(* (CallsPast); that is all it takes for what it decides to be true.       *)
(***************************************************************************)

CallsPast == \A h \in Tasks : calls[h].op = "advance" => calls[h].at <= now

LEMMA HonestLater ==
  ASSUME NEW q \in RequestRecords, NEW t \in Nat, NEW u \in Nat, t <= u, Honest(q, t)
  PROVE  Honest(q, u)
<1>1. Validity \in Nat /\ Observe \in Nat
  BY TimeAssumption
<1>. QED BY <1>1, NoneAssumption DEF Honest, RequestRecords, Option

LEMMA AdvanceHonest ==
  ASSUME NEW q \in RequestRecords, NEW t \in Nat, Honest(q, t),
         NEW at \in Nat, at <= t, NEW beat \in Option(Nat)
  PROVE  Honest(Advance(q, at, beat), t)
<1>1. Validity \in Nat /\ Observe \in Nat
  BY TimeAssumption
<1>2. CASE Advance(q, at, beat) = q
  BY <1>2
<1>3. CASE q.phase = "sent" /\ Advance(q, at, beat) # q
  <2>1. CASE ObservedOnline(q, beat, at)
    <3>1. Advance(q, at, beat) = [q EXCEPT !.phase = "online", !.online = beat]
      BY <1>3, <2>1 DEF Advance
    <3>2. beat \in Nat /\ q.created < beat /\ beat <= t
      BY <2>1 DEF ObservedOnline, Option, RequestRecords
    <3>. QED BY <1>1, <1>3, <3>1, <3>2, NoneAssumption DEF Honest, RequestRecords, Option
  <2>2. CASE ~ObservedOnline(q, beat, at)
    <3>1. /\ Advance(q, at, beat) = [q EXCEPT !.phase = "unconfirmed"]
          /\ at >= q.created + Observe
      BY <1>3, <2>2 DEF Advance
    <3>. QED BY <1>1, <1>3, <3>1, NoneAssumption DEF Honest, RequestRecords, Option
  <2>. QED BY <2>1, <2>2
<1>4. CASE q.phase # "sent" /\ Advance(q, at, beat) # q
  <2>1. /\ Advance(q, at, beat) = [q EXCEPT !.phase = "expired"]
        /\ q.phase \in {"queued", "claimed"} /\ at >= q.created + Validity
    BY <1>4 DEF Advance
  <2>. QED BY <1>1, <2>1, NoneAssumption DEF Honest, RequestRecords, Option
<1>. QED BY <1>2, <1>3, <1>4

\* The ends a request in progress may be given without further evidence.
LEMMA EndHonest ==
  ASSUME NEW q \in RequestRecords, NEW t \in Nat, Honest(q, t),
         q.phase \in ActivePhases, NEW phase \in {"cancelled", "interrupted"}
  PROVE  Honest([q EXCEPT !.phase = phase], t)
BY DEF Honest, RequestRecords, Option, ActivePhases

HonestList(rs, t) ==
  \A r \in Requests : rs[r].phase \notin {"unmade", "gone"} => Honest(rs[r], t)

LEMMA PruneHonest ==
  ASSUME NEW rs, RequestsTyped(rs), NEW t, HonestList(rs, t)
  PROVE  HonestList(Prune(rs), t)
<1>1. ASSUME NEW r \in Requests, Prune(rs)[r].phase \notin {"unmade", "gone"}
      PROVE  Prune(rs)[r] = rs[r]
  <2>1. rs[r] \in RequestRecords
    BY DEF RequestsTyped
  <2>2. [rs[r] EXCEPT !.phase = "gone"].phase = "gone"
    BY <2>1 DEF RequestRecords
  <2>. QED BY <1>1, <2>2, PruneShape
<1>. QED BY <1>1 DEF HonestList

LEMMA CancelHonest ==
  ASSUME TypeOK, HonestList(requests, now), NEW x
  PROVE  HonestList(CancelTarget(x), now) /\ HonestList(CancelAgent(x), now)
<1>1. \A r \in Requests : Active(r) =>
        Honest([requests[r] EXCEPT !.phase = "cancelled"], now)
  <2>1. \A r \in Requests : requests[r] \in RequestRecords
    BY DEF TypeOK, RequestsTyped
  <2>. QED
    BY <2>1, EndHonest DEF Active, ActivePhases, HonestList, TypeOK
<1>. QED
  BY <1>1 DEF HonestList, CancelTarget, CancelAgent, Finish

LEMMA CallsPastStep == TypeOK /\ CallsPast /\ [Next]_vars => CallsPast'
<1>. SUFFICES ASSUME TypeOK, CallsPast, [Next]_vars PROVE CallsPast'
  OBVIOUS
<1>. USE DEF Begin, Proceed, End
<1>1. ASSUME NEW h \in Tasks, NEW c, calls' = [calls EXCEPT ![h] = c],
             c.op = "advance" => c.at <= now, now' = now
      PROVE  CallsPast'
  BY <1>1 DEF CallsPast, TypeOK
<1>2. ASSUME calls' = calls, now' = now \/ now' = now + 1 PROVE CallsPast'
  <2>1. ASSUME NEW h \in Tasks, calls[h].op = "advance" PROVE calls[h].at \in Nat
    BY <2>1, CallFields DEF TypeOK
  <2>. QED BY <1>2, <2>1 DEF CallsPast, TypeOK
<1>3. ASSUME NEW h \in Tasks, calls' = [calls EXCEPT ![h] = Idle], now' = now
      PROVE  CallsPast'
  BY <1>1, <1>3 DEF Idle
<1>4. \A t, beats : AdvanceCall(t, beats).at <= now
  BY DEF AdvanceCall, TypeOK
<1>5. ASSUME NEW h \in Handlers, AccountStep(h) PROVE CallsPast'
  <2>. h \in Tasks
    BY DEF Tasks
  <2>1. ASSUME NEW t \in Targets, DeleteTarget(h, t) \/ RotateTarget(h, t) PROVE CallsPast'
    <3>. DEFINE c == [op |-> "forgetTarget", target |-> t]
    <3>1. c.op # "advance"
      OBVIOUS
    <3>2. calls' = [calls EXCEPT ![h] = c] /\ now' = now
      BY <2>1 DEF DeleteTarget, RotateTarget
    <3>. HIDE DEF c
    <3>. QED BY <1>1, <3>1, <3>2
  <2>2. ASSUME NEW a \in Agents, DeleteAgent(h, a) \/ StopAgent(h, a) \/ EnableAgent(h, a)
        PROVE  CallsPast'
    <3>. DEFINE c == [op |-> "forgetAgent", agent |-> a]
    <3>1. c.op # "advance"
      OBVIOUS
    <3>2. calls' = [calls EXCEPT ![h] = c] /\ now' = now
      BY <2>2 DEF DeleteAgent, StopAgent, EnableAgent
    <3>. HIDE DEF c
    <3>. QED BY <1>1, <3>1, <3>2
  <2>3. ASSUME NEW t \in Targets, AskWake(h, t) PROVE CallsPast'
    <3>. DEFINE c == [op |-> "create", target |-> t]
    <3>1. c.op # "advance"
      OBVIOUS
    <3>2. calls' = [calls EXCEPT ![h] = c] \/ calls' = [calls EXCEPT ![h] = AdvanceCall(t, targetSeen)]
      BY <2>3 DEF AskWake
    <3>3. now' = now
      BY <2>3 DEF AskWake
    <3>. HIDE DEF c
    <3>. QED BY <1>1, <1>4, <3>1, <3>2, <3>3
  <2>4. ASSUME Read(h) PROVE CallsPast'
    BY <2>4, <1>1, <1>4 DEF Read
  <2>5. ASSUME NEW a \in Agents, CreateAgent(a) PROVE CallsPast'
    BY <2>5, <1>2 DEF CreateAgent
  <2>6. ASSUME NEW t \in Targets, NEW d, NEW a, NEW b \in BOOLEAN,
               AddTarget(t, d, a, b) \/ Rebind(t, a, b)
        PROVE  CallsPast'
    BY <2>6, <1>2 DEF AddTarget, Rebind
  <2>7. \A t \in Targets : targets[t].setup \in BOOLEAN
    BY DEF TypeOK, TargetRecords
  <2>. QED
    BY <1>5, <2>1, <2>2, <2>3, <2>4, <2>5, <2>6, <2>7
    DEF AccountStep, EnrollTarget, CreateTarget, UpdateTarget, CompleteSetup
<1>6. ASSUME NEW h \in Handlers, DeviceStep(h) PROVE CallsPast'
  <2>. h \in Tasks
    BY DEF Tasks
  <2>1. ASSUME NEW a, NEW gen, NEW op \in {"seen", "disable"},
               calls' = [calls EXCEPT ![h] = [op |-> op, agent |-> a, gen |-> gen]],
               now' = now
        PROVE  CallsPast'
    BY <2>1 DEF CallsPast, TypeOK
  <2>2. ASSUME NEW a, NEW gen, NEW r, Authorize(h, a, gen, r) PROVE CallsPast'
    BY <2>2 DEF CallsPast, TypeOK, Authorize
  <2>3. ASSUME NEW a, NEW gen, NEW r, NEW outcome, Result(h, a, gen, r, outcome)
        PROVE  CallsPast'
    BY <2>3 DEF CallsPast, TypeOK, Result
  <2>4. ASSUME NEW t, NEW gen, Heartbeat(h, t, gen) PROVE CallsPast'
    BY <2>4 DEF CallsPast, TypeOK, Heartbeat
  <2>. QED BY <1>6, <2>1, <2>2, <2>3, <2>4 DEF DeviceStep, Poll, Disable
<1>7. ASSUME NEW h \in Tasks, Serve(h) PROVE CallsPast'
  <2>1. ASSUME AdvanceCommit(h) PROVE CallsPast'
    <3>. DEFINE c == IF calls[h].then = None THEN Idle
                     ELSE [op |-> "create", target |-> calls[h].then]
    <3>1. c.op # "advance"
      BY DEF Idle
    <3>2. calls' = [calls EXCEPT ![h] = c] /\ now' = now
      BY <2>1 DEF AdvanceCommit
    <3>. HIDE DEF c
    <3>. QED BY <1>1, <3>1, <3>2
  <2>2. ASSUME NEW op \in {"loop", "look", "claim"}, calls[h].op \in {"seen", "loop", "look"},
               calls' = [calls EXCEPT ![h] = [calls[h] EXCEPT !.op = op]], now' = now
        PROVE  CallsPast'
    <3>. DEFINE c == [calls[h] EXCEPT !.op = op]
    <3>1. c.op = op
      BY <2>2 DEF TypeOK, Call, Idle
    <3>. HIDE DEF c
    <3>2. calls' = [calls EXCEPT ![h] = c]
      BY <2>2 DEF c
    <3>. QED BY <1>1, <2>2, <3>1, <3>2
  <2>3. ASSUME PollSeen(h) \/ PollLoop(h) \/ PollLook(h) PROVE CallsPast'
    BY <2>2, <2>3 DEF PollSeen, PollLoop, PollLook
  <2>4. ASSUME DisableCommit(h) PROVE CallsPast'
    <3>. DEFINE c == [op |-> "forgetAgent", agent |-> calls[h].agent]
    <3>1. c.op # "advance"
      OBVIOUS
    <3>2. calls' = [calls EXCEPT ![h] = c] /\ now' = now
      BY <2>4 DEF DisableCommit
    <3>. HIDE DEF c
    <3>. QED BY <1>1, <3>1, <3>2
  <2>. QED
    BY <1>7, <1>3, <2>1, <2>3, <2>4
    DEF Serve, Forget, Deduplicate, Issue, Claim, AuthorizeCommit, ResultCommit,
        HeartbeatSeen, Abandon
<1>8. ASSUME Cleanup PROVE CallsPast'
  <2>. DEFINE c == [op |-> "retain", at |-> now,
                    agents |-> {a \in Agents : AgentListed(a)},
                    targets |-> {t \in Targets : Listed(t)}]
  <2>1. c.op # "advance"
    OBVIOUS
  <2>2. calls' = [calls EXCEPT ![Cleaner] = c] /\ now' = now /\ Cleaner \in Tasks
    BY <1>8 DEF Cleanup, Tasks
  <2>. HIDE DEF c
  <2>. QED BY <1>1, <2>1, <2>2
<1>11. ASSUME Retain PROVE CallsPast'
  <2>1. \/ calls' = [calls EXCEPT ![Cleaner] = Idle]
        \/ calls' = [calls EXCEPT ![Cleaner] = AdvanceCall(None, targetSeen')]
    BY <1>11 DEF Retain, Advancing
  <2>2. now' = now /\ Cleaner \in Tasks
    BY <1>11 DEF Retain, Tasks
  <2>. QED BY <1>1, <1>3, <1>4, <2>1, <2>2
<1>9. ASSUME Restart PROVE CallsPast'
  BY <1>9 DEF Restart, CallsPast, Idle
<1>10. ASSUME Tick \/ UNCHANGED vars PROVE CallsPast'
  BY <1>10, <1>2 DEF Tick, vars
<1>. QED BY <1>5, <1>6, <1>7, <1>8, <1>9, <1>10, <1>11 DEF Next

LEMMA EvidenceStep ==
  TypeOK /\ TypeOK' /\ Evidence /\ CallsPast /\ [Next]_vars => Evidence'
<1>. SUFFICES ASSUME TypeOK, TypeOK', Evidence, CallsPast, [Next]_vars PROVE Evidence'
  OBVIOUS
<1>. /\ RequestsTyped(requests) /\ HonestList(requests, now)
     /\ \A r \in Requests : requests[r] \in RequestRecords
     /\ now \in Nat /\ Validity \in Nat /\ Observe \in Nat
  BY TimeAssumption DEF Evidence, HonestList, Stored, TypeOK, RequestsTyped
<1>1. ASSUME NEW rs, RequestsTyped(rs), HonestList(rs, now),
             requests' = Prune(rs), now' = now
      PROVE  Evidence'
  BY <1>1, PruneHonest DEF Evidence, HonestList, Stored
<1>2. ASSUME requests' = Prune(requests) \/ requests' = requests, now' = now
      PROVE  Evidence'
  BY <1>1, <1>2 DEF Evidence, HonestList, Stored
<1>3. ASSUME NEW x, requests' = Prune(CancelTarget(x)) \/ requests' = Prune(CancelAgent(x)),
             now' = now
      PROVE  Evidence'
  BY <1>1, <1>3, CancelTyped, CancelHonest
<1>4. ASSUME NEW r \in Requests, NEW q \in RequestRecords, q.target \in Targets,
             q.agent \in Agents, Honest(q, now),
             requests' = Prune([requests EXCEPT ![r] = q]), now' = now
      PROVE  Evidence'
  <2>1. RequestsTyped([requests EXCEPT ![r] = q])
    BY <1>4, UpdateTyped
  <2>2. HonestList([requests EXCEPT ![r] = q], now)
    BY <1>4 DEF HonestList, RequestsTyped
  <2>. QED BY <1>1, <1>4, <2>1, <2>2
<1>5. ASSUME NEW h \in Handlers, AccountStep(h) PROVE Evidence'
  <2>1. ASSUME NEW t \in Targets, DeleteTarget(h, t) PROVE Evidence'
    <3>. DEFINE rs == [r \in Requests |->
                         IF Stored(r) /\ requests[r].target = t
                         THEN [requests[r] EXCEPT !.phase = "gone"]
                         ELSE requests[r]]
    <3>1. \A r \in Requests : /\ [requests[r] EXCEPT !.phase = "gone"] \in RequestRecords
                              /\ [requests[r] EXCEPT !.phase = "gone"].phase = "gone"
      BY DEF RequestRecords
    <3>2. RequestsTyped(rs)
      BY <3>1 DEF RequestsTyped
    <3>3. HonestList(rs, now)
      BY <3>1 DEF HonestList
    <3>. QED BY <1>1, <2>1, <3>2, <3>3 DEF DeleteTarget
  <2>2. ASSUME NEW t \in Targets, NEW a, NEW b, Rebind(t, a, b) PROVE Evidence'
    BY <2>2, <1>3 DEF Rebind
  <2>3. ASSUME NEW a \in Agents, DeleteAgent(h, a) \/ StopAgent(h, a) \/ EnableAgent(h, a)
        PROVE  Evidence'
    BY <2>3, <1>3 DEF DeleteAgent, StopAgent, StopHelper, EnableAgent
  <2>4. ASSUME NEW a \in Agents, CreateAgent(a) PROVE Evidence'
    BY <2>4, <1>2 DEF CreateAgent
  <2>5. ASSUME NEW t \in Targets, NEW d, NEW a, NEW b, AddTarget(t, d, a, b)
        PROVE  Evidence'
    BY <2>5, <1>2 DEF AddTarget
  <2>6. ASSUME NEW t \in Targets, RotateTarget(h, t) \/ AskWake(h, t) PROVE Evidence'
    BY <2>6, <1>2 DEF RotateTarget, AskWake, data
  <2>7. ASSUME Read(h) PROVE Evidence'
    BY <2>7, <1>2 DEF Read, data
  <2>. QED
    BY <1>5, <2>1, <2>2, <2>3, <2>4, <2>5, <2>6, <2>7
    DEF AccountStep, EnrollTarget, CreateTarget, UpdateTarget, CompleteSetup
<1>6. ASSUME NEW h \in Handlers, DeviceStep(h) PROVE Evidence'
  BY <1>6, <1>2 DEF DeviceStep, Poll, Disable, Authorize, Result, Heartbeat, data
<1>7. ASSUME NEW h \in Tasks, AdvanceCommit(h) PROVE Evidence'
  <2>. DEFINE rs == [r \in Requests |->
                       IF Stored(r)
                       THEN Advance(requests[r], calls[h].at,
                                    calls[h].beats[requests[r].target])
                       ELSE requests[r]]
  <2>1. calls[h].at \in Nat /\ calls[h].at <= now
        /\ calls[h].beats \in [Targets -> Option(Nat)]
    BY <1>7, CallFields DEF AdvanceCommit, CallsPast, TypeOK
  <2>2. ASSUME NEW r \in Requests, Stored(r)
        PROVE  LET q == Advance(requests[r], calls[h].at,
                                calls[h].beats[requests[r].target])
               IN  /\ q \in RequestRecords /\ Honest(q, now)
                   /\ q.target = requests[r].target /\ q.agent = requests[r].agent
    <3>1. requests[r].target \in Targets /\ Honest(requests[r], now)
      BY <2>2 DEF RequestsTyped, HonestList, Stored
    <3>2. calls[h].beats[requests[r].target] \in Option(Nat)
      BY <2>1, <3>1
    <3>. QED BY <2>1, <3>1, <3>2, AdvanceHonest, AdvanceTyped
  <2>3. RequestsTyped(rs)
    BY <2>2 DEF RequestsTyped, Stored
  <2>4. HonestList(rs, now)
    BY <2>2 DEF HonestList, Stored
  <2>. QED BY <1>1, <1>7, <2>3, <2>4 DEF AdvanceCommit
<1>8. ASSUME NEW h \in Tasks, NEW r \in Requests, Issue(h, r) PROVE Evidence'
  <2>. DEFINE t == calls[h].target
  <2>1. t \in Targets /\ targets[t].agent \in Agents /\ targets[t].rev \in Nat
    BY <1>8, CallFields DEF Issue, TypeOK, Enabled, TargetRecords
  <2>2. NewRequest(t) \in RequestRecords
    BY <2>1 DEF NewRequest, RequestRecords, ActivePhases, Option
  <2>3. Honest(NewRequest(t), now)
    BY DEF NewRequest, Honest
  <2>. QED BY <1>4, <1>8, <2>1, <2>2, <2>3 DEF Issue, NewRequest
<1>9. ASSUME NEW h \in Tasks, NEW r \in Requests, Claim(h, r) PROVE Evidence'
  <2>. DEFINE q == [requests[r] EXCEPT !.phase = "claimed"]
  <2>1. /\ requests[r].phase \in {"queued", "claimed"} /\ Honest(requests[r], now)
        /\ requests[r].target \in Targets /\ requests[r].agent \in Agents
    BY <1>9 DEF Claim, Claimable, HonestList, RequestsTyped
  <2>2. /\ q \in RequestRecords
        /\ q.target = requests[r].target /\ q.agent = requests[r].agent
    BY DEF RequestRecords, ActivePhases
  <2>3. Honest(q, now)
    BY <2>1 DEF Honest, RequestRecords, Option
  <2>. HIDE DEF q
  <2>4. requests' = Prune([requests EXCEPT ![r] = q]) /\ now' = now
    BY <1>9 DEF Claim, q
  <2>. QED BY <1>4, <2>1, <2>2, <2>3, <2>4
<1>10. ASSUME NEW h \in Tasks, AuthorizeCommit(h) PROVE Evidence'
  <2>. DEFINE r == calls[h].req
              q == [requests[r] EXCEPT !.authorized = now]
  <2>1. /\ r \in Requests
        /\ requests[r].phase = "claimed" /\ now < Expires(r)
        /\ requests[r].authorized = None
    BY <1>10, CallFields DEF AuthorizeCommit, AuthorizeAllowed, TypeOK
  <2>2. /\ Honest(requests[r], now)
        /\ requests[r].target \in Targets /\ requests[r].agent \in Agents
    BY <2>1 DEF HonestList, RequestsTyped
  <2>3. /\ q \in RequestRecords
        /\ q.target = requests[r].target /\ q.agent = requests[r].agent
    BY <2>1 DEF RequestRecords, Option
  <2>4. Honest(q, now)
    BY <2>1, <2>2, NoneAssumption DEF Honest, RequestRecords, Option, Expires
  <2>. HIDE DEF q
  <2>5. requests' = Prune([requests EXCEPT ![r] = q]) /\ now' = now
    BY <1>10 DEF AuthorizeCommit, q
  <2>. QED BY <1>4, <2>1, <2>2, <2>3, <2>4, <2>5
<1>11. ASSUME NEW h \in Tasks, ResultCommit(h) PROVE Evidence'
  <2>. DEFINE r == calls[h].req
              q == Reported(r, calls[h].outcome)
              s == [requests[r] EXCEPT !.phase = "sent", !.sent = now]
              f == [requests[r] EXCEPT !.phase = "failed"]
  <2>1. CASE ResultAllowed(calls[h].agent, r, calls[h].outcome)
    <3>1. /\ r \in Requests
          /\ requests[r].phase = "claimed" /\ now < Expires(r)
          /\ calls[h].outcome = "sent" => requests[r].authorized # None
      BY <1>11, <2>1, CallFields DEF ResultCommit, ResultAllowed, TypeOK
    <3>2. /\ Honest(requests[r], now)
          /\ requests[r].target \in Targets /\ requests[r].agent \in Agents
      BY <3>1 DEF HonestList, RequestsTyped
    <3>3. q \in RequestRecords /\ q.target \in Targets /\ q.agent \in Agents
      BY <3>1, <3>2, ReportedTyped
    <3>4. ASSUME calls[h].outcome = "sent" PROVE Honest(q, now)
      <4>1. s \in RequestRecords
        <5>1. requests[r] \in RequestRecords
          BY <3>1
        <5>. HIDE DEF r
        <5>. QED BY <5>1 DEF RequestRecords, Option, ActivePhases
      <4>2. Honest(s, now)
        BY <3>1, <3>2, <3>4, NoneAssumption DEF Honest, RequestRecords, Option, Expires
      <4>3. targetSeen[requests[r].target] \in Option(Nat)
        BY <3>2 DEF TypeOK
      <4>4. q = Advance(s, now, targetSeen[requests[r].target])
        BY <3>4 DEF Reported
      <4>. HIDE DEF s, q
      <4>. QED BY <4>1, <4>2, <4>3, <4>4, AdvanceHonest
    <3>5. ASSUME calls[h].outcome # "sent" PROVE Honest(q, now)
      <4>1. q = f
        BY <3>5 DEF Reported
      <4>2. Honest(f, now)
        BY <3>1, <3>2 DEF Honest, RequestRecords, Option
      <4>. QED BY <4>1, <4>2
    <3>6. Honest(q, now)
      BY <3>4, <3>5
    <3>. HIDE DEF q
    <3>7. /\ \/ requests' = Prune(requests)
             \/ requests' = Prune([requests EXCEPT ![r] = q])
          /\ now' = now
      BY <1>11 DEF ResultCommit, q
    <3>. QED BY <1>2, <1>4, <3>1, <3>3, <3>6, <3>7
  <2>2. CASE ~ResultAllowed(calls[h].agent, r, calls[h].outcome)
    BY <1>11, <2>2, <1>2 DEF ResultCommit
  <2>. QED BY <2>1, <2>2
<1>12. ASSUME NEW h \in Tasks, DisableCommit(h) PROVE Evidence'
  BY <1>12, <1>3 DEF DisableCommit, StopHelper
<1>13. ASSUME NEW h \in Tasks, Serve(h) PROVE Evidence'
  <2>1. ASSUME Forget(h) \/ Deduplicate(h) \/ PollSeen(h) \/ PollLoop(h)
               \/ PollLook(h) \/ HeartbeatSeen(h) \/ Abandon(h)
        PROVE  Evidence'
    BY <2>1, <1>2
    DEF Forget, Deduplicate, PollSeen, PollLoop, PollLook, HeartbeatSeen, Abandon, data
  <2>. QED BY <1>13, <1>7, <1>8, <1>9, <1>10, <1>11, <1>12, <2>1 DEF Serve
<1>14. ASSUME Restart PROVE Evidence'
  <2>. DEFINE p == Prune(requests)
  <2>1. RequestsTyped(p) /\ HonestList(p, now)
    BY PruneTyped, PruneHonest
  <2>2. \A r \in Requests : p[r].phase \in ActivePhases =>
          Honest([p[r] EXCEPT !.phase = "interrupted"], now)
    <3>1. \A r \in Requests : p[r].phase \in ActivePhases =>
            p[r] \in RequestRecords /\ Honest(p[r], now)
      BY <2>1 DEF RequestsTyped, HonestList, ActivePhases
    <3>. HIDE DEF p
    <3>. QED BY <3>1, EndHonest
  <2>. HIDE DEF p
  <2>3. /\ requests' = [r \in Requests |-> IF p[r].phase \in ActivePhases
                                           THEN [p[r] EXCEPT !.phase = "interrupted"]
                                           ELSE p[r]]
        /\ now' = now
    BY <1>14 DEF Restart, Recovered, p
  <2>4. HonestList(requests', now)
    BY <2>1, <2>2, <2>3 DEF HonestList
  <2>. QED BY <2>3, <2>4 DEF Evidence, HonestList, Stored
<1>15. ASSUME Tick PROVE Evidence'
  <2>1. now' = now + 1 /\ requests' = requests
    BY <1>15 DEF Tick, data
  <2>. QED BY <2>1, HonestLater DEF Evidence, HonestList, Stored
<1>16. ASSUME Cleanup \/ Retain \/ UNCHANGED vars PROVE Evidence'
  BY <1>16, <1>2 DEF Cleanup, Retain, vars, data
<1>. QED BY <1>5, <1>6, <1>13, <1>14, <1>15, <1>16 DEF Next

\* What the record of a stored request claims is true, whatever clock and
\* heartbeats the advances that were delayed carry: no permit or receipt outside
\* the validity, no receipt without a permit, no online without a later heartbeat.
THEOREM EvidenceCorrect == Spec => []Evidence
<1>1. Init => TypeOK /\ Evidence /\ CallsPast
  BY TypeInit DEF Init, Evidence, Stored, UnmadeRequest, CallsPast, Idle
<1>2. TypeOK /\ Evidence /\ CallsPast /\ [Next]_vars => (TypeOK /\ Evidence /\ CallsPast)'
  BY TypeStep, EvidenceStep, CallsPastStep
<1>. QED BY <1>1, <1>2, PTL DEF Spec

-----------------------------------------------------------------------------
(***************************************************************************)
(* History.  A step may only move a record onward.                         *)
(***************************************************************************)

Unmade == \A r \in Requests : requests[r].phase = "unmade" => requests[r].authorized = None

\* q may become p: a permit stays, an end stays or is pruned, what is pruned
\* does not come back, and a request stays with the helper it was made for.
Onward(q, p) ==
  /\ q.authorized # None => p.authorized = q.authorized
  /\ q.phase \in TerminalPhases => p.phase \in {q.phase, "gone"}
  /\ q.phase = "gone" => p.phase = "gone"
  /\ q.phase # "unmade" => p.phase # "unmade" /\ p.agent = q.agent
  /\ p.phase = "unmade" => p.authorized = None

OnwardList(rs) == \A r \in Requests : Onward(requests[r], rs[r])

LEMMA PruneOnward ==
  ASSUME NEW rs, RequestsTyped(rs), OnwardList(rs)
  PROVE  OnwardList(Prune(rs))
<1>1. ASSUME NEW r \in Requests PROVE Onward(requests[r], Prune(rs)[r])
  <2>1. rs[r] \in RequestRecords /\ Onward(requests[r], rs[r])
    BY DEF RequestsTyped, OnwardList
  <2>2. /\ [rs[r] EXCEPT !.phase = "gone"].phase = "gone"
        /\ [rs[r] EXCEPT !.phase = "gone"].authorized = rs[r].authorized
    BY <2>1 DEF RequestRecords
  <2>3. Onward(requests[r], [rs[r] EXCEPT !.phase = "gone"])
    BY <2>1, <2>2 DEF Onward
  <2>. QED BY <2>1, <2>3, PruneShape
<1>. QED BY <1>1 DEF OnwardList

LEMMA AdvanceOnward ==
  ASSUME NEW q \in RequestRecords, NEW at, NEW beat \in Option(Nat),
         q.phase \notin {"unmade", "gone"}
  PROVE  Onward(q, Advance(q, at, beat))
BY DEF Advance, ObservedOnline, Onward, RequestRecords, TerminalPhases

LEMMA OnwardStep == TypeOK /\ TypeOK' /\ Unmade /\ [Next]_vars => OnwardList(requests')
<1>. SUFFICES ASSUME TypeOK, TypeOK', Unmade, [Next]_vars PROVE OnwardList(requests')
  OBVIOUS
<1>. /\ RequestsTyped(requests)
     /\ \A r \in Requests : requests[r] \in RequestRecords
  BY DEF TypeOK, RequestsTyped
<1>0. OnwardList(requests)
  BY DEF OnwardList, Onward, Unmade
<1>1. ASSUME NEW rs, RequestsTyped(rs), OnwardList(rs), requests' = Prune(rs)
      PROVE  OnwardList(requests')
  BY <1>1, PruneOnward
<1>2. ASSUME requests' = Prune(requests) \/ requests' = requests
      PROVE  OnwardList(requests')
  BY <1>0, <1>1, <1>2
<1>3. ASSUME NEW x, requests' = Prune(CancelTarget(x)) \/ requests' = Prune(CancelAgent(x))
      PROVE  OnwardList(requests')
  <2>1. \A r \in Requests : Active(r) =>
          Onward(requests[r], [requests[r] EXCEPT !.phase = "cancelled"])
    BY DEF Onward, RequestRecords, Active, ActivePhases, TerminalPhases
  <2>2. OnwardList(CancelTarget(x)) /\ OnwardList(CancelAgent(x))
    BY <1>0, <2>1 DEF OnwardList, CancelTarget, CancelAgent, Finish
  <2>. QED BY <1>1, <1>3, <2>2, CancelTyped
<1>4. ASSUME NEW r \in Requests, NEW q \in RequestRecords, q.target \in Targets,
             q.agent \in Agents, Onward(requests[r], q),
             requests' = Prune([requests EXCEPT ![r] = q])
      PROVE  OnwardList(requests')
  <2>1. RequestsTyped([requests EXCEPT ![r] = q])
    BY <1>4, UpdateTyped
  <2>2. OnwardList([requests EXCEPT ![r] = q])
    BY <1>0, <1>4 DEF OnwardList, RequestsTyped
  <2>. QED BY <1>1, <1>4, <2>1, <2>2
<1>5. ASSUME NEW h \in Handlers, AccountStep(h) PROVE OnwardList(requests')
  <2>1. ASSUME NEW t \in Targets, DeleteTarget(h, t) PROVE OnwardList(requests')
    <3>. DEFINE rs == [r \in Requests |->
                         IF Stored(r) /\ requests[r].target = t
                         THEN [requests[r] EXCEPT !.phase = "gone"]
                         ELSE requests[r]]
    <3>1. \A r \in Requests : /\ [requests[r] EXCEPT !.phase = "gone"] \in RequestRecords
                              /\ [requests[r] EXCEPT !.phase = "gone"].phase = "gone"
                              /\ Onward(requests[r], [requests[r] EXCEPT !.phase = "gone"])
      BY DEF RequestRecords, Onward
    <3>2. RequestsTyped(rs)
      BY <3>1 DEF RequestsTyped
    <3>3. OnwardList(rs)
      BY <1>0, <3>1 DEF OnwardList
    <3>. QED BY <1>1, <2>1, <3>2, <3>3 DEF DeleteTarget
  <2>2. ASSUME NEW t \in Targets, NEW a, NEW b, Rebind(t, a, b) PROVE OnwardList(requests')
    BY <2>2, <1>3 DEF Rebind
  <2>3. ASSUME NEW a \in Agents, DeleteAgent(h, a) \/ StopAgent(h, a) \/ EnableAgent(h, a)
        PROVE  OnwardList(requests')
    BY <2>3, <1>3 DEF DeleteAgent, StopAgent, StopHelper, EnableAgent
  <2>4. ASSUME NEW a \in Agents, CreateAgent(a) PROVE OnwardList(requests')
    BY <2>4, <1>2 DEF CreateAgent
  <2>5. ASSUME NEW t \in Targets, NEW d, NEW a, NEW b, AddTarget(t, d, a, b)
        PROVE  OnwardList(requests')
    BY <2>5, <1>2 DEF AddTarget
  <2>6. ASSUME NEW t \in Targets, RotateTarget(h, t) \/ AskWake(h, t)
        PROVE  OnwardList(requests')
    BY <2>6, <1>2 DEF RotateTarget, AskWake, data
  <2>7. ASSUME Read(h) PROVE OnwardList(requests')
    BY <2>7, <1>2 DEF Read, data
  <2>. QED
    BY <1>5, <2>1, <2>2, <2>3, <2>4, <2>5, <2>6, <2>7
    DEF AccountStep, EnrollTarget, CreateTarget, UpdateTarget, CompleteSetup
<1>6. ASSUME NEW h \in Handlers, DeviceStep(h) PROVE OnwardList(requests')
  BY <1>6, <1>2 DEF DeviceStep, Poll, Disable, Authorize, Result, Heartbeat, data
<1>7. ASSUME NEW h \in Tasks, AdvanceCommit(h) PROVE OnwardList(requests')
  <2>. DEFINE rs == [r \in Requests |->
                       IF Stored(r)
                       THEN Advance(requests[r], calls[h].at,
                                    calls[h].beats[requests[r].target])
                       ELSE requests[r]]
  <2>1. calls[h].at \in Nat /\ calls[h].beats \in [Targets -> Option(Nat)]
    BY <1>7, CallFields DEF AdvanceCommit, TypeOK
  <2>2. ASSUME NEW r \in Requests, Stored(r)
        PROVE  LET q == Advance(requests[r], calls[h].at,
                                calls[h].beats[requests[r].target])
               IN  /\ q \in RequestRecords /\ Onward(requests[r], q)
                   /\ q.target = requests[r].target /\ q.agent = requests[r].agent
    <3>1. requests[r].target \in Targets
      BY <2>2 DEF RequestsTyped, Stored
    <3>2. calls[h].beats[requests[r].target] \in Option(Nat)
      BY <2>1, <3>1
    <3>. QED BY <2>1, <2>2, <3>2, AdvanceOnward, AdvanceTyped DEF Stored
  <2>3. RequestsTyped(rs)
    BY <2>2 DEF RequestsTyped, Stored
  <2>4. OnwardList(rs)
    BY <1>0, <2>2 DEF OnwardList
  <2>. QED BY <1>1, <1>7, <2>3, <2>4 DEF AdvanceCommit
<1>8. ASSUME NEW h \in Tasks, NEW r \in Requests, Issue(h, r) PROVE OnwardList(requests')
  <2>. DEFINE t == calls[h].target
  <2>1. t \in Targets /\ targets[t].agent \in Agents /\ targets[t].rev \in Nat
    BY <1>8, CallFields DEF Issue, TypeOK, Enabled, TargetRecords
  <2>2. NewRequest(t) \in RequestRecords
    BY <2>1 DEF NewRequest, RequestRecords, ActivePhases, Option, TypeOK
  <2>3. Onward(requests[r], NewRequest(t))
    BY <1>8 DEF Issue, NewRequest, Onward, Unmade, TerminalPhases
  <2>. QED BY <1>4, <1>8, <2>1, <2>2, <2>3 DEF Issue, NewRequest
<1>9. ASSUME NEW h \in Tasks, NEW r \in Requests, Claim(h, r) PROVE OnwardList(requests')
  <2>. DEFINE q == [requests[r] EXCEPT !.phase = "claimed"]
  <2>1. /\ requests[r].phase \in {"queued", "claimed"}
        /\ requests[r].target \in Targets /\ requests[r].agent \in Agents
    BY <1>9 DEF Claim, Claimable, RequestsTyped
  <2>2. /\ q \in RequestRecords
        /\ q.target = requests[r].target /\ q.agent = requests[r].agent
    BY DEF RequestRecords, ActivePhases
  <2>3. Onward(requests[r], q)
    BY <2>1 DEF Onward, RequestRecords, TerminalPhases
  <2>. HIDE DEF q
  <2>4. requests' = Prune([requests EXCEPT ![r] = q])
    BY <1>9 DEF Claim, q
  <2>. QED BY <1>4, <2>1, <2>2, <2>3, <2>4
<1>10. ASSUME NEW h \in Tasks, AuthorizeCommit(h) PROVE OnwardList(requests')
  <2>. DEFINE r == calls[h].req
              q == [requests[r] EXCEPT !.authorized = now]
  <2>1. /\ r \in Requests
        /\ requests[r].phase = "claimed" /\ requests[r].authorized = None
    BY <1>10, CallFields DEF AuthorizeCommit, AuthorizeAllowed, TypeOK
  <2>2. requests[r].target \in Targets /\ requests[r].agent \in Agents
    BY <2>1 DEF RequestsTyped
  <2>3. /\ q \in RequestRecords
        /\ q.target = requests[r].target /\ q.agent = requests[r].agent
    BY <2>1 DEF RequestRecords, Option, TypeOK
  <2>4. Onward(requests[r], q)
    BY <2>1 DEF Onward, RequestRecords, TerminalPhases
  <2>. HIDE DEF q
  <2>5. requests' = Prune([requests EXCEPT ![r] = q])
    BY <1>10 DEF AuthorizeCommit, q
  <2>. QED BY <1>4, <2>1, <2>2, <2>3, <2>4, <2>5
<1>11. ASSUME NEW h \in Tasks, ResultCommit(h) PROVE OnwardList(requests')
  <2>. DEFINE r == calls[h].req
              q == Reported(r, calls[h].outcome)
  <2>1. CASE ResultAllowed(calls[h].agent, r, calls[h].outcome)
    <3>1. r \in Requests /\ requests[r].phase = "claimed"
      BY <1>11, <2>1, CallFields DEF ResultCommit, ResultAllowed, TypeOK
    <3>2. requests[r].target \in Targets /\ requests[r].agent \in Agents
      BY <3>1 DEF RequestsTyped
    <3>3. q \in RequestRecords /\ q.target \in Targets /\ q.agent \in Agents
      BY <3>1, <3>2, ReportedTyped
    <3>4. Onward(requests[r], q)
      <4>1. requests[r] \in RequestRecords
        BY <3>1
      <4>. HIDE DEF r
      <4>. QED BY <3>1, <4>1 DEF Reported, Advance, Onward, RequestRecords, TerminalPhases
    <3>. HIDE DEF q
    <3>5. \/ requests' = Prune(requests)
          \/ requests' = Prune([requests EXCEPT ![r] = q])
      BY <1>11 DEF ResultCommit, q
    <3>. QED BY <1>2, <1>4, <3>1, <3>3, <3>4, <3>5
  <2>2. CASE ~ResultAllowed(calls[h].agent, r, calls[h].outcome)
    BY <1>11, <2>2, <1>2 DEF ResultCommit
  <2>. QED BY <2>1, <2>2
<1>12. ASSUME NEW h \in Tasks, DisableCommit(h) PROVE OnwardList(requests')
  BY <1>12, <1>3 DEF DisableCommit, StopHelper
<1>13. ASSUME NEW h \in Tasks, Serve(h) PROVE OnwardList(requests')
  <2>1. ASSUME Forget(h) \/ Deduplicate(h) \/ PollSeen(h) \/ PollLoop(h)
               \/ PollLook(h) \/ HeartbeatSeen(h) \/ Abandon(h)
        PROVE  OnwardList(requests')
    BY <2>1, <1>2
    DEF Forget, Deduplicate, PollSeen, PollLoop, PollLook, HeartbeatSeen, Abandon, data
  <2>. QED BY <1>13, <1>7, <1>8, <1>9, <1>10, <1>11, <1>12, <2>1 DEF Serve
<1>14. ASSUME Restart PROVE OnwardList(requests')
  <2>. DEFINE p == Prune(requests)
  <2>1. RequestsTyped(p) /\ OnwardList(p)
    BY <1>0, PruneTyped, PruneOnward
  <2>2. \A r \in Requests : p[r].phase \in ActivePhases =>
          Onward(requests[r], [p[r] EXCEPT !.phase = "interrupted"])
    <3>1. \A r \in Requests : p[r] \in RequestRecords /\ Onward(requests[r], p[r])
      BY <2>1 DEF RequestsTyped, OnwardList
    <3>. HIDE DEF p
    <3>. QED BY <3>1 DEF Onward, RequestRecords, ActivePhases, TerminalPhases
  <2>. HIDE DEF p
  <2>3. requests' = [r \in Requests |-> IF p[r].phase \in ActivePhases
                                        THEN [p[r] EXCEPT !.phase = "interrupted"]
                                        ELSE p[r]]
    BY <1>14 DEF Restart, Recovered, p
  <2>. QED BY <2>1, <2>2, <2>3 DEF OnwardList
<1>15. ASSUME Tick \/ Cleanup \/ Retain \/ UNCHANGED vars PROVE OnwardList(requests')
  BY <1>15, <1>2 DEF Tick, Cleanup, Retain, vars, data
<1>. QED BY <1>5, <1>6, <1>13, <1>14, <1>15 DEF Next

LEMMA History ==
  Spec => [](TypeOK /\ Unmade) /\ [][OnwardList(requests')]_vars
<1>1. Init => TypeOK /\ Unmade
  BY TypeInit DEF Init, Unmade, UnmadeRequest
<1>2. TypeOK /\ Unmade /\ [Next]_vars =>
        (TypeOK /\ Unmade)' /\ [OnwardList(requests')]_vars
  BY TypeStep, OnwardStep DEF OnwardList, Onward, Unmade
<1>. QED BY <1>1, <1>2, PTL DEF Spec

\* A request gets at most one permit: no later authorize call, no overlapping
\* commit and no restart gives it again or takes it back.
THEOREM PermitOnce == Spec => AuthorizedOnce
<1>1. [OnwardList(requests')]_vars =>
        [\A r \in Requests : requests[r].authorized # None =>
           requests'[r].authorized = requests[r].authorized]_vars
  BY DEF OnwardList, Onward
<1>. QED BY <1>1, History, PTL DEF AuthorizedOnce

\* No receipt, advance, cancellation or restart revives or rewrites a request
\* that has ended.
THEOREM EndsForGood == Spec => TerminalForGood
<1>1. [OnwardList(requests')]_vars =>
        [\A r \in Requests : requests[r].phase \in TerminalPhases =>
           requests'[r].phase \in {requests[r].phase, "gone"}]_vars
  BY DEF OnwardList, Onward
<1>. QED BY <1>1, History, PTL DEF TerminalForGood

-----------------------------------------------------------------------------
(***************************************************************************)
(* Credentials.  authorize and result look at the credential before the    *)
(* store's lock and not under it.  That is enough because whatever takes   *)
(* the credential away also ends the requests it could name (Captured).    *)
(***************************************************************************)

Captured ==
  \A h \in Tasks : calls[h].op \in {"authorize", "result"} =>
    /\ requests[calls[h].req].phase # "unmade"
    /\ requests[calls[h].req].agent = calls[h].agent
    /\ Active(calls[h].req) => AgentToken(calls[h].agent, calls[h].gen)

\* A call that names a request was there before, or has just compared its
\* credential.
LEMMA NamedStep ==
  ASSUME TypeOK, [Next]_vars, NEW k \in Tasks,
         calls'[k].op \in {"authorize", "result"}
  PROVE  \/ calls'[k] = calls[k]
         \/ /\ RequestToken(calls'[k].agent, calls'[k].gen, calls'[k].req)
            /\ calls'[k].req \in Requests
            /\ agents' = agents /\ requests' = requests
<1>. DEFINE Named == \/ calls'[k] = calls[k]
                     \/ /\ RequestToken(calls'[k].agent, calls'[k].gen, calls'[k].req)
                        /\ calls'[k].req \in Requests
                        /\ agents' = agents /\ requests' = requests
<1>. USE DEF Begin, Proceed, End
<1>1. ASSUME NEW h \in Tasks, NEW c, calls' = [calls EXCEPT ![h] = c],
             c.op \notin {"authorize", "result"}
      PROVE  Named
  BY <1>1 DEF TypeOK
<1>2. ASSUME NEW h \in Tasks, calls' = [calls EXCEPT ![h] = Idle] PROVE Named
  BY <1>1, <1>2 DEF Idle
<1>3. \A t, beats : AdvanceCall(t, beats).op = "advance"
  BY DEF AdvanceCall
<1>4. ASSUME calls' = calls PROVE Named
  BY <1>4
<1>. HIDE DEF Named
<1>5. ASSUME NEW h \in Handlers, AccountStep(h) PROVE Named
  <2>. h \in Tasks
    BY DEF Tasks
  <2>1. ASSUME NEW t \in Targets, DeleteTarget(h, t) \/ RotateTarget(h, t) PROVE Named
    <3>1. calls' = [calls EXCEPT ![h] = [op |-> "forgetTarget", target |-> t]]
      BY <2>1 DEF DeleteTarget, RotateTarget
    <3>. QED BY <1>1, <3>1
  <2>2. ASSUME NEW a \in Agents, DeleteAgent(h, a) \/ StopAgent(h, a) \/ EnableAgent(h, a)
        PROVE  Named
    <3>1. calls' = [calls EXCEPT ![h] = [op |-> "forgetAgent", agent |-> a]]
      BY <2>2 DEF DeleteAgent, StopAgent, EnableAgent
    <3>. QED BY <1>1, <3>1
  <2>3. ASSUME NEW t \in Targets, AskWake(h, t) PROVE Named
    <3>1. \/ calls' = [calls EXCEPT ![h] = [op |-> "create", target |-> t]]
          \/ calls' = [calls EXCEPT ![h] = AdvanceCall(t, targetSeen)]
      BY <2>3 DEF AskWake
    <3>. QED BY <1>1, <1>3, <3>1
  <2>4. ASSUME Read(h) PROVE Named
    BY <2>4, <1>1, <1>3 DEF Read
  <2>5. ASSUME NEW a \in Agents, CreateAgent(a) PROVE Named
    BY <2>5, <1>4 DEF CreateAgent
  <2>6. ASSUME NEW t \in Targets, NEW d, NEW a, NEW b,
               AddTarget(t, d, a, b) \/ Rebind(t, a, b)
        PROVE  Named
    BY <2>6, <1>4 DEF AddTarget, Rebind
  <2>. QED
    BY <1>5, <2>1, <2>2, <2>3, <2>4, <2>5, <2>6
    DEF AccountStep, EnrollTarget, CreateTarget, UpdateTarget, CompleteSetup
<1>6. ASSUME NEW h \in Handlers, DeviceStep(h) PROVE Named
  <2>. h \in Tasks
    BY DEF Tasks
  <2>1. ASSUME NEW a, NEW gen, Poll(h, a, gen) \/ Disable(h, a, gen) PROVE Named
    <3>1. \/ calls' = [calls EXCEPT ![h] = [op |-> "seen", agent |-> a, gen |-> gen]]
          \/ calls' = [calls EXCEPT ![h] = [op |-> "disable", agent |-> a, gen |-> gen]]
      BY <2>1 DEF Poll, Disable
    <3>. QED BY <1>1, <3>1
  <2>2. ASSUME NEW a, NEW gen, NEW r \in Requests, Authorize(h, a, gen, r) PROVE Named
    BY <2>2 DEF TypeOK, Authorize, Named, data
  <2>3. ASSUME NEW a, NEW gen, NEW r \in Requests, NEW outcome,
               Result(h, a, gen, r, outcome)
        PROVE  Named
    BY <2>3 DEF TypeOK, Result, Named, data
  <2>4. ASSUME NEW t, NEW gen, Heartbeat(h, t, gen) PROVE Named
    <3>1. calls' = [calls EXCEPT ![h] = [op |-> "beat", target |-> t, gen |-> gen]]
      BY <2>4 DEF Heartbeat
    <3>. QED BY <1>1, <3>1
  <2>. QED BY <1>6, <2>1, <2>2, <2>3, <2>4 DEF DeviceStep
<1>7. ASSUME NEW h \in Tasks, Serve(h) PROVE Named
  <2>1. ASSUME AdvanceCommit(h) PROVE Named
    <3>1. \/ calls' = [calls EXCEPT ![h] = Idle]
          \/ calls' = [calls EXCEPT ![h] = [op |-> "create", target |-> calls[h].then]]
      BY <2>1 DEF AdvanceCommit
    <3>. QED BY <1>1, <1>2, <3>1
  <2>2. ASSUME NEW op \in {"loop", "look", "claim"}, calls[h].op \in {"seen", "loop", "look"},
               calls' = [calls EXCEPT ![h] = [calls[h] EXCEPT !.op = op]]
        PROVE  Named
    <3>. DEFINE c == [calls[h] EXCEPT !.op = op]
    <3>1. c.op = op
      BY <2>2 DEF TypeOK, Call, Idle
    <3>. HIDE DEF c
    <3>2. calls' = [calls EXCEPT ![h] = c]
      BY <2>2 DEF c
    <3>. QED BY <1>1, <3>1, <3>2
  <2>3. ASSUME PollSeen(h) \/ PollLoop(h) \/ PollLook(h) PROVE Named
    BY <2>2, <2>3 DEF PollSeen, PollLoop, PollLook
  <2>4. ASSUME DisableCommit(h) PROVE Named
    <3>1. calls' = [calls EXCEPT ![h] = [op |-> "forgetAgent", agent |-> calls[h].agent]]
      BY <2>4 DEF DisableCommit
    <3>. QED BY <1>1, <3>1
  <2>. QED
    BY <1>7, <1>2, <2>1, <2>3, <2>4
    DEF Serve, Forget, Deduplicate, Issue, Claim, AuthorizeCommit, ResultCommit,
        HeartbeatSeen, Abandon
<1>8. ASSUME Cleanup PROVE Named
  <2>. DEFINE c == [op |-> "retain", at |-> now,
                    agents |-> {a \in Agents : AgentListed(a)},
                    targets |-> {t \in Targets : Listed(t)}]
  <2>1. c.op \notin {"authorize", "result"}
    OBVIOUS
  <2>2. calls' = [calls EXCEPT ![Cleaner] = c] /\ Cleaner \in Tasks
    BY <1>8 DEF Cleanup, Tasks
  <2>. HIDE DEF c
  <2>. QED BY <1>1, <2>1, <2>2
<1>12. ASSUME Retain PROVE Named
  <2>1. \/ calls' = [calls EXCEPT ![Cleaner] = Idle]
        \/ calls' = [calls EXCEPT ![Cleaner] = AdvanceCall(None, targetSeen')]
    BY <1>12 DEF Retain, Advancing
  <2>. QED BY <1>1, <1>2, <1>3, <2>1 DEF Tasks
<1>9. ASSUME Restart PROVE Named
  <2>1. calls'[k] = Idle
    BY <1>9 DEF Restart
  <2>. QED BY <2>1 DEF Idle
<1>10. ASSUME Tick \/ UNCHANGED vars PROVE Named
  BY <1>10, <1>4 DEF Tick, vars
<1>11. Named
  BY <1>5, <1>6, <1>7, <1>8, <1>9, <1>10, <1>12 DEF Next
<1>. QED BY <1>11 DEF Named

\* A helper is changed only by a step that leaves none of its requests active.
LEMMA HelperStep ==
  ASSUME Binding, [Next]_vars, NEW r \in Requests, Active(r), Active(r)'
  PROVE  agents'[requests[r].agent] = agents[requests[r].agent]
<1>. DEFINE b == requests[r].agent
<1>. TypeOK /\ RequestsTyped(requests) /\ b \in Agents
  BY DEF Binding, TypeOK, RequestsTyped, Active, ActivePhases
<1>1. ASSUME NEW a \in Agents, CreateAgent(a) PROVE agents'[b] = agents[b]
  <2>1. b # a
    BY <1>1 DEF CreateAgent, Binding, ActiveBound, Enabled
  <2>. QED BY <1>1, <2>1 DEF CreateAgent, TypeOK
<1>2. ASSUME NEW a \in Agents, requests' = Prune(CancelAgent(a)),
             \A c \in Agents \ {a} : agents'[c] = agents[c]
      PROVE  agents'[b] = agents[b]
  <2>1. requests'[r] = CancelAgent(a)[r]
    BY <1>2, CancelTyped, PrunedActive DEF Active
  <2>2. b # a
    BY <2>1, CancelShrinks DEF Active
  <2>. QED BY <1>2, <2>2
<1>3. ASSUME NEW h, NEW a \in Agents, DeleteAgent(h, a) \/ StopAgent(h, a) \/ EnableAgent(h, a)
      PROVE  agents'[b] = agents[b]
  <2>1. /\ requests' = Prune(CancelAgent(a))
        /\ \A c \in Agents \ {a} : agents'[c] = agents[c]
    BY <1>3 DEF DeleteAgent, StopAgent, StopHelper, EnableAgent, TypeOK
  <2>. QED BY <1>2, <2>1
<1>4. ASSUME NEW h \in Tasks, DisableCommit(h) PROVE agents'[b] = agents[b]
  <2>1. calls[h].agent \in Agents
    BY <1>4, CallFields DEF DisableCommit, TypeOK
  <2>2. /\ requests' = Prune(CancelAgent(calls[h].agent))
        /\ \A c \in Agents \ {calls[h].agent} : agents'[c] = agents[c]
    BY <1>4, <2>1 DEF DisableCommit, StopHelper, TypeOK
  <2>. QED BY <1>2, <2>1, <2>2
<1>. HIDE DEF b
<1>. USE DEF data
<1>5. ASSUME NEW h \in Handlers, AccountStep(h) PROVE agents'[b] = agents[b]
  <2>1. ASSUME NEW t, DeleteTarget(h, t) \/ RotateTarget(h, t) \/ AskWake(h, t)
        PROVE  agents' = agents
    BY <2>1 DEF DeleteTarget, RotateTarget, AskWake
  <2>2. ASSUME NEW t, NEW d, NEW a, NEW c, AddTarget(t, d, a, c) \/ Rebind(t, a, c)
        PROVE  agents' = agents
    BY <2>2 DEF AddTarget, Rebind
  <2>3. ASSUME Read(h) PROVE agents' = agents
    BY <2>3 DEF Read
  <2>. QED
    BY <1>5, <1>1, <1>3, <2>1, <2>2, <2>3
    DEF AccountStep, EnrollTarget, CreateTarget, UpdateTarget, CompleteSetup
<1>6. ASSUME NEW h \in Handlers, DeviceStep(h) PROVE agents'[b] = agents[b]
  BY <1>6 DEF DeviceStep, Poll, Disable, Authorize, Result, Heartbeat
<1>7. ASSUME NEW h \in Tasks, Serve(h) PROVE agents'[b] = agents[b]
  BY <1>7, <1>4
  DEF Serve, Forget, AdvanceCommit, Deduplicate, PollSeen, PollLoop, PollLook, Issue,
      Claim, AuthorizeCommit, ResultCommit, HeartbeatSeen, Abandon
<1>8. ASSUME Cleanup \/ Retain \/ Restart \/ Tick \/ UNCHANGED vars PROVE agents'[b] = agents[b]
  BY <1>8 DEF Cleanup, Retain, Restart, Tick, vars
<1>9. agents'[b] = agents[b]
  BY <1>5, <1>6, <1>7, <1>8 DEF Next
<1>. QED BY <1>9 DEF b

LEMMA CapturedStep ==
  Binding /\ TypeOK' /\ Unmade /\ Captured /\ [Next]_vars => Captured'
<1>. SUFFICES ASSUME Binding, TypeOK', Unmade, Captured, [Next]_vars,
                     NEW k \in Tasks, calls'[k].op \in {"authorize", "result"}
              PROVE  /\ requests'[calls'[k].req].phase # "unmade"
                     /\ requests'[calls'[k].req].agent = calls'[k].agent
                     /\ Active(calls[k].req)' => AgentToken(calls[k].agent, calls[k].gen)'
  BY DEF Captured
<1>. DEFINE r == calls'[k].req
<1>. TypeOK
  BY DEF Binding
<1>1. CASE calls'[k] = calls[k]
  <2>1. /\ r \in Requests
        /\ requests[r].phase # "unmade" /\ requests[r].agent = calls[k].agent
        /\ Active(r) => AgentToken(calls[k].agent, calls[k].gen)
    BY <1>1, CallFields DEF Captured, TypeOK
  <2>2. Onward(requests[r], requests'[r])
    BY <2>1, OnwardStep DEF OnwardList
  <2>3. requests'[r].phase # "unmade" /\ requests'[r].agent = requests[r].agent
    BY <2>1, <2>2 DEF Onward
  <2>4. ASSUME requests'[r].phase \in ActivePhases
        PROVE  AgentToken(calls[k].agent, calls[k].gen)'
    <3>1. Active(r)
      BY <2>1, <2>2, <2>4
      DEF Onward, Active, ActivePhases, TerminalPhases, TypeOK, RequestsTyped, RequestRecords
    <3>2. agents'[requests[r].agent] = agents[requests[r].agent]
      BY <2>1, <2>4, <3>1, HelperStep DEF Active
    <3>. QED BY <1>1, <2>1, <3>1, <3>2 DEF AgentToken, Enabled
  <2>. QED BY <1>1, <2>1, <2>3, <2>4 DEF Active
<1>2. CASE /\ RequestToken(calls'[k].agent, calls'[k].gen, calls'[k].req)
           /\ calls'[k].req \in Requests
           /\ agents' = agents /\ requests' = requests
  BY <1>2 DEF RequestToken, AgentToken, Enabled, Stored, Active
<1>. QED BY <1>1, <1>2, NamedStep

\* A permit, a receipt or a helper's own stop takes effect only under the
\* credential that is still the helper's when the store's lock is held, though
\* authorize and result compare it only before they take that lock.
THEOREM CredentialCurrent == Spec => OnlyCurrentCredentialActs
<1>. DEFINE Inv == Binding /\ Unmade /\ Captured
            Acts == \A h \in Tasks :
                      CommitsFor(h) /\ ~AgentToken(calls[h].agent, calls[h].gen)
                      => agents' = agents /\ requests' = Prune(requests)
<1>1. Init => Inv
  <2>. SUFFICES ASSUME Init PROVE Inv
    OBVIOUS
  <2>1. TypeOK /\ \A r \in Requests : ~Active(r)
    BY TypeInit DEF Init, UnmadeRequest, Active, ActivePhases
  <2>2. Binding
    BY <2>1 DEF Binding, OneActivePerTarget, ActiveBound
  <2>. QED BY <2>2 DEF Init, Unmade, UnmadeRequest, Captured, Idle
<1>2. Inv /\ [Next]_vars => Inv'
  <2>. SUFFICES ASSUME Inv, [Next]_vars PROVE Inv'
    OBVIOUS
  <2>1. TypeOK /\ TypeOK' /\ Binding'
    BY BindingStep DEF Binding
  <2>2. Unmade'
    BY <2>1, OnwardStep DEF OnwardList, Onward, Unmade
  <2>. QED BY <2>1, <2>2, CapturedStep
<1>3. Inv /\ [Next]_vars => [Acts]_vars
  <2>. SUFFICES ASSUME Inv, NEW h \in Tasks, CommitsFor(h),
                       ~AgentToken(calls[h].agent, calls[h].gen)
                PROVE  agents' = agents /\ requests' = Prune(requests)
    OBVIOUS
  <2>1. ~AuthorizeCommit(h)
    BY DEF AuthorizeCommit, AuthorizeAllowed, Captured, Active, ActivePhases
  <2>2. ~DisableCommit(h)
    BY DEF DisableCommit
  <2>3. ~(calls[h].op = "result" /\ ResultAllowed(calls[h].agent, calls[h].req, calls[h].outcome))
    BY DEF ResultAllowed, Captured, Active, ActivePhases
  <2>. QED BY <2>1, <2>2, <2>3 DEF CommitsFor, ResultCommit
<1>. HIDE DEF Inv
<1>. QED BY <1>1, <1>2, <1>3, PTL DEF Spec, OnlyCurrentCredentialActs, Acts

-----------------------------------------------------------------------------
(***************************************************************************)
(* The length of the list.  The request limit holds in every window of     *)
(* time, the past ones included; so fewer requests than the list can hold  *)
(* are newer than one that is still observed.                              *)
(***************************************************************************)

InList(rs, r) == rs[r].phase \notin {"unmade", "gone"}

Window(rs, t) ==
  {r \in Requests : InList(rs, r) /\ t <= rs[r].created /\ rs[r].created < t + RateWindow}

RateBound(rs) == \A t \in Nat : Cardinality(Window(rs, t)) <= RateMax

PastList(rs) == \A r \in Requests : InList(rs, r) => rs[r].created <= now

\* Sets of requests are finite, and counted as usual.
LEMMA CountRequests ==
  ASSUME NEW S \in SUBSET Requests
  PROVE  /\ IsFiniteSet(S) /\ Cardinality(S) \in Nat
         /\ \A T \in SUBSET S : Cardinality(T) <= Cardinality(S)
         /\ \A T \in SUBSET Requests : Cardinality(S \cup T) <= Cardinality(S) + Cardinality(T)
         /\ \A x \in S : Cardinality(S \ {x}) = Cardinality(S) - 1
         /\ \A x \in Requests : Cardinality(S \cup {x}) <= Cardinality(S) + 1
<1>1. IsFiniteSet(Requests)
  <2>1. MaxRequests \in Int
    BY BoundAssumption
  <2>. QED BY <2>1, FS_Interval DEF Requests
<1>2. \A T \in SUBSET Requests : IsFiniteSet(T) /\ Cardinality(T) \in Nat
  BY <1>1, FS_Subset, FS_CardinalityType
<1>3. \A T \in SUBSET S : Cardinality(T) <= Cardinality(S)
  BY <1>2, FS_Subset
<1>4. ASSUME NEW T \in SUBSET Requests
      PROVE  Cardinality(S \cup T) <= Cardinality(S) + Cardinality(T)
  <2>1. Cardinality(S \cup T) = Cardinality(S) + Cardinality(T) - Cardinality(S \cap T)
    BY <1>2, FS_Union
  <2>2. Cardinality(S \cap T) \in Nat
    BY <1>2
  <2>. QED BY <1>2, <2>1, <2>2
<1>5. \A x \in S : Cardinality(S \ {x}) = Cardinality(S) - 1
  BY <1>2, FS_RemoveElement
<1>6. \A x \in Requests : Cardinality(S \cup {x}) <= Cardinality(S) + 1
  BY <1>2, FS_AddElement
<1>. QED BY <1>2, <1>3, <1>4, <1>5, <1>6

\* What the list pushes out was no longer observed.
LEMMA PushedOut ==
  ASSUME TypeOK, NEW rs, RequestsTyped(rs), RateBound(rs), PastList(rs),
         NEW r \in Requests, InList(rs, r), ~InList(Prune(rs), r)
  PROVE  now >= rs[r].created + Observe
<1>. DEFINE young == {q \in Requests : /\ rs[q].phase \notin {"unmade", "gone"}
                                       /\ now - rs[q].created < KeepFor}
            newer == {q \in young : Before(rs, q, r)}
            c == rs[r].created
            W == Window(rs, c)
            V == Window(rs, c + RateWindow)
<1>1. /\ now \in Nat /\ c \in Nat
      /\ \A q \in Requests : rs[q].created \in Nat
      /\ {Observe, RateWindow, KeepFor, RateMax, KeepMax} \subseteq Nat
      /\ RateWindow > 0
  BY TimeAssumption, BoundAssumption DEF TypeOK, RequestsTyped, RequestRecords
<1>2. SUFFICES ASSUME now < c + Observe PROVE FALSE
  BY <1>1
<1>3. r \in young
  BY <1>1, <1>2, HistoryAssumption DEF InList
<1>4. ~(Cardinality(newer) < KeepMax)
  <2>1. r \notin Kept(rs)
    BY DEF Prune, InList
  <2>. QED BY <1>3, <2>1 DEF Kept
<1>5. newer \subseteq (W \ {r}) \cup V
  <2>. SUFFICES ASSUME NEW q \in newer PROVE q \in (W \ {r}) \cup V
    OBVIOUS
  <2>1. q # r /\ c <= rs[q].created /\ InList(rs, q)
    <3>1. /\ q \in Requests /\ r \in Requests /\ InList(rs, q)
          /\ \/ rs[q].created > c
             \/ rs[q].created = c /\ q < r
      BY DEF Before, InList
    <3>2. q \in Int /\ r \in Int
      BY <3>1, BoundAssumption DEF Requests
    <3>3. rs[q].created \in Nat
      BY <1>1
    <3>4. c \in Nat /\ c = rs[r].created
      BY <1>1
    <3>. HIDE DEF c, newer, young
    <3>. QED BY <3>1, <3>2, <3>3, <3>4
  <2>2. rs[q].created < c + Observe
    BY <1>1, <1>2, <2>1 DEF PastList
  <2>. QED BY <1>1, <2>1, <2>2, HistoryAssumption DEF Window
<1>6. r \in W
  BY <1>1 DEF Window
<1>7. W \in SUBSET Requests /\ V \in SUBSET Requests /\ newer \in SUBSET Requests
  BY DEF Window
<1>8. Cardinality(W) <= RateMax /\ Cardinality(V) <= RateMax
  BY <1>1 DEF RateBound
<1>. HIDE DEF W, V, newer, c, young
<1>9. /\ Cardinality(W \ {r}) = Cardinality(W) - 1
      /\ Cardinality((W \ {r}) \cup V) <= Cardinality(W \ {r}) + Cardinality(V)
      /\ Cardinality(newer) <= Cardinality((W \ {r}) \cup V)
  <2>1. (W \ {r}) \in SUBSET Requests /\ ((W \ {r}) \cup V) \in SUBSET Requests
    BY <1>7
  <2>. QED BY <1>5, <1>6, <1>7, <2>1, CountRequests
<1>10. /\ Cardinality(W) \in Nat /\ Cardinality(V) \in Nat /\ Cardinality(newer) \in Nat
       /\ Cardinality((W \ {r}) \cup V) \in Nat
  <2>1. ((W \ {r}) \cup V) \in SUBSET Requests
    BY <1>7
  <2>. QED BY <1>7, <2>1, CountRequests
<1>. QED BY <1>1, <1>4, <1>8, <1>9, <1>10, HistoryAssumption

\* A list with nothing new in it keeps the limit.
Thinner(rs, qs) ==
  \A r \in Requests : InList(rs, r) => InList(qs, r) /\ rs[r].created = qs[r].created

LEMMA ThinnerBound ==
  ASSUME NEW rs, NEW qs, Thinner(rs, qs), RateBound(qs)
  PROVE  RateBound(rs)
<1>. SUFFICES ASSUME NEW t \in Nat PROVE Cardinality(Window(rs, t)) <= RateMax
  BY DEF RateBound
<1>1. Window(rs, t) \in SUBSET Window(qs, t) /\ Window(qs, t) \in SUBSET Requests
  BY DEF Window, Thinner
<1>2. /\ Cardinality(Window(rs, t)) <= Cardinality(Window(qs, t))
      /\ Cardinality(Window(rs, t)) \in Nat /\ Cardinality(Window(qs, t)) \in Nat
  <2>1. Window(rs, t) \in SUBSET Requests
    BY <1>1
  <2>. QED BY <1>1, <2>1, CountRequests
<1>3. Cardinality(Window(qs, t)) <= RateMax
  BY DEF RateBound
<1>. QED BY <1>2, <1>3, BoundAssumption

LEMMA PruneThinner ==
  ASSUME NEW rs, RequestsTyped(rs)
  PROVE  Thinner(Prune(rs), rs)
<1>. SUFFICES ASSUME NEW r \in Requests, InList(Prune(rs), r)
              PROVE  InList(rs, r) /\ Prune(rs)[r].created = rs[r].created
  BY DEF Thinner
<1>1. rs[r] \in RequestRecords
  BY DEF RequestsTyped
<1>2. [rs[r] EXCEPT !.phase = "gone"].phase = "gone"
  BY <1>1 DEF RequestRecords
<1>. QED BY <1>2, PruneShape DEF InList

\* Every step but Issue only thins the list out; Issue finds room in the window
\* that ends now.
LEMMA ListStep ==
  ASSUME TypeOK, TypeOK', Evidence, RateBound(requests), [Next]_vars
  PROVE  /\ RateBound(requests')
         /\ \A r \in Requests : Active(r) /\ requests'[r].phase = "gone" =>
              \/ now >= requests[r].created + Observe
              \/ targets'[requests[r].target].status = "deleted"
<1>. DEFINE Over(r) == \/ now >= requests[r].created + Observe
                       \/ targets'[requests[r].target].status = "deleted"
            Goal == /\ RateBound(requests')
                    /\ \A r \in Requests : Active(r) /\ requests'[r].phase = "gone" => Over(r)
            Retained(rs) == \A r \in Requests : Active(r) =>
              \/ InList(rs, r) /\ rs[r].created = requests[r].created
              \/ Over(r)
<1>. /\ RequestsTyped(requests) /\ PastList(requests)
     /\ \A r \in Requests : requests[r] \in RequestRecords
  BY DEF Evidence, Honest, PastList, InList, Stored, TypeOK, RequestsTyped
<1>1. ASSUME NEW rs, RequestsTyped(rs), RateBound(rs), PastList(rs), Retained(rs),
             requests' = Prune(rs)
      PROVE  Goal
  <2>1. RateBound(requests')
    BY <1>1, PruneThinner, ThinnerBound
  <2>2. ASSUME NEW r \in Requests, Active(r), requests'[r].phase = "gone" PROVE Over(r)
    <3>1. ~InList(Prune(rs), r)
      BY <1>1, <2>2 DEF InList
    <3>2. InList(rs, r) => now >= rs[r].created + Observe
      BY <1>1, <3>1, PushedOut
    <3>. QED BY <1>1, <2>2, <3>2
  <2>. QED BY <2>1, <2>2
<1>2. ASSUME NEW rs, RequestsTyped(rs), Thinner(rs, requests), Retained(rs),
             requests' = Prune(rs)
      PROVE  Goal
  <2>1. RateBound(rs)
    BY <1>2, ThinnerBound
  <2>2. PastList(rs)
    BY <1>2 DEF PastList, Thinner
  <2>. QED BY <1>1, <1>2, <2>1, <2>2
<1>0. Thinner(requests, requests) /\ Retained(requests)
  BY DEF Thinner, InList, Active, ActivePhases
<1>3. ASSUME requests' = Prune(requests) \/ requests' = requests PROVE Goal
  <2>1. CASE requests' = requests
    BY <2>1 DEF Active, ActivePhases
  <2>. QED BY <1>0, <1>2, <1>3, <2>1
<1>4. ASSUME NEW x, requests' = Prune(CancelTarget(x)) \/ requests' = Prune(CancelAgent(x))
      PROVE  Goal
  <2>1. \A r \in Requests :
          /\ [requests[r] EXCEPT !.phase = "cancelled"].phase = "cancelled"
          /\ [requests[r] EXCEPT !.phase = "cancelled"].created = requests[r].created
    BY DEF RequestRecords
  <2>2. /\ Thinner(CancelTarget(x), requests) /\ Thinner(CancelAgent(x), requests)
        /\ Retained(CancelTarget(x)) /\ Retained(CancelAgent(x))
    BY <1>0, <2>1
    DEF Thinner, InList, CancelTarget, CancelAgent, Finish, Active, ActivePhases
  <2>. HIDE DEF Retained, Goal
  <2>. QED BY <1>2, <1>4, <2>2, CancelTyped
<1>5. ASSUME NEW r \in Requests, NEW q \in RequestRecords, q.target \in Targets,
             q.agent \in Agents, InList(requests, r),
             q.phase \notin {"unmade", "gone"}, q.created = requests[r].created,
             requests' = Prune([requests EXCEPT ![r] = q])
      PROVE  Goal
  <2>1. RequestsTyped([requests EXCEPT ![r] = q])
    BY <1>5, UpdateTyped
  <2>2. /\ Thinner([requests EXCEPT ![r] = q], requests)
        /\ Retained([requests EXCEPT ![r] = q])
    BY <1>0, <1>5 DEF Thinner, InList, RequestsTyped
  <2>. HIDE DEF Retained, Goal
  <2>. QED BY <1>2, <1>5, <2>1, <2>2
<1>6. ASSUME NEW h \in Handlers, NEW t \in Targets, DeleteTarget(h, t) PROVE Goal
  <2>. DEFINE rs == [r \in Requests |->
                       IF Stored(r) /\ requests[r].target = t
                       THEN [requests[r] EXCEPT !.phase = "gone"]
                       ELSE requests[r]]
  <2>1. \A r \in Requests : /\ [requests[r] EXCEPT !.phase = "gone"] \in RequestRecords
                            /\ [requests[r] EXCEPT !.phase = "gone"].phase = "gone"
    BY DEF RequestRecords
  <2>2. RequestsTyped(rs)
    BY <2>1 DEF RequestsTyped
  <2>3. Thinner(rs, requests)
    BY <2>1 DEF Thinner, InList
  <2>4. targets'[t].status = "deleted"
    BY <1>6 DEF DeleteTarget, TypeOK, TargetRecords
  <2>5. Retained(rs)
    BY <2>4 DEF InList, Active, ActivePhases
  <2>6. requests' = Prune(rs)
    BY <1>6 DEF DeleteTarget
  <2>. HIDE DEF rs, Retained, Goal
  <2>. QED BY <1>2, <2>2, <2>3, <2>5, <2>6
<1>7. ASSUME NEW h \in Tasks, AdvanceCommit(h) PROVE Goal
  <2>. DEFINE beat(r) == calls[h].beats[requests[r].target]
              rs == [r \in Requests |-> IF Stored(r)
                                        THEN Advance(requests[r], calls[h].at, beat(r))
                                        ELSE requests[r]]
  <2>1. ASSUME NEW r \in Requests, Stored(r)
        PROVE  /\ rs[r] \in RequestRecords
               /\ rs[r].phase \notin {"unmade", "gone"}
               /\ rs[r].created = requests[r].created
               /\ rs[r].target \in Targets /\ rs[r].agent \in Agents
    <3>1. requests[r].target \in Targets /\ requests[r].agent \in Agents
      BY <2>1 DEF RequestsTyped, Stored
    <3>2. calls[h].beats \in [Targets -> Option(Nat)]
      BY <1>7, CallFields DEF AdvanceCommit, TypeOK
    <3>3. beat(r) \in Option(Nat)
      BY <3>1, <3>2
    <3>4. rs[r] = Advance(requests[r], calls[h].at, beat(r))
      BY <2>1
    <3>5. /\ rs[r] \in RequestRecords
          /\ rs[r].target = requests[r].target /\ rs[r].agent = requests[r].agent
      BY <3>3, <3>4, AdvanceTyped
    <3>6. /\ rs[r].phase \notin {"unmade", "gone"}
          /\ rs[r].created = requests[r].created
      BY <2>1, <3>4 DEF Advance, RequestRecords, Stored
    <3>. QED BY <3>1, <3>5, <3>6
  <2>2. ASSUME NEW r \in Requests, ~Stored(r) PROVE rs[r] = requests[r]
    BY <2>2
  <2>3. rs = [r \in Requests |-> rs[r]]
    OBVIOUS
  <2>4. requests' = Prune(rs)
    BY <1>7 DEF AdvanceCommit
  <2>. HIDE DEF rs
  <2>5. RequestsTyped(rs)
    <3>1. ASSUME NEW r \in Requests PROVE rs[r] \in RequestRecords
      BY <2>1, <2>2
    <3>2. ASSUME NEW r \in Requests, rs[r].phase \notin {"unmade", "gone"}
          PROVE  rs[r].target \in Targets /\ rs[r].agent \in Agents
      BY <2>1, <2>2, <3>2 DEF Stored
    <3>. QED BY <2>3, <3>1, <3>2 DEF RequestsTyped
  <2>6. Thinner(rs, requests)
    BY <2>1, <2>2 DEF Thinner, InList, Stored
  <2>7. Retained(rs)
    BY <2>1 DEF Active, ActivePhases, InList, Stored
  <2>. HIDE DEF Retained, Goal
  <2>. QED BY <1>2, <2>4, <2>5, <2>6, <2>7
<1>8. ASSUME NEW h \in Tasks, NEW r \in Requests, Issue(h, r) PROVE Goal
  <2>. DEFINE t == calls[h].target
              rs == [requests EXCEPT ![r] = NewRequest(t)]
  <2>1. /\ t \in Targets /\ targets[t].agent \in Agents /\ targets[t].rev \in Nat
        /\ now \in Nat /\ RateMax \in Nat /\ RateWindow \in Nat
    BY <1>8, CallFields, TimeAssumption, BoundAssumption
    DEF Issue, TypeOK, Enabled, TargetRecords
  <2>2. NewRequest(t) \in RequestRecords
    BY <2>1 DEF NewRequest, RequestRecords, ActivePhases, Option
  <2>3. RequestsTyped(rs)
    BY <2>1, <2>2, UpdateTyped DEF NewRequest
  <2>4. /\ requests[r].phase = "unmade"
        /\ ~(Cardinality(Recent(RateWindow)) >= RateMax)
        /\ requests' = Prune(rs)
    BY <1>8 DEF Issue, RateLimited
  <2>5. /\ rs[r].created = now
        /\ \A q \in Requests \ {r} : rs[q] = requests[q]
    BY DEF NewRequest, RequestsTyped
  <2>. HIDE DEF rs, t
  <2>6. PastList(rs)
    BY <2>1, <2>5 DEF PastList, InList
  <2>7. Retained(rs)
    BY <2>4, <2>5 DEF Active, ActivePhases, InList
  <2>8. RateBound(rs)
    <3>. SUFFICES ASSUME NEW u \in Nat PROVE Cardinality(Window(rs, u)) <= RateMax
      BY DEF RateBound
    <3>. DEFINE W == Window(rs, u)
                R == Recent(RateWindow)
    <3>1. /\ W \in SUBSET Requests /\ R \in SUBSET Requests
          /\ Window(requests, u) \in SUBSET Requests
      BY DEF Window, Recent
    <3>2. CASE r \notin W
      <4>1. W \in SUBSET Window(requests, u)
        BY <2>5, <3>2 DEF Window, InList
      <4>2. Cardinality(Window(requests, u)) <= RateMax
        BY DEF RateBound
      <4>3. /\ Cardinality(W) <= Cardinality(Window(requests, u))
            /\ Cardinality(W) \in Nat /\ Cardinality(Window(requests, u)) \in Nat
        BY <3>1, <4>1, CountRequests
      <4>. HIDE DEF W
      <4>4. Cardinality(W) <= RateMax
        BY <2>1, <4>2, <4>3
      <4>. QED BY <4>4 DEF W
    <3>3. CASE r \in W
      <4>1. u <= now /\ now < u + RateWindow
        BY <2>5, <3>3 DEF Window
      <4>2. W \in SUBSET (R \cup {r})
        <5>. SUFFICES ASSUME NEW q \in W, q # r PROVE q \in R
          OBVIOUS
        <5>1. /\ q \in Requests /\ InList(requests, q) /\ u <= requests[q].created
          BY <2>5 DEF Window, InList
        <5>2. requests[q].created \in Nat
          BY <5>1 DEF RequestRecords
        <5>3. now - requests[q].created < RateWindow
          BY <2>1, <4>1, <5>1, <5>2
        <5>. QED BY <5>1, <5>3 DEF Recent, Stored, InList
      <4>3. (R \cup {r}) \in SUBSET Requests
        BY <3>1
      <4>4. /\ Cardinality(W) <= Cardinality(R \cup {r})
            /\ Cardinality(R \cup {r}) <= Cardinality(R) + 1
            /\ Cardinality(W) \in Nat /\ Cardinality(R) \in Nat
            /\ Cardinality(R \cup {r}) \in Nat
        BY <3>1, <4>2, <4>3, CountRequests
      <4>5. ~(Cardinality(R) >= RateMax)
        BY <2>4
      <4>. HIDE DEF W, R
      <4>6. Cardinality(W) <= RateMax
        BY <2>1, <4>4, <4>5
      <4>. QED BY <4>6 DEF W
    <3>. QED BY <3>2, <3>3
  <2>. HIDE DEF Retained, Goal
  <2>. QED BY <1>1, <2>3, <2>4, <2>6, <2>7, <2>8
<1>9. ASSUME NEW h \in Tasks, NEW r \in Requests, Claim(h, r) PROVE Goal
  <2>. DEFINE q == [requests[r] EXCEPT !.phase = "claimed"]
  <2>1. /\ requests[r].phase \in {"queued", "claimed"}
        /\ requests[r].target \in Targets /\ requests[r].agent \in Agents
    BY <1>9 DEF Claim, Claimable, RequestsTyped
  <2>2. /\ q \in RequestRecords /\ q.phase = "claimed" /\ q.created = requests[r].created
        /\ q.target = requests[r].target /\ q.agent = requests[r].agent
    BY DEF RequestRecords, ActivePhases
  <2>3. requests' = Prune([requests EXCEPT ![r] = q])
    BY <1>9 DEF Claim
  <2>. HIDE DEF q, Retained, Goal
  <2>. QED BY <1>5, <2>1, <2>2, <2>3 DEF InList
<1>10. ASSUME NEW h \in Tasks, AuthorizeCommit(h) PROVE Goal
  <2>. DEFINE r == calls[h].req
              q == [requests[r] EXCEPT !.authorized = now]
  <2>1. r \in Requests /\ requests[r].phase = "claimed"
    BY <1>10, CallFields DEF AuthorizeCommit, AuthorizeAllowed, TypeOK
  <2>2. requests[r].target \in Targets /\ requests[r].agent \in Agents
    BY <2>1 DEF RequestsTyped
  <2>3. /\ q \in RequestRecords /\ q.phase = "claimed" /\ q.created = requests[r].created
        /\ q.target = requests[r].target /\ q.agent = requests[r].agent
    BY <2>1 DEF RequestRecords, Option, TypeOK
  <2>4. requests' = Prune([requests EXCEPT ![r] = q])
    BY <1>10 DEF AuthorizeCommit
  <2>. HIDE DEF r, q, Retained, Goal
  <2>. QED BY <1>5, <2>1, <2>2, <2>3, <2>4 DEF InList
<1>11. ASSUME NEW h \in Tasks, ResultCommit(h) PROVE Goal
  <2>. DEFINE r == calls[h].req
              q == Reported(r, calls[h].outcome)
  <2>1. CASE ResultAllowed(calls[h].agent, r, calls[h].outcome)
    <3>1. r \in Requests /\ requests[r].phase = "claimed"
      BY <1>11, <2>1, CallFields DEF ResultCommit, ResultAllowed, TypeOK
    <3>2. /\ requests[r] \in RequestRecords
          /\ requests[r].target \in Targets /\ requests[r].agent \in Agents
      BY <3>1 DEF RequestsTyped
    <3>3. q \in RequestRecords /\ q.target \in Targets /\ q.agent \in Agents
      BY <3>1, <3>2, ReportedTyped
    <3>4. q.phase \notin {"unmade", "gone"} /\ q.created = requests[r].created
      <4>. HIDE DEF r
      <4>. QED BY <3>2 DEF Reported, Advance, RequestRecords
    <3>5. requests' = Prune(requests) \/ requests' = Prune([requests EXCEPT ![r] = q])
      BY <1>11 DEF ResultCommit
    <3>. HIDE DEF r, q, Retained, Goal
    <3>. QED BY <1>3, <1>5, <3>1, <3>3, <3>4, <3>5 DEF InList
  <2>2. CASE ~ResultAllowed(calls[h].agent, r, calls[h].outcome)
    <3>1. requests' = Prune(requests)
      BY <1>11, <2>2 DEF ResultCommit
    <3>. QED BY <1>3, <3>1
  <2>. QED BY <2>1, <2>2
<1>12. ASSUME Restart PROVE Goal
  <2>. DEFINE p == Prune(requests)
  <2>1. \A r \in Requests : p[r] \in RequestRecords
    BY PruneTyped DEF RequestsTyped
  <2>2. requests' = [r \in Requests |-> IF p[r].phase \in ActivePhases
                                        THEN [p[r] EXCEPT !.phase = "interrupted"]
                                        ELSE p[r]]
    BY <1>12 DEF Restart, Recovered
  <2>3. /\ RateBound(p)
        /\ \A r \in Requests : Active(r) /\ p[r].phase = "gone" => Over(r)
    <3>1. RateBound(p)
      BY PruneThinner, ThinnerBound
    <3>2. ASSUME NEW r \in Requests, Active(r), p[r].phase = "gone" PROVE Over(r)
      BY <3>2, PushedOut DEF InList, Active, ActivePhases
    <3>. QED BY <3>1, <3>2
  <2>. HIDE DEF p
  <2>4. \A r \in Requests :
          /\ requests'[r].created = p[r].created
          /\ requests'[r].phase = p[r].phase \/ requests'[r].phase = "interrupted"
          /\ InList(requests', r) => InList(p, r)
    BY <2>1, <2>2 DEF RequestRecords, InList, ActivePhases
  <2>5. RateBound(requests')
    BY <2>3, <2>4, ThinnerBound DEF Thinner
  <2>. QED BY <2>3, <2>4, <2>5
<1>. HIDE DEF Goal, Retained
<1>. USE DEF data
<1>13. ASSUME NEW h \in Handlers, AccountStep(h) PROVE Goal
  <2>1. ASSUME NEW t \in Targets, NEW a, NEW b, Rebind(t, a, b) PROVE Goal
    BY <2>1, <1>4 DEF Rebind
  <2>2. ASSUME NEW a \in Agents, DeleteAgent(h, a) \/ StopAgent(h, a) \/ EnableAgent(h, a)
        PROVE  Goal
    BY <2>2, <1>4 DEF DeleteAgent, StopAgent, StopHelper, EnableAgent
  <2>3. ASSUME NEW a \in Agents, CreateAgent(a) PROVE Goal
    BY <2>3, <1>3 DEF CreateAgent
  <2>4. ASSUME NEW t \in Targets, NEW d, NEW a, NEW b, AddTarget(t, d, a, b) PROVE Goal
    BY <2>4, <1>3 DEF AddTarget
  <2>5. ASSUME NEW t \in Targets, RotateTarget(h, t) \/ AskWake(h, t) PROVE Goal
    BY <2>5, <1>3 DEF RotateTarget, AskWake
  <2>6. ASSUME Read(h) PROVE Goal
    BY <2>6, <1>3 DEF Read
  <2>. QED
    BY <1>13, <1>6, <2>1, <2>2, <2>3, <2>4, <2>5, <2>6
    DEF AccountStep, EnrollTarget, CreateTarget, UpdateTarget, CompleteSetup
<1>14. ASSUME NEW h \in Handlers, DeviceStep(h) PROVE Goal
  BY <1>14, <1>3 DEF DeviceStep, Poll, Disable, Authorize, Result, Heartbeat
<1>15. ASSUME NEW h \in Tasks, Serve(h) PROVE Goal
  <2>1. ASSUME Forget(h) \/ Deduplicate(h) \/ PollSeen(h) \/ PollLoop(h)
               \/ PollLook(h) \/ HeartbeatSeen(h) \/ Abandon(h)
        PROVE  Goal
    BY <2>1, <1>3
    DEF Forget, Deduplicate, PollSeen, PollLoop, PollLook, HeartbeatSeen, Abandon
  <2>2. ASSUME DisableCommit(h) PROVE Goal
    BY <2>2, <1>4 DEF DisableCommit, StopHelper
  <2>. QED BY <1>15, <1>7, <1>8, <1>9, <1>10, <1>11, <2>1, <2>2 DEF Serve
<1>16. ASSUME Tick \/ Cleanup \/ Retain \/ UNCHANGED vars PROVE Goal
  BY <1>16, <1>3 DEF Tick, Cleanup, Retain, vars
<1>17. Goal
  BY <1>12, <1>13, <1>14, <1>15, <1>16 DEF Next
<1>. QED BY <1>17 DEF Goal

\* No request is pushed out of the list while it is observed: the request limit
\* holds in every window of time, and two of its windows fit in the list.
THEOREM PrunedOnlyWhenOver == Spec => PrunedWhenOver
<1>. DEFINE Inv == TypeOK /\ Evidence /\ CallsPast /\ RateBound(requests)
            Step == \A r \in Requests :
                      (Active(r) /\ requests'[r].phase = "gone")
                      => \/ now >= requests[r].created + Observe
                         \/ targets'[requests[r].target].status = "deleted"
<1>1. Init => Inv
  <2>. SUFFICES ASSUME Init PROVE Inv
    OBVIOUS
  <2>1. TypeOK /\ Evidence /\ CallsPast
    BY TypeInit DEF Init, Evidence, Stored, UnmadeRequest, CallsPast, Idle
  <2>2. \A t : Window(requests, t) = {}
    BY DEF Init, UnmadeRequest, Window, InList
  <2>3. RateBound(requests)
    BY <2>2, FS_EmptySet, BoundAssumption DEF RateBound
  <2>. QED BY <2>1, <2>3
<1>2. Inv /\ [Next]_vars => Inv' /\ [Step]_vars
  <2>. SUFFICES ASSUME Inv, [Next]_vars PROVE Inv' /\ [Step]_vars
    OBVIOUS
  <2>1. (TypeOK /\ Evidence /\ CallsPast)'
    BY TypeStep, EvidenceStep, CallsPastStep
  <2>2. RateBound(requests)' /\ Step
    <3>. HIDE DEF Step
    <3>1. RateBound(requests')
      BY <2>1, ListStep
    <3>2. Step
      BY <2>1, ListStep DEF Step
    <3>. QED BY <3>1, <3>2 DEF RateBound, Window, InList
  <2>. QED BY <2>1, <2>2
<1>. HIDE DEF Inv
<1>. QED BY <1>1, <1>2, PTL DEF Spec, PrunedWhenOver, Step

=============================================================================

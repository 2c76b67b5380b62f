------------------------- MODULE CommandRelayProofs -------------------------
(***************************************************************************)
(* What holds of CommandRelay for every set of calls and files: the types, *)
(* where a command can be at a time (PlaceInv), and from that, that the    *)
(* answers are true, that nothing is performed twice, and that only the    *)
(* user of the hosting asked lets a viewer in; the order of the commands   *)
(* (OrderInv) and the room for files (UploadInv).                          *)
(***************************************************************************)
EXTENDS CommandRelay, FiniteSetTheorems, TLAPS

(***************************************************************************)
(* Types.                                                                  *)
(***************************************************************************)

\* The records of a handler, of the loop and of a transfer, field by field.
LEMMA Fields ==
  ASSUME TypeOK
  PROVE  /\ \A c \in Calls : call[c] \in CallRecords
         /\ \A c \in Calls, p \in Phases : [call EXCEPT ![c].pc = p] \in [Calls -> CallRecords]
         /\ host.loop \in LoopRecords /\ host.token \in Nat
         /\ \A r \in LoopRecords : [host EXCEPT !.loop = r] \in [token : Nat, loop : LoopRecords]
         /\ \A r \in LoopRecords : [host EXCEPT !.loop = r].token = host.token
         /\ \A c \in Calls : transfer[c] \in TransferRecords
         /\ Idle \in LoopRecords /\ NoTransfer \in TransferRecords /\ NoCall \in CallRecords
<1>1. \A c \in Calls : call[c] \in CallRecords
  BY DEF TypeOK
<1>2. ASSUME NEW c \in Calls, NEW p \in Phases
      PROVE  [call EXCEPT ![c].pc = p] \in [Calls -> CallRecords]
  <2>1. [call[c] EXCEPT !.pc = p] \in CallRecords
    BY <1>1 DEF CallRecords
  <2>. QED
    BY <2>1 DEF TypeOK
<1>3. host.loop \in LoopRecords /\ host.token \in Nat
  BY DEF TypeOK
<1>4. ASSUME NEW r \in LoopRecords
      PROVE  /\ [host EXCEPT !.loop = r] \in [token : Nat, loop : LoopRecords]
             /\ [host EXCEPT !.loop = r].token = host.token
  <2>1. host \in [token : Nat, loop : LoopRecords]
    BY DEF TypeOK
  <2>. QED
    BY <2>1
<1>5. \A c \in Calls : transfer[c] \in TransferRecords
  BY DEF TypeOK
<1>6. Idle \in LoopRecords /\ NoTransfer \in TransferRecords /\ NoCall \in CallRecords
  BY DEF Idle, LoopRecords, NoTransfer, TransferRecords, NoCall, CallRecords, Phases, Kinds
<1>. QED
  BY <1>1, <1>2, <1>3, <1>4, <1>5, <1>6

\* A handler that ends keeps the types: Ended drops a reservation and a blob.
LEMMA EndedType ==
  ASSUME TypeOK, NEW c \in Calls, Ended(c)
  PROVE  /\ call' \in [Calls -> CallRecords]
         /\ stored' \subseteq Calls /\ bytes' \in Int
<1>1. call[c].kind \in Kinds /\ call[c].size \in Nat
  BY Fields DEF CallRecords
<1>2. [NoCall EXCEPT !.pc = "done", !.kind = call[c].kind]
        \in CallRecords
  BY <1>1 DEF NoCall, Phases, CallRecords
<1>. QED
  BY <1>1, <1>2 DEF TypeOK, Ended

\* What a waiter is told is an answer: Told of the expiry and of the results.
LEMMA ToldType ==
  ASSUME TypeOK, NEW c \in Calls, NEW a \in {"yes", "no"}, Told(c, a)
  PROVE  answer' \in [Calls -> {"none", "yes", "no"}] /\ waiters' \subseteq Calls
BY DEF TypeOK, Told

\* The head of the queue is a call, and what is left is a queue: expiry and poll.
LEMMA QueueParts ==
  ASSUME TypeOK, queue # <<>>
  PROVE  Head(queue) \in Calls /\ Tail(queue) \in Seq(Calls)
BY DEF TypeOK

\* The registration and the sessions keep the types (Device).
LEMMA DeviceType ==
  ASSUME CommandParameters, TypeOK, Device
  PROVE  TypeOK'
<1>. DEFINE HostRecords == [token : Nat, loop : LoopRecords]
<1>0. host \in HostRecords
  BY DEF TypeOK
<1>1. CASE Register
  <2>1. minted' \in Nat /\ reg' \in 0 .. minted'
    BY <1>1 DEF Register, IssueToken, TypeOK
  <2>2. reg' \in Nat /\ reg' <= minted'
    BY <2>1
  <2>3. host' \in HostRecords /\ host'.token <= minted'
    BY <1>0, <1>1, <2>2 DEF Register
  <2>. QED
    BY <1>1, <2>1, <2>3 DEF Register, TypeOK
<1>2. CASE NextGeneration
  <2>1. [host.loop EXCEPT !.current = FALSE] \in LoopRecords
    BY Fields DEF LoopRecords
  <2>2. host' \in HostRecords /\ host'.token = host.token
    BY <1>0, <1>2, <2>1 DEF NextGeneration
  <2>3. \A d \in Calls : [transfer[d] EXCEPT !.current = FALSE] \in TransferRecords
    BY Fields DEF TransferRecords
  <2>. QED
    BY <1>2, <2>2, <2>3 DEF NextGeneration, TypeOK, server
<1>3. CASE ForgetToken
  <2>1. host' \in HostRecords /\ host'.token = 0
    BY <1>0, <1>3 DEF ForgetToken
  <2>. QED
    BY <1>3, <2>1 DEF ForgetToken, TypeOK, server
<1>4. CASE RemoveViewers
  BY <1>4 DEF RemoveViewers, TypeOK
<1>5. CASE RemovePreview
  BY <1>5 DEF RemovePreview, TypeOK
<1>6. CASE RemoveQueue
  BY <1>6 DEF RemoveQueue, TypeOK
<1>7. CASE DisconnectViewers
  BY <1>7 DEF DisconnectViewers, TypeOK
<1>8. CASE ResolvePreview
  BY <1>8 DEF ResolvePreview, TypeOK
<1>. QED
  BY <1>1, <1>2, <1>3, <1>4, <1>5, <1>6, <1>7, <1>8 DEF Device

\* The handler of a call keeps the types (Handler).
LEMMA HandlerType ==
  ASSUME CommandParameters, TypeOK, NEW c \in Calls, Handler(c)
  PROVE  TypeOK'
<1>1. ASSUME NEW size \in Sizes, AdmitFile(c, size) PROVE TypeOK'
  <2>1. size \in Nat
    BY DEF CommandParameters
  <2>2. [NoCall EXCEPT !.pc = "reading", !.kind = "file", !.size = size]
          \in CallRecords
    BY <2>1 DEF NoCall, Phases, Kinds, CallRecords
  <2>. QED
    BY <1>1, <2>1, <2>2 DEF AdmitFile, Reserve, TypeOK
<1>2. CASE Store(c)
  <2>1. call' \in [Calls -> CallRecords]
    BY <1>2, Fields DEF Store, Phases
  <2>. QED
    BY <1>2, <2>1 DEF Store, TypeOK
<1>3. CASE Command(c)
  <2>1. PICK k \in {"input", "file"} : Checked(c, k)
    BY <1>3 DEF Command, Input, RelayFile
  <2>2. CASE Ended(c)
    BY <1>3, <2>2, EndedType DEF Command, TypeOK
  <2>3. CASE call' = [call EXCEPT ![c].pc = "checked", ![c].kind = k] /\ UNCHANGED <<stored, bytes>>
    <3>1. [call[c] EXCEPT !.pc = "checked", !.kind = k] \in CallRecords
      <4>1. call[c] \in CallRecords /\ k \in Kinds /\ "checked" \in Phases
        BY Fields DEF Kinds, Phases
      <4>. QED
        BY <4>1 DEF CallRecords
    <3>2. call' \in [Calls -> CallRecords]
      BY <2>3, <3>1 DEF TypeOK
    <3>. QED
      BY <1>3, <2>3, <3>2 DEF Command, TypeOK
  <2>. QED
    BY <2>1, <2>2, <2>3 DEF Checked
<1>4. CASE Ask(c)
  <2>1. [call[c] EXCEPT !.pc = "checked", !.kind = "ask", !.asked = reg] \in CallRecords
    <3>1. /\ call[c] \in CallRecords /\ reg \in Nat
          /\ "ask" \in Kinds /\ "checked" \in Phases
      BY Fields DEF Kinds, Phases, TypeOK
    <3>. QED
      BY <3>1 DEF CallRecords
  <2>2. call' \in [Calls -> CallRecords]
    BY <1>4, <2>1 DEF Ask, TypeOK
  <2>. QED
    BY <1>4, <2>2 DEF Ask, TypeOK
<1>5. CASE Push(c)
  <2>1. call' \in [Calls -> CallRecords]
    BY <1>5, Fields DEF Push, Phases
  <2>2. queue' \in Seq(Calls) /\ pushed' \in Seq(Calls)
    BY <1>5 DEF Push, Queued, TypeOK
  <2>. QED
    BY <1>5, <2>1, <2>2 DEF Push, TypeOK
<1>6. CASE Answered(c)
  <2>1. CASE Ended(c)
    BY <1>6, <2>1, EndedType DEF Answered, TypeOK
  <2>2. CASE call' = [call EXCEPT ![c].pc = "accepted"] /\ UNCHANGED <<stored, bytes>>
    <3>1. call' \in [Calls -> CallRecords]
      BY <2>2, Fields DEF Phases
    <3>. QED
      BY <1>6, <2>2, <3>1 DEF Answered, TypeOK
  <2>. QED
    BY <1>6, <2>1, <2>2 DEF Answered
<1>7. CASE Grant(c)
  <2>1. letIn' \in [grants : SUBSET (Calls \X Nat), accepts : SUBSET (Calls \X Nat)]
    <3>1. reg \in Nat
      BY DEF TypeOK
    <3>. QED
      BY <1>7, <3>1 DEF Grant, TypeOK
  <2>2. admitted' \in BOOLEAN
    BY <1>7 DEF Grant, TypeOK
  <2>. QED
    BY <1>7, <2>1, <2>2, EndedType DEF Grant, TypeOK
<1>8. CASE TimeOut(c)
  BY <1>8, EndedType DEF TimeOut, TypeOK
<1>9. CASE Drop(c)
  BY <1>9, EndedType DEF Drop, TypeOK
<1>. QED
  BY <1>1, <1>2, <1>3, <1>4, <1>5, <1>6, <1>7, <1>8, <1>9 DEF Handler

\* The command loop of the host keeps the types (HostLoop).
LEMMA LoopType ==
  ASSUME CommandParameters, TypeOK, HostLoop
  PROVE  TypeOK'
<1>. DEFINE HostRecords == [token : Nat, loop : LoopRecords]
<1>0. ASSUME NEW r \in LoopRecords, Loop(r)
      PROVE  host' \in HostRecords /\ host'.token = host.token
  BY <1>0, Fields DEF Loop
<1>1. CASE Poll
  <2>1. [Idle EXCEPT !.pc = "sent", !.token = host.token] \in LoopRecords
    BY Fields DEF LoopRecords
  <2>. QED
    BY <1>0, <1>1, <2>1 DEF Poll, TypeOK, server
<1>2. CASE PollValid
  <2>1. [host.loop EXCEPT !.pc = "polling"] \in LoopRecords /\ Idle \in LoopRecords
    BY Fields DEF LoopRecords
  <2>. QED
    BY <1>0, <1>2, <2>1 DEF PollValid, TypeOK, server
<1>3. CASE PollTake
  <2>1. [host.loop EXCEPT !.pc = "carried", !.cmd = Head(queue)] \in LoopRecords
    BY <1>3, Fields, QueueParts DEF LoopRecords, PollTake
  <2>. QED
    BY <1>0, <1>3, <2>1, QueueParts DEF PollTake, Take, TypeOK
<1>4. CASE PollAstray
  BY <1>4, QueueParts DEF PollAstray, Take, TypeOK
<1>5. CASE PollEnd
  BY <1>0, <1>5, Fields DEF PollEnd, TypeOK, server
<1>6. CASE Arrive
  <2>1. [host.loop EXCEPT !.pc = "performing"] \in LoopRecords /\ Idle \in LoopRecords
    BY <1>6, Fields DEF LoopRecords, Arrive
  <2>2. host' \in HostRecords /\ host'.token = host.token
    BY <1>0, <1>6, <2>1 DEF Arrive
  <2>3. [pc |-> "opening", token |-> host.token, current |-> TRUE] \in TransferRecords
    BY Fields DEF TransferRecords
  <2>4. transfer' \in [Calls -> TransferRecords]
    BY <1>6, <2>3 DEF Arrive, TypeOK
  <2>. QED
    BY <1>6, <2>2, <2>4 DEF Arrive, TypeOK, server
<1>7. ASSUME NEW ok \in BOOLEAN, Perform(ok) PROVE TypeOK'
  <2>. DEFINE c == host.loop.cmd
  <2>1. c \in Calls /\ host.loop.token \in Nat
    BY <1>7, Fields DEF Perform, LoopRecords
  <2>2. [host.loop EXCEPT !.pc = "submitted", !.ok = ok] \in LoopRecords
    BY <1>7, Fields DEF Perform, LoopRecords
  <2>3. host' \in HostRecords /\ host'.token = host.token
    <3>. DEFINE r == IF host.loop.current
                     THEN [host.loop EXCEPT !.pc = "submitted", !.ok = ok] ELSE Idle
    <3>1. r \in LoopRecords
      BY <2>2, Fields
    <3>. QED
      BY <1>0, <1>7, <3>1 DEF Perform
  <2>4. performed' \in Seq(Performances)
    BY <1>7, <2>1 DEF Perform, Performances, TypeOK
  <2>5. letIn' \in [grants : SUBSET (Calls \X Nat), accepts : SUBSET (Calls \X Nat)]
    <3>1. <<c, host.loop.token>> \in Calls \X Nat
      BY <2>1
    <3>2. [letIn EXCEPT !.accepts = @ \cup {<<c, host.loop.token>>}]
            \in [grants : SUBSET (Calls \X Nat), accepts : SUBSET (Calls \X Nat)]
      BY <3>1 DEF TypeOK
    <3>. QED
      BY <1>7, <3>2 DEF Perform, TypeOK
  <2>. QED
    BY <1>7, <2>3, <2>4, <2>5 DEF Perform, TypeOK, server
<1>8. CASE Submit
  <2>. DEFINE c == host.loop.cmd
  <2>1. c \in Calls
    BY <1>8, Fields DEF Submit, LoopRecords
  <2>2. answer' \in [Calls -> {"none", "yes", "no"}] /\ waiters' \subseteq Calls
    <3>1. CASE host.loop.token = reg
      BY <1>8, <2>1, <3>1, ToldType DEF Submit, Complete
    <3>2. CASE host.loop.token # reg
      BY <1>8, <3>2 DEF Submit, TypeOK
    <3>. QED
      BY <3>1, <3>2
  <2>. QED
    BY <1>0, <1>8, <2>2, Fields DEF Submit, TypeOK
<1>9. CASE SubmitLost
  BY <1>0, <1>9, Fields DEF SubmitLost, TypeOK, server
<1>. QED
  BY <1>1, <1>2, <1>3, <1>4, <1>5, <1>6, <1>7, <1>8, <1>9 DEF HostLoop

\* The host's transfer of a file keeps the types (HostFile).
LEMMA FileType ==
  ASSUME CommandParameters, TypeOK, NEW c \in Calls, HostFile(c)
  PROVE  TypeOK'
<1>1. \A p \in {"saving", "saved", "failed"} : Turn(c, p) => transfer' \in [Calls -> TransferRecords]
  <2>1. ASSUME NEW p \in {"saving", "saved", "failed"}, Turn(c, p)
        PROVE  transfer' \in [Calls -> TransferRecords]
    <3>1. [transfer[c] EXCEPT !.pc = p] \in TransferRecords
      BY Fields DEF TransferRecords
    <3>. QED
      BY <2>1, <3>1 DEF Turn, TypeOK
  <2>. QED
    BY <2>1
<1>2. TurnOver(c) => transfer' \in [Calls -> TransferRecords]
  <2>1. [NoTransfer EXCEPT !.pc = "over"] \in TransferRecords
    BY DEF NoTransfer, TransferRecords
  <2>. QED
    BY <2>1 DEF TurnOver, TypeOK
<1>3. CASE Open(c)
  BY <1>1, <1>3 DEF Open, TypeOK
<1>4. CASE Save(c)
  <2>1. performed' \in Seq(Performances)
    BY <1>4 DEF Save, Performances, TypeOK
  <2>. QED
    BY <1>1, <1>4, <2>1 DEF Save, TypeOK, server
<1>5. CASE Fail(c)
  BY <1>1, <1>5 DEF Fail, TypeOK, server
<1>6. CASE FileReport(c)
  <2>1. answer' \in [Calls -> {"none", "yes", "no"}] /\ waiters' \subseteq Calls
    <3>1. CASE transfer[c].current /\ transfer[c].token = reg
      BY <1>6, <3>1, ToldType DEF FileReport, Report, Complete
    <3>2. CASE ~(transfer[c].current /\ transfer[c].token = reg)
      BY <1>6, <3>2 DEF FileReport, Report, TypeOK
    <3>. QED
      BY <3>1, <3>2
  <2>. QED
    BY <1>2, <1>6, <2>1 DEF FileReport, Report, TypeOK
<1>7. CASE ReportLost(c)
  BY <1>2, <1>7 DEF ReportLost, TypeOK, server
<1>. QED
  BY <1>3, <1>4, <1>5, <1>6, <1>7 DEF HostFile

\* Every step keeps the types.
LEMMA NextType == CommandParameters /\ TypeOK /\ [Next]_vars => TypeOK'
<1>. SUFFICES ASSUME CommandParameters, TypeOK, [Next]_vars PROVE TypeOK'
  OBVIOUS
<1>1. CASE Expire
  BY <1>1, QueueParts, ToldType DEF Expire, TypeOK
<1>2. CASE UNCHANGED vars
  BY <1>2 DEF vars, TypeOK
<1>. QED
  BY <1>1, <1>2, DeviceType, HandlerType, LoopType, FileType DEF Next

\* Every variable keeps its type: the registration, the handlers, the queue, the
\* host's loop and transfers.
THEOREM TypeCorrect == Spec => []TypeOK
<1>1. Init => TypeOK
  BY CommandParameters DEF Init, TypeOK, NoCall, Idle, NoTransfer, CallRecords, LoopRecords,
                           TransferRecords, Phases, Kinds
<1>2. TypeOK /\ [Next]_vars => TypeOK'
  BY NextType, CommandParameters
<1>. QED
  BY <1>1, <1>2, PTL DEF Spec

(***************************************************************************)
(* A command is at one place at a time: it is not pushed yet, or queued,   *)
(* or in the host's loop, or a transfer, or nowhere any more.  It was      *)
(* performed, and answered, only after it left the queue; and it has no    *)
(* answer while it is anywhere.                                            *)
(***************************************************************************)
InQueue(c) == \E i \in 1 .. Len(queue) : queue[i] = c
HasRun(c) == \E i \in 1 .. Len(performed) : performed[i].cmd = c
Succeeded(c) == \E i \in 1 .. Len(performed) : performed[i] = [cmd |-> c, ok |-> TRUE]
AtHost(c) == host.loop.pc \in {"carried", "performing"} /\ host.loop.cmd = c
Reporting(c) == host.loop.pc = "submitted" /\ host.loop.cmd = c
Unpushed(c) == call[c].pc \in {"new", "reading", "stored", "checked"}
Receiving(c) == transfer[c].pc \in {"opening", "saving", "saved", "failed"}

QueueOnce == \A i, j \in 1 .. Len(queue) : queue[i] = queue[j] => i = j

PlaceOf(c) ==
  /\ Unpushed(c) => /\ ~InQueue(c) /\ ~AtHost(c) /\ ~Reporting(c) /\ transfer[c].pc = "none"
                    /\ ~HasRun(c) /\ answer[c] = "none" /\ c \notin waiters
  /\ InQueue(c) => /\ ~AtHost(c) /\ ~Reporting(c) /\ transfer[c].pc = "none"
                   /\ ~HasRun(c) /\ answer[c] = "none"
  /\ AtHost(c) => transfer[c].pc = "none" /\ ~HasRun(c) /\ answer[c] = "none"
  /\ Reporting(c) => /\ transfer[c].pc = "none" /\ answer[c] = "none"
                     /\ Succeeded(c) <=> host.loop.ok
  /\ Receiving(c) => answer[c] = "none" /\ (HasRun(c) <=> transfer[c].pc = "saved")
  /\ transfer[c].pc = "saved" => Succeeded(c)
  /\ transfer[c].pc # "none" => call[c].kind = "file"
  /\ answer[c] # "none" => (answer[c] = "yes" <=> Succeeded(c))

PlaceInv == QueueOnce /\ \A c \in Calls : PlaceOf(c)

\* What taking the head does to the queue (expire_stale_device_commands, poll).
LEMMA TakenQueue ==
  ASSUME TypeOK, QueueOnce, queue # <<>>, queue' = Tail(queue)
  PROVE  /\ QueueOnce' /\ Head(queue) \in Calls /\ InQueue(Head(queue))
         /\ \A d \in Calls : InQueue(d)' => InQueue(d) /\ d # Head(queue)
<1>1. queue \in Seq(Calls) /\ Len(queue) > 0 /\ Len(queue) \in Nat
  BY DEF TypeOK
<1>2. /\ Len(queue') = Len(queue) - 1
      /\ \A i \in 1 .. Len(queue') : queue'[i] = queue[i + 1] /\ i + 1 \in 1 .. Len(queue)
  BY <1>1
<1>3. Head(queue) = queue[1] /\ 1 \in 1 .. Len(queue)
  BY <1>1
<1>4. QueueOnce'
  BY <1>1, <1>2 DEF QueueOnce
<1>5. \A i \in 1 .. Len(queue') : queue'[i] # queue[1]
  <2>1. ASSUME NEW i \in 1 .. Len(queue'), queue'[i] = queue[1]
        PROVE  FALSE
    <3>1. i + 1 \in 1 .. Len(queue) /\ queue[i + 1] = queue[1] /\ i + 1 # 1
      BY <1>1, <1>2, <2>1
    <3>. QED
      BY <1>3, <3>1 DEF QueueOnce
  <2>. QED
    BY <2>1
<1>6. \A d \in Calls : InQueue(d)' => InQueue(d)
  BY <1>1, <1>2 DEF InQueue
<1>7. \A d \in Calls : InQueue(d)' => d # Head(queue)
  BY <1>3, <1>5 DEF InQueue
<1>8. Head(queue) \in Calls /\ InQueue(Head(queue))
  BY <1>1, <1>3 DEF InQueue
<1>. QED
  BY <1>4, <1>6, <1>7, <1>8

\* What a push does to the queue (forward_command_within).
LEMMA PushedQueue ==
  ASSUME TypeOK, QueueOnce, NEW c \in Calls, ~InQueue(c), queue' = Append(queue, c)
  PROVE  QueueOnce' /\ \A d \in Calls : d # c => (InQueue(d)' <=> InQueue(d))
<1>1. queue \in Seq(Calls) /\ Len(queue) \in Nat
  BY DEF TypeOK
<1>2. /\ Len(queue') = Len(queue) + 1 /\ queue'[Len(queue) + 1] = c
      /\ \A i \in 1 .. Len(queue) : queue'[i] = queue[i]
  BY <1>1
<1>3. QueueOnce'
  BY <1>1, <1>2 DEF QueueOnce, InQueue
<1>. QED
  BY <1>1, <1>2, <1>3 DEF InQueue

\* What a performance adds to the record of them.
LEMMA RunAppended ==
  ASSUME TypeOK, NEW c \in Calls, NEW ok \in BOOLEAN,
         performed' = Append(performed, [cmd |-> c, ok |-> ok])
  PROVE  /\ \A d \in Calls : d # c => (HasRun(d)' <=> HasRun(d)) /\ (Succeeded(d)' <=> Succeeded(d))
         /\ HasRun(c)' /\ (Succeeded(c)' <=> ok \/ Succeeded(c))
<1>1. performed \in Seq(Performances) /\ Len(performed) \in Nat
  BY DEF TypeOK
<1>. DEFINE n == Len(performed) + 1
<1>2. /\ Len(performed') = n /\ performed'[n] = [cmd |-> c, ok |-> ok]
      /\ \A i \in 1 .. Len(performed) : performed'[i] = performed[i]
  BY <1>1
<1>3. 1 .. n = 1 .. Len(performed) \cup {n}
  BY <1>1
<1>4. ASSUME NEW d \in Calls
      PROVE  /\ HasRun(d)' <=> HasRun(d) \/ d = c
             /\ Succeeded(d)' <=> Succeeded(d) \/ (d = c /\ ok)
  <2>1. HasRun(d)' <=> \E i \in 1 .. n : performed'[i].cmd = d
    BY <1>2 DEF HasRun
  <2>2. Succeeded(d)' <=> \E i \in 1 .. n : performed'[i] = [cmd |-> d, ok |-> TRUE]
    BY <1>2 DEF Succeeded
  <2>3. n \in 1 .. n /\ performed'[n].cmd = c /\ (performed'[n] = [cmd |-> d, ok |-> TRUE] <=> d = c /\ ok)
    <3>1. n \in 1 .. n /\ performed'[n].cmd = c
      BY <1>1, <1>2
    <3>2. CASE ok = TRUE
      <4>1. [cmd |-> c, ok |-> TRUE].cmd = c /\ [cmd |-> d, ok |-> TRUE].cmd = d
        OBVIOUS
      <4>2. [cmd |-> c, ok |-> TRUE] = [cmd |-> d, ok |-> TRUE] <=> d = c
        BY <4>1
      <4>. QED
        BY <1>2, <3>2, <4>2
    <3>3. CASE ok = FALSE
      <4>1. [cmd |-> c, ok |-> FALSE].ok # [cmd |-> d, ok |-> TRUE].ok
        OBVIOUS
      <4>. QED
        BY <1>2, <3>3, <4>1
    <3>. QED
      BY <3>1, <3>2, <3>3
  <2>4. HasRun(d)' <=> HasRun(d) \/ d = c
    BY <1>2, <1>3, <2>1, <2>3 DEF HasRun
  <2>5. Succeeded(d)' <=> Succeeded(d) \/ (d = c /\ ok)
    BY <1>2, <1>3, <2>2, <2>3 DEF Succeeded
  <2>. QED
    BY <2>4, <2>5
<1>. QED
  BY <1>4

\* What succeeded was performed.
LEMMA SucceededHasRun == \A c \in Calls : Succeeded(c) => HasRun(c)
BY DEF Succeeded, HasRun

\* A command that does not move further, but perhaps leaves its place, stays
\* where it may be.
LEMMA Still ==
  ASSUME TypeOK, NEW d \in Calls, PlaceOf(d),
         InQueue(d)' => InQueue(d), AtHost(d)' => AtHost(d), Reporting(d)' => Reporting(d),
         Reporting(d)' => host'.loop.ok = host.loop.ok,
         transfer'[d].pc = transfer[d].pc, HasRun(d)' <=> HasRun(d), Succeeded(d)' <=> Succeeded(d),
         answer'[d] = answer[d], d \in waiters' => d \in waiters, Unpushed(d)' => Unpushed(d),
         call'[d].kind = call[d].kind \/ transfer[d].pc = "none"
  PROVE  PlaceOf(d)'
BY DEF PlaceOf, Receiving

\* What does not touch the queue or the record of performances leaves what is said of them.
LEMMA SameQueue ==
  ASSUME UNCHANGED queue
  PROVE  (QueueOnce => QueueOnce') /\ \A d \in Calls : InQueue(d)' <=> InQueue(d)
BY DEF QueueOnce, InQueue

LEMMA SameRun ==
  ASSUME UNCHANGED performed
  PROVE  \A d \in Calls : (HasRun(d)' <=> HasRun(d)) /\ (Succeeded(d)' <=> Succeeded(d))
BY DEF HasRun, Succeeded

\* What is told of a command that is nowhere else leaves every command at its place.
LEMMA ToldPlace ==
  ASSUME TypeOK, NEW c \in Calls, NEW a \in {"yes", "no"}, Told(c, a)
  PROVE  /\ \A d \in Calls : d # c => answer'[d] = answer[d]
         /\ answer'[c] \in {answer[c], a}
         /\ waiters' \subseteq waiters
BY DEF Told, TypeOK

\* The registration, and the host's forgetting of it, move no command.
LEMMA DevicePlace ==
  ASSUME TypeOK, PlaceInv, Device
  PROVE  PlaceInv'
<1>1. CASE RemoveQueue
  <2>1. QueueOnce' /\ \A d \in Calls : ~InQueue(d)'
    BY <1>1 DEF RemoveQueue, QueueOnce, InQueue
  <2>2. \A d \in Calls : PlaceOf(d)'
    BY <1>1, <2>1, SameRun DEF PlaceInv, PlaceOf, RemoveQueue, AtHost, Reporting, Receiving, Unpushed
  <2>. QED
    BY <2>1, <2>2 DEF PlaceInv
<1>2. CASE NextGeneration
  <2>1. \A d \in Calls : transfer'[d].pc = transfer[d].pc
    BY <1>2 DEF NextGeneration, TypeOK, TransferRecords
  <2>2. host'.loop.pc = host.loop.pc /\ host'.loop.cmd = host.loop.cmd /\ host'.loop.ok = host.loop.ok
    BY <1>2, Fields DEF NextGeneration, TypeOK, LoopRecords
  <2>3. UNCHANGED <<queue, performed, call, answer, waiters>>
    BY <1>2 DEF NextGeneration, server
  <2>. QED
    BY <2>1, <2>2, <2>3, SameQueue, SameRun DEF PlaceInv, PlaceOf, AtHost, Reporting, Receiving, Unpushed
<1>3. CASE Register \/ ForgetToken \/ RemoveViewers \/ RemovePreview \/ DisconnectViewers \/ ResolvePreview
  <2>1. UNCHANGED <<queue, performed, call, answer, waiters, transfer>>
    BY <1>3 DEF Register, ForgetToken, RemoveViewers, RemovePreview, DisconnectViewers, ResolvePreview, server
  <2>2. host'.loop = host.loop
    BY <1>3, Fields DEF Register, ForgetToken, RemoveViewers, RemovePreview, DisconnectViewers, ResolvePreview, server
  <2>. QED
    BY <2>1, <2>2, SameQueue, SameRun DEF PlaceInv, PlaceOf, AtHost, Reporting, Receiving, Unpushed
<1>. QED
  BY <1>1, <1>2, <1>3 DEF Device

\* A call that goes on, but pushes nothing, stays where it is.
LEMMA CallPlace ==
  ASSUME TypeOK, PlaceInv, NEW c \in Calls,
         \A d \in Calls : d # c => call'[d] = call[d],
         Unpushed(c)' => Unpushed(c),
         call'[c].kind = call[c].kind \/ Unpushed(c),
         UNCHANGED <<queue, performed, answer, transfer, host>>, waiters' \subseteq waiters
  PROVE  PlaceInv'
BY SameQueue, SameRun DEF PlaceInv, PlaceOf, AtHost, Reporting, Receiving, Unpushed

\* The server's handler of a call (Handler).
LEMMA HandlerPlace ==
  ASSUME TypeOK, PlaceInv, NEW c \in Calls, Handler(c)
  PROVE  PlaceInv'
<1>1. Ended(c) => call'[c].pc = "done" /\ call'[c].kind = call[c].kind
                  /\ \A d \in Calls : d # c => call'[d] = call[d]
  BY DEF Ended, TypeOK, NoCall
<1>2. ASSUME NEW size \in Sizes, AdmitFile(c, size) PROVE PlaceInv'
  <2>1. \A d \in Calls : d # c => call'[d] = call[d]
    BY <1>2 DEF AdmitFile, Reserve, TypeOK
  <2>2. Unpushed(c)
    BY <1>2 DEF AdmitFile, Reserve, Unpushed
  <2>. QED
    BY <1>2, <2>1, <2>2, CallPlace DEF AdmitFile, Reserve
<1>3. CASE Store(c)
  <2>1. Unpushed(c) /\ \A d \in Calls : d # c => call'[d] = call[d]
    BY <1>3 DEF Store, TypeOK, Unpushed
  <2>. QED
    BY <1>3, <2>1, CallPlace DEF Store
<1>4. CASE Command(c)
  <2>1. Unpushed(c) /\ \A d \in Calls : d # c => call'[d] = call[d]
    BY <1>1, <1>4 DEF Command, Input, RelayFile, Checked, TypeOK, Unpushed
  <2>. QED
    BY <1>4, <2>1, CallPlace DEF Command
<1>5. CASE Ask(c)
  <2>1. Unpushed(c) /\ \A d \in Calls : d # c => call'[d] = call[d]
    BY <1>5 DEF Ask, TypeOK, Unpushed
  <2>. QED
    BY <1>5, <2>1, CallPlace DEF Ask
<1>6. CASE Push(c)
  <2>1. Unpushed(c) /\ ~InQueue(c) /\ queue' = Append(queue, c)
    BY <1>6 DEF Push, Queued, Unpushed, PlaceInv, PlaceOf
  <2>2. QueueOnce' /\ \A d \in Calls : d # c => (InQueue(d)' <=> InQueue(d))
    BY <2>1, PushedQueue DEF PlaceInv
  <2>3. ~Unpushed(c)' /\ call'[c].kind = call[c].kind /\ \A d \in Calls : d # c => call'[d] = call[d]
    BY <1>6 DEF Push, Unpushed, TypeOK, CallRecords
  <2>4. UNCHANGED <<performed, answer, transfer, host>> /\ waiters' = waiters \cup {c}
    BY <1>6 DEF Push
  <2>5. PlaceOf(c)'
    BY <2>1, <2>3, <2>4, SameRun DEF PlaceInv, PlaceOf, AtHost, Reporting, Receiving
  <2>6. \A d \in Calls : d # c => PlaceOf(d)'
    BY <2>2, <2>3, <2>4, SameRun DEF PlaceInv, PlaceOf, AtHost, Reporting, Receiving, Unpushed
  <2>. QED
    BY <2>2, <2>5, <2>6 DEF PlaceInv
<1>7. CASE Answered(c)
  <2>1. /\ ~Unpushed(c)' /\ call'[c].kind = call[c].kind
        /\ \A d \in Calls : d # c => call'[d] = call[d]
    <3>1. CASE Ended(c)
      BY <1>1, <3>1 DEF Unpushed
    <3>2. CASE call' = [call EXCEPT ![c].pc = "accepted"]
      <4>1. call'[c].pc = "accepted" /\ call'[c].kind = call[c].kind
        BY <3>2 DEF TypeOK, CallRecords
      <4>. QED
        BY <3>2, <4>1 DEF Unpushed, TypeOK
    <3>. QED
      BY <1>7, <3>1, <3>2 DEF Answered
  <2>. QED
    BY <1>7, <2>1, CallPlace DEF Answered
<1>8. CASE Grant(c) \/ TimeOut(c) \/ Drop(c)
  <2>1. /\ ~Unpushed(c)' /\ call'[c].kind = call[c].kind
        /\ \A d \in Calls : d # c => call'[d] = call[d]
    BY <1>1, <1>8 DEF Grant, TimeOut, Drop, Unpushed
  <2>. QED
    BY <1>8, <2>1, CallPlace DEF Grant, TimeOut, Drop
<1>. QED
  BY <1>2, <1>3, <1>4, <1>5, <1>6, <1>7, <1>8 DEF Handler


\* The command at the head of the queue becomes stale (Expire).
LEMMA ExpirePlace ==
  ASSUME TypeOK, PlaceInv, Expire
  PROVE  PlaceInv'
<1>. PICK c : c = Head(queue)
  OBVIOUS
<1>1. QueueOnce' /\ c \in Calls /\ InQueue(c) /\ \A d \in Calls : InQueue(d)' => InQueue(d) /\ d # c
  BY TakenQueue DEF Expire, PlaceInv
<1>2. UNCHANGED <<call, host, transfer, performed>> /\ Told(c, "no")
  BY DEF Expire
<1>3. /\ \A d \in Calls : d # c => answer'[d] = answer[d]
      /\ answer'[c] \in {answer[c], "no"} /\ waiters' \subseteq waiters
  BY <1>1, <1>2, ToldPlace
<1>4. PlaceOf(c) /\ ~Unpushed(c)
  BY <1>1 DEF PlaceInv, PlaceOf
<1>5. PlaceOf(c)'
  BY <1>1, <1>2, <1>3, <1>4, SameRun, SucceededHasRun
     DEF PlaceOf, AtHost, Reporting, Receiving, Unpushed
<1>6. \A d \in Calls : d # c => PlaceOf(d)'
  BY <1>1, <1>2, <1>3, SameRun DEF PlaceInv, PlaceOf, AtHost, Reporting, Receiving, Unpushed
<1>. QED
  BY <1>1, <1>5, <1>6 DEF PlaceInv

\* The host's loop forgets its command, or has none.
LEMMA LoopPlace ==
  ASSUME TypeOK, PlaceInv, UNCHANGED <<queue, call, transfer, performed, answer, waiters>>,
         host'.loop.pc \in {"idle", "sent", "polling"}
         \/ (host'.loop.pc = "performing" /\ host'.loop.cmd = host.loop.cmd /\ host.loop.pc = "carried")
  PROVE  PlaceInv'
BY SameQueue, SameRun DEF PlaceInv, PlaceOf, AtHost, Reporting, Receiving, Unpushed


\* The host's command loop (HostLoop): a command leaves the queue before it is
\* performed, and is reported at most once.
LEMMA HostLoopPlace ==
  ASSUME TypeOK, PlaceInv, HostLoop
  PROVE  PlaceInv'
<1>. PICK c : c = host.loop.cmd
  OBVIOUS
<1>0. \A r \in LoopRecords : Loop(r) => host'.loop = r
  BY Fields DEF Loop, TypeOK
<1>1. CASE Poll
  <2>1. host'.loop.pc = "sent"
    BY <1>1, Fields DEF Poll, Loop, Idle, TypeOK
  <2>. QED
    BY <1>1, <2>1, LoopPlace DEF Poll, server
<1>2. CASE PollValid
  <2>1. host'.loop.pc \in {"idle", "polling"}
    BY <1>2, Fields DEF PollValid, Loop, Idle, TypeOK, LoopRecords
  <2>. QED
    BY <1>2, <2>1, LoopPlace DEF PollValid, server
<1>3. CASE PollTake
  <2>. PICK h : h = Head(queue)
    OBVIOUS
  <2>1. QueueOnce' /\ h \in Calls /\ InQueue(h) /\ \A d \in Calls : InQueue(d)' => InQueue(d) /\ d # h
    BY <1>3, TakenQueue DEF PollTake, Take, PlaceInv
  <2>2. host'.loop.pc = "carried" /\ host'.loop.cmd = h
    BY <1>3, Fields DEF PollTake, Loop, TypeOK, LoopRecords
  <2>3. UNCHANGED <<call, waiters, answer, transfer, performed>> /\ host.loop.pc = "polling"
    BY <1>3 DEF PollTake
  <2>4. PlaceOf(h)'
    BY <2>1, <2>2, <2>3, SameRun DEF PlaceInv, PlaceOf, AtHost, Reporting, Receiving, Unpushed
  <2>5. \A d \in Calls : d # h => PlaceOf(d)'
    BY <2>1, <2>2, <2>3, SameRun DEF PlaceInv, PlaceOf, AtHost, Reporting, Receiving, Unpushed
  <2>. QED
    BY <2>1, <2>4, <2>5 DEF PlaceInv
<1>4. CASE PollAstray
  <2>1. QueueOnce' /\ \A d \in Calls : InQueue(d)' => InQueue(d)
    BY <1>4, TakenQueue DEF PollAstray, Take, PlaceInv
  <2>2. UNCHANGED <<call, waiters, answer, transfer, performed, host>>
    BY <1>4 DEF PollAstray
  <2>. QED
    BY <2>1, <2>2, SameRun DEF PlaceInv, PlaceOf, AtHost, Reporting, Receiving, Unpushed
<1>5. CASE PollEnd
  <2>1. host'.loop.pc = "idle"
    BY <1>0, <1>5, Fields DEF PollEnd, Idle
  <2>. QED
    BY <1>5, <2>1, LoopPlace DEF PollEnd, server
<1>6. CASE Arrive
  <2>1. host.loop.pc = "carried" /\ c \in Calls /\ AtHost(c)
    BY <1>6, Fields DEF Arrive, LoopRecords, AtHost
  <2>2. UNCHANGED <<call, waiters, answer, performed, queue>>
    BY <1>6 DEF Arrive, server
  <2>3. CASE UNCHANGED transfer
    <3>1. \/ host'.loop.pc = "idle"
          \/ host'.loop.pc = "performing" /\ host'.loop.cmd = host.loop.cmd
      <4>1. [host.loop EXCEPT !.pc = "performing"].cmd = host.loop.cmd
            /\ [host.loop EXCEPT !.pc = "performing"].pc = "performing"
            /\ [host.loop EXCEPT !.pc = "performing"] \in LoopRecords
        BY <2>1, Fields DEF LoopRecords
      <4>2. Idle.pc = "idle"
        BY DEF Idle
      <4>. QED
        BY <1>0, <1>6, <4>1, <4>2, Fields DEF Arrive
    <3>. QED
      BY <2>1, <2>2, <2>3, <3>1, LoopPlace
  <2>4. CASE /\ host'.loop = Idle /\ call[c].kind = "file"
             /\ transfer' = [transfer EXCEPT ![c] =
                  [pc |-> "opening", token |-> host.token, current |-> TRUE]]
    <3>1. transfer'[c].pc = "opening" /\ \A d \in Calls : d # c => transfer'[d] = transfer[d]
      BY <2>1, <2>4 DEF TypeOK
    <3>2. host'.loop.pc = "idle"
      BY <2>4 DEF Idle
    <3>3. PlaceOf(c)'
      BY <2>1, <2>2, <2>4, <3>1, <3>2, SameRun, SameQueue
         DEF PlaceInv, PlaceOf, AtHost, Reporting, Receiving, Unpushed
    <3>4. \A d \in Calls : d # c => PlaceOf(d)'
      BY <2>1, <2>2, <3>1, <3>2, SameRun, SameQueue
         DEF PlaceInv, PlaceOf, AtHost, Reporting, Receiving, Unpushed
    <3>. QED
      BY <2>2, <3>3, <3>4, SameQueue DEF PlaceInv
  <2>. QED
    BY <1>0, <1>6, <2>3, <2>4, Fields DEF Arrive
<1>7. ASSUME NEW ok \in BOOLEAN, Perform(ok) PROVE PlaceInv'
  <2>1. host.loop.pc = "performing" /\ c \in Calls /\ AtHost(c)
    BY <1>7, Fields DEF Perform, LoopRecords, AtHost
  <2>2. UNCHANGED <<call, waiters, answer, transfer, queue>>
    BY <1>7 DEF Perform, server
  <2>3. /\ \A d \in Calls : d # c => (HasRun(d)' <=> HasRun(d)) /\ (Succeeded(d)' <=> Succeeded(d))
        /\ HasRun(c)' /\ (Succeeded(c)' <=> ok \/ Succeeded(c))
    BY <1>7, <2>1, RunAppended DEF Perform
  <2>4. ~HasRun(c) /\ ~Succeeded(c) /\ transfer[c].pc = "none" /\ ~InQueue(c) /\ ~Unpushed(c)
        /\ answer[c] = "none"
    BY <2>1, SucceededHasRun DEF PlaceInv, PlaceOf
  <2>5. \/ host'.loop.pc = "idle"
        \/ host'.loop.pc = "submitted" /\ host'.loop.cmd = c /\ host'.loop.ok = ok
    <3>. DEFINE r == [host.loop EXCEPT !.pc = "submitted", !.ok = ok]
    <3>1. r \in LoopRecords /\ r.pc = "submitted" /\ r.cmd = c /\ r.ok = ok
      BY <2>1, Fields DEF LoopRecords
    <3>2. Idle.pc = "idle"
      BY DEF Idle
    <3>. QED
      BY <1>0, <1>7, <3>1, <3>2, Fields DEF Perform
  <2>6. PlaceOf(c)'
    <3>1. Reporting(c)' => (Succeeded(c)' <=> host'.loop.ok)
      <4>1. CASE ok = TRUE
        BY <2>3, <2>5, <4>1 DEF Reporting
      <4>2. CASE ok = FALSE
        BY <2>3, <2>4, <2>5, <4>2 DEF Reporting
      <4>. QED
        BY <4>1, <4>2
    <3>. QED
      BY <2>1, <2>2, <2>3, <2>4, <2>5, <3>1, SameQueue DEF PlaceOf, AtHost, Receiving, Unpushed
  <2>7. \A d \in Calls : d # c => PlaceOf(d)'
    BY <2>1, <2>2, <2>3, <2>5, SameQueue DEF PlaceInv, PlaceOf, AtHost, Reporting, Receiving, Unpushed
  <2>. QED
    BY <2>2, <2>6, <2>7, SameQueue DEF PlaceInv
<1>8. CASE Submit
  <2>1. host.loop.pc = "submitted" /\ c \in Calls /\ Reporting(c) /\ host.loop.ok \in BOOLEAN
    BY <1>8, Fields DEF Submit, LoopRecords, Reporting
  <2>2. UNCHANGED <<call, transfer, queue, performed>> /\ host'.loop.pc = "idle"
    BY <1>0, <1>8, Fields DEF Submit, Idle
  <2>3. /\ \A d \in Calls : d # c => answer'[d] = answer[d]
        /\ answer'[c] \in {answer[c], IF host.loop.ok THEN "yes" ELSE "no"}
        /\ waiters' \subseteq waiters
    <3>1. CASE host.loop.token = reg
      BY <1>8, <2>1, <3>1, ToldPlace DEF Submit, Complete
    <3>2. CASE host.loop.token # reg
      BY <1>8, <3>2 DEF Submit
    <3>. QED
      BY <3>1, <3>2
  <2>4. PlaceOf(c)'
    BY <2>1, <2>2, <2>3, SameQueue, SameRun DEF PlaceInv, PlaceOf, AtHost, Reporting, Receiving, Unpushed
  <2>5. \A d \in Calls : d # c => PlaceOf(d)'
    BY <2>1, <2>2, <2>3, SameQueue, SameRun DEF PlaceInv, PlaceOf, AtHost, Reporting, Receiving, Unpushed
  <2>. QED
    BY <2>2, <2>4, <2>5, SameQueue DEF PlaceInv
<1>9. CASE SubmitLost
  <2>1. host'.loop.pc = "idle"
    BY <1>0, <1>9, Fields DEF SubmitLost, Idle
  <2>. QED
    BY <1>9, <2>1, LoopPlace DEF SubmitLost, server
<1>. QED
  BY <1>1, <1>2, <1>3, <1>4, <1>5, <1>6, <1>7, <1>8, <1>9 DEF HostLoop


\* A transfer that goes on without saving, and reports nothing.
LEMMA TransferPlace ==
  ASSUME TypeOK, PlaceInv, NEW c \in Calls,
         \A d \in Calls : d # c => transfer'[d] = transfer[d],
         \/ transfer[c].pc \in {"opening", "saving"} /\ transfer'[c].pc \in {"saving", "failed"}
         \/ transfer[c].pc # "none" /\ transfer'[c].pc = "over",
         UNCHANGED <<call, waiters, answer, performed, queue, host>>
  PROVE  PlaceInv'
BY SameQueue, SameRun DEF PlaceInv, PlaceOf, AtHost, Reporting, Receiving, Unpushed

\* The host's transfer of a file (HostFile): a file is saved once, and the relay is
\* told after it.
LEMMA HostFilePlace ==
  ASSUME TypeOK, PlaceInv, NEW c \in Calls, HostFile(c)
  PROVE  PlaceInv'
<1>1. ASSUME NEW p \in {"saving", "saved", "failed"}, Turn(c, p)
      PROVE  transfer'[c].pc = p /\ \A d \in Calls : d # c => transfer'[d] = transfer[d]
  BY <1>1 DEF Turn, TypeOK, TransferRecords
<1>2. TurnOver(c) => transfer'[c].pc = "over" /\ \A d \in Calls : d # c => transfer'[d] = transfer[d]
  BY DEF TurnOver, TypeOK, NoTransfer
<1>3. CASE Open(c)
  <2>1. transfer'[c].pc \in {"saving", "failed"} /\ \A d \in Calls : d # c => transfer'[d] = transfer[d]
    BY <1>1, <1>3 DEF Open
  <2>. QED
    BY <1>3, <2>1, TransferPlace DEF Open
<1>4. CASE Save(c)
  <2>1. transfer'[c].pc = "saved" /\ \A d \in Calls : d # c => transfer'[d] = transfer[d]
    BY <1>1, <1>4 DEF Save
  <2>2. UNCHANGED <<call, waiters, answer, queue, host>> /\ transfer[c].pc = "saving"
    BY <1>4 DEF Save, server
  <2>3. /\ \A d \in Calls : d # c => (HasRun(d)' <=> HasRun(d)) /\ (Succeeded(d)' <=> Succeeded(d))
        /\ HasRun(c)' /\ Succeeded(c)'
    BY <1>4, RunAppended DEF Save
  <2>4. PlaceOf(c)'
    BY <2>1, <2>2, <2>3, SameQueue DEF PlaceInv, PlaceOf, AtHost, Reporting, Receiving, Unpushed
  <2>5. \A d \in Calls : d # c => PlaceOf(d)'
    BY <2>1, <2>2, <2>3, SameQueue DEF PlaceInv, PlaceOf, AtHost, Reporting, Receiving, Unpushed
  <2>. QED
    BY <2>2, <2>4, <2>5, SameQueue DEF PlaceInv
<1>5. CASE Fail(c)
  <2>1. transfer'[c].pc = "failed" /\ \A d \in Calls : d # c => transfer'[d] = transfer[d]
    BY <1>1, <1>5 DEF Fail
  <2>. QED
    BY <1>5, <2>1, TransferPlace DEF Fail, server
<1>6. CASE FileReport(c)
  <2>1. /\ transfer[c].pc \in {"saved", "failed"} /\ transfer'[c].pc = "over"
        /\ \A d \in Calls : d # c => transfer'[d] = transfer[d]
    BY <1>2, <1>6 DEF FileReport, Report
  <2>2. UNCHANGED <<call, queue, host, performed>>
    BY <1>6 DEF FileReport
  <2>3. /\ \A d \in Calls : d # c => answer'[d] = answer[d]
        /\ answer'[c] \in {answer[c], IF transfer[c].pc = "saved" THEN "yes" ELSE "no"}
        /\ waiters' \subseteq waiters
    <3>1. CASE transfer[c].current /\ transfer[c].token = reg
      BY <1>6, <3>1, ToldPlace DEF FileReport, Report, Complete
    <3>2. CASE ~(transfer[c].current /\ transfer[c].token = reg)
      BY <1>6, <3>2 DEF FileReport, Report
    <3>. QED
      BY <3>1, <3>2
  <2>4. PlaceOf(c)'
    BY <2>1, <2>2, <2>3, SameQueue, SameRun, SucceededHasRun
       DEF PlaceInv, PlaceOf, AtHost, Reporting, Receiving, Unpushed
  <2>5. \A d \in Calls : d # c => PlaceOf(d)'
    BY <2>1, <2>2, <2>3, SameQueue, SameRun DEF PlaceInv, PlaceOf, AtHost, Reporting, Receiving, Unpushed
  <2>. QED
    BY <2>2, <2>4, <2>5, SameQueue DEF PlaceInv
<1>7. CASE ReportLost(c)
  <2>1. transfer'[c].pc = "over" /\ \A d \in Calls : d # c => transfer'[d] = transfer[d]
    BY <1>2, <1>7 DEF ReportLost
  <2>. QED
    BY <1>7, <2>1, TransferPlace DEF ReportLost, server
<1>. QED
  BY <1>3, <1>4, <1>5, <1>6, <1>7 DEF HostFile

\* Every step leaves each command at one place.
LEMMA NextPlace == TypeOK /\ PlaceInv /\ [Next]_vars => PlaceInv'
<1>. SUFFICES ASSUME TypeOK, PlaceInv, [Next]_vars PROVE PlaceInv'
  OBVIOUS
<1>1. CASE UNCHANGED vars
  BY <1>1, SameQueue, SameRun DEF vars, PlaceInv, PlaceOf, AtHost, Reporting, Receiving, Unpushed
<1>. QED
  BY <1>1, DevicePlace, ExpirePlace, HostLoopPlace, HandlerPlace, HostFilePlace DEF Next

\* Each command is always at one place.
LEMMA PlaceCorrect == Spec => []PlaceInv
<1>1. Init => PlaceInv
  BY DEF Init, PlaceInv, QueueOnce, PlaceOf, InQueue, HasRun, Succeeded, AtHost, Reporting,
         Receiving, Unpushed, NoCall, Idle, NoTransfer
<1>. QED
  BY <1>1, NextPlace, TypeCorrect, PTL DEF Spec

\* A viewer is told that its command succeeded, or given the text it asked for, only
\* if the host performed it with success, and that it failed or is stale only if it
\* did not: true of every reply the handlers make of the answers that
\* complete_host_command and expire_stale_device_commands give.  A list of files, an
\* empty clipboard and an empty list of displays say nothing.
THEOREM AnswersHold == Spec => []AnswersTrue
<1>1. ASSUME TypeOK, PlaceInv PROVE AnswersTrue
  <2>. SUFFICES ASSUME NEW c \in Calls, NEW reply \in Replies(call[c].kind, answer[c])
                PROVE  /\ reply \in {"yes", "text"} => Succeeded(c)
                       /\ reply = "no" => ~Succeeded(c)
    BY DEF AnswersTrue, Succeeded
  <2>1. answer[c] # "none"
    BY DEF Replies
  <2>2. answer[c] = "yes" <=> Succeeded(c)
    BY <1>1, <2>1 DEF PlaceInv, PlaceOf
  <2>3. /\ reply \in {"yes", "text"} => answer[c] = "yes"
        /\ reply = "no" => answer[c] # "yes"
    BY DEF Replies
  <2>. QED BY <2>2, <2>3
<1>. QED
  BY <1>1, TypeCorrect, PlaceCorrect, PTL

\* No command is performed twice by the host, and no file saved twice
\* (poll_host_command takes a command off the queue before it hands it out).
THEOREM OncePerformed == Spec => []PerformedOnce
<1>1. Init => PerformedOnce
  BY DEF Init, PerformedOnce
<1>2. ASSUME TypeOK, PerformedOnce, NEW c \in Calls, NEW ok \in BOOLEAN, ~HasRun(c),
             performed' = Append(performed, [cmd |-> c, ok |-> ok])
      PROVE  PerformedOnce'
  <2>1. Len(performed) \in Nat /\ performed \in Seq(Performances)
    BY <1>2 DEF TypeOK
  <2>2. /\ Len(performed') = Len(performed) + 1
        /\ performed'[Len(performed) + 1] = [cmd |-> c, ok |-> ok]
        /\ \A i \in 1 .. Len(performed) : performed'[i] = performed[i]
    BY <1>2, <2>1
  <2>. QED
    BY <1>2, <2>1, <2>2 DEF PerformedOnce, HasRun
<1>3. TypeOK /\ PlaceInv /\ PerformedOnce /\ [Next]_vars => PerformedOnce'
  <2>. SUFFICES ASSUME TypeOK, PlaceInv, PerformedOnce, [Next]_vars PROVE PerformedOnce'
    OBVIOUS
  <2>1. ASSUME NEW ok \in BOOLEAN, Perform(ok) PROVE PerformedOnce'
    <3>1. host.loop.cmd \in Calls /\ ~HasRun(host.loop.cmd)
      BY <2>1, Fields DEF Perform, LoopRecords, PlaceInv, PlaceOf, AtHost
    <3>. QED
      BY <1>2, <2>1, <3>1 DEF Perform
  <2>2. ASSUME NEW c \in Calls, Save(c) PROVE PerformedOnce'
    <3>1. ~HasRun(c)
      BY <2>2 DEF Save, PlaceInv, PlaceOf, Receiving
    <3>. QED
      BY <1>2, <2>2, <3>1 DEF Save
  <2>3. CASE UNCHANGED performed
    BY <2>3 DEF PerformedOnce
  <2>4. Device \/ Expire \/ UNCHANGED vars => UNCHANGED performed
    BY DEF Device, Register, NextGeneration, ForgetToken, RemoveViewers, RemovePreview, RemoveQueue,
           DisconnectViewers, ResolvePreview, Expire, vars
  <2>5. HostLoop => UNCHANGED performed \/ \E ok \in BOOLEAN : Perform(ok)
    BY DEF HostLoop, Poll, PollValid, PollTake, PollAstray, PollEnd, Arrive, Submit, SubmitLost
  <2>6. \A c \in Calls : Handler(c) => UNCHANGED performed
    <3>1. ASSUME NEW c \in Calls, NEW size \in Sizes, AdmitFile(c, size) PROVE UNCHANGED performed
      BY <3>1 DEF AdmitFile, Reserve
    <3>2. ASSUME NEW c \in Calls, Store(c) \/ Command(c) \/ Ask(c) \/ Push(c) PROVE UNCHANGED performed
      BY <3>2 DEF Store, Command, Ask, Push
    <3>3. ASSUME NEW c \in Calls, Answered(c) \/ Grant(c) \/ TimeOut(c) \/ Drop(c) PROVE UNCHANGED performed
      BY <3>3 DEF Answered, Grant, TimeOut, Drop
    <3>. QED
      BY <3>1, <3>2, <3>3 DEF Handler
  <2>7. \A c \in Calls : HostFile(c) => UNCHANGED performed \/ Save(c)
    BY DEF HostFile, Open, Fail, FileReport, ReportLost
  <2>. QED
    BY <2>1, <2>2, <2>3, <2>4, <2>5, <2>6, <2>7 DEF Next
<1>. QED
  BY <1>1, <1>3, TypeCorrect, PlaceCorrect, PTL DEF Spec


(***************************************************************************)
(* A viewer that asks does so of one registration.  When its answer is yes *)
(* the user of some hosting accepted it: of the one that it asked, or that *)
(* one is gone, and then gone for good, because no token is made twice.    *)
(***************************************************************************)
AccOf(c) ==
  /\ call[c].asked <= minted
  /\ call[c].kind = "ask" /\ call[c].pc # "done" => call[c].asked # 0
  /\ call[c].pc = "accepted" => call[c].kind = "ask" /\ answer[c] = "yes"
  /\ call[c].kind = "ask" /\ call[c].pc # "done" /\ answer[c] = "yes" =>
       \E t \in Nat : <<c, t>> \in letIn.accepts /\ (t = call[c].asked \/ reg # call[c].asked)
  /\ Reporting(c) /\ host.loop.ok /\ call[c].kind = "ask" => <<c, host.loop.token>> \in letIn.accepts

AccInv == (\A c \in Calls : AccOf(c)) /\ LetInByUser

\* What changes neither the registration, nor the calls, nor the answers, nor what
\* the host is about to report.
LEMMA AccStill ==
  ASSUME TypeOK, AccInv, UNCHANGED <<reg, minted, call, answer, letIn>>,
         \/ UNCHANGED host
         \/ host'.loop.pc # "submitted"
         \/ (host'.loop.pc = host.loop.pc /\ host'.loop.cmd = host.loop.cmd
             /\ host'.loop.ok = host.loop.ok /\ host'.loop.token = host.loop.token)
  PROVE  AccInv'
BY DEF AccInv, AccOf, Reporting, LetInByUser

\* The registration: a new token is above that of every call.
LEMMA AccDevice ==
  ASSUME TypeOK, AccInv, Device
  PROVE  AccInv'
<1>1. CASE NextGeneration
  <2>1. /\ host'.loop.pc = host.loop.pc /\ host'.loop.cmd = host.loop.cmd
        /\ host'.loop.ok = host.loop.ok /\ host'.loop.token = host.loop.token
    BY <1>1, Fields DEF NextGeneration, TypeOK, LoopRecords
  <2>2. UNCHANGED <<reg, minted, call, answer, letIn>>
    BY <1>1 DEF NextGeneration, server
  <2>. QED
    BY <2>1, <2>2, AccStill
<1>2. CASE ForgetToken \/ RemoveViewers \/ RemoveQueue \/ DisconnectViewers \/ ResolvePreview
  <2>1. UNCHANGED <<reg, minted, call, answer, letIn>>
    BY <1>2 DEF ForgetToken, RemoveViewers, RemoveQueue, DisconnectViewers, ResolvePreview, server
  <2>2. host'.loop = host.loop
    BY <1>2, Fields DEF ForgetToken, RemoveViewers, RemoveQueue, DisconnectViewers, ResolvePreview, server
  <2>. QED
    BY <2>1, <2>2, AccStill
<1>3. CASE Register \/ RemovePreview
  <2>1. UNCHANGED <<call, answer, letIn>> /\ host'.loop = host.loop
    BY <1>3, Fields DEF Register, RemovePreview
  <2>2. minted \in Nat /\ minted' \in Nat /\ minted' >= minted
        /\ (reg' = reg \/ reg' = 0 \/ reg' = minted + 1)
    BY <1>3 DEF Register, RemovePreview, IssueToken, TypeOK
  <2>3. ASSUME NEW c \in Calls PROVE AccOf(c)'
    <3>1. call[c].asked \in Nat /\ call[c].asked <= minted /\ AccOf(c)
      BY Fields DEF AccInv, AccOf, CallRecords
    <3>2. call[c].asked <= minted'
      BY <2>2, <3>1
    <3>3. call[c].asked # 0 /\ reg # call[c].asked => reg' # call[c].asked
      BY <2>2, <3>1
    <3>4. call[c].asked # 0 /\ reg' # reg => reg' # call[c].asked
      BY <2>2, <3>1
    <3>. QED
      BY <2>1, <3>1, <3>2, <3>3, <3>4 DEF AccOf, Reporting
  <2>. QED
    BY <2>1, <2>3 DEF AccInv, LetInByUser
<1>. QED
  BY <1>1, <1>2, <1>3 DEF Device

\* A call that ends, or goes on without asking.
LEMMA AccCall ==
  ASSUME TypeOK, PlaceInv, AccInv, NEW c \in Calls,
         \A d \in Calls : d # c => call'[d] = call[d],
         call'[c].asked \in {0, call[c].asked}, call'[c].pc # "accepted",
         \/ call'[c].pc = "done" /\ call'[c].kind = call[c].kind
         \/ Unpushed(c) /\ call'[c].kind # "ask"
         \/ call'[c].kind = call[c].kind /\ call'[c].asked = call[c].asked /\ call[c].pc # "done",
         UNCHANGED <<reg, minted, answer, letIn, host>>
  PROVE  AccInv'
<1>1. call[c].asked <= minted /\ call[c].asked \in Nat /\ minted \in Nat /\ 0 <= minted
  <2>1. call[c] \in CallRecords /\ minted \in Nat
    BY Fields DEF TypeOK
  <2>2. call[c].asked \in Nat
    BY <2>1 DEF CallRecords
  <2>3. call[c].asked <= minted
    BY DEF AccInv, AccOf
  <2>. QED
    BY <2>1, <2>2, <2>3
<1>2. call'[c].asked <= minted
  BY <1>1
<1>3. Unpushed(c) => ~Reporting(c)
  BY DEF PlaceInv, PlaceOf
<1>4. AccOf(c)'
  BY <1>2, <1>3 DEF AccInv, AccOf, Reporting
<1>5. \A d \in Calls : d # c => AccOf(d)'
  BY DEF AccInv, AccOf, Reporting
<1>. QED
  BY <1>4, <1>5 DEF AccInv, LetInByUser

\* The server's handler (Handler): a viewer gets in as LetIn says.
LEMMA AccHandler ==
  ASSUME TypeOK, PlaceInv, AccInv, NEW c \in Calls, Handler(c)
  PROVE  AccInv'
<1>1. Ended(c) => call'[c].pc = "done" /\ call'[c].kind = call[c].kind /\ call'[c].asked = 0
                  /\ \A d \in Calls : d # c => call'[d] = call[d]
  BY DEF Ended, TypeOK, NoCall
<1>2. ASSUME NEW size \in Sizes, AdmitFile(c, size) PROVE AccInv'
  <2>1. /\ call'[c].asked = 0 /\ call'[c].kind = "file" /\ call'[c].pc = "reading"
        /\ \A d \in Calls : d # c => call'[d] = call[d]
    BY <1>2 DEF AdmitFile, Reserve, TypeOK, NoCall
  <2>2. Unpushed(c) /\ UNCHANGED <<reg, minted, answer, letIn, host>>
    BY <1>2 DEF AdmitFile, Reserve, Unpushed
  <2>. QED
    BY <2>1, <2>2, AccCall
<1>3. CASE Store(c)
  <2>1. /\ call'[c].asked = call[c].asked /\ call'[c].kind = call[c].kind /\ call'[c].pc = "stored"
        /\ \A d \in Calls : d # c => call'[d] = call[d]
    BY <1>3 DEF Store, TypeOK, CallRecords
  <2>2. call[c].pc # "done" /\ UNCHANGED <<reg, minted, answer, letIn, host>>
    BY <1>3 DEF Store
  <2>. QED
    BY <2>1, <2>2, AccCall
<1>4. CASE Command(c)
  <2>1. ASSUME NEW kind \in {"input", "file"}, Checked(c, kind) PROVE AccInv'
    <3>1. CASE Ended(c)
      BY <1>1, <1>4, <3>1, AccCall DEF Command
    <3>2. CASE call' = [call EXCEPT ![c].pc = "checked", ![c].kind = kind]
      <4>1. /\ call'[c].asked = call[c].asked /\ call'[c].kind = kind /\ call'[c].pc = "checked"
            /\ \A d \in Calls : d # c => call'[d] = call[d]
        BY <3>2 DEF TypeOK, CallRecords
      <4>2. Unpushed(c) /\ UNCHANGED <<reg, minted, answer, letIn, host>>
        BY <1>4 DEF Command, Input, RelayFile, Unpushed
      <4>. QED
        BY <4>1, <4>2, AccCall
    <3>. QED
      BY <2>1, <3>1, <3>2 DEF Checked
  <2>. QED
    BY <1>4, <2>1 DEF Command, Input, RelayFile
<1>5. CASE Ask(c)
  <2>1. /\ call'[c].asked = reg /\ call'[c].kind = "ask" /\ call'[c].pc = "checked"
        /\ \A d \in Calls : d # c => call'[d] = call[d]
    BY <1>5 DEF Ask, TypeOK, CallRecords
  <2>2. Unpushed(c) /\ UNCHANGED <<reg, minted, answer, letIn, host>> /\ reg # 0
    BY <1>5 DEF Ask, Unpushed
  <2>3. answer[c] = "none" /\ ~Reporting(c) /\ reg <= minted
    BY <2>2 DEF PlaceInv, PlaceOf, TypeOK
  <2>4. AccOf(c)'
    BY <2>1, <2>2, <2>3 DEF AccOf, Reporting
  <2>5. \A d \in Calls : d # c => AccOf(d)'
    BY <2>1, <2>2 DEF AccInv, AccOf, Reporting
  <2>. QED
    BY <2>2, <2>4, <2>5 DEF AccInv, LetInByUser
<1>6. CASE Push(c)
  <2>1. /\ call'[c].asked = call[c].asked /\ call'[c].kind = call[c].kind /\ call'[c].pc = "waiting"
        /\ \A d \in Calls : d # c => call'[d] = call[d]
    BY <1>6 DEF Push, TypeOK, CallRecords
  <2>2. call[c].pc # "done" /\ UNCHANGED <<reg, minted, answer, letIn, host>>
    BY <1>6 DEF Push
  <2>. QED
    BY <2>1, <2>2, AccCall
<1>7. CASE Answered(c)
  <2>1. CASE Ended(c)
    BY <1>1, <1>7, <2>1, AccCall DEF Answered
  <2>2. CASE call' = [call EXCEPT ![c].pc = "accepted"] /\ call[c].kind = "ask" /\ answer[c] = "yes"
    <3>1. /\ call'[c].asked = call[c].asked /\ call'[c].kind = call[c].kind /\ call'[c].pc = "accepted"
          /\ \A d \in Calls : d # c => call'[d] = call[d]
      BY <2>2 DEF TypeOK, CallRecords
    <3>2. call[c].pc = "waiting" /\ UNCHANGED <<reg, minted, answer, letIn, host>>
      BY <1>7 DEF Answered
    <3>3. AccOf(c)'
      BY <2>2, <3>1, <3>2 DEF AccInv, AccOf, Reporting
    <3>4. \A d \in Calls : d # c => AccOf(d)'
      BY <3>1, <3>2 DEF AccInv, AccOf, Reporting
    <3>. QED
      BY <3>2, <3>3, <3>4 DEF AccInv, LetInByUser
  <2>. QED
    BY <1>7, <2>1, <2>2 DEF Answered
<1>8. CASE Grant(c)
  <2>1. /\ call'[c].pc = "done" /\ call'[c].kind = call[c].kind /\ call'[c].asked = 0
        /\ \A d \in Calls : d # c => call'[d] = call[d]
    BY <1>1, <1>8 DEF Grant
  <2>2. UNCHANGED <<reg, minted, answer, host>>
    BY <1>8 DEF Grant
  <2>3. letIn'.accepts = letIn.accepts
    BY <1>8 DEF Grant, TypeOK
  <2>4. AccOf(c)'
    BY <2>1, <2>2, <2>3 DEF AccInv, AccOf, Reporting, TypeOK
  <2>5. ASSUME NEW d \in Calls, d # c  PROVE AccOf(d)'
    <3>1. AccOf(d) /\ call'[d] = call[d]
      BY <2>1, <2>5 DEF AccInv
    <3>. QED
      BY <2>2, <2>3, <3>1 DEF AccOf, Reporting
  <2>6. LetInByUser'
    <3>1. CASE reg = call[c].asked
      <4>1. <<c, reg>> \in letIn.accepts
        BY <1>8, <3>1 DEF Grant, AccInv, AccOf
      <4>2. letIn'.grants = letIn.grants \cup {<<c, reg>>}
        BY <1>8, <3>1 DEF Grant, LetIn, TypeOK
      <4>. QED
        BY <2>3, <4>1, <4>2 DEF AccInv, LetInByUser
    <3>2. CASE reg # call[c].asked
      BY <1>8, <3>2 DEF Grant, LetIn, AccInv, LetInByUser
    <3>. QED
      BY <3>1, <3>2
  <2>. QED
    BY <2>4, <2>5, <2>6 DEF AccInv
<1>9. CASE TimeOut(c) \/ Drop(c)
  <2>1. Ended(c) /\ UNCHANGED <<reg, minted, answer, letIn, host>>
    BY <1>9 DEF TimeOut, Drop
  <2>. QED
    BY <1>1, <2>1, AccCall
<1>. QED
  BY <1>2, <1>3, <1>4, <1>5, <1>6, <1>7, <1>8, <1>9 DEF Handler


\* An answer: yes only to a call whose host's user accepted.
LEMMA AccTold ==
  ASSUME TypeOK, PlaceInv, AccInv, NEW c \in Calls,
         \A d \in Calls : d # c => answer'[d] = answer[d],
         answer'[c] # answer[c] =>
           \/ answer'[c] = "no" /\ answer[c] = "none"
           \/ call[c].kind = "file"
           \/ call[c].kind = "ask" => \E t \in Nat : <<c, t>> \in letIn.accepts /\ t = reg,
         answer[c] = "none" \/ answer'[c] = answer[c],
         host'.loop.pc # "submitted" \/ UNCHANGED host,
         UNCHANGED <<reg, minted, call, letIn>>
  PROVE  AccInv'
<1>1. call[c].pc = "accepted" => answer'[c] = "yes"
  BY DEF AccInv, AccOf
<1>2. AccOf(c)'
  BY <1>1 DEF AccInv, AccOf, Reporting
<1>3. \A d \in Calls : d # c => AccOf(d)'
  BY DEF AccInv, AccOf, Reporting
<1>. QED
  BY <1>2, <1>3 DEF AccInv, LetInByUser

\* A stale command is refused (Expire).
LEMMA AccExpire ==
  ASSUME TypeOK, PlaceInv, AccInv, Expire
  PROVE  AccInv'
<1>. PICK c : c = Head(queue)
  OBVIOUS
<1>1. c \in Calls /\ InQueue(c)
  BY TakenQueue DEF Expire, PlaceInv
<1>2. UNCHANGED <<reg, minted, call, letIn, host>> /\ Told(c, "no")
  BY DEF Expire
<1>3. (\A d \in Calls : d # c => answer'[d] = answer[d]) /\ answer'[c] \in {answer[c], "no"}
  BY <1>1, <1>2, ToldPlace
<1>4. answer[c] = "none"
  BY <1>1 DEF PlaceInv, PlaceOf
<1>. QED
  BY <1>1, <1>2, <1>3, <1>4, AccTold

\* The host's loop (HostLoop): the user accepts, and then the relay is told.
LEMMA AccLoop ==
  ASSUME TypeOK, PlaceInv, AccInv, HostLoop
  PROVE  AccInv'
<1>. PICK c : c = host.loop.cmd
  OBVIOUS
<1>0. \A r \in LoopRecords : Loop(r) => host'.loop = r
  BY Fields DEF Loop, TypeOK
<1>1. CASE Poll \/ PollValid \/ PollTake \/ PollAstray \/ PollEnd \/ Arrive \/ SubmitLost
  <2>1. UNCHANGED <<reg, minted, call, answer, letIn>>
    BY <1>1 DEF Poll, PollValid, PollTake, PollAstray, PollEnd, Arrive, SubmitLost, server
  <2>2. /\ [Idle EXCEPT !.pc = "sent", !.token = host.token] \in LoopRecords
        /\ [Idle EXCEPT !.pc = "sent", !.token = host.token].pc # "submitted"
        /\ Idle \in LoopRecords /\ Idle.pc # "submitted"
    BY Fields DEF Idle, LoopRecords
  <2>3. host.loop.pc = "sent" => /\ [host.loop EXCEPT !.pc = "polling"] \in LoopRecords
                                 /\ [host.loop EXCEPT !.pc = "polling"].pc # "submitted"
    BY Fields DEF LoopRecords
  <2>4. queue # <<>> => /\ [host.loop EXCEPT !.pc = "carried", !.cmd = Head(queue)] \in LoopRecords
                        /\ [host.loop EXCEPT !.pc = "carried", !.cmd = Head(queue)].pc # "submitted"
    BY Fields, QueueParts DEF LoopRecords
  <2>5. host.loop.pc = "carried" => /\ [host.loop EXCEPT !.pc = "performing"] \in LoopRecords
                                    /\ [host.loop EXCEPT !.pc = "performing"].pc # "submitted"
    BY Fields DEF LoopRecords
  <2>6. host'.loop.pc # "submitted" \/ UNCHANGED host
    <3>1. CASE Poll
      BY <1>0, <3>1, <2>2 DEF Poll
    <3>2. CASE PollValid
      BY <1>0, <3>2, <2>2, <2>3 DEF PollValid
    <3>3. CASE PollTake
      BY <1>0, <3>3, <2>4 DEF PollTake
    <3>4. CASE Arrive
      BY <1>0, <3>4, <2>2, <2>5 DEF Arrive
    <3>5. CASE PollAstray \/ PollEnd \/ SubmitLost
      BY <1>0, <3>5, <2>2 DEF PollAstray, PollEnd, SubmitLost
    <3>. QED
      BY <1>1, <3>1, <3>2, <3>3, <3>4, <3>5
  <2>. QED
    BY <2>1, <2>6, AccStill
<1>2. ASSUME NEW ok \in BOOLEAN, Perform(ok) PROVE AccInv'
  <2>1. host.loop.pc = "performing" /\ c \in Calls
    BY <1>2, Fields DEF Perform, LoopRecords
  <2>2. UNCHANGED <<reg, minted, call, answer>>
    BY <1>2 DEF Perform, server
  <2>3. /\ letIn'.grants = letIn.grants /\ letIn.accepts \subseteq letIn'.accepts
        /\ ok /\ call[c].kind = "ask" => <<c, host.loop.token>> \in letIn'.accepts
    BY <1>2 DEF Perform, TypeOK
  <2>4. \/ host'.loop.pc = "idle"
        \/ /\ host'.loop.pc = "submitted" /\ host'.loop.cmd = c /\ host'.loop.ok = ok
           /\ host'.loop.token = host.loop.token
    <3>. DEFINE r == [host.loop EXCEPT !.pc = "submitted", !.ok = ok]
    <3>1. /\ r \in LoopRecords /\ r.pc = "submitted" /\ r.cmd = c /\ r.ok = ok
          /\ r.token = host.loop.token
      BY <2>1, Fields DEF LoopRecords
    <3>2. Idle.pc = "idle"
      BY DEF Idle
    <3>. QED
      BY <1>0, <1>2, <3>1, <3>2, Fields DEF Perform
  <2>5. ASSUME NEW d \in Calls PROVE AccOf(d)'
    <3>1. Reporting(d)' => d = c /\ host'.loop.ok = ok /\ host'.loop.token = host.loop.token
      BY <2>4 DEF Reporting
    <3>2. Reporting(d)' /\ host'.loop.ok /\ call[d].kind = "ask" =>
            <<d, host'.loop.token>> \in letIn'.accepts
      BY <2>3, <3>1
    <3>. QED
      BY <2>2, <2>3, <3>2 DEF AccInv, AccOf
  <2>. QED
    BY <2>3, <2>5 DEF AccInv, LetInByUser
<1>3. CASE Submit
  <2>1. host.loop.pc = "submitted" /\ c \in Calls /\ Reporting(c) /\ host.loop.ok \in BOOLEAN
    BY <1>3, Fields DEF Submit, LoopRecords, Reporting
  <2>2. UNCHANGED <<reg, minted, call, letIn>> /\ host'.loop.pc = "idle"
    BY <1>0, <1>3, Fields DEF Submit, Idle
  <2>3. answer[c] = "none" /\ transfer[c].pc = "none"
    BY <2>1 DEF PlaceInv, PlaceOf
  <2>4. /\ \A d \in Calls : d # c => answer'[d] = answer[d]
        /\ answer'[c] # answer[c] =>
             answer'[c] = "no" \/ (answer'[c] = "yes" /\ host.loop.ok /\ host.loop.token = reg)
    <3>1. CASE host.loop.token = reg
      BY <1>3, <2>1, <3>1, ToldPlace DEF Submit, Complete
    <3>2. CASE host.loop.token # reg
      BY <1>3, <3>2 DEF Submit
    <3>. QED
      BY <3>1, <3>2
  <2>5. answer'[c] # answer[c] /\ answer'[c] # "no" /\ call[c].kind = "ask" =>
          \E t \in Nat : <<c, t>> \in letIn.accepts /\ t = reg
    <3>1. reg \in Nat
      BY DEF TypeOK
    <3>. QED
      BY <2>1, <2>4, <3>1 DEF AccInv, AccOf
  <2>. QED
    BY <2>1, <2>2, <2>3, <2>4, <2>5, AccTold
<1>. QED
  BY <1>1, <1>2, <1>3 DEF HostLoop

\* A transfer of a file lets no one in (HostFile).
LEMMA AccFile ==
  ASSUME TypeOK, PlaceInv, AccInv, NEW c \in Calls, HostFile(c)
  PROVE  AccInv'
<1>1. CASE FileReport(c)
  <2>1. UNCHANGED <<reg, minted, call, letIn, host>> /\ transfer[c].pc \in {"saved", "failed"}
    BY <1>1 DEF FileReport, Report
  <2>2. call[c].kind = "file" /\ answer[c] = "none"
    BY <2>1 DEF PlaceInv, PlaceOf, Receiving
  <2>3. \A d \in Calls : d # c => answer'[d] = answer[d]
    <3>1. CASE transfer[c].current /\ transfer[c].token = reg
      BY <1>1, <3>1, ToldPlace DEF FileReport, Report, Complete
    <3>2. CASE ~(transfer[c].current /\ transfer[c].token = reg)
      BY <1>1, <3>2 DEF FileReport, Report
    <3>. QED
      BY <3>1, <3>2
  <2>. QED
    BY <2>1, <2>2, <2>3, AccTold
<1>2. CASE Open(c) \/ Save(c) \/ Fail(c) \/ ReportLost(c)
  <2>1. UNCHANGED <<reg, minted, call, answer, letIn, host>>
    BY <1>2 DEF Open, Save, Fail, ReportLost, server
  <2>. QED
    BY <2>1, AccStill
<1>. QED
  BY <1>1, <1>2 DEF HostFile

\* A viewer that asks to be let in without a password gets a session only when the
\* user of the very hosting that it asked accepted it (resolve_preview compares the
\* registration's token after the answer).
THEOREM UserLetsIn == Spec => []LetInByUser
<1>1. Init => AccInv
  BY DEF Init, AccInv, AccOf, Reporting, LetInByUser, NoCall, Idle
<1>2. TypeOK /\ PlaceInv /\ AccInv /\ [Next]_vars => AccInv'
  <2>. SUFFICES ASSUME TypeOK, PlaceInv, AccInv, [Next]_vars PROVE AccInv'
    OBVIOUS
  <2>1. CASE UNCHANGED vars
    BY <2>1, AccStill DEF vars
  <2>. QED
    BY <2>1, AccDevice, AccExpire, AccLoop, AccHandler, AccFile DEF Next
<1>3. AccInv => LetInByUser
  BY DEF AccInv
<1>. QED
  BY <1>1, <1>2, <1>3, TypeCorrect, PlaceCorrect, PTL DEF Spec

(***************************************************************************)
(* The order of the commands.  The queue is the end of what was pushed:    *)
(* what is queued goes to its end, and it only loses its head, or all of   *)
(* it.  A click in the host's loop has left the queue, and it was pushed   *)
(* after every click performed so far.                                     *)
(***************************************************************************)
Gone == Len(pushed) - Len(queue)
QueueIsTail ==
  /\ Len(queue) <= Len(pushed)
  /\ \A i \in 1 .. Len(queue) : queue[i] = pushed[Gone + i]

\* The clicks performed so far were pushed before the place k.
RunBefore(k) ==
  \A i \in 1 .. Len(performed) :
    call[performed[i].cmd].kind # "file" =>
      \E a \in 1 .. Gone : a < k /\ pushed[a] = performed[i].cmd
LoopOrdered ==
  host.loop.pc \in {"carried", "performing"} =>
    \E k \in 1 .. Gone : pushed[k] = host.loop.cmd /\ RunBefore(k)
OrderInv == QueueIsTail /\ RunBefore(Gone + 1) /\ LoopOrdered /\ InOrder

LEMMA Lengths ==
  ASSUME TypeOK
  PROVE  /\ Len(queue) \in Nat /\ Len(pushed) \in Nat /\ Len(performed) \in Nat /\ Gone \in Int
         /\ \A i \in 1 .. Len(performed) : performed[i] \in Performances
         /\ \A i \in 1 .. Len(performed) : performed[i].cmd \in Calls
<1>1. performed \in Seq(Performances) /\ queue \in Seq(Calls) /\ pushed \in Seq(Calls)
  BY DEF TypeOK
<1>2. Len(queue) \in Nat /\ Len(pushed) \in Nat /\ Len(performed) \in Nat
  BY <1>1
<1>3. \A i \in 1 .. Len(performed) : performed[i] \in Performances
  BY <1>1
<1>. QED BY <1>2, <1>3 DEF Performances, Gone

\* A step that performs nothing and pushes nothing keeps the order: the queue may
\* lose its head, and the loop its command.
LEMMA OrderStill ==
  ASSUME TypeOK, TypeOK', OrderInv, UNCHANGED <<pushed, performed>>,
         QueueIsTail', Gone <= Gone',
         \A c \in Calls : HasRun(c) => call'[c].kind = call[c].kind,
         \/ host'.loop.pc \notin {"carried", "performing"}
         \/ /\ host.loop.pc \in {"carried", "performing"} /\ host'.loop.cmd = host.loop.cmd
         \/ Gone' = Gone + 1 /\ pushed[Gone'] = host'.loop.cmd
  PROVE  OrderInv'
<1>1. \A i \in 1 .. Len(performed) :
        performed[i].cmd \in Calls /\ call'[performed[i].cmd].kind = call[performed[i].cmd].kind
  BY Lengths DEF HasRun
<1>2. Gone \in Int /\ Gone' \in Int
  BY Lengths DEF Gone, TypeOK
<1>. DEFINE RunBeforeNext(m) ==
       \A i \in 1 .. Len(performed') :
         call'[performed'[i].cmd].kind # "file" =>
           \E a \in 1 .. Gone' : a < m /\ pushed'[a] = performed'[i].cmd
<1>3. \A k, m \in Int : k <= m /\ RunBefore(k) => RunBeforeNext(m)
  <2>1. ASSUME NEW k \in Int, NEW m \in Int, k <= m, RunBefore(k),
               NEW i \in 1 .. Len(performed'), call'[performed'[i].cmd].kind # "file"
        PROVE  \E a \in 1 .. Gone' : a < m /\ pushed'[a] = performed'[i].cmd
    <3>1. PICK a \in 1 .. Gone : a < k /\ pushed[a] = performed[i].cmd
      BY <1>1, <2>1 DEF RunBefore
    <3>2. a \in 1 .. Gone' /\ a < m
      BY <1>2, <2>1, <3>1
    <3>. QED BY <3>1, <3>2
  <2>. QED BY <2>1
<1>4. RunBefore(Gone + 1)'
  <2>1. RunBefore(Gone + 1) /\ Gone + 1 <= Gone' + 1 /\ Gone + 1 \in Int /\ Gone' + 1 \in Int
    BY <1>2 DEF OrderInv
  <2>2. RunBeforeNext(Gone' + 1)
    BY <1>3, <2>1
  <2>. QED BY <2>2 DEF RunBefore
<1>5. LoopOrdered'
  <2>0. \A k \in 1 .. Gone' :
          pushed'[k] = host'.loop.cmd /\ RunBeforeNext(k) => LoopOrdered'
    BY DEF LoopOrdered, RunBefore
  <2>. HIDE DEF RunBeforeNext
  <2>1. CASE host.loop.pc \in {"carried", "performing"} /\ host'.loop.cmd = host.loop.cmd
    <3>1. PICK k \in 1 .. Gone : pushed[k] = host.loop.cmd /\ RunBefore(k)
      BY <2>1 DEF OrderInv, LoopOrdered
    <3>2. k \in 1 .. Gone' /\ RunBeforeNext(k)
      BY <1>2, <1>3, <3>1
    <3>. QED BY <2>0, <2>1, <3>1, <3>2
  <2>2. CASE Gone' = Gone + 1 /\ pushed[Gone'] = host'.loop.cmd
    <3>1. RunBeforeNext(Gone')
      BY <1>2, <1>3, <2>2 DEF OrderInv
    <3>2. Gone' \in 1 .. Gone'
      BY <1>2, <2>2, Lengths DEF OrderInv, QueueIsTail, Gone
    <3>. QED BY <2>0, <2>2, <3>1, <3>2
  <2>3. CASE host'.loop.pc \notin {"carried", "performing"}
    BY <2>3 DEF LoopOrdered
  <2>. QED BY <2>1, <2>2, <2>3
<1>6. InOrder'
  BY <1>1 DEF OrderInv, InOrder, QueuedBefore
<1>. QED BY <1>4, <1>5, <1>6 DEF OrderInv

\* The queue loses its head (expire_stale_device_commands, poll_host_command).
LEMMA TailTaken ==
  ASSUME TypeOK, QueueIsTail, queue # <<>>, queue' = Tail(queue), UNCHANGED pushed
  PROVE  /\ QueueIsTail' /\ Gone' = Gone + 1
         /\ Gone' \in 1 .. Len(pushed) /\ pushed[Gone'] = Head(queue)
<1>1. queue \in Seq(Calls) /\ Len(queue) \in Nat /\ Len(queue) > 0 /\ Len(pushed) \in Nat
  BY Lengths DEF TypeOK
<1>2. /\ Len(queue') = Len(queue) - 1 /\ Head(queue) = queue[1]
      /\ \A i \in 1 .. Len(queue') : queue'[i] = queue[i + 1]
  BY <1>1
<1>3. Gone' = Gone + 1
  BY <1>1, <1>2 DEF Gone
<1>4. \A i \in 1 .. Len(queue') : queue'[i] = pushed'[Gone' + i]
  <2>1. ASSUME NEW i \in 1 .. Len(queue') PROVE queue'[i] = pushed[Gone' + i]
    <3>1. i + 1 \in 1 .. Len(queue) /\ queue'[i] = queue[i + 1]
      BY <1>1, <1>2
    <3>2. queue[i + 1] = pushed[Gone + (i + 1)]
      BY <3>1 DEF QueueIsTail
    <3>3. Gone + (i + 1) = Gone' + i
      BY <1>1, <1>3 DEF Gone
    <3>. QED BY <3>1, <3>2, <3>3
  <2>. QED BY <2>1
<1>5. QueueIsTail'
  BY <1>1, <1>2, <1>4 DEF QueueIsTail
<1>6. queue[1] = pushed[Gone + 1]
  BY <1>1 DEF QueueIsTail
<1>7. Gone' \in 1 .. Len(pushed)
  BY <1>1, <1>3 DEF Gone, QueueIsTail
<1>. QED BY <1>2, <1>3, <1>5, <1>6, <1>7

\* Of the queue nothing is lost (every other step), or all (RemoveQueue).
LEMMA TailKept ==
  ASSUME TypeOK, QueueIsTail, UNCHANGED pushed, UNCHANGED queue \/ queue' = <<>>
  PROVE  QueueIsTail' /\ Gone <= Gone'
<1>1. CASE UNCHANGED queue
  BY <1>1, Lengths DEF QueueIsTail, Gone
<1>2. CASE queue' = <<>>
  BY <1>2, Lengths DEF QueueIsTail, Gone
<1>. QED BY <1>1, <1>2

\* A command is queued (forward_command_within).
LEMMA OrderPush ==
  ASSUME TypeOK, PlaceInv, OrderInv, NEW c \in Calls, Push(c)
  PROVE  OrderInv'
<1>1. /\ queue' = Append(queue, c) /\ pushed' = Append(pushed, c)
      /\ UNCHANGED <<host, performed>> /\ call' = [call EXCEPT ![c].pc = "waiting"]
  BY DEF Push, Queued
<1>2. \A d \in Calls : call'[d].kind = call[d].kind
  BY <1>1, Fields DEF CallRecords, TypeOK
<1>3. queue \in Seq(Calls) /\ pushed \in Seq(Calls) /\ Len(queue) \in Nat /\ Len(pushed) \in Nat
  BY Lengths DEF TypeOK
<1>4. /\ Len(queue') = Len(queue) + 1 /\ Len(pushed') = Len(pushed) + 1
      /\ \A i \in 1 .. Len(queue) : queue'[i] = queue[i]
      /\ \A i \in 1 .. Len(pushed) : pushed'[i] = pushed[i]
      /\ queue'[Len(queue) + 1] = c /\ pushed'[Len(pushed) + 1] = c
  BY <1>1, <1>3
<1>5. Gone' = Gone /\ Gone \in Nat /\ Gone <= Len(pushed)
  BY <1>3, <1>4 DEF Gone, OrderInv, QueueIsTail
<1>6. QueueIsTail'
  <2>1. ASSUME NEW i \in 1 .. Len(queue') PROVE queue'[i] = pushed'[Gone + i]
    <3>1. CASE i \in 1 .. Len(queue)
      <4>1. Gone + i \in 1 .. Len(pushed)
        BY <1>3, <1>5, <3>1 DEF Gone
      <4>2. queue[i] = pushed[Gone + i]
        BY <3>1 DEF OrderInv, QueueIsTail
      <4>. QED BY <1>4, <3>1, <4>1, <4>2
    <3>2. CASE i = Len(queue) + 1
      <4>1. Gone + i = Len(pushed) + 1
        BY <1>3, <3>2 DEF Gone
      <4>. QED BY <1>4, <3>2, <4>1
    <3>. QED BY <1>3, <1>4, <2>1, <3>1, <3>2
  <2>2. Len(queue') <= Len(pushed')
    BY <1>3, <1>4 DEF OrderInv, QueueIsTail
  <2>. QED BY <1>5, <2>1, <2>2 DEF QueueIsTail
<1>7. \A a \in 1 .. Gone : a \in 1 .. Len(pushed) /\ pushed'[a] = pushed[a]
  BY <1>3, <1>4, <1>5
<1>8. \A i \in 1 .. Len(performed) : performed[i].cmd \in Calls
  BY Lengths
<1>. DEFINE RunBeforeNext(k) ==
       \A i \in 1 .. Len(performed) :
         call'[performed[i].cmd].kind # "file" =>
           \E a \in 1 .. Gone : a < k /\ pushed'[a] = performed[i].cmd
<1>9. ASSUME NEW k, RunBefore(k) PROVE RunBeforeNext(k)
  BY <1>2, <1>7, <1>8, <1>9 DEF RunBefore
<1>10. RunBefore(Gone + 1)'
  <2>1. RunBeforeNext(Gone + 1)
    BY <1>9 DEF OrderInv
  <2>. QED BY <1>1, <1>5, <2>1 DEF RunBefore
<1>11. LoopOrdered'
  <2>1. CASE host.loop.pc \in {"carried", "performing"}
    <3>1. PICK k \in 1 .. Gone : pushed[k] = host.loop.cmd /\ RunBefore(k)
      BY <2>1 DEF OrderInv, LoopOrdered
    <3>2. RunBeforeNext(k) /\ pushed'[k] = host.loop.cmd
      BY <1>7, <1>9, <3>1
    <3>3. RunBefore(k)'
      BY <1>1, <1>5, <3>2 DEF RunBefore
    <3>. QED BY <1>1, <1>5, <3>2, <3>3 DEF LoopOrdered
  <2>2. CASE host.loop.pc \notin {"carried", "performing"}
    BY <1>1, <2>2 DEF LoopOrdered
  <2>. QED BY <2>1, <2>2
<1>12. InOrder'
  <2>1. \A d, e \in Calls : QueuedBefore(d, e) => QueuedBefore(d, e)'
    <3>1. ASSUME NEW d \in Calls, NEW e \in Calls, QueuedBefore(d, e) PROVE QueuedBefore(d, e)'
      <4>1. PICK i, j \in 1 .. Len(pushed) : i < j /\ pushed[i] = d /\ pushed[j] = e
        BY <3>1 DEF QueuedBefore
      <4>2. /\ i \in 1 .. Len(pushed') /\ j \in 1 .. Len(pushed')
            /\ pushed'[i] = d /\ pushed'[j] = e
        BY <1>3, <1>4, <4>1
      <4>. QED BY <4>1, <4>2 DEF QueuedBefore
    <3>. QED BY <3>1
  <2>2. ASSUME NEW i \in 1 .. Len(performed), NEW j \in 1 .. Len(performed), i < j,
               call'[performed[i].cmd].kind # "file", call'[performed[j].cmd].kind # "file"
        PROVE  QueuedBefore(performed[i].cmd, performed[j].cmd)'
    <3>1. QueuedBefore(performed[i].cmd, performed[j].cmd)
      BY <1>2, <1>8, <2>2 DEF OrderInv, InOrder
    <3>2. PICK a, b \in 1 .. Len(pushed) :
            a < b /\ pushed[a] = performed[i].cmd /\ pushed[b] = performed[j].cmd
      BY <3>1 DEF QueuedBefore
    <3>3. /\ a \in 1 .. Len(pushed') /\ b \in 1 .. Len(pushed')
          /\ pushed'[a] = performed'[i].cmd /\ pushed'[b] = performed'[j].cmd
      BY <1>1, <1>3, <1>4, <3>2
    <3>. QED BY <3>2, <3>3 DEF QueuedBefore
  <2>. QED BY <1>1, <2>2 DEF InOrder
<1>. QED BY <1>6, <1>10, <1>11, <1>12 DEF OrderInv

\* A command is performed: a click, which was pushed after those performed before
\* it, or a file, of which the order says nothing.
LEMMA OrderRun ==
  ASSUME TypeOK, OrderInv, NEW c \in Calls, NEW ok \in BOOLEAN,
         performed' = Append(performed, [cmd |-> c, ok |-> ok]),
         UNCHANGED <<pushed, queue, call>>,
         \/ call[c].kind = "file" /\ UNCHANGED host
         \/ /\ host.loop.pc = "performing" /\ host.loop.cmd = c
            /\ host'.loop.pc \notin {"carried", "performing"}
  PROVE  OrderInv'
<1>. DEFINE n == Len(performed) + 1
<1>1. performed \in Seq(Performances) /\ n - 1 \in Nat
  BY Lengths DEF TypeOK
<1>2. /\ Len(performed') = n /\ performed'[n].cmd = c
      /\ \A i \in 1 .. n - 1 : performed'[i] = performed[i]
  BY <1>1
<1>. HIDE DEF n
<1>3. n \in Nat /\ n - 1 = Len(performed) /\ 1 .. n = 1 .. n - 1 \cup {n}
  BY <1>1 DEF n
<1>4. Gone' = Gone /\ QueueIsTail'
  BY DEF Gone, QueueIsTail, OrderInv
<1>5. CASE call[c].kind = "file" /\ UNCHANGED host
  <2>1. \A k \in Int : RunBefore(k) =>
          \A i \in 1 .. Len(performed') :
            call'[performed'[i].cmd].kind # "file" =>
              \E a \in 1 .. Gone' : a < k /\ pushed'[a] = performed'[i].cmd
    BY <1>2, <1>3, <1>4, <1>5 DEF RunBefore
  <2>2. RunBefore(Gone + 1)'
    <3>1. Gone + 1 \in Int /\ RunBefore(Gone + 1)
      BY Lengths DEF OrderInv
    <3>2. \A i \in 1 .. Len(performed') :
            call'[performed'[i].cmd].kind # "file" =>
              \E a \in 1 .. Gone' : a < Gone + 1 /\ pushed'[a] = performed'[i].cmd
      BY <2>1, <3>1
    <3>. QED BY <1>4, <3>2 DEF RunBefore
  <2>3. LoopOrdered'
    BY <1>4, <1>5, <2>1 DEF RunBefore, LoopOrdered, OrderInv
  <2>4. InOrder'
    <3>1. ASSUME NEW i \in 1 .. Len(performed'), NEW j \in 1 .. Len(performed'), i < j,
                 call'[performed'[i].cmd].kind # "file", call'[performed'[j].cmd].kind # "file"
          PROVE  QueuedBefore(performed[i].cmd, performed[j].cmd)'
      <4>1. i # n /\ j # n
        BY <1>2, <1>5, <3>1
      <4>2. i \in 1 .. n - 1 /\ j \in 1 .. n - 1
        BY <1>2, <1>3, <4>1
      <4>3. performed'[i] = performed[i] /\ performed'[j] = performed[j]
        BY <1>2, <4>2
      <4>4. QueuedBefore(performed[i].cmd, performed[j].cmd)
        BY <1>3, <3>1, <4>2, <4>3 DEF OrderInv, InOrder
      <4>5. PICK a, b \in 1 .. Len(pushed) :
              a < b /\ pushed[a] = performed'[i].cmd /\ pushed[b] = performed'[j].cmd
        BY <4>3, <4>4 DEF QueuedBefore
      <4>. QED BY <4>5 DEF QueuedBefore
    <3>. QED BY <3>1 DEF InOrder
  <2>. QED BY <1>4, <2>2, <2>3, <2>4 DEF OrderInv
<1>6. CASE /\ host.loop.pc = "performing" /\ host.loop.cmd = c
           /\ host'.loop.pc \notin {"carried", "performing"}
  <2>1. PICK k \in 1 .. Gone : pushed[k] = c /\ RunBefore(k)
    BY <1>6 DEF OrderInv, LoopOrdered
  <2>2. LoopOrdered'
    BY <1>6 DEF LoopOrdered
  <2>3. RunBefore(Gone + 1)'
    <3>1. ASSUME NEW i \in 1 .. n, call[performed'[i].cmd].kind # "file"
          PROVE  \E a \in 1 .. Gone : a < Gone + 1 /\ pushed[a] = performed'[i].cmd
      <4>1. CASE i = n
        BY <1>2, <2>1, <4>1, Lengths
      <4>2. CASE i \in 1 .. n - 1
        BY <1>2, <1>3, <3>1, <4>2 DEF OrderInv, RunBefore
      <4>. QED BY <1>3, <4>1, <4>2
    <3>. QED BY <1>2, <1>4, <3>1 DEF RunBefore
  <2>4. InOrder'
    <3>1. ASSUME NEW i \in 1 .. n, NEW j \in 1 .. n, i < j,
                 call[performed'[i].cmd].kind # "file", call[performed'[j].cmd].kind # "file"
          PROVE  QueuedBefore(performed'[i].cmd, performed'[j].cmd)
      <4>1. i \in 1 .. n - 1 /\ performed'[i] = performed[i]
        BY <1>2, <1>3, <3>1
      <4>2. CASE j = n
        <5>1. PICK a \in 1 .. Gone : a < k /\ pushed[a] = performed[i].cmd
          BY <1>3, <2>1, <3>1, <4>1 DEF RunBefore
        <5>2. a \in 1 .. Len(pushed) /\ k \in 1 .. Len(pushed)
          BY Lengths DEF Gone
        <5>. QED BY <1>2, <2>1, <4>1, <4>2, <5>1, <5>2 DEF QueuedBefore
      <4>3. CASE j \in 1 .. n - 1
        BY <1>2, <1>3, <3>1, <4>1, <4>3 DEF OrderInv, InOrder
      <4>. QED BY <1>3, <4>2, <4>3
    <3>2. \A i, j \in 1 .. n :
            /\ i < j
            /\ call[performed'[i].cmd].kind # "file" /\ call[performed'[j].cmd].kind # "file"
            => \E a, b \in 1 .. Len(pushed) :
                 a < b /\ pushed[a] = performed'[i].cmd /\ pushed[b] = performed'[j].cmd
      BY <3>1 DEF QueuedBefore
    <3>3. ASSUME NEW i \in 1 .. Len(performed'), NEW j \in 1 .. Len(performed'), i < j,
                 call'[performed'[i].cmd].kind # "file", call'[performed'[j].cmd].kind # "file"
          PROVE  QueuedBefore(performed[i].cmd, performed[j].cmd)'
      <4>1. PICK a, b \in 1 .. Len(pushed) :
              a < b /\ pushed[a] = performed'[i].cmd /\ pushed[b] = performed'[j].cmd
        BY <1>2, <3>2, <3>3
      <4>. QED BY <4>1 DEF QueuedBefore
    <3>. QED BY <3>3 DEF InOrder
  <2>. QED BY <1>4, <2>2, <2>3, <2>4 DEF OrderInv
<1>. QED BY <1>5, <1>6

\* The registration moves nothing in the queue, but may empty it (Device).
LEMMA OrderDevice ==
  ASSUME TypeOK, TypeOK', OrderInv, Device
  PROVE  OrderInv'
<1>1. /\ UNCHANGED <<pushed, performed, call>>
      /\ UNCHANGED queue \/ queue' = <<>>
  BY DEF Device, Register, NextGeneration, ForgetToken, RemoveViewers, RemovePreview, RemoveQueue,
         DisconnectViewers, ResolvePreview, server
<1>2. host'.loop.pc = host.loop.pc /\ host'.loop.cmd = host.loop.cmd
  <2>1. host'.loop = host.loop \/ NextGeneration
    BY Fields DEF Device, Register, ForgetToken, RemoveViewers, RemovePreview, RemoveQueue,
                  DisconnectViewers, ResolvePreview, server, TypeOK
  <2>2. CASE NextGeneration
    BY <2>2, Fields DEF NextGeneration, TypeOK, LoopRecords
  <2>. QED BY <2>1, <2>2
<1>3. QueueIsTail' /\ Gone <= Gone'
  BY <1>1, TailKept DEF OrderInv
<1>. QED BY <1>1, <1>2, <1>3, OrderStill

\* The handler of a call only adds to the queue (Handler).
LEMMA OrderHandler ==
  ASSUME TypeOK, TypeOK', PlaceInv, OrderInv, NEW c \in Calls, Handler(c)
  PROVE  OrderInv'
<1>1. ASSUME UNCHANGED <<pushed, performed, queue, host>>,
             \A d \in Calls : d # c => call'[d] = call[d],
             call'[c].kind = call[c].kind \/ Unpushed(c)
      PROVE  OrderInv'
  <2>1. \A d \in Calls : HasRun(d) => call'[d].kind = call[d].kind
    BY <1>1 DEF PlaceInv, PlaceOf
  <2>2. QueueIsTail' /\ Gone <= Gone'
    BY <1>1, TailKept DEF OrderInv
  <2>. QED BY <1>1, <2>1, <2>2, OrderStill
<1>2. Ended(c) => call'[c].kind = call[c].kind /\ \A d \in Calls : d # c => call'[d] = call[d]
  BY DEF Ended, TypeOK, NoCall
<1>3. ASSUME NEW size \in Sizes, AdmitFile(c, size) PROVE OrderInv'
  <2>1. Unpushed(c) /\ \A d \in Calls : d # c => call'[d] = call[d]
    BY <1>3 DEF AdmitFile, Reserve, Unpushed, TypeOK
  <2>2. UNCHANGED <<pushed, performed, queue, host>>
    BY <1>3 DEF AdmitFile, Reserve
  <2>. QED BY <1>1, <2>1, <2>2
<1>4. CASE Store(c)
  <2>1. Unpushed(c) /\ \A d \in Calls : d # c => call'[d] = call[d]
    BY <1>4 DEF Store, Unpushed, TypeOK
  <2>. QED BY <1>1, <1>4, <2>1 DEF Store
<1>5. CASE Command(c)
  <2>1. Unpushed(c) /\ \A d \in Calls : d # c => call'[d] = call[d]
    BY <1>2, <1>5 DEF Command, Input, RelayFile, Checked, TypeOK, Unpushed
  <2>. QED BY <1>1, <1>5, <2>1 DEF Command
<1>6. CASE Ask(c)
  <2>1. Unpushed(c) /\ \A d \in Calls : d # c => call'[d] = call[d]
    BY <1>6 DEF Ask, TypeOK, Unpushed
  <2>. QED BY <1>1, <1>6, <2>1 DEF Ask
<1>7. CASE Push(c)
  BY <1>7, OrderPush
<1>8. CASE Answered(c)
  <2>1. CASE Ended(c)
    BY <1>1, <1>2, <1>8, <2>1 DEF Answered
  <2>2. CASE call' = [call EXCEPT ![c].pc = "accepted"]
    <3>1. call'[c].kind = call[c].kind /\ \A d \in Calls : d # c => call'[d] = call[d]
      BY <2>2 DEF TypeOK, CallRecords
    <3>. QED BY <1>1, <1>8, <3>1 DEF Answered
  <2>. QED BY <1>8, <2>1, <2>2 DEF Answered
<1>9. CASE Grant(c) \/ TimeOut(c) \/ Drop(c)
  BY <1>1, <1>2, <1>9 DEF Grant, TimeOut, Drop
<1>. QED BY <1>3, <1>4, <1>5, <1>6, <1>7, <1>8, <1>9 DEF Handler

\* The host's loop takes the head of the queue, and performs it (HostLoop).
LEMMA OrderLoop ==
  ASSUME TypeOK, TypeOK', OrderInv, HostLoop
  PROVE  OrderInv'
<1>0. \A r \in LoopRecords : Loop(r) => host'.loop = r
  BY Fields DEF Loop, TypeOK
<1>1. ASSUME UNCHANGED <<pushed, performed, queue, call>>,
             \/ host'.loop.pc \notin {"carried", "performing"}
             \/ host.loop.pc \in {"carried", "performing"} /\ host'.loop.cmd = host.loop.cmd
      PROVE  OrderInv'
  <2>1. QueueIsTail' /\ Gone <= Gone'
    BY <1>1, TailKept DEF OrderInv
  <2>. QED BY <1>1, <2>1, OrderStill
<1>2. CASE Poll \/ PollValid \/ PollEnd \/ Arrive \/ Submit \/ SubmitLost
  <2>1. UNCHANGED <<pushed, performed, queue, call>>
    BY <1>2 DEF Poll, PollValid, PollEnd, Arrive, Submit, SubmitLost, server
  <2>2. Idle \in LoopRecords /\ Idle.pc \notin {"carried", "performing"}
    BY Fields DEF Idle
  <2>3. CASE Poll
    <3>1. /\ [Idle EXCEPT !.pc = "sent", !.token = host.token] \in LoopRecords
          /\ [Idle EXCEPT !.pc = "sent", !.token = host.token].pc = "sent"
      BY Fields DEF Idle, LoopRecords
    <3>. QED BY <1>0, <1>1, <2>1, <2>3, <3>1 DEF Poll
  <2>4. CASE PollValid
    <3>1. /\ [host.loop EXCEPT !.pc = "polling"] \in LoopRecords
          /\ [host.loop EXCEPT !.pc = "polling"].pc = "polling"
      BY <2>4, Fields DEF PollValid, LoopRecords
    <3>2. host'.loop.pc \notin {"carried", "performing"}
      BY <1>0, <2>2, <2>4, <3>1 DEF PollValid
    <3>. QED BY <1>1, <2>1, <3>2
  <2>5. CASE PollEnd \/ Submit \/ SubmitLost
    <3>1. host'.loop.pc \notin {"carried", "performing"}
      BY <1>0, <2>2, <2>5 DEF PollEnd, Submit, SubmitLost
    <3>. QED BY <1>1, <2>1, <3>1
  <2>6. CASE Arrive
    <3>1. /\ [host.loop EXCEPT !.pc = "performing"] \in LoopRecords
          /\ [host.loop EXCEPT !.pc = "performing"].cmd = host.loop.cmd
          /\ host.loop.pc = "carried"
      BY <2>6, Fields DEF Arrive, LoopRecords
    <3>2. host'.loop.pc \notin {"carried", "performing"} \/ host'.loop.cmd = host.loop.cmd
      BY <1>0, <2>2, <2>6, <3>1 DEF Arrive
    <3>. QED BY <1>1, <2>1, <3>1, <3>2
  <2>. QED BY <1>2, <2>3, <2>4, <2>5, <2>6
<1>3. CASE PollTake
  <2>1. UNCHANGED <<pushed, performed, call>> /\ queue # <<>> /\ queue' = Tail(queue)
    BY <1>3 DEF PollTake, Take
  <2>2. /\ [host.loop EXCEPT !.pc = "carried", !.cmd = Head(queue)] \in LoopRecords
        /\ [host.loop EXCEPT !.pc = "carried", !.cmd = Head(queue)].cmd = Head(queue)
    BY <1>3, <2>1, Fields, QueueParts DEF LoopRecords, PollTake
  <2>3. host'.loop.cmd = Head(queue)
    BY <1>0, <1>3, <2>2 DEF PollTake
  <2>4. QueueIsTail' /\ Gone' = Gone + 1 /\ pushed[Gone'] = Head(queue)
    BY <2>1, TailTaken DEF OrderInv
  <2>5. Gone <= Gone'
    BY <2>4, Lengths
  <2>. QED BY <2>1, <2>3, <2>4, <2>5, OrderStill
<1>4. CASE PollAstray
  <2>1. UNCHANGED <<pushed, performed, call, host>> /\ queue # <<>> /\ queue' = Tail(queue)
    BY <1>4 DEF PollAstray, Take
  <2>2. QueueIsTail' /\ Gone <= Gone'
    BY <2>1, TailTaken, Lengths DEF OrderInv
  <2>. QED BY <2>1, <2>2, OrderStill
<1>5. ASSUME NEW ok \in BOOLEAN, Perform(ok) PROVE OrderInv'
  <2>1. host.loop.pc = "performing" /\ host.loop.cmd \in Calls
    BY <1>5, Fields DEF Perform, LoopRecords
  <2>2. /\ performed' = Append(performed, [cmd |-> host.loop.cmd, ok |-> ok])
        /\ UNCHANGED <<pushed, queue, call>>
    BY <1>5 DEF Perform, server
  <2>3. host'.loop.pc \notin {"carried", "performing"}
    <3>. DEFINE r == [host.loop EXCEPT !.pc = "submitted", !.ok = ok]
    <3>1. r \in LoopRecords /\ r.pc = "submitted"
      BY <2>1, Fields DEF LoopRecords
    <3>2. Idle \in LoopRecords /\ Idle.pc = "idle"
      BY Fields DEF Idle
    <3>. QED BY <1>0, <1>5, <3>1, <3>2 DEF Perform
  <2>. QED BY <2>1, <2>2, <2>3, OrderRun
<1>. QED BY <1>2, <1>3, <1>4, <1>5 DEF HostLoop

\* A call is queued once, so that the place of a command among those pushed is one
\* place: forward_command_within pushes after its checks, and only then waits.
PushedOnce ==
  /\ \A i, j \in 1 .. Len(pushed) : pushed[i] = pushed[j] => i = j
  /\ \A i \in 1 .. Len(pushed) : ~Unpushed(pushed[i])

LEMMA QueuedOnce == Spec => []PushedOnce
<1>1. Init => PushedOnce
  BY DEF Init, PushedOnce
<1>2. TypeOK /\ PushedOnce /\ [Next]_vars => PushedOnce'
  <2>. SUFFICES ASSUME TypeOK, PushedOnce, [Next]_vars PROVE PushedOnce'
    OBVIOUS
  <2>0. pushed \in Seq(Calls) /\ Len(pushed) \in Nat /\ \A i \in 1 .. Len(pushed) : pushed[i] \in Calls
    BY DEF TypeOK
  <2>1. ASSUME UNCHANGED pushed, \A d \in Calls : Unpushed(d)' => Unpushed(d) PROVE PushedOnce'
    BY <2>0, <2>1 DEF PushedOnce
  <2>2. Device \/ Expire \/ HostLoop \/ UNCHANGED vars => UNCHANGED <<pushed, call>>
    BY DEF Device, Register, NextGeneration, ForgetToken, RemoveViewers, RemovePreview, RemoveQueue,
           DisconnectViewers, ResolvePreview, Expire, vars, server, HostLoop, Poll, PollValid,
           PollTake, PollAstray, PollEnd, Arrive, Perform, Submit, SubmitLost
  <2>3. \A c \in Calls : HostFile(c) => UNCHANGED <<pushed, call>>
    BY DEF HostFile, Open, Save, Fail, FileReport, ReportLost, server
  <2>4. UNCHANGED <<pushed, call>> => PushedOnce'
    BY <2>1 DEF Unpushed
  <2>5. ASSUME NEW c \in Calls, Handler(c) PROVE PushedOnce'
    <3>1. Ended(c) => call'[c].pc = "done" /\ \A d \in Calls : d # c => call'[d] = call[d]
      BY DEF Ended, TypeOK, NoCall
    <3>2. ASSUME Unpushed(c), \A d \in Calls : d # c => call'[d] = call[d], UNCHANGED pushed
          PROVE  PushedOnce'
      BY <2>1, <3>2 DEF Unpushed
    <3>3. ASSUME NEW size \in Sizes, AdmitFile(c, size) PROVE PushedOnce'
      <4>1. Unpushed(c) /\ \A d \in Calls : d # c => call'[d] = call[d]
        BY <3>3 DEF AdmitFile, Reserve, Unpushed, TypeOK
      <4>. QED BY <3>2, <3>3, <4>1 DEF AdmitFile, Reserve
    <3>4. CASE Store(c) \/ Command(c) \/ Ask(c)
      <4>1. Unpushed(c) /\ \A d \in Calls : d # c => call'[d] = call[d]
        BY <3>1, <3>4 DEF Store, Command, Input, RelayFile, Checked, Ask, Unpushed, TypeOK
      <4>. QED BY <3>2, <3>4, <4>1 DEF Store, Command, Ask
    <3>5. CASE Push(c)
      <4>1. Unpushed(c) /\ pushed' = Append(pushed, c)
        BY <3>5 DEF Push, Unpushed
      <4>2. call'[c].pc = "waiting" /\ \A d \in Calls : d # c => call'[d] = call[d]
        BY <3>5, Fields DEF Push, TypeOK, CallRecords
      <4>3. /\ Len(pushed') = Len(pushed) + 1 /\ pushed'[Len(pushed) + 1] = c
            /\ \A i \in 1 .. Len(pushed) : pushed'[i] = pushed[i]
        BY <2>0, <4>1
      <4>4. \A i \in 1 .. Len(pushed) : pushed[i] # c
        BY <4>1 DEF PushedOnce
      <4>5. \A i \in 1 .. Len(pushed') : i \in 1 .. Len(pushed) \/ i = Len(pushed) + 1
        BY <2>0, <4>3
      <4>6. \A i, j \in 1 .. Len(pushed') : pushed'[i] = pushed'[j] => i = j
        BY <4>3, <4>4, <4>5 DEF PushedOnce
      <4>7. ASSUME NEW i \in 1 .. Len(pushed')
            PROVE  call'[pushed'[i]].pc \notin {"new", "reading", "stored", "checked"}
        BY <2>0, <4>2, <4>3, <4>4, <4>5 DEF PushedOnce, Unpushed
      <4>. QED BY <4>6, <4>7 DEF PushedOnce, Unpushed
    <3>6. CASE Answered(c) \/ Grant(c) \/ TimeOut(c) \/ Drop(c)
      <4>1. UNCHANGED pushed /\ (Ended(c) \/ call' = [call EXCEPT ![c].pc = "accepted"])
        BY <3>6 DEF Answered, Grant, TimeOut, Drop
      <4>2. call'[c].pc \in {"done", "accepted"} /\ \A d \in Calls : d # c => call'[d] = call[d]
        BY <3>1, <4>1, Fields DEF TypeOK, CallRecords
      <4>. QED BY <2>1, <4>1, <4>2 DEF Unpushed
    <3>. QED BY <2>5, <3>3, <3>4, <3>5, <3>6 DEF Handler
  <2>. QED BY <2>2, <2>3, <2>4, <2>5 DEF Next
<1>. QED BY <1>1, <1>2, TypeCorrect, PTL DEF Spec

\* Clicks and keys are performed in the order in which forward_command_within queued
\* them: expired, lost or taken astray, commands leave only from the head of the
\* queue, and _relayCommandBusy lets the host hold one at a time.
THEOREM PerformedInOrder == Spec => []InOrder
<1>1. Init => OrderInv
  BY DEF Init, OrderInv, QueueIsTail, Gone, RunBefore, LoopOrdered, InOrder, Idle
<1>2. TypeOK /\ TypeOK' /\ PlaceInv /\ OrderInv /\ [Next]_vars => OrderInv'
  <2>. SUFFICES ASSUME TypeOK, TypeOK', PlaceInv, OrderInv, [Next]_vars PROVE OrderInv'
    OBVIOUS
  <2>1. CASE UNCHANGED vars
    BY <2>1, TailKept, OrderStill DEF vars, OrderInv
  <2>2. CASE Expire
    <3>1. UNCHANGED <<pushed, performed, call, host>> /\ queue # <<>> /\ queue' = Tail(queue)
      BY <2>2 DEF Expire
    <3>2. QueueIsTail' /\ Gone <= Gone'
      BY <3>1, TailTaken, Lengths DEF OrderInv
    <3>. QED BY <3>1, <3>2, OrderStill
  <2>3. ASSUME NEW c \in Calls, HostFile(c) PROVE OrderInv'
    <3>1. CASE Save(c)
      <4>1. call[c].kind = "file"
        BY <3>1 DEF Save, PlaceInv, PlaceOf
      <4>. QED BY <3>1, <4>1, OrderRun DEF Save, server
    <3>2. CASE Open(c) \/ Fail(c) \/ FileReport(c) \/ ReportLost(c)
      <4>1. UNCHANGED <<pushed, performed, call, host, queue>>
        BY <3>2 DEF Open, Fail, FileReport, ReportLost, server
      <4>2. QueueIsTail' /\ Gone <= Gone'
        BY <4>1, TailKept DEF OrderInv
      <4>. QED BY <4>1, <4>2, OrderStill
    <3>. QED BY <2>3, <3>1, <3>2 DEF HostFile
  <2>. QED BY <2>1, <2>2, <2>3, OrderDevice, OrderHandler, OrderLoop DEF Next
<1>3. OrderInv => InOrder
  BY DEF OrderInv
<1>. QED BY <1>1, <1>2, <1>3, TypeCorrect, PlaceCorrect, PTL DEF Spec


(***************************************************************************)
(* The room for files.  A call has a size while its upload goes on, and    *)
(* none before and after; the bytes of different uploads are different     *)
(* ones, so that a reservation adds its size to their number and the end   *)
(* of an upload takes the same away.                                       *)
(***************************************************************************)
Held == UNION {Bytes(c) : c \in Calls}
UploadInv ==
  /\ IsFiniteSet(Held) /\ bytes = Cardinality(Held) /\ bytes <= StoreMax
  /\ stored \subseteq Uploads
  /\ \A c \in Calls : call[c].size = 0 \/ c \in Uploads
  /\ \A c \in Calls : call[c].pc \in {"reading", "stored"} => call[c].kind = "file"

LEMMA BytesSize ==
  ASSUME NEW c, NEW n \in Nat
  PROVE  IsFiniteSet({c} \X (1 .. n)) /\ Cardinality({c} \X (1 .. n)) = n
<1>1. IsFiniteSet({c}) /\ Cardinality({c}) = 1
  BY FS_Singleton
<1>2. IsFiniteSet(1 .. n) /\ Cardinality(1 .. n) = n
  BY FS_Interval
<1>3. /\ IsFiniteSet({c} \X (1 .. n))
      /\ Cardinality({c} \X (1 .. n)) = Cardinality({c}) * Cardinality(1 .. n)
  BY <1>1, <1>2, FS_Product
<1>. QED BY <1>1, <1>2, <1>3

\* A byte that is held is that of one call.
LEMMA HeldBytes ==
  /\ \A p : p \in Held <=> \E c \in Calls : \E i \in 1 .. call[c].size : p = <<c, i>>
  /\ \A p : p \in Held' <=> \E c \in Calls : \E i \in 1 .. call'[c].size : p = <<c, i>>
BY DEF Held, Bytes

\* What leaves the sizes of the calls alone, and ends no upload.
LEMMA UploadStill ==
  ASSUME UploadInv, UNCHANGED bytes, Uploads \subseteq Uploads', stored' \subseteq Uploads',
         \A c \in Calls : call'[c].size = call[c].size,
         \A c \in Calls : call'[c].pc \in {"reading", "stored"} => call'[c].kind = "file"
  PROVE  UploadInv'
<1>1. Held' = Held
  BY DEF Held, Bytes
<1>2. \A c \in Calls : call'[c].size = 0 \/ c \in Uploads'
  BY DEF UploadInv
<1>. QED BY <1>1, <1>2 DEF UploadInv

\* A call that goes on with its size.
LEMMA UploadGoesOn ==
  ASSUME TypeOK, UploadInv, NEW c \in Calls, UNCHANGED bytes,
         stored' \subseteq stored \/ (stored' = stored \cup {c} /\ call'[c].kind = "file"),
         \A d \in Calls : d # c => call'[d] = call[d],
         call'[c].size = call[c].size, call'[c].pc \notin {"new", "done", "reading"},
         call'[c].pc = "stored" => call'[c].kind = "file",
         call[c].kind = "file" => call[c].pc = "new" \/ call'[c].kind = "file"
  PROVE  UploadInv'
<1>1. Uploads \subseteq Uploads'
  BY DEF Uploads
<1>2. stored' \subseteq Uploads'
  BY <1>1 DEF UploadInv, Uploads
<1>3. \A d \in Calls : call'[d].size = call[d].size
  OBVIOUS
<1>4. \A d \in Calls : call'[d].pc \in {"reading", "stored"} => call'[d].kind = "file"
  BY DEF UploadInv
<1>. QED BY <1>1, <1>2, <1>3, <1>4, UploadStill

\* A reservation (FileReservation::try_new, admit_file) fits into the room.
LEMMA UploadBegins ==
  ASSUME CommandParameters, TypeOK, UploadInv, NEW c \in Calls, NEW size \in Sizes, AdmitFile(c, size)
  PROVE  UploadInv'
<1>. DEFINE new == {c} \X (1 .. size)
<1>1. /\ size \in Nat /\ call[c].pc = "new" /\ UNCHANGED stored
      /\ bytes' = bytes + size /\ bytes + size <= StoreMax
  BY DEF AdmitFile, Reserve, CommandParameters
<1>2. /\ call'[c].pc = "reading" /\ call'[c].kind = "file" /\ call'[c].size = size
      /\ \A d \in Calls : d # c => call'[d] = call[d]
  BY DEF AdmitFile, NoCall, TypeOK
<1>3. call[c].size = 0
  BY <1>1 DEF UploadInv, Uploads
<1>4. Held' = Held \cup new /\ Held \cap new = {}
  <2>1. \A p : p \in new <=> \E i \in 1 .. size : p = <<c, i>>
    OBVIOUS
  <2>2. \A p : p \in Held <=> \E d \in Calls \ {c} : \E i \in 1 .. call[d].size : p = <<d, i>>
    BY <1>3, HeldBytes
  <2>3. \A p : p \in Held' <=> p \in Held \/ p \in new
    BY <1>2, <2>1, <2>2, HeldBytes
  <2>4. \A p : p \in Held => p \notin new
    BY <2>1, <2>2
  <2>. QED BY <2>3, <2>4
<1>5. IsFiniteSet(new) /\ Cardinality(new) = size
  BY <1>1, BytesSize
<1>6. /\ IsFiniteSet(Held \cup new)
      /\ Cardinality(Held \cup new) = Cardinality(Held) + Cardinality(new) - Cardinality(Held \cap new)
  <2>. HIDE DEF new
  <2>. QED BY <1>5, FS_Union DEF UploadInv
<1>7. Cardinality(Held \cup new) = Cardinality(Held) + size
  <2>1. Cardinality(Held) \in Nat
    BY FS_CardinalityType DEF UploadInv
  <2>2. Cardinality(Held \cap new) = 0
    BY <1>4, FS_EmptySet
  <2>. HIDE DEF new
  <2>. QED BY <1>1, <1>5, <1>6, <2>1, <2>2
<1>8. Uploads' = Uploads \cup {c}
  BY <1>2 DEF Uploads
<1>9. \A d \in Calls : call'[d].size = 0 \/ d \in Uploads'
  BY <1>2, <1>8 DEF UploadInv
<1>10. \A d \in Calls : call'[d].pc \in {"reading", "stored"} => call'[d].kind = "file"
  BY <1>2 DEF UploadInv
<1>11. bytes' = Cardinality(Held') /\ bytes' <= StoreMax /\ IsFiniteSet(Held')
  BY <1>1, <1>4, <1>6, <1>7 DEF UploadInv
<1>12. stored' \subseteq Uploads'
  BY <1>1, <1>8 DEF UploadInv
<1>. QED BY <1>9, <1>10, <1>11, <1>12 DEF UploadInv

\* A handler that ends gives back what it reserved (the drop of FileReservation).
LEMMA UploadEnds ==
  ASSUME CommandParameters, TypeOK, UploadInv, NEW c \in Calls, Ended(c)
  PROVE  UploadInv'
<1>. DEFINE old == {c} \X (1 .. call[c].size)
<1>1. /\ call[c].size \in Nat /\ stored' = stored \ {c} /\ bytes' = bytes - call[c].size
      /\ StoreMax \in Nat
  BY Fields DEF Ended, CallRecords, CommandParameters
<1>2. /\ call'[c].pc = "done" /\ call'[c].size = 0
      /\ \A d \in Calls : d # c => call'[d] = call[d]
  BY DEF Ended, NoCall, TypeOK
<1>3. Held' = Held \ old /\ Held \cap old = old
  <2>1. \A p : p \in old <=> \E i \in 1 .. call[c].size : p = <<c, i>>
    OBVIOUS
  <2>2. \A p : p \in Held' <=> \E d \in Calls \ {c} : \E i \in 1 .. call[d].size : p = <<d, i>>
    BY <1>2, HeldBytes
  <2>3. \A p : p \in old => p \in Held /\ p \notin Held'
    BY <2>1, <2>2, HeldBytes
  <2>4. \A p : p \in Held => p \in old \/ p \in Held'
    BY <2>1, <2>2, HeldBytes
  <2>5. \A p : p \in Held' => p \in Held
    BY <2>2, HeldBytes
  <2>. HIDE DEF old
  <2>. QED BY <2>3, <2>4, <2>5
<1>4. IsFiniteSet(old) /\ Cardinality(old) = call[c].size
  BY <1>1, BytesSize
<1>5. IsFiniteSet(Held \ old) /\ Cardinality(Held \ old) = Cardinality(Held) - Cardinality(Held \cap old)
  <2>. HIDE DEF old
  <2>. QED BY FS_Difference DEF UploadInv
<1>6. IsFiniteSet(Held') /\ bytes' = Cardinality(Held')
  BY <1>1, <1>3, <1>4, <1>5 DEF UploadInv
<1>7. bytes' <= StoreMax
  BY <1>1 DEF UploadInv, TypeOK
<1>8. Uploads' = Uploads \ {c}
  BY <1>2 DEF Uploads
<1>9. \A d \in Calls : call'[d].size = 0 \/ d \in Uploads'
  BY <1>2, <1>8 DEF UploadInv
<1>10. \A d \in Calls : call'[d].pc \in {"reading", "stored"} => call'[d].kind = "file"
  BY <1>2 DEF UploadInv
<1>11. stored' \subseteq Uploads'
  BY <1>1, <1>8 DEF UploadInv
<1>. QED BY <1>6, <1>7, <1>9, <1>10, <1>11 DEF UploadInv

\* The handler of a call (Handler).
LEMMA UploadHandler ==
  ASSUME CommandParameters, TypeOK, UploadInv, NEW c \in Calls, Handler(c)
  PROVE  UploadInv'
<1>1. CASE Store(c)
  <2>1. /\ call[c].pc = "reading" /\ call[c].kind = "file" /\ UNCHANGED bytes
        /\ stored' = stored \cup {c}
    BY <1>1 DEF Store, UploadInv
  <2>2. /\ call'[c].pc = "stored" /\ call'[c].kind = call[c].kind /\ call'[c].size = call[c].size
        /\ \A d \in Calls : d # c => call'[d] = call[d]
    BY <1>1, Fields DEF Store, TypeOK, CallRecords
  <2>. QED BY <2>1, <2>2, UploadGoesOn
<1>2. ASSUME NEW kind \in {"input", "file"}, Checked(c, kind),
             kind = "input" => call[c].pc = "new", Command(c)
      PROVE  UploadInv'
  <2>1. CASE Ended(c)
    BY <2>1, UploadEnds
  <2>2. CASE call' = [call EXCEPT ![c].pc = "checked", ![c].kind = kind] /\ UNCHANGED <<stored, bytes>>
    <3>1. /\ call'[c].pc = "checked" /\ call'[c].kind = kind /\ call'[c].size = call[c].size
          /\ \A d \in Calls : d # c => call'[d] = call[d]
      BY <2>2, Fields DEF TypeOK, CallRecords
    <3>. QED BY <1>2, <2>2, <3>1, UploadGoesOn
  <2>. QED BY <1>2, <2>1, <2>2 DEF Checked
<1>3. CASE Command(c)
  BY <1>2, <1>3 DEF Command, Input, RelayFile
<1>4. CASE Ask(c)
  <2>1. /\ call'[c].pc = "checked" /\ call'[c].size = call[c].size /\ call[c].pc = "new"
        /\ \A d \in Calls : d # c => call'[d] = call[d]
    BY <1>4, Fields DEF Ask, TypeOK, CallRecords
  <2>. QED BY <1>4, <2>1, UploadGoesOn DEF Ask
<1>5. CASE Push(c)
  <2>1. /\ call'[c].pc = "waiting" /\ call'[c].size = call[c].size /\ call'[c].kind = call[c].kind
        /\ \A d \in Calls : d # c => call'[d] = call[d]
    BY <1>5, Fields DEF Push, TypeOK, CallRecords
  <2>. QED BY <1>5, <2>1, UploadGoesOn DEF Push
<1>6. CASE Answered(c)
  <2>1. CASE Ended(c)
    BY <2>1, UploadEnds
  <2>2. CASE call' = [call EXCEPT ![c].pc = "accepted"] /\ UNCHANGED <<stored, bytes>>
    <3>1. /\ call'[c].pc = "accepted" /\ call'[c].size = call[c].size /\ call'[c].kind = call[c].kind
          /\ \A d \in Calls : d # c => call'[d] = call[d]
      BY <2>2, Fields DEF TypeOK, CallRecords
    <3>. QED BY <2>2, <3>1, UploadGoesOn
  <2>. QED BY <1>6, <2>1, <2>2 DEF Answered
<1>7. CASE Grant(c) \/ TimeOut(c) \/ Drop(c)
  BY <1>7, UploadEnds DEF Grant, TimeOut, Drop
<1>8. ASSUME NEW size \in Sizes, AdmitFile(c, size) PROVE UploadInv'
  BY <1>8, UploadBegins
<1>. QED BY <1>1, <1>3, <1>4, <1>5, <1>6, <1>7, <1>8 DEF Handler

\* The room that is taken is, byte for byte, that of the uploads that have not ended,
\* it is never more than FILE_STORE_MAX_BYTES, and the relay holds no file of an upload
\* that has ended, whichever way it ended.
THEOREM RoomHeld == Spec => []HeldByUploads
<1>1. Init => UploadInv
  <2>. SUFFICES ASSUME Init PROVE UploadInv
    OBVIOUS
  <2>1. \A c \in Calls : call[c].pc = "new" /\ call[c].size = 0
    BY DEF Init, NoCall
  <2>2. Held = {}
    BY <2>1, HeldBytes
  <2>. QED BY <2>1, <2>2, FS_EmptySet, CommandParameters DEF Init, UploadInv, CommandParameters
<1>2. TypeOK /\ UploadInv /\ [Next]_vars => UploadInv'
  <2>. SUFFICES ASSUME TypeOK, UploadInv, [Next]_vars PROVE UploadInv'
    OBVIOUS
  <2>1. ASSUME UNCHANGED <<call, bytes>>, stored' \subseteq stored PROVE UploadInv'
    <3>1. Uploads' = Uploads
      BY <2>1 DEF Uploads
    <3>2. /\ stored' \subseteq Uploads'
          /\ \A c \in Calls : call[c].pc \in {"reading", "stored"} => call[c].kind = "file"
      BY <2>1, <3>1 DEF UploadInv
    <3>. QED BY <2>1, <3>1, <3>2, UploadStill
  <2>2. Device \/ Expire \/ HostLoop \/ UNCHANGED vars => UNCHANGED <<call, bytes, stored>>
    BY DEF Device, Register, NextGeneration, ForgetToken, RemoveViewers, RemovePreview, RemoveQueue,
           DisconnectViewers, ResolvePreview, Expire, vars, server, HostLoop, Poll, PollValid,
           PollTake, PollAstray, PollEnd, Arrive, Perform, Submit, SubmitLost
  <2>3. \A c \in Calls : HostFile(c) => UNCHANGED <<call, bytes>> /\ stored' \subseteq stored
    BY DEF HostFile, Open, Save, Fail, FileReport, ReportLost, server
  <2>. QED BY <2>1, <2>2, <2>3, UploadHandler, CommandParameters DEF Next
<1>3. UploadInv => HeldByUploads
  <2>. SUFFICES ASSUME UploadInv PROVE HeldByUploads
    OBVIOUS
  <2>1. \A p : p \in UNION {Bytes(c) : c \in Uploads} <=>
              \E c \in Uploads : \E i \in 1 .. call[c].size : p = <<c, i>>
    BY DEF Bytes
  <2>2. \A c \in Calls : \A i \in 1 .. call[c].size : c \in Uploads
    BY DEF UploadInv
  <2>3. Uploads \subseteq Calls
    BY DEF Uploads
  <2>4. UNION {Bytes(c) : c \in Uploads} = Held
    BY <2>1, <2>2, <2>3, HeldBytes
  <2>. QED BY <2>4 DEF UploadInv, HeldByUploads
<1>. QED BY <1>1, <1>2, <1>3, TypeCorrect, PTL DEF Spec
=============================================================================

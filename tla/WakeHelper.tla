----------------------------- MODULE WakeHelper -----------------------------
(***************************************************************************)
(* The wake helper (tools/wake-helper): the run loop of main.go and the    *)
(* Engine of core.go, one goroutine that polls the server for a job, asks  *)
(* for a permit, writes three magic packets and reports the result, with a *)
(* journal on disk that must outlive a crash at any step.                  *)
(*                                                                         *)
(* The server is arbitrary: it may hand out any job that has not expired,  *)
(* however often, give any permit and refuse any receipt.  Replies are     *)
(* lost, and the process dies, at any step.  The helper has two clocks, as *)
(* Go's time.Time has: one that stops while the machine sleeps and one     *)
(* that can be set.                                                        *)
(***************************************************************************)
EXTENDS Integers, FiniteSets

CONSTANTS
  Jobs,          \* ids of wake requests
  None,
  Validity,      \* a job is handed out for that long after its creation
  LeaseMax,      \* longest permit accepted
  Margin,        \* subtracted from a permit
  Grace,         \* age beyond its expiry at which an acknowledged entry goes:
                 \* seven days, so longer than a job lives and the clocks differ
  JournalMax,    \* entries in the journal
  Packets        \* packets written for a job

CONSTANTS        \* the environment, and bounds of the model
  Born,          \* when each job is created
  MaxNow,        \* true time
  MaxSkew,       \* distance of the clock that can be set
  MaxCrashes

ASSUME HelperTimes ==
  /\ {Validity, LeaseMax, Packets} \subseteq Nat \ {0}
  /\ {Margin, Grace, JournalMax, MaxNow, MaxSkew, MaxCrashes} \subseteq Nat
  /\ Born \in [Jobs -> Nat]
  /\ Validity + 2 * MaxSkew <= Grace
  /\ None \notin Jobs

VARIABLES
  now,           \* true time
  lag,           \* by which the clock that sleeps is late
  skew,          \* by which the clock that can be set is off
  clock,         \* which of the two is unreliable on this machine
  disk,          \* journal.json
  mem,           \* Engine.journal.Items
  pc,            \* where the goroutine is
  frame,         \* its local variables
  crashes,       \* times the process died
  sent           \* ghost: packets ever written for each job

clocks == <<now, lag, skew, clock>>
journal == <<disk, mem>>
vars == <<clocks, journal, pc, frame, crashes, sent>>

-----------------------------------------------------------------------------
Absent == [phase |-> "absent", expires |-> 0, ack |-> FALSE]
Entries == [phase : {"absent", "reserved", "sent", "failed"},
            expires : Int, ack : BOOLEAN]

Instants == [mono : Int, wall : Int]
Clocks == [mono |-> now - lag, wall |-> now + skew]
Later(i, d) == [mono |-> i.mono + d, wall |-> i.wall + d]

\* Mutant: the clock that sleeps is trusted.
WithinMonotonic(i) == Clocks.mono < i.mono
WithinDeadline(i) == Clocks.mono < i.mono /\ Clocks.wall < i.wall

Listed(j) == mem[j].phase # "absent"
Unacknowledged(j) == Listed(j) /\ ~mem[j].ack
Reserved(expires) == [phase |-> "reserved", expires |-> expires, ack |-> FALSE]
Phase(j, phase) == [mem EXCEPT ![j].phase = phase]
Acknowledged(j) == [mem EXCEPT ![j].ack = TRUE]

Remaining(j, at) == Born[j] + Validity - at

\* The local variables of receipt and execute: the request, the helper's
\* clocks at the last call, those by which packets must be written, item.Count;
\* and two ghosts, the true times of the last call and of the permit's end.
Zero == [mono |-> 0, wall |-> 0]
NoFrame == [job |-> None, start |-> Zero, deadline |-> Zero, count |-> 0,
            asked |-> 0, permit |-> 0]
For(j) == [NoFrame EXCEPT !.job = j]
job == frame.job

Frames == [job : Jobs \cup {None}, start : Instants, deadline : Instants,
           count : 0 .. Packets, asked : Nat, permit : Nat]

Go(next, f) ==
  /\ pc' = next
  /\ frame' = IF next \in {"loop", "down"} THEN NoFrame ELSE f

-----------------------------------------------------------------------------
\* The process ends: what is in memory is lost.
Exit == Go("down", NoFrame) /\ mem' = disk /\ UNCHANGED disk

\* journal.save after a change of the map.  A failed save may have renamed the
\* file already; run ends on storage_failed.
Save(items, next, f) ==
  \/ mem' = items /\ disk' = items /\ Go(next, f)
  \/ disk' \in {disk, items} /\ mem' = disk' /\ Go("down", f)

Init ==
  /\ now = 0 /\ lag = 0 /\ skew = 0
  /\ clock \in {"sleeps", "jumps"}
  /\ disk = [j \in Jobs |-> Absent] /\ mem = disk
  /\ pc = "down" /\ frame = NoFrame /\ crashes = 0
  /\ sent = [j \in Jobs |-> 0]

Start ==
  /\ pc = "down"
  /\ mem' = disk /\ UNCHANGED disk
  /\ Go("loop", NoFrame)
  /\ UNCHANGED <<clocks, crashes, sent>>

\* The process is killed, or its context is cancelled.
Crash ==
  /\ pc # "down"
  /\ crashes < MaxCrashes
  /\ crashes' = crashes + 1
  /\ Exit
  /\ UNCHANGED <<clocks, sent>>

-----------------------------------------------------------------------------
(* recover and receipt *)

\* Mutants: an unfinished execution is run again; it is reported as done.
RecoverAgain(j) ==
  /\ pc = "loop" /\ Unacknowledged(j)
  /\ IF mem[j].phase = "reserved"
     THEN Save([mem EXCEPT ![j] = Absent], "loop", NoFrame)
     ELSE Go("receipt", For(j)) /\ UNCHANGED journal
  /\ UNCHANGED <<clocks, crashes, sent>>
RecoverSent(j) ==
  /\ pc = "loop" /\ Unacknowledged(j)
  /\ IF mem[j].phase = "reserved" THEN Save(Phase(j, "sent"), "receipt", For(j))
     ELSE Go("receipt", For(j)) /\ UNCHANGED journal
  /\ UNCHANGED <<clocks, crashes, sent>>

\* What was reserved when the process died is failed, execution_uncertain.
Recover(j) ==
  /\ pc = "loop" /\ Unacknowledged(j)
  /\ IF mem[j].phase = "reserved" THEN Save(Phase(j, "failed"), "receipt", For(j))
     ELSE Go("receipt", For(j)) /\ UNCHANGED journal
  /\ UNCHANGED <<clocks, crashes, sent>>

\* Mutant: a receipt is sent until it is accepted, for ever.
ReceiptForever ==
  /\ pc = "receipt"
  /\ Go(IF mem[job].ack THEN "loop" ELSE "report", frame)
  /\ UNCHANGED <<clocks, journal, crashes, sent>>

\* An acknowledged entry needs no receipt; an expired one gets none.
Receipt ==
  /\ pc = "receipt"
  /\ IF mem[job].ack THEN Go("loop", NoFrame) /\ UNCHANGED journal
     ELSE IF Clocks.wall >= mem[job].expires THEN Save(Acknowledged(job), "loop", NoFrame)
     ELSE Go("report", frame) /\ UNCHANGED journal
  /\ UNCHANGED <<clocks, crashes, sent>>

\* 404, 409 and 410 settle a receipt as 2xx does; 401 and 403 end the process.
ReportReply(reply) ==
  /\ pc = "report"
  /\ \/ reply \in {"accepted", "rejected"} /\ Save(Acknowledged(job), "loop", NoFrame)
     \/ reply = "fatal" /\ Exit
     \/ reply = "error" /\ Go("loop", NoFrame) /\ UNCHANGED journal
  /\ UNCHANGED <<clocks, crashes, sent>>

-----------------------------------------------------------------------------
(* poll and execute *)

Poll ==
  /\ pc = "loop"
  /\ \A j \in Jobs : ~Unacknowledged(j)
  /\ Go("poll", [NoFrame EXCEPT !.start = Clocks, !.asked = now])
  /\ UNCHANGED <<clocks, journal, crashes, sent>>

PollReply(reply) ==
  /\ pc = "poll"
  /\ \/ reply = "fatal" /\ Exit
     \/ reply \in {"none", "error"} /\ Go("loop", NoFrame) /\ UNCHANGED journal
  /\ UNCHANGED <<clocks, crashes, sent>>

\* Acknowledged entries whose expiry is more than Grace ago are dropped.
Pruned == [k \in Jobs |-> IF mem[k].ack /\ Clocks.wall - mem[k].expires > Grace
                          THEN Absent ELSE mem[k]]

\* execute up to the reservation: the server offers job j for remaining.  An
\* entry for j, which recover has settled, ends it.
Deliver(j, remaining) ==
  LET due == Later(frame.start, remaining)
      usable == remaining \in 1 .. Validity /\ WithinDeadline(due)
  IN  /\ pc = "poll"
      /\ \/ Listed(j) /\ Go("receipt", For(j)) /\ UNCHANGED journal
         \/ ~Listed(j) /\ ~usable /\ Go("loop", NoFrame) /\ UNCHANGED journal
         \/ /\ ~Listed(j) /\ usable
            /\ IF Cardinality({k \in Jobs : Pruned[k] # Absent}) >= JournalMax
               THEN Exit
               ELSE Save([Pruned EXCEPT ![j] = Reserved(due.wall)], "reserved",
                         [For(j) EXCEPT !.deadline = due])
      /\ UNCHANGED <<clocks, crashes, sent>>

\* An unusable job, a changed network, an invalid or expired permit, a packet
\* that cannot be written.
Fail ==
  /\ \/ pc = "reserved"
     \/ pc = "authorize"
     \/ pc = "send" /\ frame.count < Packets
  /\ Save(Phase(job, "failed"), "receipt", For(job))
  /\ UNCHANGED <<clocks, crashes, sent>>

AskPermit ==
  /\ pc = "reserved"
  /\ Go("authorize", [frame EXCEPT !.start = Clocks, !.asked = now])
  /\ UNCHANGED <<clocks, journal, crashes, sent>>

\* A lost or refused authorization must never become a new send.
AuthorizeFailed(reply) ==
  /\ pc = "authorize"
  /\ Save(Phase(job, "failed"), IF reply = "fatal" THEN "down" ELSE "loop", NoFrame)
  /\ UNCHANGED <<clocks, crashes, sent>>

Permit(lease, ends) ==
  [frame EXCEPT !.deadline = IF lease.mono < @.mono THEN lease ELSE @,
                !.permit = ends, !.start = Zero, !.asked = 0]

\* The permit counts from before the call that asked for it.
Permitted(remaining) ==
  /\ pc = "authorize"
  /\ remaining \in 1 .. LeaseMax
  /\ Go("send", Permit(Later(frame.start, remaining - Margin), frame.asked + remaining))
  /\ UNCHANGED <<clocks, journal, crashes, sent>>

SendPacket ==
  /\ pc = "send" /\ frame.count < Packets
  /\ WithinDeadline(frame.deadline)
  /\ Go("send", [frame EXCEPT !.count = @ + 1])
  /\ sent' = [sent EXCEPT ![job] = @ + 1]
  /\ UNCHANGED <<clocks, journal, crashes>>

RecordSent ==
  /\ pc = "send" /\ frame.count = Packets
  /\ Save(Phase(job, "sent"), "receipt", For(job))
  /\ UNCHANGED <<clocks, crashes, sent>>

-----------------------------------------------------------------------------
(* Time.  A machine either sleeps or has its clock set: one of the two     *)
(* clocks is right.                                                        *)

Tick ==
  /\ now < MaxNow
  /\ now' = now + 1
  /\ \/ UNCHANGED lag
     \/ clock = "sleeps" /\ lag' = lag + 1
  /\ UNCHANGED <<skew, clock, journal, pc, frame, crashes, sent>>

SetClock ==
  /\ clock = "jumps"
  /\ skew' \in (-MaxSkew .. MaxSkew) \ {skew}
  /\ UNCHANGED <<now, lag, clock, journal, pc, frame, crashes, sent>>

EngineStep ==
  \/ Start \/ Receipt \/ Poll \/ Fail \/ AskPermit \/ SendPacket \/ RecordSent
  \/ \E j \in Jobs : Recover(j)
  \/ \E reply \in {"accepted", "rejected", "fatal", "error"} : ReportReply(reply)
  \/ \E reply \in {"none", "fatal", "error"} :
       PollReply(reply) \/ (reply # "none" /\ AuthorizeFailed(reply))

\* The server computes what remains of a job between the call and its reply,
\* as long as something remains, and it may give any permit.
ServerReply ==
  \/ \E j \in Jobs, at \in frame.asked .. now :
       Remaining(j, at) > 0 /\ at >= Born[j] /\ Deliver(j, Remaining(j, at))
  \/ \E remaining \in 1 .. LeaseMax : Permitted(remaining)

Next == EngineStep \/ ServerReply \/ Crash \/ Tick \/ SetClock

Spec == Init /\ [][Next]_vars

\* The goroutine runs, a call ends (API's timeouts), a killed process is
\* started again (systemd, procd, the app), and the disk does not refuse
\* every write.
Fairness ==
  /\ WF_vars(Tick)
  /\ WF_vars(EngineStep \/ ServerReply)
  /\ \A j \in Jobs : SF_vars(Recover(j) /\ pc' # "down")
  /\ SF_vars(Receipt /\ pc' # "down")

FairSpec == Spec /\ Fairness

-----------------------------------------------------------------------------
Executing == {"reserved", "authorize", "send"}

\* Every variable has its type.
TypeOK ==
  /\ now \in Nat /\ lag \in Nat /\ skew \in Int /\ clock \in {"sleeps", "jumps"}
  /\ disk \in [Jobs -> Entries] /\ mem \in [Jobs -> Entries]
  /\ pc \in Executing \cup {"down", "loop", "receipt", "report", "poll"}
  /\ frame \in Frames
  /\ pc \in Executing \cup {"receipt", "report"} => job \in Jobs
  /\ crashes \in Nat
  /\ sent \in [Jobs -> Nat]

\* A request is over once the journal on disk knows it, or it has expired.
stage == [j \in Jobs |->
            IF job = j /\ pc \in Executing THEN "open"
            ELSE IF disk[j] # Absent \/ now >= Born[j] + Validity THEN "over"
            ELSE "new"]

Once == INSTANCE WakeOnce WITH packets <- sent

\* The packets of a request are written by one execution, over crashes,
\* failed saves, lost replies, repeated deliveries and the pruning of the
\* journal (core.go: a lost authorization response must never be retried as a
\* new send).
AtMostOnce == Once!Spec

\* While the server is asked and packets go out, the reservation is on disk,
\* and it stays there: what the process would find after a crash tells it that
\* it may have sent.
ReservedOnDisk ==
  pc \in {"reserved", "authorize", "send"} =>
    disk = mem /\ disk[job].phase = "reserved"

\* A packet is written only while the permit runs in true time, though one of
\* the clocks stops or is set while the helper waits for replies
\* (withinDeadline).
WithinPermit == [][sent' # sent => now < frame.permit]_vars

\* What is reported as sent was written completely (core_test.go: an uncertain
\* result must not become sent).
ReportTrue ==
  \A j \in Jobs : "sent" \in {disk[j].phase, mem[j].phase} => sent[j] = Packets

\* Every execution is settled with the server or by its expiry, though
\* processes die, receipts are refused and clocks are set back.
ReceiptSettles ==
  \A j \in Jobs : disk[j].phase # "absent" ~> disk[j] = Absent \/ disk[j].ack
=============================================================================

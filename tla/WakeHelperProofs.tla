-------------------------- MODULE WakeHelperProofs --------------------------
(***************************************************************************)
(* Proofs about WakeHelper, for any jobs, times and bounds: its journal is *)
(* ahead of what it does, and so it implements WakeOnce.                   *)
(***************************************************************************)
EXTENDS WakeHelper, TLAPS

\* Where a call is out, its frame knows when it was made: on the clock this
\* machine can rely on, the instant is the true time.
StartTrue ==
  pc \in {"poll", "authorize"} =>
    /\ frame.asked <= now
    /\ clock = "jumps" => frame.start.mono = frame.asked
    /\ clock = "sleeps" => frame.start.wall = frame.asked
    /\ frame.start.wall >= frame.asked - MaxSkew

ClocksOff ==
  /\ clock = "jumps" => lag = 0
  /\ clock = "sleeps" => skew = 0
  /\ skew \in -MaxSkew .. MaxSkew

\* The reservation of the running execution is on disk, and the packets it
\* has written are all that were ever written for its job.
RunOpen ==
  /\ pc \in Executing => /\ disk[job].phase = "reserved" /\ ~disk[job].ack
                         /\ sent[job] = frame.count
                         /\ pc # "send" => frame.count = 0
  /\ pc \in {"receipt", "report"} => disk[job].phase # "absent"

\* A journal that has no entry for a job is one of a job that was not executed
\* or is over; an entry expires too late to be pruned before that; what it
\* calls sent was written.
Sound(d) ==
  \A j \in Jobs :
    /\ d[j].phase = "absent" => /\ d[j] = Absent
                                /\ now < Born[j] + Validity => sent[j] = 0
    /\ d[j].phase # "absent" => d[j].expires >= Born[j] - MaxSkew
    /\ d[j].phase = "sent" => sent[j] = Packets

HInv == TypeOK /\ mem = disk /\ ClocksOff /\ StartTrue /\ RunOpen /\ Sound(disk)

-----------------------------------------------------------------------------
LEMMA GoTyped ==
  ASSUME NEW next \in {"reserved", "authorize", "send", "down", "loop", "receipt",
                       "report", "poll"},
         NEW f \in Frames, Go(next, f),
         next \in {"reserved", "authorize", "send", "receipt", "report"} => f.job \in Jobs
  PROVE  /\ pc' \in Executing \cup {"down", "loop", "receipt", "report", "poll"}
         /\ frame' \in Frames
         /\ pc' \in Executing \cup {"receipt", "report"} => frame'.job \in Jobs
<1>1. NoFrame \in Frames
  BY HelperTimes DEF NoFrame, Frames, Zero, Instants
<1>. QED BY <1>1 DEF Go, Executing

LEMMA FrameTyped ==
  /\ NoFrame \in Frames
  /\ \A j \in Jobs : For(j) \in Frames /\ For(j).job = j /\ For(j).count = 0
  /\ \A j \in Jobs, d \in Instants :
       LET f == [For(j) EXCEPT !.deadline = d]
       IN  f \in Frames /\ f.job = j /\ f.count = 0 /\ f.deadline = d
<1>1. NoFrame \in Frames
  BY HelperTimes DEF NoFrame, Frames, Zero, Instants
<1>2. ASSUME NEW j \in Jobs
      PROVE  For(j) \in Frames /\ For(j).job = j /\ For(j).count = 0
  <2>1. NoFrame.count = 0
    BY DEF NoFrame
  <2>. QED BY <1>1, <2>1 DEF For, Frames
<1>3. ASSUME NEW j \in Jobs, NEW d \in Instants
      PROVE  LET f == [For(j) EXCEPT !.deadline = d]
             IN  f \in Frames /\ f.job = j /\ f.count = 0 /\ f.deadline = d
  BY <1>2 DEF Frames
<1>. QED BY <1>1, <1>2, <1>3

LEMMA EntryTyped ==
  ASSUME NEW e \in Entries
  PROVE  /\ \A p \in {"reserved", "sent", "failed"} :
              LET u == [e EXCEPT !.phase = p]
              IN  u \in Entries /\ u.phase = p /\ u.ack = e.ack /\ u.expires = e.expires
         /\ LET u == [e EXCEPT !.ack = TRUE]
            IN  u \in Entries /\ u.phase = e.phase /\ u.expires = e.expires
         /\ Absent \in Entries
<1>1. Absent \in Entries
  BY DEF Entries, Absent
<1>2. ASSUME NEW p \in {"reserved", "sent", "failed"}
      PROVE  LET u == [e EXCEPT !.phase = p]
             IN  u \in Entries /\ u.phase = p /\ u.ack = e.ack /\ u.expires = e.expires
  BY DEF Entries
<1>3. LET u == [e EXCEPT !.ack = TRUE]
      IN  u \in Entries /\ u.phase = e.phase /\ u.expires = e.expires
  BY DEF Entries
<1>. QED BY <1>1, <1>2, <1>3

LEMMA ClockTyped ==
  ASSUME now \in Nat, lag \in Nat, skew \in Int
  PROVE  /\ Clocks \in Instants
         /\ Clocks.mono = now - lag /\ Clocks.wall = now + skew
         /\ \A i \in Instants, d \in Int : /\ Later(i, d) \in Instants
                                           /\ Later(i, d).mono = i.mono + d
                                           /\ Later(i, d).wall = i.wall + d
BY DEF Clocks, Instants, Later

\* Everything Save can do: the journal on disk stays, or becomes items.
LEMMA SaveShape ==
  ASSUME NEW items, NEW next, NEW f, Save(items, next, f)
  PROVE  /\ mem' = disk'
         /\ disk' \in {disk, items}
         /\ \/ disk' = items /\ Go(next, f)
            \/ pc' = "down" /\ frame' = NoFrame
BY DEF Save, Go

-----------------------------------------------------------------------------
LEMMA TypeInit == Init => TypeOK
<1>. SUFFICES ASSUME Init PROVE TypeOK
  OBVIOUS
<1>1. Absent \in Entries
  BY DEF Absent, Entries
<1>. QED BY <1>1, FrameTyped DEF Init, TypeOK, Executing

\* What holds of the journal, the control point and the frame after a save.
LEMMA SaveTyped ==
  ASSUME TypeOK, NEW items \in [Jobs -> Entries],
         NEW next \in {"reserved", "loop", "down", "receipt"},
         NEW f \in Frames, Save(items, next, f),
         next \in {"reserved", "receipt"} => f.job \in Jobs
  PROVE  /\ disk' \in [Jobs -> Entries] /\ mem' \in [Jobs -> Entries]
         /\ pc' \in Executing \cup {"down", "loop", "receipt", "report", "poll"}
         /\ frame' \in Frames
         /\ pc' \in Executing \cup {"receipt", "report"} => frame'.job \in Jobs
<1>1. CASE disk' = items /\ Go(next, f)
  BY <1>1, SaveShape, GoTyped
<1>2. CASE pc' = "down" /\ frame' = NoFrame
  BY <1>2, SaveShape, FrameTyped DEF TypeOK, Executing
<1>. QED BY <1>1, <1>2, SaveShape

LEMMA TypeStep == TypeOK /\ [Next]_vars => TypeOK'
<1>. SUFFICES ASSUME TypeOK, [Next]_vars PROVE TypeOK'
  OBVIOUS
<1>. USE DEF clocks, journal
<1>0. /\ now \in Nat /\ lag \in Nat /\ skew \in Int
      /\ disk \in [Jobs -> Entries] /\ mem \in [Jobs -> Entries]
      /\ frame \in Frames /\ sent \in [Jobs -> Nat]
  BY DEF TypeOK
<1>1. ASSUME UNCHANGED <<clocks, sent>>, crashes' \in {crashes, crashes + 1},
             disk' \in [Jobs -> Entries], mem' \in [Jobs -> Entries],
             pc' \in Executing \cup {"down", "loop", "receipt", "report", "poll"},
             frame' \in Frames,
             pc' \in Executing \cup {"receipt", "report"} => frame'.job \in Jobs
      PROVE  TypeOK'
  BY <1>1 DEF TypeOK, job
<1>2. ASSUME NEW items \in [Jobs -> Entries],
             NEW next \in {"reserved", "loop", "down", "receipt"},
             NEW f \in Frames, Save(items, next, f),
             next \in {"reserved", "receipt"} => f.job \in Jobs,
             UNCHANGED <<clocks, crashes, sent>>
      PROVE  TypeOK'
  BY <1>1, <1>2, SaveTyped
<1>3. ASSUME NEW next \in {"reserved", "authorize", "send", "down", "loop", "receipt",
                           "report", "poll"},
             NEW f \in Frames, Go(next, f),
             next \in {"reserved", "authorize", "send", "receipt", "report"} => f.job \in Jobs,
             UNCHANGED <<clocks, journal, crashes, sent>>
      PROVE  TypeOK'
  BY <1>0, <1>1, <1>3, GoTyped
<1>4. ASSUME Exit, UNCHANGED <<clocks, sent>>, crashes' \in {crashes, crashes + 1}
      PROVE  TypeOK'
  BY <1>0, <1>1, <1>4, GoTyped, FrameTyped DEF Exit
<1>5. \A j \in Jobs : /\ \A p \in {"reserved", "sent", "failed"} :
                           Phase(j, p) \in [Jobs -> Entries]
                      /\ Acknowledged(j) \in [Jobs -> Entries]
  BY <1>0, EntryTyped DEF Phase, Acknowledged
<1>6. CASE Start
  BY <1>6, <1>0, <1>1, GoTyped, FrameTyped DEF Start
<1>7. CASE Receipt
  <2>1. job \in Jobs
    BY <1>7 DEF Receipt, TypeOK
  <2>2. \/ Go("loop", NoFrame) /\ UNCHANGED journal
        \/ Save(Acknowledged(job), "loop", NoFrame)
        \/ Go("report", frame) /\ UNCHANGED journal
    BY <1>7 DEF Receipt
  <2>3. UNCHANGED <<clocks, crashes, sent>>
    BY <1>7 DEF Receipt
  <2>. QED BY <1>0, <1>2, <1>3, <1>5, <2>1, <2>2, <2>3, FrameTyped DEF job
<1>8. CASE Poll
  <2>1. [NoFrame EXCEPT !.start = Clocks, !.asked = now] \in Frames
    BY <1>0, FrameTyped, ClockTyped DEF Frames
  <2>. QED BY <1>3, <1>8, <2>1 DEF Poll
<1>9. CASE Fail
  <2>1. job \in Jobs
    BY <1>9 DEF Fail, TypeOK, Executing
  <2>. QED BY <1>2, <1>5, <1>9, <2>1, FrameTyped DEF Fail
<1>10. CASE AskPermit
  <2>1. /\ frame.job \in Jobs
        /\ [frame EXCEPT !.start = Clocks, !.asked = now] \in Frames
        /\ [frame EXCEPT !.start = Clocks, !.asked = now].job = frame.job
    BY <1>0, <1>10, ClockTyped DEF Frames, AskPermit, TypeOK, Executing, job
  <2>. QED BY <1>3, <1>10, <2>1 DEF AskPermit
<1>11. CASE SendPacket
  <2>. DEFINE f == [frame EXCEPT !.count = @ + 1]
  <2>0. frame.job \in Jobs /\ frame.count + 1 \in 0 .. Packets
    BY <1>0, <1>11, HelperTimes DEF Frames, SendPacket, TypeOK, Executing, job
  <2>1. f \in Frames /\ f.job = frame.job
    BY <1>0, <2>0 DEF Frames
  <2>2. sent' \in [Jobs -> Nat]
    BY <1>0, <1>11, <2>0 DEF SendPacket, job
  <2>. HIDE DEF f
  <2>3. /\ frame' \in Frames /\ frame'.job \in Jobs /\ pc' = "send"
    BY <1>11, <2>0, <2>1 DEF SendPacket, Go, f
  <2>. QED BY <1>11, <2>2, <2>3 DEF SendPacket, TypeOK, Executing, job
<1>12. CASE RecordSent
  <2>1. job \in Jobs
    BY <1>12 DEF RecordSent, TypeOK, Executing
  <2>. QED BY <1>2, <1>5, <1>12, <2>1, FrameTyped DEF RecordSent
<1>13. ASSUME NEW j \in Jobs, Recover(j) PROVE TypeOK'
  <2>1. \/ Save(Phase(j, "failed"), "receipt", For(j))
        \/ Go("receipt", For(j)) /\ UNCHANGED journal
    BY <1>13 DEF Recover
  <2>2. UNCHANGED <<clocks, crashes, sent>>
    BY <1>13 DEF Recover
  <2>. QED BY <1>2, <1>3, <1>5, <2>1, <2>2, FrameTyped
<1>14. ASSUME NEW reply, ReportReply(reply) PROVE TypeOK'
  <2>1. job \in Jobs
    BY <1>14 DEF ReportReply, TypeOK
  <2>. QED BY <1>2, <1>3, <1>4, <1>5, <1>14, <2>1, FrameTyped DEF ReportReply
<1>15. ASSUME NEW reply, PollReply(reply) PROVE TypeOK'
  BY <1>3, <1>4, <1>15, FrameTyped DEF PollReply
<1>16. ASSUME NEW reply, AuthorizeFailed(reply) PROVE TypeOK'
  <2>1. job \in Jobs
    BY <1>16 DEF AuthorizeFailed, TypeOK, Executing
  <2>. QED BY <1>2, <1>5, <1>16, <2>1, FrameTyped DEF AuthorizeFailed
<1>17. ASSUME NEW j \in Jobs, NEW at \in Nat, Deliver(j, Remaining(j, at)) PROVE TypeOK'
  <2>. DEFINE due == Later(frame.start, Remaining(j, at))
              items == [Pruned EXCEPT ![j] = Reserved(due.wall)]
              f == [For(j) EXCEPT !.deadline = due]
  <2>1. Remaining(j, at) \in Int /\ due \in Instants /\ due.wall \in Int
    <3>1. Remaining(j, at) \in Int
      BY HelperTimes DEF Remaining
    <3>2. frame.start \in Instants
      BY <1>0 DEF Frames
    <3>3. due \in Instants
      BY <1>0, <3>1, <3>2, ClockTyped
    <3>. QED BY <3>1, <3>3 DEF Instants
  <2>2. Pruned \in [Jobs -> Entries]
    BY <1>0, EntryTyped DEF Pruned, Absent, Entries
  <2>3. Reserved(due.wall) \in Entries
    BY <2>1 DEF Reserved, Entries
  <2>4. items \in [Jobs -> Entries]
    BY <2>2, <2>3
  <2>5. f \in Frames /\ f.job = j
    BY <2>1, FrameTyped
  <2>. HIDE DEF items, f, due
  <2>6. \/ Go("receipt", For(j)) /\ UNCHANGED journal
        \/ Go("loop", NoFrame) /\ UNCHANGED journal
        \/ Exit
        \/ Save(items, "reserved", f)
    BY <1>17 DEF Deliver, items, f, due
  <2>7. UNCHANGED <<clocks, crashes, sent>>
    BY <1>17 DEF Deliver
  <2>. QED BY <1>2, <1>3, <1>4, <2>4, <2>5, <2>6, <2>7, FrameTyped
<1>18. ASSUME NEW remaining \in 1 .. LeaseMax, Permitted(remaining) PROVE TypeOK'
  <2>. DEFINE lease == Later(frame.start, remaining - Margin)
              f == Permit(lease, frame.asked + remaining)
  <2>1. lease \in Instants
    <3>1. frame.start \in Instants /\ remaining - Margin \in Int
      BY <1>0, HelperTimes DEF Frames
    <3>. QED BY <1>0, <3>1, ClockTyped
  <2>2. f \in Frames /\ f.job = frame.job
    <3>1. frame.asked + remaining \in Nat /\ Zero \in Instants
      BY <1>0, HelperTimes DEF Frames, Zero, Instants
    <3>. HIDE DEF lease
    <3>. QED BY <1>0, <2>1, <3>1 DEF Permit, Frames
  <2>3. frame.job \in Jobs
    BY <1>18 DEF Permitted, TypeOK, Executing, job
  <2>. HIDE DEF f, lease
  <2>4. Go("send", f) /\ UNCHANGED <<clocks, journal, crashes, sent>>
    BY <1>18 DEF Permitted, f, lease
  <2>. QED BY <1>3, <2>2, <2>3, <2>4
<1>19. CASE Crash
  BY <1>4, <1>19 DEF Crash
<1>20. CASE Tick
  BY <1>20, <1>0 DEF Tick, TypeOK, job
<1>21. CASE SetClock
  BY <1>21, HelperTimes DEF SetClock, TypeOK, job
<1>22. CASE UNCHANGED vars
  BY <1>22 DEF vars, TypeOK, job
<1>23. CASE ServerReply
  <2>1. \A at : at \in frame.asked .. now => at \in Nat
    BY <1>0 DEF Frames
  <2>. QED BY <1>17, <1>18, <1>23, <2>1 DEF ServerReply
<1>. QED
  BY <1>6, <1>7, <1>8, <1>9, <1>10, <1>11, <1>12, <1>13, <1>14, <1>15, <1>16, <1>19,
     <1>20, <1>21, <1>22, <1>23
  DEF Next, EngineStep

\* Every variable of the helper keeps its type.
THEOREM TypeCorrect == Spec => []TypeOK
BY TypeInit, TypeStep, PTL DEF Spec

-----------------------------------------------------------------------------
(***************************************************************************)
(* The journal is ahead of what the helper does.                           *)
(***************************************************************************)

LEMMA PhaseSound ==
  ASSUME HInv, NEW j \in Jobs, disk[j].phase # "absent",
         NEW p \in {"failed", "sent"}, p = "sent" => sent[j] = Packets
  PROVE  /\ Sound(Phase(j, p))
         /\ \A k \in Jobs : Phase(j, p)[k] = Absent => disk[k] = Absent
<1>1. disk \in [Jobs -> Entries] /\ mem = disk
  BY DEF HInv, TypeOK
<1>2. /\ Phase(j, p)[j].phase = p /\ Phase(j, p)[j].expires = disk[j].expires
      /\ \A k \in Jobs \ {j} : Phase(j, p)[k] = disk[k]
  BY <1>1, EntryTyped DEF Phase
<1>3. Sound(disk)
  BY DEF HInv
<1>4. Absent.phase = "absent"
  BY DEF Absent
<1>5. ASSUME NEW k \in Jobs
      PROVE  /\ Phase(j, p)[k].phase = "absent" =>
                  /\ Phase(j, p)[k] = Absent /\ disk[k] = Absent
                  /\ now < Born[k] + Validity => sent[k] = 0
             /\ Phase(j, p)[k].phase # "absent" => Phase(j, p)[k].expires >= Born[k] - MaxSkew
             /\ Phase(j, p)[k].phase = "sent" => sent[k] = Packets
  <2>1. CASE k = j
    BY <1>2, <1>3, <2>1 DEF Sound
  <2>2. CASE k # j
    BY <1>2, <1>3, <2>2 DEF Sound
  <2>. QED BY <2>1, <2>2
<1>. QED BY <1>4, <1>5 DEF Sound

LEMMA AckSound ==
  ASSUME HInv, NEW j \in Jobs, disk[j].phase # "absent"
  PROVE  /\ Sound(Acknowledged(j))
         /\ \A k \in Jobs : Acknowledged(j)[k] = Absent => disk[k] = Absent
<1>1. disk \in [Jobs -> Entries] /\ mem = disk
  BY DEF HInv, TypeOK
<1>2. /\ Acknowledged(j)[j].phase = disk[j].phase
      /\ Acknowledged(j)[j].expires = disk[j].expires
      /\ \A k \in Jobs \ {j} : Acknowledged(j)[k] = disk[k]
  BY <1>1, EntryTyped DEF Acknowledged
<1>3. Sound(disk)
  BY DEF HInv
<1>4. Absent.phase = "absent"
  BY DEF Absent
<1>5. ASSUME NEW k \in Jobs
      PROVE  /\ Acknowledged(j)[k].phase = "absent" =>
                  /\ Acknowledged(j)[k] = Absent /\ disk[k] = Absent
                  /\ now < Born[k] + Validity => sent[k] = 0
             /\ Acknowledged(j)[k].phase # "absent" => Acknowledged(j)[k].expires >= Born[k] - MaxSkew
             /\ Acknowledged(j)[k].phase = "sent" => sent[k] = Packets
  <2>1. CASE k = j
    BY <1>2, <1>3, <2>1 DEF Sound
  <2>2. CASE k # j
    BY <1>2, <1>3, <2>2 DEF Sound
  <2>. QED BY <2>1, <2>2
<1>. QED BY <1>4, <1>5 DEF Sound

\* What is pruned is over.
LEMMA PruneSound ==
  ASSUME HInv
  PROVE  /\ Sound(Pruned)
         /\ \A k \in Jobs : Pruned[k] = Absent /\ now < Born[k] + Validity => disk[k] = Absent
<1>1. /\ disk \in [Jobs -> Entries] /\ mem = disk
      /\ now \in Nat /\ lag \in Nat /\ skew \in Int
  BY DEF HInv, TypeOK
<1>2. ASSUME NEW k \in Jobs, disk[k].ack, Clocks.wall - disk[k].expires > Grace,
             disk[k].phase # "absent"
      PROVE  now >= Born[k] + Validity
  <2>1. Clocks.wall = now + skew /\ skew <= MaxSkew
    BY <1>1, ClockTyped, HelperTimes DEF HInv, ClocksOff
  <2>2. disk[k].expires >= Born[k] - MaxSkew /\ disk[k].expires \in Int
    BY <1>1, <1>2 DEF HInv, Sound, Entries
  <2>. QED BY <1>1, <1>2, <2>1, <2>2, HelperTimes
<1>3. \A k \in Jobs : disk[k].phase = "absent" => disk[k] = Absent
  BY DEF HInv, Sound
<1>4. \A k \in Jobs : Pruned[k] \in {Absent, disk[k]}
  BY <1>1 DEF Pruned
<1>5. \A k \in Jobs : Pruned[k] = Absent /\ disk[k] # Absent => now >= Born[k] + Validity
  BY <1>1, <1>2, <1>3 DEF Pruned
<1>6. Absent.phase = "absent"
  BY DEF Absent
<1>7. \A k \in Jobs : Born[k] + Validity \in Nat
  BY HelperTimes
<1>8. \A k \in Jobs : Pruned[k] = Absent /\ now < Born[k] + Validity => disk[k] = Absent
  BY <1>1, <1>5, <1>7
<1>9. ASSUME NEW k \in Jobs, Pruned[k].phase = "absent"
      PROVE  Pruned[k] = Absent /\ (now < Born[k] + Validity => sent[k] = 0)
  BY <1>3, <1>4, <1>6, <1>8, <1>9 DEF HInv, Sound
<1>10. ASSUME NEW k \in Jobs, Pruned[k].phase # "absent"
       PROVE  /\ Pruned[k].expires >= Born[k] - MaxSkew
              /\ Pruned[k].phase = "sent" => sent[k] = Packets
  BY <1>4, <1>6, <1>10 DEF HInv, Sound
<1>. QED BY <1>8, <1>9, <1>10, <1>6 DEF Sound

\* A job that is reserved has not been executed and is not over: the clock the
\* machine can rely on says so.
LEMMA ReserveFresh ==
  ASSUME HInv, pc = "poll", NEW j \in Jobs, ~Listed(j),
         NEW at \in Nat, Born[j] <= at, frame.asked <= at, at <= now,
         Remaining(j, at) > 0,
         WithinDeadline(Later(frame.start, Remaining(j, at)))
  PROVE  /\ disk[j] = Absent /\ sent[j] = 0
         /\ now < Born[j] + Validity
         /\ Later(frame.start, Remaining(j, at)).wall >= Born[j] - MaxSkew
<1>. DEFINE due == Later(frame.start, Remaining(j, at))
<1>1. /\ disk \in [Jobs -> Entries] /\ mem = disk
      /\ now \in Nat /\ lag \in Nat /\ skew \in Int /\ frame \in Frames
      /\ frame.start \in Instants /\ frame.asked \in Nat
      /\ clock \in {"sleeps", "jumps"}
  BY DEF HInv, TypeOK, Frames
<1>2. Remaining(j, at) = Born[j] + Validity - at /\ Born[j] \in Nat /\ Validity \in Nat
      /\ MaxSkew \in Nat
  BY HelperTimes DEF Remaining
<1>3. /\ due.mono = frame.start.mono + Remaining(j, at)
      /\ due.wall = frame.start.wall + Remaining(j, at)
      /\ frame.start.mono \in Int /\ frame.start.wall \in Int
  <2>1. Remaining(j, at) \in Int
    BY <1>2
  <2>. QED BY <1>1, <2>1, ClockTyped DEF Instants
<1>4. now - lag < due.mono /\ now + skew < due.wall
  BY <1>1, ClockTyped DEF WithinDeadline
<1>5. /\ frame.start.wall >= frame.asked - MaxSkew
      /\ clock = "jumps" => frame.start.mono = frame.asked /\ lag = 0
      /\ clock = "sleeps" => frame.start.wall = frame.asked /\ skew = 0
  BY DEF HInv, StartTrue, ClocksOff
<1>. HIDE DEF due
<1>6. now < frame.asked + Remaining(j, at)
  BY <1>1, <1>2, <1>3, <1>4, <1>5
<1>7. now < Born[j] + Validity
  BY <1>1, <1>2, <1>6
<1>8. due.wall >= Born[j] - MaxSkew
  BY <1>1, <1>2, <1>3, <1>5, <1>6
<1>9. disk[j] = Absent /\ sent[j] = 0
  BY <1>1, <1>7 DEF HInv, Sound, Listed
<1>. QED BY <1>7, <1>8, <1>9 DEF due

LEMMA HInvInit == Init => HInv
<1>. SUFFICES ASSUME Init PROVE HInv
  OBVIOUS
<1>. QED
  BY TypeInit, HelperTimes
  DEF Init, HInv, ClocksOff, StartTrue, RunOpen, Sound, Executing, Absent

LEMMA HInvStep == HInv /\ TypeOK' /\ [Next]_vars => HInv'
<1>. SUFFICES ASSUME HInv, TypeOK', [Next]_vars PROVE HInv'
  OBVIOUS
<1>. USE DEF clocks, journal
<1>0. /\ TypeOK /\ mem = disk
      /\ now \in Nat /\ lag \in Nat /\ skew \in Int
      /\ disk \in [Jobs -> Entries] /\ frame \in Frames /\ sent \in [Jobs -> Nat]
      /\ Sound(disk)
  BY DEF HInv, TypeOK
<1>1. ASSUME NEW items, Sound(items), disk' \in {disk, items}, mem' = disk',
             UNCHANGED <<clocks, sent>>, pc' \in {"loop", "down"}
      PROVE  HInv'
  <2>1. Sound(disk)'
    BY <1>0, <1>1 DEF Sound
  <2>2. ClocksOff'
    BY <1>1 DEF HInv, ClocksOff
  <2>. QED BY <1>1, <2>1, <2>2 DEF HInv, StartTrue, RunOpen, Executing
<1>2. ASSUME NEW items, Sound(items), NEW next \in {"loop", "down", "receipt", "report"},
             NEW f, Save(items, next, f), UNCHANGED <<clocks, sent>>,
             next \in {"receipt", "report"} => items[f.job].phase # "absent"
      PROVE  HInv'
  <2>1. CASE pc' \in {"loop", "down"}
    BY <1>1, <1>2, <2>1, SaveShape
  <2>2. CASE pc' \notin {"loop", "down"}
    <3>1. pc' = next /\ frame' = f /\ disk' = items /\ mem' = disk'
      BY <1>2, <2>2, SaveShape DEF Go
    <3>2. Sound(disk)'
      BY <1>2, <3>1 DEF Sound
    <3>3. ClocksOff'
      BY <1>2 DEF HInv, ClocksOff
    <3>. QED BY <1>2, <2>2, <3>1, <3>2, <3>3 DEF HInv, StartTrue, RunOpen, Executing, job
  <2>. QED BY <2>1, <2>2
<1>3. ASSUME Exit \/ (Go("loop", NoFrame) /\ UNCHANGED journal), UNCHANGED <<clocks, sent>>
      PROVE  HInv'
  BY <1>0, <1>1, <1>3 DEF Exit, Go
<1>4. ASSUME NEW next \in {"receipt", "report"}, NEW f, Go(next, f), UNCHANGED journal,
             UNCHANGED <<clocks, sent>>, disk[f.job].phase # "absent"
      PROVE  HInv'
  <2>1. Sound(disk)'
    BY <1>0, <1>4 DEF Sound
  <2>2. ClocksOff'
    BY <1>4 DEF HInv, ClocksOff
  <2>. QED BY <1>0, <1>4, <2>1, <2>2 DEF HInv, StartTrue, RunOpen, Executing, Go, job
<1>5. CASE Start
  BY <1>5, <1>0, <1>1 DEF Start, Go
<1>6. CASE Receipt
  <2>1. job \in Jobs /\ disk[job].phase # "absent"
    BY <1>6 DEF Receipt, HInv, RunOpen, TypeOK
  <2>2. \/ Go("loop", NoFrame) /\ UNCHANGED journal
        \/ Save(Acknowledged(job), "loop", NoFrame)
        \/ Go("report", frame) /\ UNCHANGED journal
    BY <1>6 DEF Receipt
  <2>3. UNCHANGED <<clocks, crashes, sent>>
    BY <1>6 DEF Receipt
  <2>4. Sound(Acknowledged(job))
    BY <2>1, AckSound
  <2>5. disk[frame.job].phase # "absent"
    BY <2>1 DEF job
  <2>. QED BY <1>2, <1>3, <1>4, <2>2, <2>3, <2>4, <2>5
<1>7. CASE Poll
  <2>. DEFINE f == [NoFrame EXCEPT !.start = Clocks, !.asked = now]
  <2>1. f.start = Clocks /\ f.asked = now
    BY DEF NoFrame
  <2>2. pc' = "poll" /\ frame' = f /\ UNCHANGED <<clocks, journal, crashes, sent>>
    BY <1>7 DEF Poll, Go
  <2>3. Sound(disk)' /\ ClocksOff'
    BY <1>0, <2>2 DEF Sound, ClocksOff, HInv
  <2>. HIDE DEF f
  <2>4. StartTrue'
    <3>1. /\ frame'.start.mono = now - lag /\ frame'.start.wall = now + skew
          /\ frame'.asked = now /\ now' = now /\ clock' = clock
      BY <1>0, <2>1, <2>2, ClockTyped
    <3>2. ClocksOff /\ MaxSkew \in Nat
      BY HelperTimes DEF HInv
    <3>. QED BY <1>0, <3>1, <3>2 DEF StartTrue, ClocksOff
  <2>. QED BY <1>0, <2>2, <2>3, <2>4 DEF HInv, RunOpen, Executing
<1>8. CASE Fail
  <2>1. job \in Jobs /\ disk[job].phase # "absent"
    BY <1>8 DEF Fail, HInv, RunOpen, TypeOK, Executing
  <2>2. Sound(Phase(job, "failed"))
    BY <2>1, PhaseSound
  <2>3. Phase(job, "failed")[For(job).job].phase = "failed"
    BY <1>0, <2>1, EntryTyped, FrameTyped DEF Phase
  <2>. QED BY <1>2, <1>8, <2>2, <2>3 DEF Fail
<1>9. CASE AskPermit
  <2>. DEFINE f == [frame EXCEPT !.start = Clocks, !.asked = now]
  <2>1. /\ f.start = Clocks /\ f.asked = now
        /\ f.job = frame.job /\ f.count = frame.count
    BY <1>0 DEF Frames
  <2>. HIDE DEF f
  <2>2. /\ pc = "reserved" /\ pc' = "authorize" /\ frame' = f
        /\ UNCHANGED <<clocks, journal, crashes, sent>>
    BY <1>9 DEF AskPermit, Go, f
  <2>3. Sound(disk)' /\ ClocksOff'
    BY <1>0, <2>2 DEF Sound, ClocksOff, HInv
  <2>4. StartTrue'
    <3>1. /\ frame'.start.mono = now - lag /\ frame'.start.wall = now + skew
          /\ frame'.asked = now /\ now' = now /\ clock' = clock
      BY <1>0, <2>1, <2>2, ClockTyped
    <3>2. ClocksOff /\ MaxSkew \in Nat
      BY HelperTimes DEF HInv
    <3>. QED BY <1>0, <3>1, <3>2 DEF StartTrue, ClocksOff
  <2>5. RunOpen'
    BY <2>1, <2>2 DEF HInv, RunOpen, Executing, job
  <2>. QED BY <1>0, <2>2, <2>3, <2>4, <2>5 DEF HInv
<1>10. CASE SendPacket
  <2>. DEFINE f == [frame EXCEPT !.count = @ + 1]
  <2>1. f.job = frame.job /\ f.count = frame.count + 1
    BY <1>0 DEF Frames
  <2>. HIDE DEF f
  <2>2. /\ pc = "send" /\ pc' = "send" /\ frame' = f
        /\ UNCHANGED <<clocks, journal, crashes>>
        /\ job \in Jobs /\ sent' = [sent EXCEPT ![job] = @ + 1]
    BY <1>10 DEF SendPacket, Go, f, HInv, TypeOK, Executing
  <2>3. disk[job].phase = "reserved" /\ ~disk[job].ack /\ sent[job] = frame.count
    BY <2>2 DEF HInv, RunOpen, Executing
  <2>4. /\ sent'[job] = sent[job] + 1
        /\ \A k \in Jobs \ {job} : sent'[k] = sent[k]
    BY <1>0, <2>2
  <2>5. Sound(disk)'
    BY <1>0, <2>2, <2>3, <2>4 DEF Sound
  <2>6. RunOpen'
    BY <2>1, <2>2, <2>3, <2>4 DEF RunOpen, Executing, job
  <2>7. ClocksOff' /\ StartTrue'
    BY <2>2 DEF ClocksOff, HInv, StartTrue
  <2>. QED BY <1>0, <2>2, <2>5, <2>6, <2>7 DEF HInv
<1>11. CASE RecordSent
  <2>1. job \in Jobs /\ disk[job].phase # "absent" /\ sent[job] = Packets
    BY <1>11 DEF RecordSent, HInv, RunOpen, TypeOK, Executing
  <2>2. Sound(Phase(job, "sent"))
    BY <2>1, PhaseSound
  <2>3. Phase(job, "sent")[For(job).job].phase = "sent"
    BY <1>0, <2>1, EntryTyped, FrameTyped DEF Phase
  <2>. QED BY <1>2, <1>11, <2>2, <2>3 DEF RecordSent
<1>12. ASSUME NEW j \in Jobs, Recover(j) PROVE HInv'
  <2>1. disk[j].phase # "absent" /\ UNCHANGED <<clocks, crashes, sent>>
    BY <1>0, <1>12 DEF Recover, Unacknowledged, Listed
  <2>2. Sound(Phase(j, "failed")) /\ For(j).job = j
    BY <2>1, PhaseSound, FrameTyped
  <2>3. Phase(j, "failed")[For(j).job].phase = "failed"
    BY <1>0, <2>2, EntryTyped DEF Phase
  <2>4. \/ Save(Phase(j, "failed"), "receipt", For(j))
        \/ Go("receipt", For(j)) /\ UNCHANGED journal
    BY <1>12 DEF Recover
  <2>. QED BY <1>2, <1>4, <2>1, <2>2, <2>3, <2>4
<1>13. ASSUME NEW reply, ReportReply(reply) PROVE HInv'
  <2>1. job \in Jobs /\ disk[job].phase # "absent"
    BY <1>13 DEF ReportReply, HInv, RunOpen, TypeOK
  <2>2. Sound(Acknowledged(job))
    BY <2>1, AckSound
  <2>. QED BY <1>2, <1>3, <1>13, <2>2 DEF ReportReply
<1>14. ASSUME NEW reply, PollReply(reply) PROVE HInv'
  BY <1>3, <1>14 DEF PollReply
<1>15. ASSUME NEW reply, AuthorizeFailed(reply) PROVE HInv'
  <2>1. job \in Jobs /\ disk[job].phase # "absent"
    BY <1>15 DEF AuthorizeFailed, HInv, RunOpen, TypeOK, Executing
  <2>2. Sound(Phase(job, "failed"))
    BY <2>1, PhaseSound
  <2>. QED BY <1>2, <1>15, <2>2 DEF AuthorizeFailed
<1>16. ASSUME NEW j \in Jobs, NEW at \in frame.asked .. now, at >= Born[j],
              Remaining(j, at) > 0, Deliver(j, Remaining(j, at))
       PROVE  HInv'
  <2>. DEFINE due == Later(frame.start, Remaining(j, at))
              items == [Pruned EXCEPT ![j] = Reserved(due.wall)]
              f == [For(j) EXCEPT !.deadline = due]
  <2>0. at \in Nat /\ frame.asked <= at /\ at <= now
    BY <1>0 DEF Frames
  <2>1. CASE Listed(j) /\ Go("receipt", For(j)) /\ UNCHANGED journal
    <3>1. disk[For(j).job].phase # "absent"
      BY <1>0, <2>1, FrameTyped DEF Listed
    <3>. QED BY <1>4, <1>16, <2>1, <3>1 DEF Deliver
  <2>2. CASE (Go("loop", NoFrame) /\ UNCHANGED journal) \/ Exit
    BY <1>3, <1>16, <2>2 DEF Deliver
  <2>3. CASE ~Listed(j) /\ WithinDeadline(due) /\ Save(items, "reserved", f)
    <3>1. /\ disk[j] = Absent /\ sent[j] = 0
          /\ due.wall >= Born[j] - MaxSkew
      BY <1>16, <2>0, <2>3, ReserveFresh DEF Deliver
    <3>2. Pruned \in [Jobs -> {Absent} \cup Entries] /\ Sound(Pruned)
      BY <1>0, PruneSound DEF Pruned
    <3>3. /\ items[j].phase = "reserved" /\ ~items[j].ack /\ items[j].expires = due.wall
          /\ \A k \in Jobs \ {j} : items[k] = Pruned[k]
      BY <3>2 DEF Reserved
    <3>4. f.job = j /\ f.count = 0
      <4>1. due \in Instants
        <5>1. frame.start \in Instants /\ Remaining(j, at) \in Int
          BY <1>0, <2>0, HelperTimes DEF Frames, Remaining
        <5>. QED BY <1>0, <5>1, ClockTyped
      <4>. QED BY <4>1, FrameTyped
    <3>. HIDE DEF items, f, due
    <3>5. Sound(items)
      BY <3>1, <3>2, <3>3 DEF Sound
    <3>6. UNCHANGED <<clocks, sent>>
      BY <1>16 DEF Deliver
    <3>7. CASE pc' = "down"
      BY <1>1, <2>3, <3>5, <3>6, <3>7, SaveShape
    <3>8. CASE pc' # "down"
      <4>1. pc' = "reserved" /\ frame' = f /\ disk' = items /\ mem' = disk'
        BY <2>3, <3>8, SaveShape DEF Go
      <4>2. Sound(disk)' /\ ClocksOff'
        BY <3>5, <3>6, <4>1 DEF Sound, HInv, ClocksOff
      <4>3. RunOpen'
        BY <3>1, <3>3, <3>4, <3>6, <4>1 DEF RunOpen, Executing, job
      <4>. QED BY <4>1, <4>2, <4>3 DEF HInv, StartTrue
    <3>. QED BY <3>7, <3>8
  <2>. QED BY <1>16, <2>1, <2>2, <2>3 DEF Deliver
<1>17. ASSUME NEW remaining \in 1 .. LeaseMax, Permitted(remaining) PROVE HInv'
  <2>. DEFINE lease == Later(frame.start, remaining - Margin)
              f == Permit(lease, frame.asked + remaining)
  <2>1. f.job = frame.job /\ f.count = frame.count
    BY <1>0 DEF Permit, Frames
  <2>. HIDE DEF f, lease
  <2>2. /\ pc = "authorize" /\ pc' = "send" /\ frame' = f
        /\ UNCHANGED <<clocks, journal, crashes, sent>>
    BY <1>17 DEF Permitted, Go, f, lease
  <2>3. Sound(disk)' /\ ClocksOff'
    BY <1>0, <2>2 DEF Sound, ClocksOff, HInv
  <2>4. RunOpen'
    BY <2>1, <2>2 DEF HInv, RunOpen, Executing, job
  <2>. QED BY <1>0, <2>2, <2>3, <2>4 DEF HInv, StartTrue
<1>18. CASE Crash
  BY <1>3, <1>18 DEF Crash
<1>19. CASE Tick
  <2>1. /\ now' = now + 1 /\ lag' \in {lag, lag + 1} /\ (clock = "jumps" => lag' = lag)
        /\ UNCHANGED <<skew, clock, journal, pc, frame, crashes, sent>>
    BY <1>19, <1>0 DEF Tick, HInv, TypeOK
  <2>2. Sound(disk)'
    <3>1. \A j \in Jobs : now' < Born[j] + Validity => now < Born[j] + Validity
      BY <1>0, <2>1, HelperTimes
    <3>. QED BY <1>0, <2>1, <3>1 DEF Sound
  <2>3. ClocksOff'
    BY <1>0, <2>1 DEF HInv, ClocksOff
  <2>4. StartTrue'
    <3>1. StartTrue /\ frame.asked \in Nat
      BY <1>0 DEF HInv, Frames
    <3>. QED BY <1>0, <2>1, <3>1 DEF StartTrue
  <2>5. RunOpen'
    BY <2>1 DEF HInv, RunOpen, job
  <2>. QED BY <1>0, <2>1, <2>2, <2>3, <2>4, <2>5 DEF HInv
<1>20. CASE SetClock
  <2>1. /\ clock = "jumps" /\ skew' \in -MaxSkew .. MaxSkew
        /\ UNCHANGED <<now, lag, clock, journal, pc, frame, crashes, sent>>
    BY <1>20 DEF SetClock
  <2>2. Sound(disk)' /\ ClocksOff' /\ StartTrue' /\ RunOpen'
    BY <1>0, <2>1 DEF HInv, Sound, ClocksOff, StartTrue, RunOpen, job
  <2>. QED BY <1>0, <2>1, <2>2 DEF HInv
<1>21. CASE UNCHANGED vars
  BY <1>0, <1>21 DEF vars, HInv, Sound, ClocksOff, StartTrue, RunOpen, job
<1>22. CASE ServerReply
  BY <1>16, <1>17, <1>22 DEF ServerReply
<1>. QED
  BY <1>5, <1>6, <1>7, <1>8, <1>9, <1>10, <1>11, <1>12, <1>13, <1>14, <1>15, <1>18,
     <1>19, <1>20, <1>21, <1>22
  DEF Next, EngineStep

LEMMA HInvAlways == Spec => []HInv
<1>1. HInv /\ [Next]_vars => HInv'
  BY TypeStep, HInvStep DEF HInv
<1>. QED BY HInvInit, <1>1, PTL DEF Spec

\* Before the helper asks for a permit, and while it writes packets, its
\* reservation is on disk: a crash at any step leaves the trace of what may
\* have been sent.
THEOREM JournalFirst == Spec => []ReservedOnDisk
<1>1. HInv => ReservedOnDisk
  BY DEF HInv, RunOpen, ReservedOnDisk, Executing
<1>. QED BY <1>1, HInvAlways, PTL

\* No crash, lost reply or restart turns an incomplete execution into a result
\* that says sent.
THEOREM ReportsTrue == Spec => []ReportTrue
<1>1. HInv => ReportTrue
  BY DEF HInv, Sound, ReportTrue
<1>. QED BY <1>1, HInvAlways, PTL

-----------------------------------------------------------------------------
(***************************************************************************)
(* The helper implements WakeOnce.                                         *)
(***************************************************************************)

\* A step that starts no execution and forgets no job before it is over.
LEMMA ClosingStep ==
  ASSUME HInv, HInv', UNCHANGED sent, now' >= now,
         pc' \in Executing => pc \in Executing /\ job' = job,
         \A j \in Jobs : disk'[j] = Absent /\ now' < Born[j] + Validity => disk[j] = Absent
  PROVE  Once!Next
<1>. DEFINE S == {j \in Jobs : stage'[j] = "over"}
<1>1. now \in Nat /\ now' \in Nat /\ \A j \in Jobs : Born[j] + Validity \in Nat
  BY HelperTimes DEF HInv, TypeOK
<1>2. \A j \in Jobs : disk[j] = Absent => ~(job = j /\ pc \in Executing)
  BY DEF HInv, RunOpen, Absent
<1>3. ASSUME NEW j \in Jobs PROVE stage'[j] \in {stage[j], "over"}
  <2>1. CASE job' = j /\ pc' \in Executing
    BY <2>1 DEF stage
  <2>2. CASE ~(job' = j /\ pc' \in Executing) /\ disk'[j] = Absent /\ now' < Born[j] + Validity
    BY <1>1, <1>2, <2>2 DEF stage
  <2>3. CASE /\ ~(job' = j /\ pc' \in Executing)
             /\ disk'[j] # Absent \/ now' >= Born[j] + Validity
    BY <2>3 DEF stage
  <2>. QED BY <1>1, <2>1, <2>2, <2>3
<1>4. stage' = [j \in Jobs |-> IF j \in S THEN "over" ELSE stage[j]]
  <2>1. stage' = [j \in Jobs |-> stage'[j]]
    BY DEF stage
  <2>. QED BY <1>3, <2>1
<1>. QED BY <1>4 DEF Once!Next, Once!Close

LEMMA OnceInit == Init => Once!Init
<1>. SUFFICES ASSUME Init PROVE Once!Init
  OBVIOUS
<1>1. \A j \in Jobs : ~(now >= Born[j] + Validity) /\ disk[j] = Absent
  <2>. SUFFICES ASSUME NEW j \in Jobs
                PROVE  ~(now >= Born[j] + Validity) /\ disk[j] = Absent
    OBVIOUS
  <2>1. Born[j] \in Nat /\ Validity \in Nat \ {0}
    BY HelperTimes
  <2>2. now = 0 /\ disk[j] = Absent
    BY DEF Init
  <2>. QED BY <2>1, <2>2
<1>2. pc \notin Executing
  BY DEF Init, Executing
<1>3. stage = [j \in Jobs |-> "new"]
  BY <1>1, <1>2 DEF stage
<1>. QED BY <1>3 DEF Once!Init, Init

LEMMA OnceStep == HInv /\ HInv' /\ [Next]_vars => [Once!Next]_<<stage, sent>>
<1>. SUFFICES ASSUME HInv, HInv', [Next]_vars PROVE [Once!Next]_<<stage, sent>>
  OBVIOUS
<1>. USE DEF clocks, journal
<1>0. /\ TypeOK /\ mem = disk /\ now \in Nat
      /\ disk \in [Jobs -> Entries] /\ frame \in Frames /\ sent \in [Jobs -> Nat]
  BY DEF HInv, TypeOK
<1>1. ASSUME UNCHANGED sent, now' \in {now, now + 1}, disk' = disk,
             pc' \in Executing => pc \in Executing /\ job' = job
      PROVE  Once!Next
  BY <1>0, <1>1, ClosingStep, HelperTimes
<1>2. ASSUME NEW items, NEW next \in {"loop", "down", "receipt", "report"}, NEW f,
             Save(items, next, f), UNCHANGED <<clocks, sent>>,
             \A k \in Jobs : items[k] = Absent => disk[k] = Absent
      PROVE  Once!Next
  BY <1>0, <1>2, ClosingStep, SaveShape DEF Go, Executing
<1>3. ASSUME Exit \/ (pc' \notin Executing /\ UNCHANGED journal), UNCHANGED <<clocks, sent>>
      PROVE  Once!Next
  BY <1>1, <1>3 DEF Exit, Go, Executing
<1>4. CASE Start
  BY <1>0, <1>1, <1>4 DEF Start, Go, Executing
<1>5. CASE Receipt
  <2>1. job \in Jobs /\ disk[job].phase # "absent"
    BY <1>5 DEF Receipt, HInv, RunOpen, TypeOK
  <2>2. \/ Go("loop", NoFrame) /\ UNCHANGED journal
        \/ Save(Acknowledged(job), "loop", NoFrame)
        \/ Go("report", frame) /\ UNCHANGED journal
    BY <1>5 DEF Receipt
  <2>3. UNCHANGED <<clocks, crashes, sent>>
    BY <1>5 DEF Receipt
  <2>. QED BY <1>2, <1>3, <2>1, <2>2, <2>3, AckSound DEF Go, Executing
<1>6. CASE Poll
  BY <1>3, <1>6 DEF Poll, Go, Executing
<1>7. CASE Fail
  <2>1. job \in Jobs /\ disk[job].phase # "absent"
    BY <1>7 DEF Fail, HInv, RunOpen, TypeOK, Executing
  <2>. QED BY <1>2, <1>7, <2>1, PhaseSound DEF Fail
<1>8. CASE AskPermit
  <2>1. [frame EXCEPT !.start = Clocks, !.asked = now].job = frame.job
    BY <1>0 DEF Frames
  <2>. QED BY <1>1, <1>8, <2>1 DEF AskPermit, Go, Executing, job
<1>9. CASE SendPacket
  <2>1. [frame EXCEPT !.count = @ + 1].job = frame.job
    BY <1>0 DEF Frames
  <2>2. /\ pc = "send" /\ pc' = "send" /\ frame.count < Packets /\ job \in Jobs
        /\ job' = job /\ disk' = disk /\ now' = now
        /\ sent' = [sent EXCEPT ![job] = @ + 1]
    BY <1>9, <2>1 DEF SendPacket, Go, job, TypeOK, HInv, Executing
  <2>3. sent[job] = frame.count /\ stage[job] = "open" /\ stage' = stage
    BY <2>2 DEF HInv, RunOpen, stage, Executing
  <2>. QED BY <2>2, <2>3 DEF Once!Next, Once!Packet
<1>10. CASE RecordSent
  <2>1. job \in Jobs /\ disk[job].phase # "absent" /\ sent[job] = Packets
    BY <1>10 DEF RecordSent, HInv, RunOpen, TypeOK, Executing
  <2>. QED BY <1>2, <1>10, <2>1, PhaseSound DEF RecordSent
<1>11. ASSUME NEW j \in Jobs, Recover(j) PROVE Once!Next
  <2>1. disk[j].phase # "absent" /\ UNCHANGED <<clocks, crashes, sent>>
    BY <1>0, <1>11 DEF Recover, Unacknowledged, Listed
  <2>2. \/ Save(Phase(j, "failed"), "receipt", For(j))
        \/ Go("receipt", For(j)) /\ UNCHANGED journal
    BY <1>11 DEF Recover
  <2>. QED BY <1>2, <1>3, <2>1, <2>2, PhaseSound DEF Go, Executing
<1>12. ASSUME NEW reply, ReportReply(reply) PROVE Once!Next
  <2>1. job \in Jobs /\ disk[job].phase # "absent"
    BY <1>12 DEF ReportReply, HInv, RunOpen, TypeOK
  <2>. QED BY <1>2, <1>3, <1>12, <2>1, AckSound DEF ReportReply, Go, Executing
<1>13. ASSUME NEW reply, PollReply(reply) PROVE Once!Next
  BY <1>3, <1>13 DEF PollReply, Go, Executing
<1>14. ASSUME NEW reply, AuthorizeFailed(reply) PROVE Once!Next
  <2>1. job \in Jobs /\ disk[job].phase # "absent"
    BY <1>14 DEF AuthorizeFailed, HInv, RunOpen, TypeOK, Executing
  <2>. QED BY <1>2, <1>14, <2>1, PhaseSound DEF AuthorizeFailed
<1>15. ASSUME NEW j \in Jobs, NEW at \in frame.asked .. now, at >= Born[j],
              Remaining(j, at) > 0, Deliver(j, Remaining(j, at))
       PROVE  Once!Next
  <2>. DEFINE due == Later(frame.start, Remaining(j, at))
              items == [Pruned EXCEPT ![j] = Reserved(due.wall)]
              f == [For(j) EXCEPT !.deadline = due]
  <2>0. at \in Nat /\ frame.asked <= at /\ at <= now
    BY <1>0 DEF Frames
  <2>1. CASE Go("receipt", For(j)) /\ UNCHANGED journal
    BY <1>3, <1>15, <2>1 DEF Deliver, Go, Executing
  <2>2. CASE (Go("loop", NoFrame) /\ UNCHANGED journal) \/ Exit
    BY <1>3, <1>15, <2>2 DEF Deliver, Go, Executing
  <2>3. CASE ~Listed(j) /\ WithinDeadline(due) /\ Save(items, "reserved", f)
    <3>1. disk[j] = Absent /\ now < Born[j] + Validity
      BY <1>15, <2>0, <2>3, ReserveFresh DEF Deliver
    <3>2. /\ items[j] # Absent
          /\ \A k \in Jobs \ {j} : items[k] = Pruned[k]
      BY DEF Reserved, Absent, Pruned
    <3>3. f.job = j
      <4>1. due \in Instants
        <5>1. frame.start \in Instants /\ Remaining(j, at) \in Int
          BY <1>0, <2>0, HelperTimes DEF Frames, Remaining
        <5>2. lag \in Nat /\ skew \in Int
          BY <1>0 DEF TypeOK
        <5>. QED BY <1>0, <5>1, <5>2, ClockTyped
      <4>. QED BY <4>1, FrameTyped
    <3>. HIDE DEF items, f, due
    <3>4. UNCHANGED <<clocks, sent>> /\ pc = "poll"
      BY <1>15 DEF Deliver
    <3>5. \A k \in Jobs : items[k] = Absent /\ now < Born[k] + Validity => disk[k] = Absent
      BY <3>2, PruneSound
    <3>6. CASE pc' = "down"
      BY <1>0, <2>3, <3>4, <3>5, <3>6, SaveShape, ClosingStep DEF Executing
    <3>7. CASE pc' # "down"
      <4>1. pc' = "reserved" /\ job' = j /\ disk' = items
        BY <2>3, <3>3, <3>7, SaveShape DEF Go, job
      <4>2. stage[j] = "new"
        BY <3>1, <3>4, HelperTimes, <1>0 DEF stage, Executing
      <4>3. stage' = [stage EXCEPT ![j] = "open"]
        <5>1. \A k \in Jobs \ {j} : stage'[k] = stage[k]
          <6>1. ASSUME NEW k \in Jobs \ {j}, items[k] = Absent, disk[k] # Absent
                PROVE  now >= Born[k] + Validity
            BY <1>0, <3>5, <6>1, HelperTimes
          <6>2. ASSUME NEW k \in Jobs \ {j}, items[k] # Absent PROVE disk[k] # Absent
            BY <1>0, <3>2, <6>2 DEF Pruned
          <6>. QED BY <3>4, <4>1, <6>1, <6>2 DEF stage, Executing
        <5>2. stage'[j] = "open"
          BY <4>1 DEF stage, Executing
        <5>. QED BY <5>1, <5>2 DEF stage
      <4>. QED BY <3>4, <4>2, <4>3 DEF Once!Next, Once!Open
    <3>. QED BY <3>6, <3>7
  <2>. QED BY <1>15, <2>1, <2>2, <2>3 DEF Deliver
<1>16. ASSUME NEW remaining \in 1 .. LeaseMax, Permitted(remaining) PROVE Once!Next
  <2>1. \A l, e : Permit(l, e).job = frame.job
    BY <1>0 DEF Permit, Frames
  <2>. QED BY <1>1, <1>16, <2>1 DEF Permitted, Go, Executing, job
<1>17. CASE Crash
  BY <1>3, <1>17 DEF Crash
<1>18. CASE Tick
  BY <1>1, <1>18 DEF Tick, job
<1>19. CASE SetClock
  BY <1>1, <1>19 DEF SetClock, job
<1>20. CASE UNCHANGED vars
  BY <1>20 DEF vars, stage, job
<1>21. CASE ServerReply
  BY <1>15, <1>16, <1>21 DEF ServerReply
<1>. QED
  BY <1>4, <1>5, <1>6, <1>7, <1>8, <1>9, <1>10, <1>11, <1>12, <1>13, <1>14, <1>17,
     <1>18, <1>19, <1>20, <1>21
  DEF Next, EngineStep

\* The engine implements WakeOnce: whatever the server delivers again, the
\* network loses, the disk refuses or the power cuts, the packets of a request
\* are written by one execution, and not more than Packets of them.
THEOREM Implements == Spec => AtMostOnce
<1>1. Init => Once!Init
  BY OnceInit
<1>2. HInv /\ HInv' /\ [Next]_vars => [Once!Next]_<<stage, sent>>
  BY OnceStep
<1>. QED BY <1>1, <1>2, HInvAlways, PTL DEF Spec, AtMostOnce, Once!Spec

-----------------------------------------------------------------------------
(***************************************************************************)
(* Packets are written within the permit.                                  *)
(***************************************************************************)

\* A clock that sleeps only gets later, so the distance of the two clocks at
\* the poll is not more than at the authorization; the deadline of the packets
\* is not after the permit's end, on the clock that is right.
PermitInv ==
  /\ clock = "sleeps" =>
       /\ pc = "poll" => frame.start.wall - frame.start.mono <= lag
       /\ pc \in {"reserved", "authorize"} =>
            frame.deadline.wall - frame.deadline.mono <= lag
       /\ pc = "authorize" => frame.deadline.wall - frame.deadline.mono
                                <= frame.start.wall - frame.start.mono
       /\ pc = "send" => frame.deadline.wall <= frame.permit
  /\ clock = "jumps" /\ pc = "send" => frame.deadline.mono <= frame.permit

Quiet == {"down", "loop", "receipt", "report"}

LEMMA PermitInit == Init => PermitInv
BY DEF Init, PermitInv

LEMMA PermitStep == HInv /\ PermitInv /\ [Next]_vars => PermitInv'
<1>. SUFFICES ASSUME HInv, PermitInv, [Next]_vars PROVE PermitInv'
  OBVIOUS
<1>. USE DEF clocks, journal
<1>0. /\ now \in Nat /\ lag \in Nat /\ skew \in Int /\ clock \in {"sleeps", "jumps"}
      /\ frame \in Frames /\ frame.start \in Instants /\ frame.deadline \in Instants
      /\ frame.asked \in Nat
  BY DEF HInv, TypeOK, Frames
<1>c. clock = "sleeps" => Clocks.wall - Clocks.mono = lag
  <2>1. clock = "sleeps" => skew = 0
    BY DEF HInv, ClocksOff
  <2>. QED BY <1>0, <2>1 DEF Clocks
<1>q. ASSUME pc' \in Quiet PROVE PermitInv'
  BY <1>q DEF PermitInv, Quiet
<1>e. ASSUME Exit PROVE PermitInv'
  BY <1>e, <1>q DEF Exit, Go, Quiet
<1>s. ASSUME NEW items, NEW next \in Quiet, NEW f, Save(items, next, f) PROVE PermitInv'
  BY <1>s, <1>q DEF Save, Go, Quiet
<1>1. CASE Start
  BY <1>1, <1>q DEF Start, Go, Quiet
<1>2. CASE Receipt
  BY <1>2, <1>q, <1>s DEF Receipt, Go, Quiet
<1>3. CASE Poll
  <2>1. pc' = "poll" /\ frame'.start = Clocks /\ UNCHANGED clocks
    BY <1>0, <1>3 DEF Poll, Go, NoFrame
  <2>2. clock = "sleeps" => frame'.start.wall - frame'.start.mono = lag'
    BY <1>c, <2>1
  <2>3. lag' \in Nat
    BY <1>0, <2>1 DEF clocks
  <2>. QED BY <2>1, <2>2, <2>3 DEF PermitInv, clocks
<1>4. CASE Fail
  BY <1>4, <1>s DEF Fail, Quiet
<1>5. CASE AskPermit
  <2>1. /\ pc = "reserved" /\ pc' = "authorize" /\ UNCHANGED clocks
        /\ frame'.start = Clocks /\ frame'.deadline = frame.deadline
    BY <1>0, <1>5 DEF AskPermit, Go, Frames
  <2>. QED BY <1>0, <1>c, <2>1 DEF PermitInv
<1>6. CASE SendPacket
  <2>1. /\ pc = "send" /\ pc' = "send" /\ UNCHANGED clocks
        /\ frame'.permit = frame.permit /\ frame'.deadline = frame.deadline
    BY <1>0, <1>6 DEF SendPacket, Go, Frames
  <2>. QED BY <2>1 DEF PermitInv
<1>7. CASE RecordSent
  BY <1>7, <1>s DEF RecordSent, Quiet
<1>8. CASE \E j \in Jobs : Recover(j)
  BY <1>8, <1>q, <1>s DEF Recover, Go, Quiet
<1>9. CASE \E reply \in {"accepted", "rejected", "fatal", "error"} : ReportReply(reply)
  BY <1>9, <1>q, <1>e, <1>s DEF ReportReply, Go, Quiet
<1>10. CASE \E reply \in {"none", "fatal", "error"} :
              PollReply(reply) \/ (reply # "none" /\ AuthorizeFailed(reply))
  BY <1>10, <1>q, <1>e, <1>s DEF PollReply, AuthorizeFailed, Go, Quiet
<1>11. ASSUME NEW j \in Jobs, NEW remaining \in Int, Deliver(j, remaining) PROVE PermitInv'
  <2>. DEFINE due == Later(frame.start, remaining)
              items == [Pruned EXCEPT ![j] = Reserved(due.wall)]
              f == [For(j) EXCEPT !.deadline = due]
  <2>1. pc = "poll" /\ UNCHANGED clocks
    BY <1>11 DEF Deliver
  <2>2. CASE pc' \in Quiet
    BY <1>q, <2>2
  <2>3. CASE pc' \notin Quiet
    <3>1. Save(items, "reserved", f)
      BY <1>11, <2>3 DEF Deliver, Exit, Go, Quiet
    <3>2. pc' = "reserved" /\ frame' = f
      BY <2>3, <3>1 DEF Save, Go, Quiet
    <3>3. f.deadline = due
      BY DEF For, NoFrame
    <3>4. due.wall - due.mono = frame.start.wall - frame.start.mono
      BY <1>0 DEF Later, Instants
    <3>. QED BY <2>1, <3>2, <3>3, <3>4 DEF PermitInv
  <2>. QED BY <2>2, <2>3
<1>12. ASSUME NEW remaining \in 1 .. LeaseMax, Permitted(remaining) PROVE PermitInv'
  <2>. DEFINE lease == Later(frame.start, remaining - Margin)
  <2>1. /\ pc = "authorize" /\ pc' = "send" /\ UNCHANGED clocks
        /\ frame'.permit = frame.asked + remaining
        /\ frame'.deadline = IF lease.mono < frame.deadline.mono THEN lease ELSE frame.deadline
    BY <1>0, <1>12 DEF Permitted, Permit, Go, Frames
  <2>2. /\ lease.mono = frame.start.mono + remaining - Margin
        /\ lease.wall = frame.start.wall + remaining - Margin
        /\ Margin \in Nat /\ remaining \in Nat
    BY <1>0, HelperTimes DEF Later, Instants
  <2>3. /\ {frame.start.mono, frame.start.wall} \subseteq Int
        /\ {frame.deadline.mono, frame.deadline.wall} \subseteq Int
    BY <1>0 DEF Instants
  <2>4. CASE clock = "sleeps"
    <3>1. frame.start.wall = frame.asked
      BY <2>1, <2>4 DEF HInv, StartTrue
    <3>2. frame.deadline.wall - frame.deadline.mono <= frame.start.wall - frame.start.mono
      BY <2>1, <2>4 DEF PermitInv
    <3>. HIDE DEF lease
    <3>. QED BY <1>0, <2>1, <2>2, <2>3, <2>4, <3>1, <3>2 DEF PermitInv
  <2>5. CASE clock = "jumps"
    <3>1. frame.start.mono = frame.asked
      BY <2>1, <2>5 DEF HInv, StartTrue
    <3>. HIDE DEF lease
    <3>. QED BY <1>0, <2>1, <2>2, <2>3, <2>5, <3>1 DEF PermitInv
  <2>. QED BY <1>0, <2>4, <2>5
<1>13. CASE Crash
  BY <1>13, <1>e DEF Crash
<1>14. CASE Tick
  BY <1>0, <1>14 DEF Tick, PermitInv, Instants
<1>15. CASE SetClock
  BY <1>15 DEF SetClock, PermitInv
<1>16. CASE UNCHANGED vars
  BY <1>16 DEF vars, PermitInv
<1>17. CASE ServerReply
  <2>1. ASSUME NEW j \in Jobs, NEW at \in frame.asked .. now PROVE Remaining(j, at) \in Int
    BY <1>0, HelperTimes DEF Remaining
  <2>. QED BY <1>11, <1>12, <1>17, <2>1 DEF ServerReply
<1>. QED
  BY <1>1, <1>2, <1>3, <1>4, <1>5, <1>6, <1>7, <1>8, <1>9, <1>10, <1>13, <1>14, <1>15,
     <1>16, <1>17
  DEF Next, EngineStep

\* A packet is written only while the server's permit runs in true time, on
\* every machine one of whose clocks is right, however long its calls take,
\* and whatever part of the permit is kept back.
THEOREM PermitKept == Spec => WithinPermit
<1>1. ASSUME HInv, PermitInv, [Next]_vars, sent' # sent PROVE now < frame.permit
  <2>1. WithinDeadline(frame.deadline) /\ pc = "send"
    <3>1. \/ SendPacket \/ UNCHANGED sent
      BY <1>1 DEF Next, EngineStep, ServerReply, vars, Start, Receipt, Poll, Fail, AskPermit,
                  RecordSent, Recover, ReportReply, PollReply, AuthorizeFailed, Deliver,
                  Permitted, Crash, Tick, SetClock
    <3>. QED BY <1>1, <3>1 DEF SendPacket
  <2>2. /\ now \in Nat /\ lag \in Nat /\ skew \in Int /\ clock \in {"sleeps", "jumps"}
        /\ frame.permit \in Nat
        /\ {frame.deadline.mono, frame.deadline.wall} \subseteq Int
    BY <1>1 DEF HInv, TypeOK, Frames, Instants
  <2>3. now - lag < frame.deadline.mono /\ now + skew < frame.deadline.wall
    BY <2>1 DEF WithinDeadline, Clocks
  <2>4. /\ clock = "jumps" => lag = 0
        /\ clock = "sleeps" => skew = 0
    BY <1>1 DEF HInv, ClocksOff
  <2>. QED BY <1>1, <2>1, <2>2, <2>3, <2>4 DEF PermitInv
<1>. QED BY <1>1, HInvAlways, PermitInit, PermitStep, PTL DEF Spec, WithinPermit

=============================================================================

------------------------------ MODULE WakeOnce ------------------------------
(***************************************************************************)
(* What a wake helper promises for each request: its packets are written   *)
(* by one execution at most, whatever is delivered again, lost, restarted  *)
(* or refused, and never more than Packets of them.                        *)
(***************************************************************************)
EXTENDS Naturals

CONSTANTS Jobs, Packets

VARIABLES stage, packets

Init ==
  /\ stage = [j \in Jobs |-> "new"]
  /\ packets = [j \in Jobs |-> 0]

Open(j) ==
  /\ stage[j] = "new"
  /\ stage' = [stage EXCEPT ![j] = "open"]
  /\ UNCHANGED packets

Packet(j) ==
  /\ stage[j] = "open"
  /\ packets[j] < Packets
  /\ packets' = [packets EXCEPT ![j] = @ + 1]
  /\ UNCHANGED stage

\* Executed, given up, or never to be executed.
Close(S) ==
  /\ stage' = [j \in Jobs |-> IF j \in S THEN "over" ELSE stage[j]]
  /\ UNCHANGED packets

Next ==
  \/ \E j \in Jobs : Open(j) \/ Packet(j)
  \/ \E S \in SUBSET Jobs : Close(S)

Spec == Init /\ [][Next]_<<stage, packets>>
=============================================================================

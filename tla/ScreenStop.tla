----------------------------- MODULE ScreenStop -----------------------------
(***************************************************************************)
(* ScreenRelay with a record of the connections whose viewer has left the  *)
(* screen by /session/screen/stop.                                         *)
(***************************************************************************)
EXTENDS ScreenRelay

VARIABLE stopped   \* ghost: connections that were open when their viewer stopped

StopInit == Init /\ stopped = {}

Stops(t) ==
  /\ StopViewerScreen(t)
  /\ stopped' = stopped \cup {w \in Links : link[w].token = t /\ Receiving(w)}

\* A stop need not be recorded: StopHolds speaks of those that are.
StopNext == (\E t \in Tokens : Stops(t)) \/ (Next /\ UNCHANGED stopped)

StopSpec == StopInit /\ [][StopNext]_<<vars, stopped>>

\* A viewer that has left the screen does not make the host capture again
\* until it fetches or connects: the leases of its connections have ended
\* (capture_tests: after the stop, the lease ws:1 is not alive).
StopHolds == \A w \in stopped : leases[w] = NoLease
=============================================================================

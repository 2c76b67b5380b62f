---------------------------- MODULE MCHostSwitch ----------------------------
(* An instance of HostSwitch for TLC.  A call is lost where no way of a viewer *)
(* is looked at: RevokedStays speaks of no other behaviours.                   *)
EXTENDS HostSwitch, TLC

CONSTANTS d1, h1, h2, h3

OneLoss == [w \in Ways |-> IF w = "none" THEN 1 ELSE 0]
=============================================================================

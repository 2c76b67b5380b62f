--------------------------- MODULE MCScreenRelay ---------------------------
(* An instance of ScreenRelay for TLC. *)
EXTENDS ScreenRelay, TLC

CONSTANTS t1, w1
=============================================================================

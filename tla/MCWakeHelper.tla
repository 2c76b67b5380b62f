---------------------------- MODULE MCWakeHelper ----------------------------
(* Two jobs, the second created when the first has expired and may or may not *)
(* have left the journal, which has room for one.                             *)
EXTENDS WakeHelper, TLC

CONSTANTS j1, j2

BornApart == j1 :> 0 @@ j2 :> 3
=============================================================================

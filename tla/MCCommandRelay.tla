--------------------------- MODULE MCCommandRelay ---------------------------
(* An instance of CommandRelay for TLC: two calls that are interchangeable. *)
EXTENDS CommandRelay, TLC

CONSTANTS c1, c2

Symmetry == Permutations(Calls)
=============================================================================

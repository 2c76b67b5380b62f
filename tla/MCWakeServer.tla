---------------------------- MODULE MCWakeServer ----------------------------
(* Instances of WakeServer for TLC. *)
EXTENDS WakeServer, TLC

\* The tasks that serve calls are interchangeable.
Symmetry == Permutations(Handlers)
=============================================================================

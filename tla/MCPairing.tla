------------------------------ MODULE MCPairing ------------------------------
(* Pairing, for TLC. *)
EXTENDS Pairing, TLC

\* Handlers are alike, and so are the tokens that desktops choose.
Alike == Permutations(Handlers) \cup Permutations(Tokens)
=============================================================================

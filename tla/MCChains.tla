------------------------------ MODULE MCChains ------------------------------
(* Two siblings, one of them driven, for TLC.                               *)
EXTENDS Chains, TLC

CONSTANTS n1, n2

NodeSym == Permutations(Node)
=============================================================================

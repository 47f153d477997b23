---------------------------- MODULE MCRefinement ----------------------------
(* Rows and bounds for model-checking Refinement.                          *)
EXTENDS Refinement, TLC

CONSTANTS r1, r2

RowSymmetry == Permutations({r1, r2})
=============================================================================

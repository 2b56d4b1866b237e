---------------------------- MODULE MCReviewSync ----------------------------
(* Finite instances of ReviewSync.                                         *)
EXTENDS ReviewSync, TLC

CONSTANTS r1, r2

RunSymmetry == Permutations({r1, r2})
=============================================================================

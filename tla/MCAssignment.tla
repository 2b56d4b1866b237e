---------------------------- MODULE MCAssignment ----------------------------
(* Finite instances of Assignment.                                         *)
EXTENDS Assignment, TLC

CONSTANTS alice, bob, carol, core, r1, r2

RunSymmetry == Permutations({r1, r2})
=============================================================================

--------------------------- MODULE MCGitLabReview ---------------------------
(* Finite instances of GitLabReview.                                       *)
EXTENDS GitLabReview, TLC

CONSTANTS r1, r2

RunSymmetry == Permutations({r1, r2})
=============================================================================

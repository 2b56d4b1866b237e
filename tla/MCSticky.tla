------------------------------ MODULE MCSticky ------------------------------
(* Finite instances of Sticky.                                             *)
EXTENDS Sticky, TLC

CONSTANTS r1, r2, approve, block

RunAndTextSymmetry ==
    {f @@ g : f \in Permutations({r1, r2}), g \in Permutations({approve, block})}
=============================================================================

----------------------------- MODULE MCDispatch -----------------------------
(* Finite instances of Dispatch.                                           *)
EXTENDS Dispatch

CONSTANTS p1, p2
=============================================================================

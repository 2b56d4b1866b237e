------------------------------ MODULE MCReport ------------------------------
(* Finite instances of Report.                                             *)
EXTENDS Report

CONSTANTS Offered, MaxActions

\* Every decision of up to MaxActions actions of the kinds offered.
AllDecisions == UNION {[1..n -> Offered] : n \in 0..MaxActions}
=============================================================================

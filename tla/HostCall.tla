------------------------------ MODULE HostCall ------------------------------
(***************************************************************************)
(* What the other modules assume of a call of the host: it is open until   *)
(* it ends, its work is done up to MaxRetries + 1 times whatever the run    *)
(* learns of it, and one that ends well has done it.                       *)
(***************************************************************************)
EXTENDS Naturals

CONSTANT MaxRetries

VARIABLES
    phase,     \* "idle", "open", or how the call ended: "ok" or "failed"
    works      \* how often the host has done what it was asked for

callVars == <<phase, works>>

Init == phase = "idle" /\ works = 0

Call == phase # "open" /\ phase' = "open" /\ works' = 0

\* One attempt: done or not, heard of or not.
Attempt ==
    /\ phase = "open"
    /\ works' \in {works, works + 1}
    /\ works' <= MaxRetries + 1
    /\ phase' \in {"open", "ok", "failed"}
    /\ phase' = "ok" => works' > works

Next == Call \/ Attempt

Spec == Init /\ [][Next]_callVars
=============================================================================

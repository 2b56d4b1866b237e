---------------------------- MODULE VerdictStore ----------------------------
(***************************************************************************)
(* What Talooner promises of its verdict on a pull request, seen by a      *)
(* branch protection rule: which kinds of verdict stand.  A verdict is     *)
(* issued only where none stands and withdrawn before another takes its    *)
(* place, so the pull request is never approved and blocked at once.       *)
(***************************************************************************)
VARIABLE verdicts   \* the kinds of Talooner review that stand

Kinds == {"APPROVED", "CHANGES_REQUESTED"}

Init == verdicts = {}

Issue(v) == verdicts = {} /\ verdicts' = {v}

Withdraw == verdicts # {} /\ verdicts' = {}

Next == Withdraw \/ \E v \in Kinds : Issue(v)

Spec == Init /\ [][Next]_verdicts
=============================================================================

------------------------------ MODULE Decision ------------------------------
(***************************************************************************)
(* What a decision of the rules amounts to: internal/action checks that it *)
(* can be carried out and by which executors, internal/review reads its    *)
(* verdict, internal/check the check run's conclusion, internal/run the    *)
(* body of the sticky comment.  A decision is the sequence of actions the  *)
(* cluster returns, in its order, each represented by its verb or by what  *)
(* is wrong with it.                                                       *)
(***************************************************************************)
EXTENDS Sequences, Naturals

\* notify has no executor; an unknown verb cannot be decoded; the target of an
\* assign or require may resolve to nobody, or an argument be missing.
Verbs == {"approve", "block", "comment", "emit", "assign", "require", "notify"}
ActionKinds == Verbs \cup {"unknown", "incomplete"}

Asks(decision, verb) == \E k \in DOMAIN decision : decision[k] = verb

\* Which executor the registry of report names for a verb.
Executor(kind) ==
    CASE kind \in {"approve", "block"} -> "review"
      [] kind \in {"assign", "require"} -> "assignment"
      [] kind \in {"comment", "emit"} -> "derived"
      [] OTHER -> "nobody"

\* Mutant: only the first action is looked at.
PerformsTheFirst(decision) ==
    decision # <<>> => Executor(decision[1]) # "nobody"

\* FromProtos, assignment.New and Validate: all of the decision or none of it.
Performable(decision) ==
    \A k \in DOMAIN decision : Executor(decision[k]) # "nobody"

\* Mutant: an approval wins over a block.
ApprovesOverBlock(decision) ==
    IF Asks(decision, "approve") THEN "APPROVED"
    ELSE IF Asks(decision, "block") THEN "CHANGES_REQUESTED" ELSE "none"

\* review.Verdict, as the state of the review it asks for.
Verdict(decision) ==
    IF Asks(decision, "block") THEN "CHANGES_REQUESTED"
    ELSE IF Asks(decision, "approve") THEN "APPROVED" ELSE "none"

\* check.Decision.
Conclusion(decision) ==
    IF Asks(decision, "block") THEN "failure"
    ELSE IF Asks(decision, "approve") THEN "success"
    ELSE IF decision # <<>> THEN "neutral" ELSE "success"

\* What the decision leaves assigned or requested of somebody.
Assigns(decision) == Asks(decision, "assign") \/ Asks(decision, "require")

\* reviewComment: the body, and whether a comment is created for it.
Body(decision, warned) ==
    IF Asks(decision, "comment") \/ warned THEN "findings"
    ELSE IF decision = <<>> THEN "no rule fired" ELSE "resolved"

EditOnly(decision, warned) == Body(decision, warned) # "findings"

\* The executors report calls, in its order: those of the actions, and then
\* the review and the assignments once more, for what no action asks for.
Work(decision) ==
    [k \in DOMAIN decision |-> Executor(decision[k])] \o <<"review", "assignment">>
=============================================================================

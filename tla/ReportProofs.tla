---------------------------- MODULE ReportProofs ----------------------------
(***************************************************************************)
(* Proofs about Report, for every set of decisions of any length, any      *)
(* number of heads and every combination of failures.                      *)
(***************************************************************************)
EXTENDS Report, SequenceTheorems, FiniteSetTheorems, TLAPS

\* The two halves of a decision's outcome agree: the check run fails exactly
\* when changes are requested, and an approval goes with a success.
THEOREM VerdictMatchesConclusion ==
    \A d \in Seq(ActionKinds) :
        /\ (Conclusion(d) = "failure") <=> (Verdict(d) = "CHANGES_REQUESTED")
        /\ (Verdict(d) = "APPROVED") => (Conclusion(d) = "success")
BY DEF Conclusion, Verdict

Executors == {"review", "assignment", "derived", "nobody"}

LEMMA ExecutorType == \A kind : Executor(kind) \in Executors
BY DEF Executor, Executors

\* Whatever the decision, the work ends with the review and the assignments.
LEMMA WorkEndsWithBoth ==
    ASSUME NEW d \in Seq(ActionKinds)
    PROVE  /\ Work(d) \in Seq(Executors)
           /\ Len(Work(d)) = Len(d) + 2
           /\ Work(d)[Len(d) + 1] = "review"
           /\ Work(d)[Len(d) + 2] = "assignment"
<1> DEFINE called == [k \in DOMAIN d |-> Executor(d[k])]
           last == <<"review", "assignment">>
<1>1. called \in Seq(Executors) /\ Len(called) = Len(d)
  <2>1. called \in [1..Len(d) -> Executors] /\ Len(d) \in Nat
    BY ExecutorType
  <2> QED
    BY <2>1, IsASeq
<1>2. last \in Seq(Executors) /\ Len(last) = 2 /\ last[1] = "review" /\ last[2] = "assignment"
  BY DEF Executors
<1>3. Work(d) = called \o last
  BY DEF Work
<1> HIDE DEF called, last
<1>4. /\ Work(d) \in Seq(Executors)
      /\ Len(Work(d)) = Len(d) + 2
      /\ \A i \in 1..(Len(d) + 2) :
           Work(d)[i] = IF i <= Len(d) THEN called[i] ELSE last[i - Len(d)]
  <2>1. called \o last \in Seq(Executors) /\ Len(called \o last) = Len(called) + Len(last)
    BY <1>1, <1>2, ConcatProperties
  <2>2. \A i \in 1..(Len(called) + Len(last)) :
          (called \o last)[i] = IF i <= Len(called) THEN called[i] ELSE last[i - Len(called)]
    BY <1>1, <1>2, ConcatProperties
  <2> QED
    BY <1>1, <1>2, <1>3, <2>1, <2>2
<1>5. Len(d) \in Nat
  BY LenProperties
<1> QED
  BY <1>2, <1>4, <1>5

-----------------------------------------------------------------------------
\* The decision at hand, and how much work it makes.
LEMMA DecisionType ==
    /\ \A d \in Decisions \cup {<<>>} : d \in Seq(ActionKinds) /\ Len(d) \in Nat
    /\ TypeOK => decision \in Seq(ActionKinds) /\ Len(Work(decision)) = Len(decision) + 2
<1>1. <<>> \in Seq(ActionKinds)
  BY EmptySeq
<1>2. Decisions \subseteq Seq(ActionKinds)
  BY ReportAssumption
<1>3. \A d \in Seq(ActionKinds) : Len(d) \in Nat /\ Len(Work(d)) = Len(d) + 2
  BY WorkEndsWithBoth, LenProperties
<1>4. TypeOK => decision \in Decisions \cup {<<>>}
  BY DEF TypeOK
<1> QED
  BY <1>1, <1>2, <1>3, <1>4

\* What a job has done so far: nothing before its work begins; the executors of
\* the steps behind it, and what they were asked for; no decision that cannot be
\* performed has come further than its evaluation; and a job that reports the
\* cluster's own error has made the check run neutral.
UnderWay ==
    /\ pc \notin {"work", "check", "failOpen"} => step = 0 /\ synced = {}
    /\ pc = "check" => AllDone
    /\ \A k \in 1..step : Work(decision)[k] \in synced \cup {"derived"}
    /\ pc \in {"work", "check"} =>
         /\ "review" \in synced => verdict = Verdict(decision)
         /\ "assignment" \in synced => assigned = Assigns(decision)
    /\ pc \in {"comment", "work", "check"} => Performable(decision)
    /\ pc \notin {"idle", "comment", "work", "check", "failOpen"} => decision = <<>>
    /\ pc = "brokenComment" => check[sha] = "neutral" \/ unwritten

LEMMA TypeInitially == Init => TypeOK /\ UnderWay
<1>1. 1 \in Heads
  BY ReportAssumption DEF Heads
<1>2. 0 \in 0..(Len(<<>>) + 2)
  BY DecisionType
<1>3. Init => TypeOK
  BY <1>1, <1>2 DEF Init, TypeOK, Comments, Stages
<1>4. Init => UnderWay
  BY DEF Init, UnderWay
<1> QED
  BY <1>3, <1>4

LEMMA TypeStep == TypeOK /\ UnderWay /\ [Next]_vars => TypeOK'
<1> SUFFICES ASSUME TypeOK, UnderWay, [Next]_vars PROVE TypeOK'
  OBVIOUS
<1> USE DEF TypeOK
<1>1. \A d \in Decisions \cup {<<>>} : 0 \in 0..(Len(d) + 2)
  BY DecisionType
<1>2. ASSUME NEW asked \in BOOLEAN, Begin(asked) PROVE TypeOK'
  <2>1. pc' \in Stages
    BY <1>2 DEF Begin, Goto, Stages
  <2>2. step = 0
    BY <1>2 DEF Begin, UnderWay
  <2> QED
    BY <1>1, <1>2, <2>1, <2>2 DEF Begin, hostVars
<1>3. CASE LoadRuleset \/ LoadConfig \/ FactsFail \/ EvaluationFails \/ WorkEnds
  BY <1>3 DEF LoadRuleset, LoadConfig, FactsFail, EvaluationFails, WorkEnds, hostVars, Local,
     Goto, Stages
<1>4. CASE ConfigBroken \/ NoRuleset \/ BrokenComment
  <2>1. comment' \in Comments /\ pc' \in Stages
    BY <1>4 DEF ConfigBroken, NoRuleset, BrokenComment, End, Goto, Comments, Stages
  <2> QED
    BY <1>1, <1>4, <2>1 DEF ConfigBroken, NoRuleset, BrokenComment, End, Ending, Local
<1>5. CASE WriteCheck \/ FailOpen \/ BrokenCheck \/ Crash
  <2>1. check' \in [Heads -> Conclusions \cup {"none"}]
    BY <1>5 DEF WriteCheck, FailOpen, BrokenCheck, Crash, Neutral, Concludes, Conclusion,
       Conclusions, hostVars
  <2>2. pc' \in Stages
    BY <1>5 DEF WriteCheck, FailOpen, BrokenCheck, Crash, End, Goto, Stages
  <2>3. unwritten' \in BOOLEAN
    BY <1>5 DEF WriteCheck, FailOpen, BrokenCheck, Crash, Neutral, Ending
  <2> QED
    BY <1>1, <1>5, <2>1, <2>2, <2>3 DEF WriteCheck, FailOpen, BrokenCheck, Crash, End, Ending,
       hostVars
<1>6. ASSUME NEW call \in {"files", "pull", "diff"}, ReadFacts(call) PROVE TypeOK'
  BY <1>6 DEF ReadFacts, Goto, Stages, hostVars
<1>7. CASE Evaluate
  <2>1. step = 0
    BY <1>7 DEF Evaluate, UnderWay
  <2> QED
    BY <1>1, <1>7, <2>1 DEF Evaluate, Goto, Stages, hostVars
<1>8. CASE WriteComment
  <2>1. comment' \in Comments /\ pc' \in Stages
    BY <1>8 DEF WriteComment, Commented, Body, Goto, Comments, Stages
  <2> QED
    BY <1>8, <2>1 DEF WriteComment, Local
<1>9. CASE PassOver \/ SyncReview \/ SyncAssignments
  <2>1. ~AllDone => step + 1 \in 0..(Len(decision) + 2)
    BY DecisionType DEF AllDone
  <2>2. /\ Verdict(decision) \in {"none", "APPROVED", "CHANGES_REQUESTED"}
        /\ Assigns(decision) \in BOOLEAN
    BY DEF Verdict, Assigns, Asks
  <2>3. pc' \in Stages
    BY <1>9 DEF PassOver, SyncReview, SyncAssignments, Proceed, Abort, Goto, Stages
  <2> QED
    BY <1>9, <2>1, <2>2, <2>3 DEF PassOver, SyncReview, SyncAssignments, Proceed, Abort, hostVars
<1>10. CASE Push
  <2>1. head' \in Heads
    BY <1>10, ReportAssumption DEF Push, Heads
  <2> QED
    BY <1>10, <2>1 DEF Push, jobVars
<1>11. CASE UNCHANGED vars
  BY <1>11 DEF vars, hostVars, jobVars
<1>12. CASE Subscribe \/ CheckSubscription \/ FetchPull
  <2>1. comment' \in Comments /\ pc' \in Stages
    BY <1>12 DEF Subscribe, CheckSubscription, FetchPull, On, Over, End, Goto, Comments, Stages,
       hostVars
  <2>2. /\ sha' \in Heads /\ sources' \in SUBSET Heads
        /\ read' \in SUBSET {"files", "pull", "diff"}
        /\ synced' \in SUBSET {"review", "assignment"}
        /\ outcome' \in {"none", "reported", "silent", "failed", "killed"}
    BY <1>12 DEF Subscribe, CheckSubscription, FetchPull, On, Over, End, Ending
  <2>3. step' \in 0..(Len(decision) + 2)
    BY <1>1, <1>12 DEF Subscribe, CheckSubscription, FetchPull, On, Over, End
  <2> QED
    BY <1>12, <2>1, <2>2, <2>3 DEF Subscribe, CheckSubscription, FetchPull, Ending, hostVars
<1> QED
  BY <1>2, <1>3, <1>4, <1>5, <1>6, <1>7, <1>8, <1>9, <1>10, <1>11, <1>12 DEF Next, JobStep

LEMMA UnderWayStep == TypeOK /\ UnderWay /\ [Next]_vars => UnderWay'
<1> SUFFICES ASSUME TypeOK, UnderWay, [Next]_vars PROVE UnderWay'
  OBVIOUS
<1> USE DEF UnderWay
<1>1. ASSUME NEW asked \in BOOLEAN, Begin(asked) PROVE UnderWay'
  BY <1>1 DEF Begin, Goto
<1>2. CASE LoadRuleset \/ LoadConfig \/ FactsFail \/ EvaluationFails \/ ConfigBroken
  BY <1>2 DEF LoadRuleset, LoadConfig, FactsFail, EvaluationFails, ConfigBroken, hostVars, Local,
     Goto
<1>3. CASE BrokenComment \/ FailOpen \/ Crash
  BY <1>3 DEF BrokenComment, FailOpen, Crash, End, Ending, Goto, hostVars
<1>4. CASE WriteCheck
  BY <1>4 DEF WriteCheck, End, Ending, Goto
<1>5. CASE BrokenCheck
  BY <1>5 DEF BrokenCheck, Neutral, Concludes, Goto, Local, TypeOK
<1>6. ASSUME NEW call \in {"files", "pull", "diff"}, ReadFacts(call) PROVE UnderWay'
  BY <1>6 DEF ReadFacts, Goto, hostVars
<1>7. CASE Evaluate
  BY <1>7 DEF Evaluate, Goto, hostVars
<1>8. CASE WriteComment
  BY <1>8 DEF WriteComment, Goto, Local
<1>9. CASE WorkEnds
  BY <1>9 DEF WorkEnds, AllDone, Goto, hostVars, Local
<1>10. CASE PassOver \/ SyncReview \/ SyncAssignments
  <2>1. \A k \in 1..(step + 1) : k \in 1..step \/ k = step + 1
    BY DEF TypeOK
  <2>2. Turn \in synced' \cup {"derived"} /\ synced \subseteq synced' /\ decision' = decision
    BY <1>10 DEF PassOver, SyncReview, SyncAssignments
  <2>3. \A k \in 1..step' : Work(decision)[k] \in synced' \cup {"derived"}
    BY <1>10, <2>1, <2>2 DEF PassOver, SyncReview, SyncAssignments, Proceed, Abort, Turn
  <2> QED
    BY <1>10, <2>2, <2>3 DEF PassOver, SyncReview, SyncAssignments, Proceed, Abort, Goto, hostVars
<1>11. CASE Push
  BY <1>11 DEF Push, AllDone, jobVars
<1>12. CASE UNCHANGED vars
  BY <1>12 DEF AllDone, vars, hostVars, jobVars
<1>13. CASE NoRuleset
  BY <1>13 DEF NoRuleset, End, Ending, Goto
<1>14. CASE Subscribe \/ CheckSubscription \/ FetchPull
  BY <1>14 DEF Subscribe, CheckSubscription, FetchPull, On, Over, End, Ending, Goto
<1> QED
  BY <1>1, <1>2, <1>3, <1>4, <1>5, <1>6, <1>7, <1>8, <1>9, <1>10, <1>11, <1>12, <1>13, <1>14
     DEF Next, JobStep

\* Types, and what a job has done so far.
THEOREM TypeCorrect == Spec => [](TypeOK /\ UnderWay)
<1>1. TypeOK /\ UnderWay /\ [Next]_vars => (TypeOK /\ UnderWay)'
  BY TypeStep, UnderWayStep
<1> QED
  BY <1>1, TypeInitially, PTL DEF Spec

-----------------------------------------------------------------------------
\* When everything has been called, the review and the assignments have been.
LEMMA AllCalled ==
    ASSUME TypeOK, UnderWay, pc = "check"
    PROVE  verdict = Verdict(decision) /\ assigned = Assigns(decision)
<1>1. decision \in Seq(ActionKinds) /\ Len(decision) \in Nat
  BY DecisionType DEF TypeOK
<1>2. step = Len(decision) + 2
  BY <1>1, DecisionType DEF UnderWay, AllDone
<1>3. Len(decision) + 1 \in 1..step /\ Len(decision) + 2 \in 1..step
  BY <1>1, <1>2
<1>4. "review" \in synced \cup {"derived"} /\ "assignment" \in synced \cup {"derived"}
  BY <1>1, <1>3, WorkEndsWithBoth DEF UnderWay
<1> QED
  BY <1>4 DEF UnderWay

\* Only these steps end a job's report, fail a job, or write the check run.
LEMMA WhoWrites ==
    ASSUME [Next]_vars
    PROVE  /\ outcome' = "reported" /\ outcome # "reported" => WriteCheck /\ End("reported")
           /\ outcome' = "failed" /\ outcome # "failed" =>
                FailOpen \/ BrokenComment \/ Subscribe \/ CheckSubscription \/ FetchPull
           /\ check' # check => WriteCheck \/ FailOpen \/ BrokenCheck
BY DEF Next, JobStep, Begin, Subscribe, CheckSubscription, FetchPull, On, Over, LoadRuleset, NoRuleset, LoadConfig, ConfigBroken, ReadFacts,
   FactsFail, Evaluate, EvaluationFails, WriteComment, PassOver, SyncReview, SyncAssignments,
   WorkEnds, WriteCheck, FailOpen, BrokenCheck, BrokenComment, Crash, Push, Proceed, Abort,
   Concludes, End, Ending, Local, hostVars, jobVars, vars

\* A job that reports success leaves the review, the check run and the
\* assignments in agreement with the decision, for decisions of any length.
THEOREM ReportedRunsAgree == Spec => ReportsAgree
<1>1. ASSUME TypeOK, UnderWay, [Next]_vars, outcome' = "reported", outcome # "reported"
      PROVE  /\ check'[sha] = "failure" <=> verdict' = "CHANGES_REQUESTED"
             /\ verdict' = "APPROVED" => check'[sha] = "success"
             /\ assigned' = (Asks(decision, "assign") \/ Asks(decision, "require"))
  <2>1. WriteCheck /\ End("reported")
    BY <1>1, WhoWrites
  <2>2. verdict' = Verdict(decision) /\ assigned' = Assigns(decision)
    BY <1>1, <2>1, AllCalled DEF WriteCheck
  <2>3. check'[sha] = Conclusion(decision)
    BY <1>1, <2>1 DEF WriteCheck, End, Goto, Concludes, TypeOK
  <2>4. decision \in Seq(ActionKinds)
    BY <1>1, DecisionType
  <2>5. /\ (Conclusion(decision) = "failure") <=> (Verdict(decision) = "CHANGES_REQUESTED")
        /\ (Verdict(decision) = "APPROVED") => (Conclusion(decision) = "success")
    BY <2>4, VerdictMatchesConclusion
  <2> QED
    BY <2>2, <2>3, <2>5 DEF Assigns
<1> QED
  BY <1>1, TypeCorrect, PTL DEF Spec, ReportsAgree

\* A decisive check run is written only over a review that says the same.
THEOREM TheReviewComesFirst == Spec => CheckFollowsTheReview
<1>1. ASSUME TypeOK, UnderWay, [Next]_vars, check' # check
      PROVE  /\ check'[sha] = "success" => verdict # "CHANGES_REQUESTED"
             /\ check'[sha] = "failure" => verdict = "CHANGES_REQUESTED"
  <2>1. CASE WriteCheck
    <3>1. verdict = Verdict(decision) /\ decision \in Seq(ActionKinds)
      BY <1>1, <2>1, AllCalled, DecisionType DEF WriteCheck
    <3>2. check'[sha] = Conclusion(decision)
      BY <1>1, <2>1 DEF WriteCheck, Concludes, TypeOK
    <3>3. /\ (Conclusion(decision) = "failure") <=> (Verdict(decision) = "CHANGES_REQUESTED")
          /\ (Verdict(decision) = "APPROVED") => (Conclusion(decision) = "success")
      BY <3>1, VerdictMatchesConclusion
    <3> QED
      BY <3>1, <3>2, <3>3
  <2>2. CASE FailOpen \/ BrokenCheck
    BY <1>1, <2>2 DEF FailOpen, BrokenCheck, Neutral, Concludes, TypeOK
  <2> QED
    BY <1>1, <2>1, <2>2, WhoWrites
<1> QED
  BY <1>1, TypeCorrect, PTL DEF Spec, CheckFollowsTheReview

\* A decision with an action nobody performs is not performed in part.
THEOREM NothingIsHalfPerformed == Spec => NothingHalfUnderstood
<1>1. ASSUME TypeOK, UnderWay, [Next]_vars, pc # "idle",
             \E kind \in {"notify", "unknown", "incomplete"} : Asks(decision, kind)
      PROVE  UNCHANGED <<verdict, assigned, comment>>
  <2>1. \A kind \in {"notify", "unknown", "incomplete"} : Executor(kind) = "nobody"
    BY DEF Executor
  <2>2. ~Performable(decision) /\ decision # <<>>
    BY <1>1, <2>1 DEF Performable, Asks
  <2>3. pc = "failOpen"
    BY <1>1, <2>2 DEF UnderWay
  <2> QED
    BY <1>1, <2>3 DEF Next, JobStep, Begin, Subscribe, CheckSubscription, FetchPull, LoadRuleset, NoRuleset, LoadConfig, ConfigBroken,
       ReadFacts, FactsFail, Evaluate, EvaluationFails, WriteComment, PassOver, SyncReview,
       SyncAssignments, WorkEnds, WriteCheck, FailOpen, BrokenCheck, BrokenComment, Crash, Push,
       hostVars, vars
<1> QED
  BY <1>1, TypeCorrect, PTL DEF Spec, NothingHalfUnderstood

\* A job that fails once it has the head leaves its own check run neutral,
\* unless the host does not take it; one that fails before, on the gate, the
\* subscription or the pull request, leaves every check run, the review and the
\* assignments as they were.
THEOREM FailuresAreNeutral == Spec => FailsOpen
<1>1. ASSUME TypeOK, UnderWay, [Next]_vars, outcome' = "failed", outcome # "failed"
      PROVE  IF pc \in Early THEN UNCHANGED <<verdict, assigned, check>>
             ELSE check'[sha] = "neutral" \/ unwritten'
  <2>1. CASE FailOpen
    BY <1>1, <2>1 DEF FailOpen, Neutral, Concludes, TypeOK, Early
  <2>2. CASE BrokenComment
    BY <1>1, <2>2 DEF BrokenComment, UnderWay, Ending, Early
  <2>3. CASE Subscribe \/ CheckSubscription \/ FetchPull
    BY <2>3 DEF Subscribe, CheckSubscription, FetchPull, Early, hostVars
  <2> QED
    BY <1>1, <2>1, <2>2, <2>3, WhoWrites
<1> QED
  BY <1>1, TypeCorrect, PTL DEF Spec, FailsOpen

-----------------------------------------------------------------------------
(* What a decision amounts to, whatever its order.                         *)

\* A decision says something exactly if it has an action.
LEMMA AsksSomething ==
    ASSUME NEW d \in Seq(ActionKinds)
    PROVE  d # <<>> <=> \E kind \in ActionKinds : Asks(d, kind)
<1>1. ASSUME d # <<>> PROVE \E kind \in ActionKinds : Asks(d, kind)
  <2>1. 1 \in DOMAIN d /\ d[1] \in ActionKinds
    BY <1>1
  <2>2. QED
    BY <2>1 DEF Asks
<1>2. ASSUME d = <<>> PROVE \A kind : ~Asks(d, kind)
  <2>1. DOMAIN d = {}
    BY <1>2
  <2>2. QED
    BY <2>1 DEF Asks
<1>3. QED
  BY <1>1, <1>2

\* Two decisions that ask for the same kinds of actions, in whatever order and
\* however often, have the same outcome everywhere it is shown: the cluster's
\* order of the rules' actions does not decide over a pull request.
THEOREM OrderDoesNotMatter ==
    ASSUME NEW d \in Seq(ActionKinds), NEW e \in Seq(ActionKinds),
           \A kind \in ActionKinds : Asks(d, kind) <=> Asks(e, kind)
    PROVE  /\ Performable(d) <=> Performable(e)
           /\ Verdict(d) = Verdict(e) /\ Conclusion(d) = Conclusion(e)
           /\ Assigns(d) <=> Assigns(e)
           /\ \A w : Body(d, w) = Body(e, w)
<1>1. d = <<>> <=> e = <<>>
  BY AsksSomething
<1>2. \A kind \in {"approve", "block", "comment", "assign", "require"} : Asks(d, kind) <=> Asks(e, kind)
  BY DEF ActionKinds, Verbs
<1>3. \A s \in {d, e} : Performable(s) <=> \A kind \in ActionKinds : Asks(s, kind) => Executor(kind) # "nobody"
  BY DEF Performable, Asks
<1>4. Performable(d) <=> Performable(e)
  BY <1>3
<1>5. Verdict(d) = Verdict(e) /\ Conclusion(d) = Conclusion(e)
  BY <1>1, <1>2 DEF Verdict, Conclusion
<1>6. Assigns(d) <=> Assigns(e)
  BY <1>2 DEF Assigns
<1>7. \A w : Body(d, w) = Body(e, w)
  BY <1>1, <1>2 DEF Body
<1>8. QED
  BY <1>4, <1>5, <1>6, <1>7

\* No action added to a decision, before, after or between, turns a block into
\* anything else.
THEOREM BlocksStand ==
    ASSUME NEW d \in Seq(ActionKinds), NEW e \in Seq(ActionKinds),
           \A kind \in ActionKinds : Asks(d, kind) => Asks(e, kind),
           Conclusion(d) = "failure"
    PROVE  Conclusion(e) = "failure" /\ Verdict(e) = "CHANGES_REQUESTED"
<1>1. Asks(d, "block")
  BY DEF Conclusion
<1>2. Asks(e, "block")
  BY <1>1 DEF ActionKinds, Verbs
<1>3. QED
  BY <1>2 DEF Conclusion, Verdict

-----------------------------------------------------------------------------
(* What facts and reports are of.                                          *)

\* A job works for a head that was the pull request's, and reads later ones only.
OfItsTime ==
    /\ sha <= head
    /\ sources \subseteq sha..head
    /\ pc \in Early \cup {"idle"} => sources = {}

\* What a job has written and nobody has since.
Written ==
    LET SaysIt == \/ comment = Body(decision, warned)
                  \/ comment = "none" /\ EditOnly(decision, warned)
    IN  /\ pc \in {"work", "check"} => SaysIt
        /\ outcome # "none" => pc = "idle"
        /\ outcome = "reported" =>
             /\ check[sha] = Conclusion(decision) /\ verdict = Verdict(decision)
             /\ assigned = Assigns(decision) /\ Performable(decision)
             /\ SaysIt

LEMMA OfItsTimeStep == TypeOK /\ OfItsTime /\ [Next]_vars => OfItsTime'
<1>1. SUFFICES ASSUME TypeOK, OfItsTime, [Next]_vars PROVE OfItsTime'
  OBVIOUS
<1>t. head \in Nat /\ sha \in Nat
  BY <1>1 DEF TypeOK, Heads
<1>2. ASSUME NEW asked \in BOOLEAN, Begin(asked) PROVE OfItsTime'
  BY <1>1, <1>2, <1>t DEF Begin, Goto, OfItsTime, Early, hostVars
<1>3. ASSUME NEW call \in {"files", "pull", "diff"}, ReadFacts(call) PROVE OfItsTime'
  BY <1>1, <1>3, <1>t DEF ReadFacts, Goto, OfItsTime, Early, hostVars
<1>4. CASE Push
  <2>1. sha..head \subseteq sha..head' /\ sha <= head'
    BY <1>1, <1>4, <1>t DEF Push, OfItsTime
  <2>2. QED
    BY <1>1, <1>4, <2>1 DEF Push, OfItsTime, jobVars
<1>5. ASSUME UNCHANGED <<head, sha>>,
             sources' = {} \/ (sources' = sources /\ pc' \notin Early \cup {"idle"})
      PROVE  OfItsTime'
  BY <1>1, <1>5 DEF OfItsTime
<1>f. CASE Subscribe \/ CheckSubscription \/ FetchPull
  <2>1. /\ head' = head /\ (sha' = sha \/ sha' = head)
        /\ sources = {} /\ sources' = {}
    BY <1>1, <1>f DEF Subscribe, CheckSubscription, FetchPull, On, Over, End, Ending, OfItsTime,
       Early, hostVars
  <2>2. QED
    BY <1>1, <1>t, <2>1 DEF OfItsTime
<1>6. CASE LoadRuleset \/ LoadConfig \/ ConfigBroken \/ FactsFail \/ EvaluationFails \/ WorkEnds \/ WriteComment
  BY <1>5, <1>6 DEF LoadRuleset, LoadConfig, ConfigBroken, FactsFail, EvaluationFails, WorkEnds,
     WriteComment, hostVars, Local, Goto, Early
<1>7. CASE NoRuleset \/ WriteCheck \/ FailOpen \/ BrokenCheck \/ BrokenComment \/ Crash
  BY <1>5, <1>7 DEF NoRuleset, WriteCheck, FailOpen, BrokenCheck, BrokenComment, Crash, End, Ending,
     hostVars, Goto, Early
<1>8. CASE Evaluate \/ PassOver \/ SyncReview \/ SyncAssignments
  BY <1>5, <1>8 DEF Evaluate, PassOver, SyncReview, SyncAssignments, Proceed, Abort, hostVars, Goto,
     Early
<1>9. CASE UNCHANGED vars
  BY <1>1, <1>9 DEF vars, hostVars, jobVars, OfItsTime
<1>10. QED
  BY <1>1, <1>2, <1>3, <1>4, <1>f, <1>6, <1>7, <1>8, <1>9 DEF Next, JobStep

LEMMA WrittenStep == TypeOK /\ UnderWay /\ Written /\ [Next]_vars => Written'
<1>1. SUFFICES ASSUME TypeOK, UnderWay, Written, [Next]_vars PROVE Written'
  OBVIOUS
<1>u. ASSUME UNCHANGED <<comment, decision, warned>>
      PROVE  /\ Body(decision, warned)' = Body(decision, warned)
             /\ EditOnly(decision, warned)' = EditOnly(decision, warned)
             /\ Conclusion(decision)' = Conclusion(decision) /\ Verdict(decision)' = Verdict(decision)
             /\ Assigns(decision)' = Assigns(decision) /\ Performable(decision)' = Performable(decision)
  BY <1>u DEF Body, EditOnly, Conclusion, Verdict, Assigns, Performable, Asks
<1>q. ASSUME pc' \notin {"work", "check"}, outcome' \in {"none", "silent", "failed", "killed"},
             outcome' # "none" => pc' = "idle"
      PROVE  Written'
  BY <1>q DEF Written
<1>2. ASSUME NEW asked \in BOOLEAN, Begin(asked) PROVE Written'
  BY <1>2, <1>q DEF Begin, Goto
<1>o. pc # "idle" => outcome = "none"
  BY <1>1 DEF Written
<1>3. CASE \/ LoadRuleset \/ LoadConfig \/ ConfigBroken \/ FactsFail \/ EvaluationFails \/ Evaluate
           \/ \E call \in {"files", "pull", "diff"} : ReadFacts(call)
  <2>1. pc # "idle" /\ outcome' = outcome /\ pc' \notin {"work", "check", "idle"}
    BY <1>3 DEF LoadRuleset, LoadConfig, ConfigBroken, FactsFail, EvaluationFails, Evaluate,
       ReadFacts, Goto, Local
  <2>2. QED
    BY <1>o, <1>q, <2>1
<1>4. CASE \/ NoRuleset \/ FailOpen \/ BrokenCheck \/ BrokenComment \/ Crash
           \/ Subscribe \/ CheckSubscription \/ FetchPull
  <2>1. /\ pc # "idle" /\ pc' \notin {"work", "check"}
        /\ \/ outcome' \in {"silent", "failed", "killed"} /\ pc' = "idle"
           \/ outcome' = outcome
    BY <1>4 DEF NoRuleset, FailOpen, BrokenCheck, BrokenComment, Crash, Subscribe,
       CheckSubscription, FetchPull, On, Over, End, Goto
  <2>2. QED
    BY <1>o, <1>q, <2>1
<1>5. CASE WriteComment
  <2>1. CASE comment' = Commented /\ Goto("work")
    <3>1. /\ UNCHANGED <<decision, warned, outcome>> /\ pc' = "work" /\ pc = "comment"
          /\ comment' = Commented
      BY <1>5, <2>1 DEF WriteComment, Goto, Local
    <3>2. comment' = Body(decision, warned) \/ (comment' = "none" /\ EditOnly(decision, warned))
      BY <3>1 DEF Commented
    <3>3. Body(decision, warned)' = Body(decision, warned) /\ EditOnly(decision, warned)' = EditOnly(decision, warned)
      BY <3>1 DEF Body, EditOnly, Asks
    <3>4. QED
      BY <1>o, <3>1, <3>2, <3>3 DEF Written
  <2>2. CASE Goto("failOpen")
    BY <1>5, <1>o, <1>q, <2>2 DEF WriteComment, Goto, Local
  <2>3. QED
    BY <1>5, <2>1, <2>2 DEF WriteComment
<1>6. CASE PassOver \/ SyncReview \/ SyncAssignments \/ WorkEnds
  <2>1. UNCHANGED <<comment, decision, warned, outcome>> /\ pc = "work"
    BY <1>6 DEF PassOver, SyncReview, SyncAssignments, WorkEnds, Proceed, Abort, hostVars, Local
  <2>2. QED
    BY <1>1, <1>o, <1>u, <2>1 DEF Written
<1>7. CASE WriteCheck
  <2>1. CASE Concludes(Conclusion(decision)) /\ End("reported")
    <3>1. UNCHANGED <<comment, decision, warned, verdict, assigned, sha>> /\ pc = "check" /\ pc' = "idle"
      BY <1>7, <2>1 DEF WriteCheck, Ending, End
    <3>2. verdict = Verdict(decision) /\ assigned = Assigns(decision) /\ Performable(decision)
      BY <1>1, <3>1, AllCalled DEF UnderWay
    <3>3. check'[sha] = Conclusion(decision)
      BY <1>1, <2>1 DEF Concludes, TypeOK
    <3>4. QED
      BY <1>1, <1>u, <3>1, <3>2, <3>3 DEF Written
  <2>2. CASE Goto("failOpen") /\ UNCHANGED outcome
    BY <1>7, <1>o, <1>q, <2>2 DEF WriteCheck, Goto
  <2>3. QED
    BY <1>7, <2>1, <2>2 DEF WriteCheck
<1>8. CASE Push \/ UNCHANGED vars
  <2>1. UNCHANGED <<comment, decision, warned, outcome, verdict, assigned, check, sha, pc>>
    BY <1>8 DEF Push, jobVars, hostVars, vars
  <2>2. QED
    BY <1>1, <1>u, <2>1 DEF Written
<1>9. QED
  BY <1>1, <1>2, <1>3, <1>4, <1>5, <1>6, <1>7, <1>8 DEF Next, JobStep

LEMMA TimesAndReports == Spec => [](OfItsTime /\ Written)
<1>1. Init => OfItsTime /\ Written
  BY DEF Init, OfItsTime, Written
<1>2. TypeOK /\ UnderWay /\ OfItsTime /\ Written /\ [Next]_vars => (OfItsTime /\ Written)'
  BY OfItsTimeStep, WrittenStep
<1>3. QED
  BY <1>1, <1>2, TypeCorrect, PTL DEF Spec

\* Facts are older than the head a job reports on in no case, and of another
\* head only after a push.
THEOREM FactsComeAfterTheSha == Spec => []FactsAreNeverOlder
<1>1. TypeOK /\ OfItsTime => FactsAreNeverOlder
  BY DEF TypeOK, Heads, OfItsTime, FactsAreNeverOlder
<1>2. QED
  BY <1>1, TypeCorrect, TimesAndReports, PTL

\* The check run, the review, the assignments and the comment a job reports are
\* those of one decision, until the next job begins.
THEOREM ReportsStand == Spec => []ReportStands
<1>1. Written => ReportStands
  BY DEF Written, ReportStands
<1>2. QED
  BY <1>1, TimesAndReports, PTL

\* Every step of a job is one towards its end.
THEOREM JobsGetOn == Spec => JobGetsOn
<1>1. ASSUME TypeOK, TypeOK', JobStep
      PROVE  \/ StagesLeft' < StagesLeft
             \/ (StagesLeft' = StagesLeft /\ StepsLeft' < StepsLeft)
  <2>d. step \in Nat /\ Len(decision) \in Nat
    BY <1>1, DecisionType, LenProperties DEF TypeOK
  <2>0. StagesLeft \in Nat /\ StagesLeft' \in Nat
    BY <1>1 DEF StagesLeft, TypeOK, Stages
  <2>1. CASE LoadRuleset \/ LoadConfig \/ ConfigBroken \/ FactsFail \/ EvaluationFails
             \/ WriteComment \/ WorkEnds \/ NoRuleset
             \/ Subscribe \/ CheckSubscription \/ FetchPull
    <3>1. \/ pc \in {"subscribe", "subscribed"} /\ pc' \in {"fetch", "idle"}
          \/ pc = "fetch" /\ pc' \in {"ruleset", "idle"}
          \/ pc = "ruleset" /\ pc' \in {"config", "noRuleset", "failOpen"}
          \/ pc = "config" /\ pc' \in {"facts", "configBroken"}
          \/ pc = "facts" /\ pc' = "failOpen"
          \/ pc = "evaluate" /\ pc' \in {"failOpen", "brokenCheck"}
          \/ pc = "comment" /\ pc' \in {"work", "failOpen"}
          \/ pc = "work" /\ pc' = "check"
          \/ pc \in {"configBroken", "noRuleset"} /\ pc' \in {"idle", "failOpen"}
      BY <2>1 DEF LoadRuleset, LoadConfig, ConfigBroken, FactsFail, EvaluationFails, WriteComment,
         WorkEnds, NoRuleset, Subscribe, CheckSubscription, FetchPull, On, Over, End, Goto
    <3>2. QED
      BY <3>1 DEF StagesLeft
  <2>2. CASE WriteCheck \/ FailOpen \/ BrokenCheck \/ BrokenComment
    BY <2>2 DEF WriteCheck, FailOpen, BrokenCheck, BrokenComment, End, Goto, StagesLeft
  <2>3. CASE Evaluate
    <3>1. pc = "evaluate" /\ pc' \in {"comment", "failOpen"}
      BY <2>3 DEF Evaluate, Goto
    <3>2. QED
      BY <3>1 DEF StagesLeft
  <2>4. ASSUME NEW call \in {"files", "pull", "diff"}, ReadFacts(call)
        PROVE  \/ StagesLeft' < StagesLeft
               \/ (StagesLeft' = StagesLeft /\ StepsLeft' < StepsLeft)
    <3>1. pc = "facts" /\ pc' \in {"facts", "evaluate"} /\ read' = read \cup {call} /\ call \notin read
      BY <2>4 DEF ReadFacts, Goto
    <3>2. CASE pc' = "evaluate"
      BY <3>1, <3>2 DEF StagesLeft
    <3>3. CASE pc' = "facts"
      <4> DEFINE S == {"files", "pull", "diff"} \ read
      <4>1. IsFiniteSet({"files", "pull", "diff"})
        <5>1. {"files", "pull", "diff"} = {"files"} \cup {"pull"} \cup {"diff"}
          OBVIOUS
        <5>2. IsFiniteSet({"files"}) /\ IsFiniteSet({"pull"}) /\ IsFiniteSet({"diff"})
          BY FS_Singleton
        <5>3. QED
          BY <5>1, <5>2, FS_Union
      <4>2. IsFiniteSet(S) /\ call \in S
        BY <3>1, <4>1, FS_Subset
      <4>3. S' = S \ {call}
        BY <3>1
      <4> HIDE DEF S
      <4>4. Cardinality(S \ {call}) = Cardinality(S) - 1 /\ Cardinality(S) \in Nat
        BY <4>2, FS_RemoveElement, FS_CardinalityType
      <4>5. StepsLeft = Cardinality(S) /\ StepsLeft' = Cardinality(S')
        BY <3>1, <3>3 DEF StepsLeft, S
      <4>6. StagesLeft' = StagesLeft
        BY <3>1, <3>3 DEF StagesLeft
      <4>7. QED
        BY <4>3, <4>4, <4>5, <4>6
    <3>4. QED
      BY <3>1, <3>2, <3>3
  <2>5. CASE PassOver \/ SyncReview \/ SyncAssignments
    <3>1. pc = "work" /\ decision' = decision /\ (Proceed \/ Abort)
      BY <2>5 DEF PassOver, SyncReview, SyncAssignments
    <3>2. CASE Proceed
      <4>1. pc' = "work" /\ step' = step + 1
        BY <3>1, <3>2 DEF Proceed
      <4>2. StepsLeft = Len(Work(decision)) - step /\ StepsLeft' = Len(Work(decision)) - (step + 1)
        BY <3>1, <4>1 DEF StepsLeft
      <4>3. Len(Work(decision)) \in Nat
        BY <1>1, <2>d, DecisionType
      <4>4. StagesLeft' = StagesLeft
        BY <3>1, <4>1 DEF StagesLeft
      <4>5. QED
        BY <2>d, <4>2, <4>3, <4>4
    <3>3. CASE Abort
      BY <3>1, <3>3 DEF Abort, Goto, StagesLeft
    <3>4. QED
      BY <3>1, <3>2, <3>3
  <2>6. QED
    BY <1>1, <2>1, <2>2, <2>3, <2>4, <2>5 DEF JobStep
<1>2. TypeOK /\ TypeOK' /\ [Next]_vars =>
        [(JobStep =>
           \/ StagesLeft' < StagesLeft
           \/ (StagesLeft' = StagesLeft /\ StepsLeft' < StepsLeft))]_vars
  BY <1>1
<1>3. QED
  BY <1>2, TypeCorrect, PTL DEF Spec, JobGetsOn
=============================================================================

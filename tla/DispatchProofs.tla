--------------------------- MODULE DispatchProofs ---------------------------
(***************************************************************************)
(* Proofs about Dispatch: types, that the jobs of a pull request's own     *)
(* group serve it only while it is subscribed, that no group replaces a    *)
(* report by one from older facts, whatever the jobs of the check suites   *)
(* do beside it; and, if no waiting job is displaced by one that does not  *)
(* do its work, that no wakeup is lost.                                    *)
(***************************************************************************)
EXTENDS Dispatch, TLAPS

LEMMA TypeInitially == Init => TypeOK
BY DispatchAssumption, NoEventAssumption DEF Init, TypeOK, Stages

\* An event that arrives starts a job, or waits for one.
LEMMA EventsArrive ==
    ASSUME TypeOK, NEW e \in EventType, Arrive(e)
    PROVE  /\ waiting' \in [Groups -> EventType \cup {NoEvent}]
           /\ event' \in [Groups -> EventType \cup {NoEvent}]
           /\ stage' \in [Groups -> Stages]
           /\ seen' \in [Groups -> 0..MaxNews]
           /\ \A g \in Groups : event'[g] = NoEvent <=> stage'[g] = "none"
<1>1. GroupOf(e) \in Groups /\ e # NoEvent
  BY NoEventAssumption DEF GroupOf, Groups, EventType
<1> QED
  BY <1>1 DEF Arrive, StartJob, TypeOK, Stages

\* What happens on a pull request changes no subscription and no report.
LEMMA HappeningsAreTyped ==
    ASSUME TypeOK, NEW p \in PRs, NEW trigger \in TriggerKinds, NEW at \in 0..MaxNews,
           Happens(p, trigger, at)
    PROVE  /\ UNCHANGED <<subscribed, shown, alarm, reported>>
           /\ waiting' \in [Groups -> EventType \cup {NoEvent}]
           /\ event' \in [Groups -> EventType \cup {NoEvent}]
           /\ stage' \in [Groups -> Stages]
           /\ seen' \in [Groups -> 0..MaxNews]
           /\ \A g \in Groups : event'[g] = NoEvent <=> stage'[g] = "none"
<1>1. [trigger |-> trigger, pr |-> p, head |-> at] \in EventType
  BY DEF EventType
<1> QED
  BY <1>1, EventsArrive DEF Happens

LEMMA TypeStep == TypeOK /\ [Next]_vars => TypeOK'
<1> SUFFICES ASSUME TypeOK, [Next]_vars PROVE TypeOK'
  OBVIOUS
<1>1. ASSUME NEW p \in PRs, NEW trigger \in TriggerKinds, Comment(p, trigger) PROVE TypeOK'
  <2>1. 0 \in 0..MaxNews
    BY DispatchAssumption
  <2> QED
    BY <1>1, <2>1, HappeningsAreTyped DEF Comment, TypeOK
<1>2. ASSUME NEW p \in PRs, NEW trigger \in TriggerKinds, Novelty(p, trigger) PROVE TypeOK'
  <2>1. news' \in [PRs -> 1..MaxNews] /\ head' \in [PRs -> 1..MaxNews]
    BY <1>2, DispatchAssumption DEF Novelty, TypeOK
  <2>2. head'[p] \in 0..MaxNews
    BY <2>1, DispatchAssumption
  <2> QED
    BY <1>2, <2>1, <2>2, HappeningsAreTyped DEF Novelty, TypeOK
<1>3. ASSUME NEW p \in PRs, CloseOrReopen(p) PROVE TypeOK'
  <2>1. head[p] \in 0..MaxNews
    BY DispatchAssumption DEF TypeOK
  <2>2. (IF open[p] THEN "closed" ELSE "reopened") \in TriggerKinds
    BY DEF TriggerKinds
  <2> QED
    BY <1>3, <2>1, <2>2, HappeningsAreTyped DEF CloseOrReopen, TypeOK
<1>4. ASSUME NEW g \in Groups, StartWaiting(g) PROVE TypeOK'
  BY <1>4 DEF StartWaiting, StartJob, TypeOK, Stages, prVars
<1>5. ASSUME NEW g \in Groups, JobStep(g) \/ Crash(g) PROVE TypeOK'
  <2>1. /\ 0 \in 0..MaxNews
        /\ event[g] \in EventType => event[g].pr \in PRs /\ event[g].trigger \in TriggerKinds
        /\ stage[g] # "none" => event[g] \in EventType
    BY DispatchAssumption DEF TypeOK, EventType
  <2>2. stage[g] # "none"
    BY <1>5 DEF JobStep, Crash, Answer, Review, Stop, Unsubscribe, Unsubscribing, Serve, Fetch,
       GatherFacts, Evaluate, Decide, Report, FailOpen, CallFails, Gated
  <2>3. event[g] \in EventType /\ event[g].pr \in PRs
    BY <2>1, <2>2
  <2>4. news[event[g].pr] \in 0..MaxNews /\ seen[g] \in 0..MaxNews
    BY <2>3, DispatchAssumption DEF TypeOK
  <2>5. ASSUME Leaves(g) PROVE /\ waiting' \in [Groups -> EventType \cup {NoEvent}]
                               /\ event' \in [Groups -> EventType \cup {NoEvent}]
                               /\ stage' \in [Groups -> Stages]
                               /\ seen' \in [Groups -> 0..MaxNews]
                               /\ \A h \in Groups : event'[h] = NoEvent <=> stage'[h] = "none"
    BY <2>1, <2>5 DEF Leaves, TypeOK, Stages
  <2>6. ASSUME NEW next \in Stages \ {"none"}, Goto(g, next)
        PROVE  /\ waiting' \in [Groups -> EventType \cup {NoEvent}]
               /\ event' \in [Groups -> EventType \cup {NoEvent}]
               /\ stage' \in [Groups -> Stages]
               /\ alarm' \in [PRs -> 0..MaxNews]
               /\ \A h \in Groups : event'[h] = NoEvent <=> stage'[h] = "none"
    BY <2>2, <2>6 DEF Goto, TypeOK
  <2>7. Stages = {"none", "gate", "unsubscribe", "fetch", "facts", "evaluate", "answer",
                  "report", "broken"}
    BY DEF Stages
  <2>8. CASE Answer(g) \/ Unsubscribe(g) \/ Report(g) \/ FailOpen(g) \/ Crash(g)
    <3>1. Leaves(g) /\ alarm' \in [PRs -> 0..MaxNews]
      BY <2>4, <2>8 DEF Answer, Unsubscribe, Report, FailOpen, Crash, Ends, EndsBadly, TypeOK
    <3>2. reported' \in [Groups -> [PRs -> 0..MaxNews]]
      BY <2>4, <2>8 DEF Answer, Unsubscribe, Report, FailOpen, Crash, TypeOK
    <3> QED
      BY <2>4, <2>5, <2>8, <3>1, <3>2 DEF Answer, Unsubscribe, Report, FailOpen, Crash, TypeOK
  <2>9. CASE Review(g) \/ Stop(g) \/ GatherFacts(g) \/ Evaluate(g) \/ Decide(g)
    <3>1. \E next \in Stages \ {"none"} : Goto(g, next)
      BY <2>7, <2>9 DEF Review, Stop, GatherFacts, Evaluate, Decide
    <3> QED
      BY <2>4, <2>6, <2>9, <3>1 DEF Review, Stop, GatherFacts, Evaluate, Decide, TypeOK
  <2>10. CASE Serve(g) \/ Fetch(g)
    <3>1. \/ Leaves(g) /\ alarm' = alarm
          \/ UNCHANGED seen /\ \E next \in Stages \ {"none"} : Goto(g, next)
      BY <2>7, <2>10 DEF Serve, Fetch, Ends
    <3> QED
      BY <2>5, <2>6, <2>10, <3>1 DEF Serve, Fetch, TypeOK
  <2>11. CASE CallFails(g)
    <3>1. \/ Leaves(g) /\ alarm' \in [PRs -> 0..MaxNews]
          \/ UNCHANGED seen /\ \E next \in Stages \ {"none"} : Goto(g, next)
      BY <2>4, <2>7, <2>11 DEF CallFails, EndsBadly, TypeOK
    <3>2. subscribed' \in [PRs -> BOOLEAN]
      BY <2>11 DEF CallFails, TypeOK
    <3> QED
      BY <2>5, <2>6, <2>11, <3>1, <3>2 DEF CallFails, TypeOK
  <2> QED
    BY <1>5, <2>8, <2>9, <2>10, <2>11 DEF JobStep
<1>6. CASE UNCHANGED vars
  BY <1>6 DEF vars, prVars, groupVars, TypeOK
<1> QED
  BY <1>1, <1>2, <1>3, <1>4, <1>5, <1>6 DEF Next

\* The pull requests and the groups keep their types, for any number of pull
\* requests, whatever fails and however jobs get in each other's way.
THEOREM TypeCorrect == Spec => []TypeOK
BY TypeInitially, TypeStep, PTL DEF Spec

-----------------------------------------------------------------------------
(* What a group's jobs rely on.                                            *)

\* Every job is in the group of its event, and a suite's never unsubscribes.
InItsGroup ==
    /\ \A g \in Groups : \A e \in {event[g], waiting[g]} : e # NoEvent => GroupOf(e) = g
    /\ \A g \in Groups : stage[g] = "unsubscribe" => event[g].trigger # "checks"

\* A group's last report on a pull request is no newer than the facts of the job
\* that it runs for it, nor these than what there is.
UpToDate ==
    /\ \A g \in Groups, p \in PRs : reported[g][p] <= news[p]
    /\ \A g \in Groups : stage[g] \in {"evaluate", "answer", "report"} =>
         reported[g][event[g].pr] <= seen[g] /\ seen[g] <= news[event[g].pr]

JobsAreServed == InItsGroup /\ OnlyTheSubscribed /\ UpToDate

LEMMA ServedInitially == Init => JobsAreServed
BY DispatchAssumption
DEF Init, JobsAreServed, InItsGroup, OnlyTheSubscribed, UpToDate, Groups

\* An event that arrives leaves the jobs that are past their gate as they are.
LEMMA ArrivingDisturbsNoJob ==
    ASSUME TypeOK, NEW e \in EventType, Arrive(e), NEW g \in Groups, stage'[g] # "gate"
    PROVE  stage'[g] = stage[g] /\ seen'[g] = seen[g] /\ event'[g] = event[g]
BY DEF Arrive, StartJob, TypeOK

LEMMA HappeningsServe ==
    ASSUME TypeOK, JobsAreServed, NEW p \in PRs, NEW trigger \in TriggerKinds,
           NEW at \in 0..MaxNews, Happens(p, trigger, at),
           news' \in [PRs -> 1..MaxNews], \A q \in PRs : news[q] <= news'[q]
    PROVE  JobsAreServed'
<1> DEFINE e == [trigger |-> trigger, pr |-> p, head |-> at]
<1>1. e \in EventType /\ Arrive(e)
  BY DEF EventType, Happens
<1>2. \A g \in Groups : stage'[g] # "gate" =>
        stage'[g] = stage[g] /\ seen'[g] = seen[g] /\ event'[g] = event[g]
  BY <1>1, ArrivingDisturbsNoJob
<1>3. subscribed' = subscribed /\ reported' = reported
  BY DEF Happens
<1> HIDE DEF e
<1>4. InItsGroup'
  <2>1. \A g \in Groups : \A f \in {event'[g], waiting'[g]} :
          f \in {event[g], waiting[g]} \/ (f = e /\ g = GroupOf(e))
    BY <1>1 DEF Arrive, StartJob, TypeOK
  <2>2. ASSUME NEW g \in Groups, NEW f \in {event'[g], waiting'[g]}, f # NoEvent
        PROVE  GroupOf(f) = g
    BY <2>1, <2>2 DEF JobsAreServed, InItsGroup
  <2>3. \A g \in Groups : stage'[g] = "unsubscribe" => event'[g].trigger # "checks"
    BY <1>2 DEF JobsAreServed, InItsGroup
  <2> QED
    BY <2>2, <2>3 DEF InItsGroup, GroupOf
<1>5. OnlyTheSubscribed'
  BY <1>2, <1>3 DEF JobsAreServed, OnlyTheSubscribed, Groups
<1>6. /\ \A q \in PRs : news[q] \in Nat /\ news'[q] \in Nat
      /\ \A g \in Groups, q \in PRs : reported[g][q] \in Nat
  BY DispatchAssumption DEF TypeOK
<1>7. \A g \in Groups, q \in PRs : reported'[g][q] <= news'[q]
  BY <1>3, <1>6 DEF JobsAreServed, UpToDate
<1>8. ASSUME NEW g \in Groups, stage'[g] \in {"evaluate", "answer", "report"}
      PROVE  reported'[g][event'[g].pr] <= seen'[g] /\ seen'[g] <= news'[event'[g].pr]
  <2>1. stage'[g] = stage[g] /\ seen'[g] = seen[g] /\ event'[g] = event[g]
    BY <1>2, <1>8
  <2>2. event[g].pr \in PRs /\ seen[g] \in Nat
    BY <1>8, <2>1, DispatchAssumption DEF TypeOK, EventType
  <2> QED
    BY <1>3, <1>6, <1>8, <2>1, <2>2 DEF JobsAreServed, UpToDate
<1> QED
  BY <1>4, <1>5, <1>7, <1>8 DEF JobsAreServed, UpToDate

\* What a job's step leaves alone.
LEMMA JobsKeepToThemselves ==
    ASSUME TypeOK, NEW g \in Groups, JobStep(g) \/ Crash(g)
    PROVE  /\ stage[g] # "none" /\ event[g] \in EventType /\ event[g].pr \in PRs
           /\ news' = news /\ waiting' = waiting /\ event'[g] \in {event[g], NoEvent}
           /\ \A h \in Groups \ {g} :
                stage'[h] = stage[h] /\ event'[h] = event[h] /\ seen'[h] = seen[h]
           /\ \A q \in PRs \ {event[g].pr} : subscribed'[q] = subscribed[q]
           /\ \A h \in Groups, q \in PRs :
                h # g \/ q # event[g].pr => reported'[h][q] = reported[h][q]
<1>1. stage[g] # "none"
  BY DEF JobStep, Crash, Answer, Review, Stop, Unsubscribe, Unsubscribing, Serve, Fetch,
     GatherFacts, Evaluate, Decide, Report, FailOpen, CallFails, Gated
<1>2. event[g] \in EventType /\ event[g].pr \in PRs
  BY <1>1 DEF TypeOK, EventType
<1>3. /\ news' = news /\ waiting' = waiting /\ event'[g] \in {event[g], NoEvent}
      /\ \A h \in Groups \ {g} :
           stage'[h] = stage[h] /\ event'[h] = event[h] /\ seen'[h] = seen[h]
  BY DEF JobStep, Crash, Answer, Review, Stop, Unsubscribe, Serve, Fetch, GatherFacts, Evaluate,
     Decide, Report, FailOpen, CallFails, Ends, EndsBadly, Leaves, Goto, TypeOK
<1>4. \A q \in PRs \ {event[g].pr} : subscribed'[q] = subscribed[q]
  BY <1>2 DEF JobStep, Crash, Answer, Review, Stop, Unsubscribe, Serve, Fetch, GatherFacts,
     Evaluate, Decide, Report, FailOpen, CallFails, TypeOK
<1>5. reported' = reported \/ Report(g)
  BY DEF JobStep, Crash, Answer, Review, Stop, Unsubscribe, Serve, Fetch, GatherFacts, Evaluate,
     Decide, FailOpen, CallFails
<1>6. \A h \in Groups, q \in PRs :
        h # g \/ q # event[g].pr => reported'[h][q] = reported[h][q]
  BY <1>2, <1>5 DEF Report, TypeOK
<1> QED
  BY <1>1, <1>2, <1>3, <1>4, <1>6

\* A job of the check suites changes no subscription.
LEMMA SuitesChangeNoSubscription ==
    ASSUME TypeOK, InItsGroup, NEW g \in Groups, JobStep(g) \/ Crash(g), g # event[g].pr
    PROVE  subscribed' = subscribed
<1>1. event[g] # NoEvent
  BY JobsKeepToThemselves, NoEventAssumption
<1>2. event[g].trigger = "checks" /\ stage[g] # "unsubscribe"
  BY <1>1 DEF InItsGroup, GroupOf
<1> QED
  BY <1>2 DEF JobStep, Crash, Answer, Review, Stop, Unsubscribe, Unsubscribing, Serve, Fetch,
     GatherFacts, Evaluate, Decide, Report, FailOpen, CallFails, Gated, TypeOK

\* A job's step: it serves what is subscribed, and reports what is newest.
LEMMA JobsServe ==
    ASSUME TypeOK, JobsAreServed, NEW g \in Groups, JobStep(g) \/ Crash(g)
    PROVE  JobsAreServed'
<1> DEFINE p == event[g].pr
<1>1. /\ stage[g] # "none" /\ event[g] \in EventType /\ p \in PRs
      /\ news' = news /\ waiting' = waiting /\ event'[g] \in {event[g], NoEvent}
      /\ \A h \in Groups \ {g} :
           stage'[h] = stage[h] /\ event'[h] = event[h] /\ seen'[h] = seen[h]
      /\ \A q \in PRs \ {p} : subscribed'[q] = subscribed[q]
      /\ \A h \in Groups, q \in PRs : h # g \/ q # p => reported'[h][q] = reported[h][q]
  BY JobsKeepToThemselves
<1>2. InItsGroup'
  <2>1. stage'[g] = "unsubscribe" => event'[g].trigger # "checks"
    BY <1>1 DEF JobStep, Crash, Answer, Review, Stop, Unsubscribe, Serve, Fetch, GatherFacts,
       Evaluate, Decide, Report, FailOpen, CallFails, Ends, EndsBadly, Leaves, Goto, Gated, TypeOK
  <2> QED
    BY <1>1, <2>1 DEF JobsAreServed, InItsGroup, GroupOf
<1>3. ASSUME NEW q \in PRs,
             stage'[q] \in {"fetch", "facts", "evaluate", "answer", "report"}
      PROVE  subscribed'[event'[q].pr]
  <2>1. q \in Groups /\ (stage[q] # "none" => event[q].pr = q)
    BY DispatchAssumption DEF Groups, JobsAreServed, InItsGroup, GroupOf, TypeOK
  <2>2. CASE q = g
    BY <1>1, <1>3, <2>2 DEF JobsAreServed, OnlyTheSubscribed, JobStep, Crash, Answer, Review,
       Stop, Unsubscribe, Unsubscribing, Serve, Fetch, GatherFacts, Evaluate, Decide, Report,
       FailOpen, CallFails, Ends, EndsBadly, Leaves, Goto, Gated, TypeOK
  <2>3. CASE q # g
    <3>1. stage'[q] = stage[q] /\ event'[q] = event[q] /\ event[q].pr = q
      BY <1>1, <1>3, <2>1, <2>3
    <3>2. subscribed[q]
      BY <1>3, <3>1 DEF JobsAreServed, OnlyTheSubscribed
    <3>3. CASE p = g
      BY <1>1, <2>3, <3>1, <3>2, <3>3
    <3>4. CASE p # g
      BY <3>1, <3>2, <3>4, SuitesChangeNoSubscription DEF JobsAreServed
    <3> QED
      BY <3>3, <3>4
  <2> QED
    BY <2>2, <2>3
<1>4. /\ \A q \in PRs : news[q] \in Nat
      /\ \A h \in Groups, q \in PRs : reported[h][q] \in Nat
      /\ seen[g] \in Nat
  BY DispatchAssumption DEF TypeOK
<1>5. reported' = reported \/ (Report(g) /\ reported'[g][p] = seen[g])
  BY <1>1 DEF JobStep, Crash, Answer, Review, Stop, Unsubscribe, Serve, Fetch, GatherFacts,
     Evaluate, Decide, Report, FailOpen, CallFails, TypeOK
<1>6. reported'[g][p] <= news[p]
  BY <1>1, <1>5 DEF JobsAreServed, UpToDate, Report
<1>7. \A h \in Groups, q \in PRs : reported'[h][q] <= news'[q]
  BY <1>1, <1>6 DEF JobsAreServed, UpToDate
<1>8. stage'[g] \in {"evaluate", "answer", "report"} =>
        reported'[g][event'[g].pr] <= seen'[g] /\ seen'[g] <= news'[event'[g].pr]
  BY <1>1, <1>4 DEF JobsAreServed, UpToDate, JobStep, Crash, Answer, Review, Stop,
     Unsubscribe, Serve, Fetch, GatherFacts, Evaluate, Decide, Report, FailOpen,
     CallFails, Ends, EndsBadly, Leaves, Goto, TypeOK
<1>9. ASSUME NEW h \in Groups \ {g}, stage'[h] \in {"evaluate", "answer", "report"}
      PROVE  reported'[h][event'[h].pr] <= seen'[h] /\ seen'[h] <= news'[event'[h].pr]
  <2>1. event[h].pr \in PRs
    BY <1>1, <1>9 DEF TypeOK, EventType
  <2> QED
    BY <1>1, <1>9, <2>1 DEF JobsAreServed, UpToDate
<1> QED
  BY <1>2, <1>3, <1>7, <1>8, <1>9 DEF JobsAreServed, OnlyTheSubscribed, UpToDate

LEMMA ServedStep ==
    ASSUME TypeOK, JobsAreServed, [Next]_vars
    PROVE  JobsAreServed'
<1>2. ASSUME NEW p \in PRs, NEW trigger \in TriggerKinds,
             Comment(p, trigger) \/ Novelty(p, trigger)
      PROVE  JobsAreServed'
  <2>1. 0 \in 0..MaxNews
    BY DispatchAssumption
  <2>2. ASSUME Comment(p, trigger) PROVE JobsAreServed'
    <3>1. news' = news /\ Happens(p, trigger, 0)
      BY <2>2 DEF Comment
    <3>2. \A q \in PRs : news[q] <= news'[q]
      BY <3>1, DispatchAssumption DEF TypeOK
    <3>3. news' \in [PRs -> 1..MaxNews]
      BY <3>1 DEF TypeOK
    <3> QED
      BY <2>1, <3>1, <3>2, <3>3, HappeningsServe
  <2>3. ASSUME Novelty(p, trigger) PROVE JobsAreServed'
    <3>1. Happens(p, trigger, head'[p]) /\ news[p] \in Nat
      BY <2>3, DispatchAssumption DEF Novelty, TypeOK
    <3>2. news' \in [PRs -> 1..MaxNews] /\ head' \in [PRs -> 1..MaxNews]
      BY <2>3, DispatchAssumption DEF Novelty, TypeOK
    <3>3. \A q \in PRs : news[q] <= news'[q]
      BY <2>3, DispatchAssumption DEF Novelty, TypeOK
    <3>4. head'[p] \in 0..MaxNews
      BY <3>2, DispatchAssumption
    <3> QED
      BY <3>1, <3>2, <3>3, <3>4, HappeningsServe
  <2> QED
    BY <1>2, <2>2, <2>3
<1>3. ASSUME NEW p \in PRs, CloseOrReopen(p) PROVE JobsAreServed'
  <2>1. head[p] \in 0..MaxNews /\ (IF open[p] THEN "closed" ELSE "reopened") \in TriggerKinds
    BY DispatchAssumption DEF TypeOK, TriggerKinds
  <2>2. news' \in [PRs -> 1..MaxNews] /\ \A q \in PRs : news[q] <= news'[q]
    BY <1>3, DispatchAssumption DEF CloseOrReopen, TypeOK
  <2> QED
    BY <1>3, <2>1, <2>2, HappeningsServe DEF CloseOrReopen
<1>4. ASSUME NEW g \in Groups, StartWaiting(g) PROVE JobsAreServed'
  <2>1. \A h \in Groups : stage'[h] # "gate" => stage'[h] = stage[h] /\ event'[h] = event[h]
    BY <1>4 DEF StartWaiting, StartJob, TypeOK
  <2>2. /\ seen' = seen /\ subscribed' = subscribed /\ reported' = reported /\ news' = news
    BY <1>4 DEF StartWaiting, prVars
  <2>3. \A h \in Groups : \A f \in {event'[h], waiting'[h]} :
            f # NoEvent => f \in {event[h], waiting[h]}
    BY <1>4 DEF StartWaiting, StartJob, TypeOK
  <2>4. InItsGroup'
    BY <2>1, <2>3 DEF JobsAreServed, InItsGroup, GroupOf
  <2> QED
    BY <2>1, <2>2, <2>4 DEF JobsAreServed, OnlyTheSubscribed, UpToDate, Groups
<1>5. CASE UNCHANGED vars
  BY <1>5 DEF vars, prVars, groupVars, JobsAreServed, InItsGroup, GroupOf, OnlyTheSubscribed,
     UpToDate
<1> QED
  BY <1>2, <1>3, <1>4, <1>5, JobsServe DEF Next

\* A job of a pull request's own group that is past its gate works on a
\* subscribed pull request, whatever the jobs of the check suites do beside it.
THEOREM OnlyTheSubscribedAreServed == Spec => []OnlyTheSubscribed
<1>1. TypeOK /\ JobsAreServed /\ [Next]_vars => JobsAreServed'
  BY ServedStep
<1>2. JobsAreServed => OnlyTheSubscribed
  BY DEF JobsAreServed
<1> QED
  BY <1>1, <1>2, ServedInitially, TypeCorrect, PTL DEF Spec

\* No group replaces a report of its own by one from older facts, whatever the
\* other group reports in between.
THEOREM ReportsNeverGetOlder == Spec => NeverOlder
<1>1. TypeOK /\ JobsAreServed /\ [Next]_vars => JobsAreServed'
  BY ServedStep
<1>2. ASSUME TypeOK, JobsAreServed, [Next]_vars
      PROVE  \A g \in Groups, p \in PRs : reported'[g][p] >= reported[g][p]
  <2>1. \A g \in Groups, p \in PRs : reported[g][p] \in Nat
    BY <1>2, DispatchAssumption DEF TypeOK
  <2>2. reported' = reported \/ \E g \in Groups : Report(g)
    BY <1>2 DEF Next, StartWaiting, JobStep, Crash, Answer, Review, Stop, Unsubscribe, Serve,
       Fetch, GatherFacts, Evaluate, Decide, FailOpen, CallFails, Comment, Novelty,
       CloseOrReopen, Happens, vars, prVars
  <2>3. CASE reported' = reported
    BY <2>1, <2>3
  <2>4. ASSUME NEW h \in Groups, Report(h)
        PROVE  \A g \in Groups, p \in PRs : reported'[g][p] >= reported[g][p]
    <3>1. reported[h][event[h].pr] <= seen[h] /\ seen[h] \in Nat
      BY <1>2, <2>4, DispatchAssumption DEF Report, JobsAreServed, UpToDate, TypeOK
    <3> QED
      BY <1>2, <2>1, <2>4, <3>1 DEF Report, TypeOK
  <2> QED
    BY <2>2, <2>3, <2>4
<1> QED
  BY <1>1, <1>2, ServedInitially, TypeCorrect, PTL DEF Spec, NeverOlder

-----------------------------------------------------------------------------
(* No lost wakeup: the safety half of NewsIsShown.                         *)

\* The events of comments carry no head.
CommentsCarryNoHead ==
    \A g \in Groups : \A e \in {event[g], waiting[g]} :
        e # NoEvent /\ e.trigger \in Comments => e.head = 0

\* A job for e will find the head as it is, or end the subscription.
Current(e, p) ==
    /\ e # NoEvent /\ e.pr = p
    /\ e.trigger \notin {"ask", "talk"} /\ e.head \in {0, head[p]}

Ending(e, p) == e # NoEvent /\ e.pr = p /\ e.trigger \in {"stop", "closed"}

\* The group's running job, or the one that waits, will take account of all
\* that is new on p, fail, or end p's subscription.
TakesCareOf(g, p) ==
    \/ Current(waiting[g], p) \/ Ending(waiting[g], p)
    \/ stage[g] \in {"gate", "unsubscribe"} /\ (Current(event[g], p) \/ Ending(event[g], p))
    \/ stage[g] = "fetch" /\ Current(event[g], p)
    \/ stage[g] \in {"facts", "broken"} /\ event[g].pr = p
    \/ stage[g] \in {"evaluate", "answer", "report"} /\ event[g].pr = p /\ seen[g] = news[p]

Settled(p) ==
    subscribed[p] /\ open[p] =>
        alarm[p] = news[p] \/ \E g \in Groups : reported[g][p] = news[p]

NewsIsInHand == \A p \in PRs : Settled(p) \/ \E g \in Groups : TakesCareOf(g, p)

Wakeup == CommentsCarryNoHead /\ NewsIsInHand

LEMMA WakeupInitially == Init => Wakeup
BY DEF Init, Wakeup, CommentsCarryNoHead, NewsIsInHand, Settled

\* An event that arrives displaces nothing that is not done by its own job.
LEMMA ArrivingKeepsInHand ==
    ASSUME "displaced" \notin Races, TypeOK, NEW e \in EventType, Arrive(e),
           e.trigger \in Comments => e.head = 0, CommentsCarryNoHead
    PROVE  /\ CommentsCarryNoHead'
           /\ \A p \in PRs \ {e.pr} : head'[p] = head[p] /\ news'[p] = news[p] =>
                \A g \in Groups : TakesCareOf(g, p) => TakesCareOf(g, p)'
           /\ e.trigger \notin {"ask", "talk"} /\ e.head \in {0, head'[e.pr]} =>
                TakesCareOf(GroupOf(e), e.pr)'
           /\ e.trigger \in {"ask", "talk"} /\ head' = head /\ news' = news =>
                \A g \in Groups : TakesCareOf(g, e.pr) => TakesCareOf(g, e.pr)'
<1> DEFINE a == GroupOf(e)
<1>1. a \in Groups /\ e # NoEvent
  BY NoEventAssumption DEF GroupOf, Groups, EventType
<1>2. \A g \in Groups \ {a} : event'[g] = event[g] /\ waiting'[g] = waiting[g] /\ stage'[g] = stage[g]
  BY <1>1 DEF Arrive, StartJob, TypeOK
<1>3. seen' = seen
  BY DEF Arrive
<1>4. \/ /\ event[a] = NoEvent /\ stage[a] = "none" /\ waiting[a] = NoEvent
         /\ event'[a] = e /\ stage'[a] = "gate" /\ waiting'[a] = NoEvent
      \/ /\ event'[a] = event[a] /\ stage'[a] = stage[a] /\ waiting'[a] = e
         /\ waiting[a] # NoEvent => Covers(e, waiting[a])
  BY <1>1 DEF Arrive, StartJob, TypeOK
<1>5. CommentsCarryNoHead'
  BY <1>1, <1>2, <1>4 DEF CommentsCarryNoHead
<1>6. ASSUME NEW p \in PRs \ {e.pr}, head'[p] = head[p], news'[p] = news[p],
             NEW g \in Groups, TakesCareOf(g, p)
      PROVE  TakesCareOf(g, p)'
  <2>1. CASE g = a
    BY <1>1, <1>3, <1>4, <1>6, <2>1 DEF TakesCareOf, Current, Ending, Covers
  <2>2. CASE g # a
    BY <1>2, <1>3, <1>6, <2>2 DEF TakesCareOf, Current, Ending
  <2> QED
    BY <2>1, <2>2
<1>7. ASSUME e.trigger \notin {"ask", "talk"}, e.head \in {0, head'[e.pr]}
      PROVE  TakesCareOf(a, e.pr)'
  BY <1>1, <1>4, <1>7 DEF TakesCareOf, Current
<1>8. ASSUME e.trigger \in {"ask", "talk"}, head' = head, news' = news,
             NEW g \in Groups, TakesCareOf(g, e.pr)
      PROVE  TakesCareOf(g, e.pr)'
  <2>1. CASE g = a
    BY <1>1, <1>3, <1>4, <1>8, <2>1 DEF TakesCareOf, Current, Ending, Covers
  <2>2. CASE g # a
    BY <1>2, <1>3, <1>8, <2>2 DEF TakesCareOf, Current, Ending
  <2> QED
    BY <2>1, <2>2
<1> QED
  BY <1>5, <1>6, <1>7, <1>8

LEMMA HappeningsKeepInHand ==
    ASSUME "displaced" \notin Races, TypeOK, Wakeup,
           NEW p \in PRs, NEW trigger \in TriggerKinds,
           Comment(p, trigger) \/ Novelty(p, trigger) \/ CloseOrReopen(p)
    PROVE  Wakeup'
<1>1. PICK t \in TriggerKinds, at \in 0..MaxNews :
        /\ Happens(p, t, at)
        /\ t \in Comments => at = 0
        /\ t \notin {"ask", "talk"} => at \in {0, head'[p]}
        /\ t \in {"ask", "talk"} => head' = head /\ news' = news /\ open' = open
  <2>1. /\ 0 \in 0..MaxNews /\ head[p] \in 0..MaxNews
        /\ (IF open[p] THEN "closed" ELSE "reopened") \in TriggerKinds \ Comments
        /\ {"ask", "talk"} \subseteq Comments
    BY DispatchAssumption DEF TypeOK, TriggerKinds, Comments
  <2>2. CASE Comment(p, trigger)
    BY <2>1, <2>2 DEF Comment
  <2>3. CASE Novelty(p, trigger)
    <3>1. news' \in [PRs -> 1..MaxNews] /\ head' \in [PRs -> 1..MaxNews]
      BY <2>3, DispatchAssumption DEF Novelty, TypeOK
    <3>2. head'[p] \in 0..MaxNews
      BY <3>1, DispatchAssumption
    <3> QED
      BY <2>1, <2>3, <3>2 DEF Novelty, Comments
  <2>4. CASE CloseOrReopen(p)
    BY <2>1, <2>4 DEF CloseOrReopen
  <2> QED
    BY <2>2, <2>3, <2>4
<1> DEFINE e == [trigger |-> t, pr |-> p, head |-> at]
<1>2. e \in EventType /\ e.trigger = t /\ e.pr = p /\ e.head = at /\ Arrive(e)
  BY <1>1 DEF EventType, Happens
<1>3. \A q \in PRs \ {p} : open'[q] = open[q] /\ head'[q] = head[q] /\ news'[q] = news[q]
  BY DEF Comment, Novelty, CloseOrReopen, TypeOK
<1>4. subscribed' = subscribed /\ reported' = reported /\ alarm' = alarm
  BY <1>1 DEF Happens
<1>5. GroupOf(e) \in Groups
  BY <1>2 DEF GroupOf, Groups
<1> HIDE DEF e
<1>6. /\ CommentsCarryNoHead'
      /\ \A q \in PRs \ {p} : head'[q] = head[q] /\ news'[q] = news[q] =>
           \A g \in Groups : TakesCareOf(g, q) => TakesCareOf(g, q)'
      /\ t \notin {"ask", "talk"} => TakesCareOf(GroupOf(e), p)'
      /\ t \in {"ask", "talk"} => \A g \in Groups : TakesCareOf(g, p) => TakesCareOf(g, p)'
  BY <1>1, <1>2, ArrivingKeepsInHand DEF Wakeup
<1>7. ASSUME NEW q \in PRs PROVE Settled(q)' \/ \E g \in Groups : TakesCareOf(g, q)'
  <2>1. CASE q # p
    BY <1>3, <1>4, <1>6, <1>7, <2>1 DEF Wakeup, NewsIsInHand, Settled
  <2>2. CASE q = p /\ t \notin {"ask", "talk"}
    BY <1>5, <1>6, <2>2
  <2>3. CASE q = p /\ t \in {"ask", "talk"}
    BY <1>1, <1>4, <1>6, <2>3 DEF Wakeup, NewsIsInHand, Settled
  <2> QED
    BY <2>1, <2>2, <2>3
<1> QED
  BY <1>6, <1>7 DEF Wakeup, NewsIsInHand

\* A step of a job keeps in hand what it had, or settles it.
LEMMA JobsKeepInHand ==
    ASSUME TypeOK, JobsAreServed, Wakeup, NEW g \in Groups, JobStep(g) \/ Crash(g)
    PROVE  Wakeup'
<1>1. PICK p \in PRs :
        p = event[g].pr /\ stage[g] # "none" /\ event[g] # NoEvent /\ event[g] \in EventType
  <2>1. stage[g] # "none"
    BY DEF JobStep, Crash, Answer, Review, Stop, Unsubscribe, Unsubscribing, Serve, Fetch,
       GatherFacts, Evaluate, Decide, Report, FailOpen, CallFails, Gated
  <2> QED
    BY <2>1 DEF TypeOK, EventType
<1>2. /\ waiting' = waiting /\ open' = open /\ news' = news /\ head' = head
      /\ \A h \in Groups \ {g} : event'[h] = event[h] /\ stage'[h] = stage[h] /\ seen'[h] = seen[h]
      /\ event'[g] \in {event[g], NoEvent}
  BY DEF JobStep, Crash, Answer, Review, Stop, Unsubscribe, Serve, Fetch, GatherFacts, Evaluate,
     Decide, Report, FailOpen, CallFails, Ends, EndsBadly, Leaves, Goto, TypeOK
<1>3. CommentsCarryNoHead'
  BY <1>2 DEF Wakeup, CommentsCarryNoHead
<1>4. \A q \in PRs \ {p} :
        /\ subscribed'[q] = subscribed[q] /\ alarm'[q] = alarm[q]
        /\ \A h \in Groups : reported'[h][q] = reported[h][q]
  BY <1>1, JobsKeepToThemselves DEF JobStep, Crash, Answer, Review, Stop, Unsubscribe, Serve, Fetch, GatherFacts,
     Evaluate, Decide, Report, FailOpen, CallFails, Ends, EndsBadly, Leaves, Goto, TypeOK
<1>5. \A h \in Groups \ {g} : \A q \in PRs : TakesCareOf(h, q) => TakesCareOf(h, q)'
  BY <1>2 DEF TakesCareOf, Current, Ending
<1>6. \A q \in PRs \ {p} : TakesCareOf(g, q) => TakesCareOf(g, q)'
  BY <1>1, <1>2 DEF TakesCareOf, Current, Ending
<1>7. ASSUME NEW q \in PRs \ {p} PROVE Settled(q)' \/ \E h \in Groups : TakesCareOf(h, q)'
  BY <1>2, <1>4, <1>5, <1>6, <1>7 DEF Wakeup, NewsIsInHand, Settled
<1>8. Settled(p)' \/ \E h \in Groups : TakesCareOf(h, p)'
  <2>1. CASE EndsBadly(g) \/ Unsubscribe(g)
    BY <1>1, <1>2, <2>1 DEF EndsBadly, Unsubscribe, Settled, TypeOK
  <2>2. CASE stage'[g] = "broken" /\ event' = event
    BY <1>1, <2>2 DEF TakesCareOf
  <2>3. CASE Answer(g)
    <3>1. TakesCareOf(g, p) => TakesCareOf(g, p)'
      BY <1>1, <1>2, <2>3 DEF Answer, Gated, TakesCareOf, Current, Ending
    <3> QED
      BY <1>1, <1>2, <1>5, <2>3, <3>1
      DEF Answer, Ends, Leaves, Wakeup, NewsIsInHand, Settled
  <2>4. CASE Review(g)
    <3>1. event[g].head = 0
      BY <1>1, <2>4 DEF Review, Gated, Wakeup, CommentsCarryNoHead, Comments
    <3>2. stage'[g] = "fetch" /\ event' = event
      BY <2>4 DEF Review, Goto, TypeOK
    <3>3. TakesCareOf(g, p)'
      BY <1>1, <2>4, <3>1, <3>2 DEF Review, Gated, TakesCareOf, Current
    <3> QED
      BY <3>3
  <2>5. CASE Stop(g)
    <3>1. stage'[g] = "unsubscribe" /\ event' = event
      BY <2>5 DEF Stop, Goto, TypeOK
    <3>2. TakesCareOf(g, p)'
      BY <1>1, <2>5, <3>1 DEF Stop, Gated, TakesCareOf, Ending
    <3> QED
      BY <3>2
  <2>6. CASE Serve(g)
    <3>1. CASE ~subscribed[p]
      BY <1>1, <2>6, <3>1 DEF Serve, Settled
    <3>2. CASE subscribed[p]
      <4>1. stage'[g] = "fetch" /\ event' = event
        BY <1>1, <2>6, <3>2 DEF Serve, Goto, TypeOK
      <4>2. TakesCareOf(g, p) => TakesCareOf(g, p)'
        BY <1>1, <1>2, <2>6, <4>1 DEF Serve, Gated, TakesCareOf, Current, Ending, Comments
      <4> QED
        BY <1>1, <1>2, <1>5, <2>6, <3>2, <4>1, <4>2
        DEF Serve, Goto, Wakeup, NewsIsInHand, Settled
    <3> QED
      BY <3>1, <3>2
  <2>7. CASE Fetch(g)
    <3>1. CASE Stale(g)
      <4>1. TakesCareOf(g, p) => TakesCareOf(g, p)'
        BY <1>1, <1>2, <2>7, <3>1 DEF Fetch, Stale, TakesCareOf, Current, Ending
      <4> QED
        BY <1>1, <1>2, <1>5, <2>7, <3>1, <4>1
        DEF Fetch, Ends, Leaves, Wakeup, NewsIsInHand, Settled
    <3>2. CASE ~Stale(g)
      <4>1. stage'[g] = "facts" /\ event' = event
        BY <2>7, <3>2 DEF Fetch, Goto, TypeOK
      <4> QED
        BY <1>1, <4>1 DEF TakesCareOf
    <3> QED
      BY <3>1, <3>2
  <2>8. CASE GatherFacts(g)
    <3>1. stage'[g] = "evaluate" /\ event' = event /\ seen'[g] = news'[p]
      BY <1>1, <1>2, <2>8 DEF GatherFacts, Goto, TypeOK
    <3> QED
      BY <1>1, <3>1 DEF TakesCareOf
  <2>9. CASE (Evaluate(g) /\ stage'[g] # "broken") \/ Decide(g)
    <3>1. /\ stage[g] \in {"evaluate", "answer"} /\ stage'[g] \in {"answer", "report"}
          /\ event' = event /\ seen' = seen
      BY <2>9 DEF Evaluate, Decide, Goto, TypeOK
    <3>2. TakesCareOf(g, p) => TakesCareOf(g, p)'
      BY <1>1, <1>2, <3>1 DEF TakesCareOf, Current, Ending
    <3>3. subscribed' = subscribed /\ reported' = reported /\ alarm' = alarm
      BY <2>9 DEF Evaluate, Decide, Goto
    <3> QED
      BY <1>2, <1>5, <3>2, <3>3 DEF Wakeup, NewsIsInHand, Settled
  <2>10. CASE Report(g)
    <3>1. /\ reported[g][p] <= seen[g] /\ seen[g] <= news[p] /\ reported'[g][p] = seen[g]
          /\ reported[g][p] \in Nat /\ seen[g] \in Nat /\ news[p] \in Nat
          /\ alarm' = alarm /\ subscribed' = subscribed
      BY <1>1, <2>10, DispatchAssumption
      DEF Report, Ends, JobsAreServed, UpToDate, TypeOK
    <3>2. CASE seen[g] = news[p]
      BY <1>2, <3>1, <3>2 DEF Settled
    <3>3. CASE seen[g] # news[p]
      <4>1. reported[g][p] # news[p]
        BY <3>1, <3>3
      <4>2. \A h \in Groups \ {g} : reported'[h][p] = reported[h][p]
        BY <1>1, JobsKeepToThemselves
      <4>3. TakesCareOf(g, p) => TakesCareOf(g, p)'
        BY <1>1, <1>2, <2>10, <3>3 DEF Report, TakesCareOf, Current, Ending
      <4>4. Settled(p) => Settled(p)'
        BY <1>2, <3>1, <4>1, <4>2 DEF Settled
      <4> QED
        BY <1>2, <1>5, <4>3, <4>4 DEF Wakeup, NewsIsInHand
    <3> QED
      BY <3>2, <3>3
  <2> QED
    <3>1. ASSUME CallFails(g) PROVE EndsBadly(g) \/ (stage'[g] = "broken" /\ event' = event)
      BY <3>1 DEF CallFails, Goto, TypeOK
    <3>2. Evaluate(g) => event' = event
      BY DEF Evaluate, Goto
    <3> QED
      BY <2>1, <2>2, <2>3, <2>4, <2>5, <2>6, <2>7, <2>8, <2>9, <2>10, <3>1, <3>2
      DEF JobStep, Crash, FailOpen
<1> QED
  BY <1>3, <1>7, <1>8 DEF Wakeup, NewsIsInHand

LEMMA WakeupStep ==
    ASSUME "displaced" \notin Races, TypeOK, JobsAreServed, Wakeup, [Next]_vars
    PROVE  Wakeup'
<1>1. ASSUME NEW g \in Groups, StartWaiting(g) PROVE Wakeup'
  <2>1. /\ seen' = seen /\ UNCHANGED prVars
        /\ event[g] = NoEvent /\ stage[g] = "none"
        /\ event'[g] = waiting[g] /\ stage'[g] = "gate" /\ waiting'[g] = NoEvent
        /\ \A h \in Groups \ {g} :
             event'[h] = event[h] /\ stage'[h] = stage[h] /\ waiting'[h] = waiting[h]
    BY <1>1 DEF StartWaiting, StartJob, TypeOK
  <2>2. CommentsCarryNoHead'
    BY <2>1 DEF Wakeup, CommentsCarryNoHead
  <2>3. \A q \in PRs : Settled(q) => Settled(q)'
    BY <2>1 DEF Settled, prVars
  <2>4. \A h \in Groups, q \in PRs : TakesCareOf(h, q) => TakesCareOf(h, q)'
    BY <2>1 DEF TakesCareOf, Current, Ending, prVars
  <2> QED
    BY <2>2, <2>3, <2>4 DEF Wakeup, NewsIsInHand
<1>2. CASE UNCHANGED vars
  BY <1>2 DEF vars, prVars, groupVars, Wakeup, CommentsCarryNoHead, NewsIsInHand, Settled,
     TakesCareOf, Current, Ending
<1>3. CASE \E p \in PRs : CloseOrReopen(p)
  <2>1. "synchronize" \in TriggerKinds
    BY DEF TriggerKinds
  <2> QED
    BY <1>3, <2>1, HappeningsKeepInHand
<1> QED
  BY <1>1, <1>2, <1>3, HappeningsKeepInHand, JobsKeepInHand DEF Next

\* No wakeup is lost: if no event displaces another one's work, then as long as
\* what is new on a subscribed pull request has neither been reported by a job
\* nor failed, a job of it runs or waits.
THEOREM NoWakeupIsLost ==
    ASSUME "displaced" \notin Races
    PROVE  Spec => []NothingIsForgotten
<1>1. TypeOK /\ JobsAreServed /\ [Next]_vars => JobsAreServed'
  BY ServedStep
<1>2. TypeOK /\ JobsAreServed /\ Wakeup /\ [Next]_vars => Wakeup'
  BY WakeupStep
<1>3. TypeOK /\ Wakeup => NothingIsForgotten
  <2> SUFFICES ASSUME TypeOK, Wakeup, NEW p \in PRs, ~Settled(p)
               PROVE  \E g \in Groups : \E e \in {event[g], waiting[g]} \ {NoEvent} : e.pr = p
    BY DEF NothingIsForgotten, Settled
  <2> QED
    BY DEF Wakeup, NewsIsInHand, TakesCareOf, Current, Ending, TypeOK
<1> QED
  BY <1>1, <1>2, <1>3, ServedInitially, WakeupInitially, TypeCorrect, PTL DEF Spec
=============================================================================

------------------------------ MODULE Dispatch ------------------------------
(***************************************************************************)
(* Which jobs run, and which of them evaluate.  An event on a pull request *)
(* starts the workflow of internal/onboard/templates/talooner.yml, whose   *)
(* concurrency group lets one job run and one wait.  The job (run.Run)     *)
(* carries out a command, or asks the cluster whether the pull request is  *)
(* subscribed; it leaves a head that has moved to the newer job, gathers   *)
(* the facts, has the cluster evaluate them and reports.                   *)
(*                                                                         *)
(* What a report consists of is in Report; here it is one step.  What is   *)
(* new on a pull request, a push, a review, the end of a check suite, is   *)
(* counted: news.  A head is named by the news its push was.               *)
(***************************************************************************)
EXTENDS Naturals

CONSTANTS
    PRs,        \* the pull requests of one repository
    Triggers,   \* what happens on them, a subset of TriggerKinds
    Faults,     \* which failures happen, a subset of {"call", "crash"}
    Races,      \* how jobs get in each other's way, a subset of RaceKinds
    MaxNews,    \* bound: how much happens on a pull request
    NoNumber,   \* the group of the events that carry no number
    NoEvent     \* nothing waits

\* "ask" is /why and /plan, which change nothing; "talk" is a comment that is
\* no command, or not by somebody who may give one.
Comments == {"review", "stop", "ask", "talk"}
TriggerKinds == Comments \cup {"synchronize", "closed", "reopened", "reviewed", "checks"}

\* displaced: an event takes the place of a waiting one without doing its work.
\* overlap: a pull request has jobs in its own group and among the suites'.
RaceKinds == {"displaced", "overlap"}

ASSUME DispatchAssumption ==
    /\ Triggers \subseteq TriggerKinds
    /\ Faults \subseteq {"call", "crash"}
    /\ Races \subseteq RaceKinds
    /\ MaxNews \in Nat \ {0}
    /\ NoNumber \notin PRs

\* An event; the payload of a comment carries no head: 0.
EventType == [trigger : TriggerKinds, pr : PRs, head : 0..MaxNews]

ASSUME NoEventAssumption == NoEvent \notin EventType

VARIABLES
    open,         \* per pull request: it is open
    news,         \*   how much has happened on it
    head,         \*   its head
    subscribed,   \*   the cluster's subscription
    shown,        \*   the news that the last report took account of
    alarm,        \*   ghost: the news by which a job last ended with an error
    reported,     \*   ghost: per group, the news its last report took account of
    waiting,      \* per group: the event whose job waits
    event,        \*   the event of the running job
    stage,        \*   the running job's next step
    seen          \*   the news its facts take account of

prVars == <<open, news, head, subscribed, shown, alarm, reported>>
groupVars == <<waiting, event, stage, seen>>
vars == <<prVars, groupVars>>

Groups == PRs \cup {NoNumber}
Stages == {"none", "gate", "unsubscribe", "fetch", "facts", "evaluate", "answer",
           "report", "broken"}

TypeOK ==
    /\ open \in [PRs -> BOOLEAN]
    /\ news \in [PRs -> 1..MaxNews]
    /\ head \in [PRs -> 1..MaxNews]
    /\ subscribed \in [PRs -> BOOLEAN]
    /\ shown \in [PRs -> 0..MaxNews]
    /\ alarm \in [PRs -> 0..MaxNews]
    /\ reported \in [Groups -> [PRs -> 0..MaxNews]]
    /\ waiting \in [Groups -> EventType \cup {NoEvent}]
    /\ event \in [Groups -> EventType \cup {NoEvent}]
    /\ stage \in [Groups -> Stages]
    /\ seen \in [Groups -> 0..MaxNews]
    /\ \A g \in Groups : event[g] = NoEvent <=> stage[g] = "none"

Init ==
    /\ open = [p \in PRs |-> TRUE]
    /\ news = [p \in PRs |-> 1]
    /\ head = [p \in PRs |-> 1]
    /\ subscribed = [p \in PRs |-> FALSE]
    /\ shown = [p \in PRs |-> 0]
    /\ alarm = [p \in PRs |-> 0]
    /\ reported = [g \in Groups |-> [p \in PRs |-> 0]]
    /\ waiting = [g \in Groups |-> NoEvent]
    /\ event = [g \in Groups |-> NoEvent]
    /\ stage = [g \in Groups |-> "none"]
    /\ seen = [g \in Groups |-> 0]

-----------------------------------------------------------------------------
(* The concurrency group.                                                  *)

\* A check_suite payload has neither pull_request nor issue: no number.
GroupOf(e) == IF e.trigger = "checks" THEN NoNumber ELSE e.pr

\* A job for e reports what a job for w would have reported.  What a displaced
\* /review, /stop or closed would have done to the subscription is lost.
Covers(e, w) == e.pr = w.pr /\ e.trigger \notin {"ask", "talk"}

StartJob(g, e) ==
    /\ event' = [event EXCEPT ![g] = e]
    /\ stage' = [stage EXCEPT ![g] = "gate"]

\* The other group has a job for the pull request, running or waiting.
Busy(p, g) ==
    \E h \in Groups \ {g} :
        \E e \in {event[h], waiting[h]} \ {NoEvent} : e.pr = p

\* An event's job starts if its group is free; if it is not, it waits, in the
\* place of the one that has waited so far.
Arrive(e) ==
    LET g == GroupOf(e) IN
    /\ waiting[g] # NoEvent /\ ~Covers(e, waiting[g]) => "displaced" \in Races
    /\ Busy(e.pr, g) => "overlap" \in Races
    /\ IF event[g] = NoEvent /\ waiting[g] = NoEvent
       THEN StartJob(g, e) /\ UNCHANGED waiting
       ELSE /\ waiting' = [waiting EXCEPT ![g] = e]
            /\ UNCHANGED <<event, stage>>
    /\ UNCHANGED seen

\* The group is free: the job that waits starts.
StartWaiting(g) ==
    /\ event[g] = NoEvent
    /\ waiting[g] # NoEvent
    /\ StartJob(g, waiting[g])
    /\ waiting' = [waiting EXCEPT ![g] = NoEvent]
    /\ UNCHANGED <<prVars, seen>>

-----------------------------------------------------------------------------
(* The job.                                                                *)

\* Mutant: a job that has ended goes on holding its group.
HoldsItsGroup(g) ==
    /\ stage' = [stage EXCEPT ![g] = "none"]
    /\ seen' = [seen EXCEPT ![g] = 0]
    /\ UNCHANGED <<event, waiting>>

Leaves(g) ==
    /\ event' = [event EXCEPT ![g] = NoEvent]
    /\ stage' = [stage EXCEPT ![g] = "none"]
    /\ seen' = [seen EXCEPT ![g] = 0]
    /\ UNCHANGED waiting

Ends(g) == Leaves(g) /\ UNCHANGED alarm

\* Everybody sees that a job has failed.
EndsBadly(g) ==
    /\ alarm' = [alarm EXCEPT ![event[g].pr] = news[event[g].pr]]
    /\ Leaves(g)

Goto(g, next) ==
    /\ stage' = [stage EXCEPT ![g] = next]
    /\ UNCHANGED <<waiting, event, alarm>>

Gated(g, triggers) == stage[g] = "gate" /\ event[g].trigger \in triggers

\* The workflow's if, or the gate, keeps a comment out; /why and /plan only read.
Answer(g) ==
    /\ Gated(g, {"ask", "talk"})
    /\ Ends(g)
    /\ UNCHANGED <<open, news, head, subscribed, shown, reported>>

Review(g) ==
    /\ Gated(g, {"review"})
    /\ subscribed' = [subscribed EXCEPT ![event[g].pr] = TRUE]
    /\ Goto(g, "fetch")
    /\ UNCHANGED <<open, news, head, shown, reported, seen>>

\* /stop answers before it unsubscribes.
Stop(g) ==
    /\ Gated(g, {"stop"})
    /\ Goto(g, "unsubscribe")
    /\ UNCHANGED <<open, news, head, subscribed, shown, reported, seen>>

Unsubscribing(g) == stage[g] = "unsubscribe" \/ Gated(g, {"closed"})

Unsubscribe(g) ==
    /\ Unsubscribing(g)
    /\ subscribed' = [subscribed EXCEPT ![event[g].pr] = FALSE]
    /\ Ends(g)
    /\ UNCHANGED <<open, news, head, shown, reported>>

\* Mutant: nobody is asked whether the pull request is subscribed.
ServesAnyone(g) ==
    /\ Gated(g, TriggerKinds \ (Comments \cup {"closed"}))
    /\ Goto(g, "fetch")
    /\ UNCHANGED <<open, news, head, subscribed, shown, reported, seen>>

\* Every other event only serves a subscribed pull request.
Serve(g) ==
    /\ Gated(g, TriggerKinds \ (Comments \cup {"closed"}))
    /\ IF subscribed[event[g].pr]
       THEN Goto(g, "fetch") /\ UNCHANGED seen
       ELSE Ends(g)
    /\ UNCHANGED <<open, news, head, subscribed, shown, reported>>

\* Mutant: the head of a comment's event, which has none, is compared too.
ComparesNothing(g) == event[g].head # head[event[g].pr]

\* The head has moved since the event.
Stale(g) == event[g].head # 0 /\ event[g].head # head[event[g].pr]

\* A job whose head has moved leaves it to the newer one.
Fetch(g) ==
    /\ stage[g] = "fetch"
    /\ IF Stale(g) THEN Ends(g) ELSE Goto(g, "facts") /\ UNCHANGED seen
    /\ UNCHANGED <<open, news, head, subscribed, shown, reported>>

\* Mutant: the facts are those of the event's payload.
TakesThePayload(g) ==
    /\ stage[g] = "facts"
    /\ seen' = [seen EXCEPT ![g] = event[g].head]
    /\ Goto(g, "evaluate")
    /\ UNCHANGED <<open, news, head, subscribed, shown, reported>>

\* The facts are derived from scratch, whatever the event was.
GatherFacts(g) ==
    /\ stage[g] = "facts"
    /\ seen' = [seen EXCEPT ![g] = news[event[g].pr]]
    /\ Goto(g, "evaluate")
    /\ UNCHANGED <<open, news, head, subscribed, shown, reported>>

\* The cluster evaluates a pull request once at a time, and refuses a second.
Evaluate(g) ==
    /\ stage[g] = "evaluate"
    /\ IF \E h \in Groups : stage[h] = "answer" /\ event[h].pr = event[g].pr
       THEN Goto(g, "broken") ELSE Goto(g, "answer")
    /\ UNCHANGED <<open, news, head, subscribed, shown, reported, seen>>

Decide(g) ==
    /\ stage[g] = "answer"
    /\ Goto(g, "report")
    /\ UNCHANGED <<open, news, head, subscribed, shown, reported, seen>>

Report(g) ==
    /\ stage[g] = "report"
    /\ shown' = [shown EXCEPT ![event[g].pr] = seen[g]]
    /\ reported' = [reported EXCEPT ![g][event[g].pr] = seen[g]]
    /\ Ends(g)
    /\ UNCHANGED <<open, news, head, subscribed>>

\* failOpen: the check run becomes neutral.
FailOpen(g) ==
    /\ stage[g] = "broken"
    /\ EndsBadly(g)
    /\ UNCHANGED <<open, news, head, subscribed, shown, reported>>

\* A call fails: before the pull request has been fetched that ends the job,
\* and the subscription may have been written; afterwards the job fails open.
CallFails(g) ==
    /\ "call" \in Faults
    /\ \/ /\ stage[g] \in {"gate", "unsubscribe", "fetch"} /\ ~Gated(g, {"talk"})
          /\ \/ UNCHANGED subscribed
             \/ Unsubscribing(g) /\ subscribed' = [subscribed EXCEPT ![event[g].pr] = FALSE]
             \/ Gated(g, {"review"}) /\ subscribed' = [subscribed EXCEPT ![event[g].pr] = TRUE]
          /\ EndsBadly(g)
       \/ /\ stage[g] \in {"facts", "answer", "report"}
          /\ Goto(g, "broken")
          /\ UNCHANGED <<subscribed, seen>>
    /\ UNCHANGED <<open, news, head, shown, reported>>

Crash(g) ==
    /\ "crash" \in Faults
    /\ stage[g] # "none"
    /\ EndsBadly(g)
    /\ UNCHANGED <<open, news, head, subscribed, shown, reported>>

JobStep(g) ==
    \/ Answer(g) \/ Review(g) \/ Stop(g) \/ Unsubscribe(g) \/ Serve(g)
    \/ Fetch(g) \/ GatherFacts(g) \/ Evaluate(g) \/ Decide(g) \/ Report(g)
    \/ FailOpen(g) \/ CallFails(g)

-----------------------------------------------------------------------------
(* What happens on a pull request.                                         *)

Happens(p, trigger, at) ==
    /\ trigger \in Triggers
    /\ Arrive([trigger |-> trigger, pr |-> p, head |-> at])
    /\ UNCHANGED <<subscribed, shown, alarm, reported>>

Comment(p, trigger) ==
    /\ trigger \in Comments
    /\ UNCHANGED <<open, news, head>>
    /\ Happens(p, trigger, 0)

\* Something to evaluate: a push, a submitted review, a completed suite.
Novelty(p, trigger) ==
    /\ trigger \in {"synchronize", "reviewed", "checks"}
    /\ open[p] /\ news[p] < MaxNews
    /\ news' = [news EXCEPT ![p] = @ + 1]
    /\ head' = IF trigger = "synchronize" THEN [head EXCEPT ![p] = news'[p]] ELSE head
    /\ Happens(p, trigger, head'[p])
    /\ UNCHANGED open

CloseOrReopen(p) ==
    /\ open' = [open EXCEPT ![p] = ~@]
    /\ UNCHANGED <<news, head>>
    /\ Happens(p, IF open[p] THEN "closed" ELSE "reopened", head[p])

Next ==
    \/ \E g \in Groups : StartWaiting(g) \/ JobStep(g) \/ Crash(g)
    \/ \E p \in PRs, trigger \in TriggerKinds : Comment(p, trigger) \/ Novelty(p, trigger)
    \/ \E p \in PRs : CloseOrReopen(p)

Spec == Init /\ [][Next]_vars

\* GitHub starts the job that waits when its group is free, and a job that has
\* started takes its next step, unless it is killed.
FairSpec == Spec /\ \A g \in Groups : WF_vars(StartWaiting(g)) /\ WF_vars(JobStep(g))

-----------------------------------------------------------------------------
(* Properties.                                                             *)

\* "Nothing happens until asked" (README.md): a job of a pull request's own group
\* that is past its gate works on a pull request that is subscribed, from the
\* facts to the report, whatever commands come in and whatever the jobs of the
\* check suites do in the meantime.
OnlyTheSubscribed ==
    \A p \in PRs :
        stage[p] \in {"fetch", "facts", "evaluate", "answer", "report"}
            => subscribed[event[p].pr]

\* "the later run starts from current facts anyway, so a stale in-flight
\* evaluation self-corrects" (docs/architecture.md, Concurrency): what is new on
\* a subscribed pull request is taken account of by a report of one of its jobs,
\* or by a job that has failed for everyone to see.
NewsIsShown ==
    \A p \in PRs : \A n \in 1..MaxNews :
        (subscribed[p] /\ open[p] /\ news[p] = n)
            ~> \/ \E g \in Groups : reported[g][p] >= n
               \/ alarm[p] >= n \/ ~subscribed[p] \/ ~open[p]

\* The safety half of NewsIsShown, no lost wakeup: as long as what is new on a
\* subscribed pull request has neither been reported by some job nor failed,
\* some job of the pull request runs or waits.
NothingIsForgotten ==
    \A p \in PRs :
        subscribed[p] /\ open[p] /\ alarm[p] # news[p]
            => \/ \E g \in Groups : reported[g][p] = news[p]
               \/ \E g \in Groups : \E e \in {event[g], waiting[g]} \ {NoEvent} : e.pr = p

\* The jobs of a group, one at a time, never replace a report of theirs by one
\* from older facts.
NeverOlder == [][\A g \in Groups, p \in PRs : reported'[g][p] >= reported[g][p]]_vars

\* "One run per PR at a time" (docs/architecture.md, Concurrency), which the group
\* of the check suites breaks.  No run checks these three: a report replaces one
\* from newer facts, and is what everybody sees from then on; and a job reports on
\* a pull request that has unsubscribed.
ShownNeverOlder == [][\A p \in PRs : shown'[p] >= shown[p]]_vars

NewsStaysShown ==
    \A p \in PRs : \A n \in 1..MaxNews :
        (subscribed[p] /\ open[p] /\ news[p] = n)
            ~> (shown[p] >= n \/ alarm[p] >= n \/ ~subscribed[p] \/ ~open[p])

ReportsTheSubscribed ==
    \A g \in Groups : stage[g] = "report" => subscribed[event[g].pr]
=============================================================================

------------------------------- MODULE Report -------------------------------
(***************************************************************************)
(* internal/run: one job evaluates a pull request and reports.  It passes  *)
(* the gate, fetches the pull request, loads the ruleset and the           *)
(* configuration from the base branch, gathers the facts from several      *)
(* calls, has the cluster evaluate them, and then writes, in this order,   *)
(* the sticky comment, what the actions ask for, the review, the           *)
(* assignments and the check run.  The first error ends the report;        *)
(* failOpen then makes the check run neutral.  An error before the head is *)
(* known ends the job with no report at all.                               *)
(*                                                                         *)
(* Jobs come one at a time, as the workflow's concurrency group has it;    *)
(* what overlapping jobs and the details of the review and the assignments *)
(* add is in ReviewSync and Assignment.                                    *)
(***************************************************************************)
EXTENDS Decision, FiniteSets

CONSTANTS
    Decisions,   \* the decisions the cluster may come to
    Faults,      \* which failures happen, a subset of FaultKinds
    MaxHead      \* bound: how many heads the pull request gets

\* Named for what fails.  "subscription" is the gate of a command, or the
\* subscription that cannot be looked up or set; "fetch" the pull request that
\* cannot be had, or has no base ref; "cluster" cannot be reached, "rejected" is the
\* cluster's own error (ErrAction), "crash" kills the job.
FaultKinds == {"subscription", "fetch", "ruleset", "config", "facts", "cluster", "rejected", "comment",
               "review", "assignment", "check", "crash"}

ASSUME ReportAssumption ==
    /\ Decisions \subseteq Seq(ActionKinds)
    /\ Faults \subseteq FaultKinds
    /\ MaxHead \in Nat \ {0}

VARIABLES
    head,       \* the pull request's head
    verdict,    \* the kind of Talooner review that stands
    assigned,   \* whether something Talooner assigned or requested stands
    comment,    \* what the sticky review comment says
    check,      \* per head: the conclusion of its talooner check run
    pc,         \* the job's next step
    sha,        \* the head the job works for, once it has fetched it
    sources,    \* the heads its facts have been read from
    read,       \* which of the facts' calls have been answered
    decision,   \* what the cluster decided
    warned,     \* the decision carries warnings
    step,       \* how much of the work is done
    synced,     \* the executors that have been called (their done flags)
    outcome,    \* how the last job ended
    unwritten   \* ghost: in this job the host did not take a neutral check run

hostVars == <<head, verdict, assigned, comment, check>>
jobVars == <<pc, sha, sources, read, decision, warned, step, synced, outcome,
            unwritten>>
vars == <<hostVars, jobVars>>

Heads == 1..MaxHead
Conclusions == {"success", "failure", "neutral"}
Comments == {"none", "acknowledged", "findings", "no rule fired", "resolved",
             "broken", "no ruleset"}
Stages == {"idle", "subscribe", "subscribed", "fetch", "ruleset", "noRuleset", "config", "configBroken", "facts",
           "evaluate", "comment", "work", "check", "failOpen", "brokenCheck",
           "brokenComment"}

TypeOK ==
    /\ head \in Heads
    /\ verdict \in {"none", "APPROVED", "CHANGES_REQUESTED"}
    /\ assigned \in BOOLEAN
    /\ comment \in Comments
    /\ check \in [Heads -> Conclusions \cup {"none"}]
    /\ pc \in Stages
    /\ sha \in Heads
    /\ sources \in SUBSET Heads
    /\ read \in SUBSET {"files", "pull", "diff"}
    /\ decision \in Decisions \cup {<<>>}
    /\ warned \in BOOLEAN
    /\ step \in 0..(Len(decision) + 2)
    /\ synced \in SUBSET {"review", "assignment"}
    /\ outcome \in {"none", "reported", "silent", "failed", "killed"}
    /\ unwritten \in BOOLEAN

Init ==
    /\ head = 1
    /\ verdict = "none"
    /\ assigned = FALSE
    /\ comment = "none"
    /\ check = [h \in Heads |-> "none"]
    /\ pc = "idle"
    /\ sha = 1
    /\ sources = {}
    /\ read = {}
    /\ decision = <<>>
    /\ warned = FALSE
    /\ step = 0
    /\ synced = {}
    /\ outcome = "none"
    /\ unwritten = FALSE

-----------------------------------------------------------------------------
(* The way to a decision.                                                  *)

Goto(stage) == pc' = stage

\* Mutant: the next job goes on where this one ended.
KeepsItsPlace(how) ==
    /\ pc' = "idle"
    /\ outcome' = how
    /\ sources' = {} /\ read' = {} /\ synced' = {} /\ UNCHANGED step

\* A job ends; all it knew goes with it, but for how it ended.
End(how) ==
    /\ pc' = "idle"
    /\ outcome' = how
    /\ sources' = {} /\ read' = {} /\ synced' = {} /\ step' = 0

Ending == <<sha, decision, warned, unwritten>>

\* A job starts on /review, which subscribes, or on an event of a pull request
\* that has to be subscribed.
Begin(asked) ==
    /\ pc = "idle"
    /\ Goto(IF asked THEN "subscribe" ELSE "subscribed")
    /\ decision' = <<>> /\ warned' = FALSE
    /\ outcome' = "none" /\ unwritten' = FALSE
    /\ UNCHANGED <<hostVars, sha, sources, read, step, synced>>

\* On: the job goes on to the next stage.  Over: it ends here, and reports nothing.
On(stage) == Goto(stage) /\ UNCHANGED <<sources, read, step, synced, outcome>>
Over(fault) == End("silent") \/ (fault \in Faults /\ End("failed"))

\* The gate and SetSubscription; then /review is acknowledged, if it can be.
Subscribe ==
    /\ pc = "subscribe"
    /\ \/ /\ On("fetch")
          /\ \/ comment' = "acknowledged"
             \/ "comment" \in Faults /\ UNCHANGED comment
       \/ Over("subscription") /\ UNCHANGED comment
    /\ UNCHANGED <<head, verdict, assigned, check, Ending>>

CheckSubscription ==
    /\ pc = "subscribed"
    /\ On("fetch") \/ Over("subscription")
    /\ UNCHANGED <<hostVars, Ending>>

\* The pull request, as it is now; when its head is not the event's, a newer
\* job is left to report (Dispatch has which events name a head).
FetchPull ==
    /\ pc = "fetch"
    /\ \/ sha' = head /\ On("ruleset")
       \/ head > 1 /\ End("silent") /\ UNCHANGED sha
       \/ "fetch" \in Faults /\ End("failed") /\ UNCHANGED sha
    /\ UNCHANGED <<hostVars, decision, warned, unwritten>>

Local == <<sha, sources, read, decision, warned, step, synced, outcome, unwritten>>

LoadRuleset ==
    /\ pc = "ruleset"
    /\ \/ Goto("config")
       \/ Goto("noRuleset")
       \/ "ruleset" \in Faults /\ Goto("failOpen")
    /\ UNCHANGED <<hostVars, Local>>

\* Without a ruleset there is a comment, and no check run.
NoRuleset ==
    /\ pc = "noRuleset"
    /\ \/ comment' = "no ruleset" /\ End("silent")
       \/ /\ "comment" \in Faults
          /\ comment' \in {comment, "no ruleset"}
          /\ Goto("failOpen") /\ UNCHANGED <<sources, read, step, synced, outcome>>
    /\ UNCHANGED <<head, verdict, assigned, check, Ending>>

LoadConfig ==
    /\ pc = "config"
    /\ \/ Goto("facts")
       \/ "config" \in Faults /\ Goto("configBroken")
    /\ UNCHANGED <<hostVars, Local>>

ConfigBroken ==
    /\ pc = "configBroken"
    /\ Goto("failOpen")
    /\ \/ comment' = "broken"
       \/ "comment" \in Faults /\ UNCHANGED comment
    /\ UNCHANGED <<head, verdict, assigned, check, Local>>

\* The pull request and the list of its files are fetched side by side, the
\* diff after both; each call shows the head of its own moment.
ReadFacts(call) ==
    /\ pc = "facts"
    /\ call \notin read
    /\ call = "diff" => {"files", "pull"} \subseteq read
    /\ read' = read \cup {call}
    /\ sources' = sources \cup {head}
    /\ IF call = "diff" THEN Goto("evaluate") ELSE Goto("facts")
    /\ UNCHANGED <<hostVars, sha, decision, warned, step, synced, outcome, unwritten>>

FactsFail ==
    /\ pc = "facts"
    /\ "facts" \in Faults
    /\ Goto("failOpen")
    /\ UNCHANGED <<hostVars, Local>>

Evaluate ==
    /\ pc = "evaluate"
    /\ \E d \in Decisions, w \in BOOLEAN :
         /\ decision' = d
         /\ warned' = w
         /\ Goto(IF Performable(d) THEN "comment" ELSE "failOpen")
    /\ UNCHANGED <<hostVars, sha, sources, read, step, synced, outcome, unwritten>>

EvaluationFails ==
    /\ pc = "evaluate"
    /\ \/ "cluster" \in Faults /\ Goto("failOpen")
       \/ "rejected" \in Faults /\ Goto("brokenCheck")
    /\ UNCHANGED <<hostVars, Local>>

-----------------------------------------------------------------------------
(* Carrying the decision out.                                              *)

\* An edit-only body replaces a comment and creates none.
Commented ==
    IF EditOnly(decision, warned) /\ comment = "none"
    THEN "none" ELSE Body(decision, warned)

WriteComment ==
    /\ pc = "comment"
    /\ \/ comment' = Commented /\ Goto("work")
       \/ "comment" \in Faults /\ comment' \in {comment, Commented} /\ Goto("failOpen")
    /\ UNCHANGED <<head, verdict, assigned, check, Local>>

\* Mutant: only the executors an action names are called.
WorkDone == step = Len(decision)

\* Everything has been called and the check run is next.
AllDone == step = Len(Work(decision))

\* The executor whose turn it is.
Turn == Work(decision)[step + 1]

Proceed ==
    /\ step' = step + 1
    /\ UNCHANGED <<pc, outcome, unwritten>>

\* Nothing to call: the action is derived, or its executor has been called.
PassOver ==
    /\ pc = "work" /\ ~AllDone
    /\ Turn = "derived" \/ Turn \in synced
    /\ Proceed
    /\ UNCHANGED <<hostVars, sha, sources, read, decision, warned, synced>>

\* The error of an executor ends the report.
Abort ==
    /\ Goto("failOpen")
    /\ UNCHANGED <<step, outcome, unwritten>>

\* SyncReview.  Left half done it has dismissed, or dismissed and submitted.
SyncReview ==
    /\ pc = "work" /\ ~AllDone
    /\ Turn = "review" /\ "review" \notin synced
    /\ synced' = synced \cup {"review"}
    /\ \/ verdict' = Verdict(decision) /\ Proceed
       \/ /\ "review" \in Faults
          /\ verdict' \in {verdict, "none", Verdict(decision)}
          /\ Abort
    /\ UNCHANGED <<head, assigned, comment, check, sha, sources, read, decision, warned>>

SyncAssignments ==
    /\ pc = "work" /\ ~AllDone
    /\ Turn = "assignment" /\ "assignment" \notin synced
    /\ synced' = synced \cup {"assignment"}
    /\ \/ assigned' = Assigns(decision) /\ Proceed
       \/ /\ "assignment" \in Faults
          /\ assigned' \in {assigned, Assigns(decision)}
          /\ Abort
    /\ UNCHANGED <<head, verdict, comment, check, sha, sources, read, decision, warned>>

WorkEnds ==
    /\ pc = "work" /\ AllDone
    /\ Goto("check")
    /\ UNCHANGED <<hostVars, Local>>

Concludes(conclusion) == check' = [check EXCEPT ![sha] = conclusion]

WriteCheck ==
    /\ pc = "check"
    /\ \/ Concludes(Conclusion(decision)) /\ End("reported")
       \/ /\ "check" \in Faults
          /\ Concludes(Conclusion(decision)) \/ UNCHANGED check
          /\ Goto("failOpen") /\ UNCHANGED <<sources, read, step, synced, outcome>>
    /\ UNCHANGED <<head, verdict, assigned, comment, Ending>>

-----------------------------------------------------------------------------
(* When it cannot be carried out.                                          *)

\* Mutant: an error leaves the check run alone.
LeavesTheCheck == UNCHANGED <<check, unwritten>>

\* failOpen, rulesetBroken: the check run becomes neutral, if it can be written.
Neutral ==
    \/ Concludes("neutral") /\ UNCHANGED unwritten
    \/ "check" \in Faults /\ unwritten' = TRUE /\ UNCHANGED check

FailOpen ==
    /\ pc = "failOpen"
    /\ Neutral
    /\ End("failed")
    /\ UNCHANGED <<head, verdict, assigned, comment, sha, decision, warned>>

BrokenCheck ==
    /\ pc = "brokenCheck"
    /\ Neutral
    /\ Goto("brokenComment")
    /\ UNCHANGED <<head, verdict, assigned, comment, sha, sources, read, decision, warned,
                   step, synced, outcome>>

\* What is reported here is not reported again by failOpen.
BrokenComment ==
    /\ pc = "brokenComment"
    /\ \/ comment' = "broken"
       \/ "comment" \in Faults /\ UNCHANGED comment
    /\ End("failed")
    /\ UNCHANGED <<head, verdict, assigned, check, Ending>>

Crash ==
    /\ "crash" \in Faults
    /\ pc # "idle"
    /\ End("killed")
    /\ UNCHANGED <<hostVars, Ending>>

Push ==
    /\ head < MaxHead
    /\ head' = head + 1
    /\ UNCHANGED <<verdict, assigned, comment, check, jobVars>>

JobStep ==
    \/ Subscribe \/ CheckSubscription \/ FetchPull
    \/ LoadRuleset \/ NoRuleset \/ LoadConfig \/ ConfigBroken
    \/ (\E call \in {"files", "pull", "diff"} : ReadFacts(call)) \/ FactsFail
    \/ Evaluate \/ EvaluationFails
    \/ WriteComment \/ PassOver \/ SyncReview \/ SyncAssignments \/ WorkEnds
    \/ WriteCheck \/ FailOpen \/ BrokenCheck \/ BrokenComment

Next ==
    \/ \E asked \in BOOLEAN : Begin(asked)
    \/ JobStep
    \/ Crash
    \/ Push

Spec == Init /\ [][Next]_vars

\* A job that has started takes its next step, unless it is killed.
FairSpec == Spec /\ WF_vars(JobStep)

-----------------------------------------------------------------------------
(* Properties.                                                             *)

\* A job that reports success leaves the review, the check run, the assignments
\* and the decision in agreement, whatever earlier jobs left half done: what no
\* longer holds has been taken back ("has its approval dismissed on the next
\* run", docs/actions.md).
ReportsAgree ==
    [][outcome' = "reported" /\ outcome # "reported" =>
         /\ (check'[sha] = "failure") <=> (verdict' = "CHANGES_REQUESTED")
         /\ verdict' = "APPROVED" => check'[sha] = "success"
         /\ assigned' = (Asks(decision, "assign") \/ Asks(decision, "require"))]_vars

\* The check run a branch protection rule waits for is decisive only once the
\* review says the same: green is never written over a standing block, nor red
\* over a standing approval.
CheckFollowsTheReview ==
    [][check' # check =>
         /\ check'[sha] = "success" => verdict # "CHANGES_REQUESTED"
         /\ check'[sha] = "failure" => verdict = "CHANGES_REQUESTED"]_vars

\* A decision that contains an action Talooner cannot perform is not performed
\* in part: between the decision and the end of the job nothing but the check
\* run is written.
NothingHalfUnderstood ==
    [][pc # "idle" /\ (\E kind \in {"notify", "unknown", "incomplete"} : Asks(decision, kind))
         => UNCHANGED <<verdict, assigned, comment>>]_vars

\* A job that fails once it has the head leaves its check run neutral, unless
\* the host does not take it: a broken Talooner neither blocks nor clears the
\* commit it worked on.  One that fails before it has the head (run.go:83-151)
\* reports nothing, and leaves what was reported as it was.
Early == {"subscribe", "subscribed", "fetch"}

FailsOpen ==
    [][outcome' = "failed" /\ outcome # "failed" =>
         IF pc \in Early THEN UNCHANGED <<verdict, assigned, check>>
         ELSE check'[sha] = "neutral" \/ unwritten']_vars

\* "Infrastructure failure resolving to neutral" (docs/actions.md:66): of every
\* failure.  The code does not keep it, for the failures before the head is
\* known; no run checks this.
AlwaysNeutral ==
    [][outcome' = "failed" /\ outcome # "failed" => check'[sha] = "neutral" \/ unwritten']_vars

\* "Fact extraction is a pure function of the PR at that sha"
\* (docs/architecture.md, Determinism): the facts come from the head the check
\* run and the review are written for.
FactsAreOfTheSha == sources \subseteq {sha}

\* What the failing of FactsAreOfTheSha comes to: facts are never older than the
\* head the job reports on, and of other heads only if something was pushed.
FactsAreNeverOlder ==
    pc # "idle" => sources \subseteq sha..head /\ (head = sha => sources \subseteq {sha})

\* What a job has reported stands until the next one begins: the check run, the
\* review, the assignments and the comment are those of one decision, and an
\* acknowledgement of /review has made way for it.
ReportStands ==
    outcome = "reported" =>
        /\ check[sha] = Conclusion(decision) /\ verdict = Verdict(decision)
        /\ assigned = Assigns(decision) /\ Performable(decision)
        /\ \/ comment = Body(decision, warned)
           \/ comment = "none" /\ EditOnly(decision, warned)

\* How far a job still has to go: the stages before it, and in a stage of
\* several steps those.
StagesLeft ==
    CASE pc = "idle" -> 0
      [] pc \in {"failOpen", "brokenComment"} -> 1
      [] pc \in {"noRuleset", "configBroken", "check", "brokenCheck"} -> 2
      [] pc = "work" -> 3
      [] pc = "comment" -> 4
      [] pc = "evaluate" -> 5
      [] pc = "facts" -> 6
      [] pc = "config" -> 7
      [] pc = "ruleset" -> 8
      [] pc = "fetch" -> 9
      [] pc \in {"subscribe", "subscribed"} -> 10

StepsLeft ==
    IF pc = "work" THEN Len(Work(decision)) - step
    ELSE Cardinality({"files", "pull", "diff"} \ read)

\* A job comes to its end: no step of it is ever taken back or taken twice, and
\* whatever fails is a step towards the end.
JobGetsOn ==
    [][(JobStep =>
         \/ StagesLeft' < StagesLeft
         \/ (StagesLeft' = StagesLeft /\ StepsLeft' < StepsLeft))]_vars
=============================================================================

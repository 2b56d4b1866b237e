----------------------------- MODULE ReviewSync -----------------------------
(***************************************************************************)
(* SyncReview of internal/host/github, called by internal/review: a run    *)
(* lists the reviews that carry Talooner's marker, keeps the first one in  *)
(* the state it wants, dismisses all others and, if it kept none, submits  *)
(* a new one.  The client repeats a call whose answer does not arrive,     *)
(* whether or not the call did its work; GitHub's reviews have no key that *)
(* would make a repeated submission the same review.                       *)
(***************************************************************************)
EXTENDS Naturals, FiniteSets

CONSTANTS
    Runs,         \* the runs that can be in flight on this pull request
    Serial,       \* TRUE: the workflow's concurrency group keeps them apart
    Faults,       \* which failures happen, a subset of FaultKinds
    MaxRetries,   \* how often the client repeats a call
    MaxReviews    \* bound: reviews ever submitted

\* refused: a call is answered with an error and not repeated.  unavailable:
\* it does nothing and is repeated.  lost: it does its work, the answer is
\* lost and it is repeated.  crash: the job is killed.
FaultKinds == {"refused", "unavailable", "lost", "crash"}

ASSUME ReviewAssumption ==
    /\ Serial \in BOOLEAN
    /\ Faults \subseteq FaultKinds
    /\ MaxRetries \in Nat
    /\ MaxReviews \in Nat

VARIABLES
    state,     \* per review: what the host shows
    last,      \* the newest review's id
    pc,        \* per run: its next host call
    want,      \* per run: the state its verdict stands for
    kept,      \* per run: the review it keeps, 0 for none
    stale,     \* per run: the reviews it still has to dismiss
    tries,     \* per run: how often it has repeated its present call
    outcome,   \* per run: how its last SyncReview ended
    alone,     \* ghost: per run: nobody else acted since it began
    before     \* ghost: per run: the newest review when it began

hostVars == <<state, last>>
callVars == <<pc, want, kept, stale, tries, outcome>>
ghosts == <<alone, before>>
vars == <<hostVars, callVars, ghosts>>

Kinds == {"APPROVED", "CHANGES_REQUESTED"}
Ids == 1..MaxReviews
Stages == {"idle", "list", "dismiss", "post"}

TypeOK ==
    /\ state \in [Ids -> Kinds \cup {"unsubmitted", "DISMISSED"}]
    /\ last \in 0..MaxReviews
    /\ pc \in [Runs -> Stages]
    /\ want \in [Runs -> Kinds \cup {"none"}]
    /\ kept \in [Runs -> {0} \cup Ids]
    /\ stale \in [Runs -> SUBSET Ids]
    /\ tries \in [Runs -> 0..MaxRetries]
    /\ outcome \in [Runs -> {"none", "done", "failed"}]
    /\ alone \in [Runs -> BOOLEAN]
    /\ before \in [Runs -> 0..MaxReviews]

Init ==
    /\ state = [i \in Ids |-> "unsubmitted"]
    /\ last = 0
    /\ pc = [r \in Runs |-> "idle"]
    /\ want = [r \in Runs |-> "none"]
    /\ kept = [r \in Runs |-> 0]
    /\ stale = [r \in Runs |-> {}]
    /\ tries = [r \in Runs |-> 0]
    /\ outcome = [r \in Runs |-> "none"]
    /\ alone = [r \in Runs |-> FALSE]
    /\ before = [r \in Runs |-> 0]

\* findReviews: the marker reviews that stand.
Standing == {i \in Ids : state[i] \in Kinds}
Verdicts == {state[i] : i \in Standing}

InFlight == {r \in Runs : pc[r] # "idle"}
Submitters == {r \in InFlight : want[r] # "none"}

-----------------------------------------------------------------------------
\* Mutant: a kept review ends the call, whatever else stands.
StopsAtTheKept(r, keep, rest) ==
    IF keep # 0 THEN "idle"
    ELSE IF rest # {} THEN "dismiss"
    ELSE IF want[r] # "none" THEN "post" ELSE "idle"

\* Mutant: the new verdict goes in before the old ones are taken back.
PostsFirst(r, keep, rest) ==
    IF keep = 0 /\ want[r] # "none" THEN "post"
    ELSE IF rest # {} THEN "dismiss" ELSE "idle"

\* What is left to do with keep kept and rest still to be dismissed.
Following(r, keep, rest) ==
    IF rest # {} THEN "dismiss"
    ELSE IF keep = 0 /\ want[r] # "none" THEN "post" ELSE "idle"

\* The call under way has succeeded: go on, with the client's patience anew.
Continue(r, keep, rest) ==
    /\ pc' = [pc EXCEPT ![r] = Following(r, keep, rest)]
    /\ kept' = [kept EXCEPT ![r] = keep]
    /\ stale' = [stale EXCEPT ![r] = rest]
    /\ tries' = [tries EXCEPT ![r] = 0]
    /\ outcome' = [outcome EXCEPT ![r] = IF pc'[r] = "idle" THEN "done" ELSE "none"]
    /\ UNCHANGED <<want, ghosts>>

Fail(r) ==
    /\ pc' = [pc EXCEPT ![r] = "idle"]
    /\ outcome' = [outcome EXCEPT ![r] = "failed"]
    /\ stale' = [stale EXCEPT ![r] = {}]
    /\ kept' = [kept EXCEPT ![r] = 0]
    /\ tries' = [tries EXCEPT ![r] = 0]
    /\ UNCHANGED <<want, ghosts>>

\* Mutant: the count starts anew instead of ending the call.
RepeatsForever(r) ==
    /\ tries' = [tries EXCEPT ![r] = (@ + 1) % (MaxRetries + 1)]
    /\ UNCHANGED <<pc, want, kept, stale, outcome, ghosts>>

\* Mutant: the bound is off by one.
RepeatsOnceMore(r) ==
    \/ /\ tries[r] <= MaxRetries
       /\ tries' = [tries EXCEPT ![r] = @ + 1]
       /\ UNCHANGED <<pc, want, kept, stale, outcome, ghosts>>
    \/ /\ tries[r] > MaxRetries
       /\ Fail(r)

\* The answer does not arrive: the same call again, or give up.
Repeat(r) ==
    \/ /\ tries[r] < MaxRetries
       /\ tries' = [tries EXCEPT ![r] = @ + 1]
       /\ UNCHANGED <<pc, want, kept, stale, outcome, ghosts>>
    \/ /\ tries[r] = MaxRetries
       /\ Fail(r)

-----------------------------------------------------------------------------
\* A run reaches its verdict and calls SyncReview.  The bound leaves room for
\* every submission the runs in flight may repeat.
Begin(r, w) ==
    /\ pc[r] = "idle"
    /\ Serial => InFlight = {}
    /\ w # "none" => last + (MaxRetries + 1) * (Cardinality(Submitters) + 1) <= MaxReviews
    /\ pc' = [pc EXCEPT ![r] = "list"]
    /\ want' = [want EXCEPT ![r] = w]
    /\ outcome' = [outcome EXCEPT ![r] = "none"]
    /\ alone' = [s \in Runs |-> s = r /\ InFlight = {}]
    /\ before' = [before EXCEPT ![r] = last]
    /\ UNCHANGED <<hostVars, kept, stale, tries>>

\* Reviews are listed from the oldest to the newest.
First(i, reviews) == i \in reviews /\ \A j \in reviews : i <= j

Wanted(r) == {i \in Standing : state[i] = want[r]}

\* Mutant: every run writes its verdict anew.
KeepsNone(r, i) == i = 0

\* The first review standing in the wanted state is kept, whatever commit it
\* was submitted for.
Keeps(r, i) == First(i, Wanted(r)) \/ (Wanted(r) = {} /\ i = 0)

List(r) ==
    /\ pc[r] = "list"
    /\ \E i \in {0} \cup Ids : Keeps(r, i) /\ Continue(r, i, Standing \ {i})
    /\ UNCHANGED hostVars

Dismissed(i) ==
    state' = [state EXCEPT ![i] = IF @ \in Kinds THEN "DISMISSED" ELSE @]

Dismiss(r) ==
    /\ pc[r] = "dismiss"
    /\ \E i \in stale[r] :
         /\ First(i, stale[r])
         /\ Dismissed(i)
         /\ Continue(r, kept[r], stale[r] \ {i})
    /\ UNCHANGED last

Submitted(r) ==
    /\ last < MaxReviews
    /\ last' = last + 1
    /\ state' = [state EXCEPT ![last + 1] = want[r]]

\* Submitting is the last thing a run does.
Post(r) ==
    /\ pc[r] = "post"
    /\ Submitted(r)
    /\ pc' = [pc EXCEPT ![r] = "idle"]
    /\ outcome' = [outcome EXCEPT ![r] = "done"]
    /\ tries' = [tries EXCEPT ![r] = 0]
    /\ UNCHANGED <<want, kept, stale, ghosts>>

\* A review that no longer stands cannot be dismissed: the host may say so.
Refused(r) ==
    /\ \/ pc[r] # "idle" /\ "refused" \in Faults
       \/ /\ pc[r] = "dismiss"
          /\ \E i \in stale[r] : First(i, stale[r]) /\ state[i] \notin Kinds
    /\ Fail(r)
    /\ UNCHANGED hostVars

Unavailable(r) ==
    /\ "unavailable" \in Faults
    /\ pc[r] # "idle"
    /\ Repeat(r)
    /\ UNCHANGED hostVars

Lost(r) ==
    /\ "lost" \in Faults
    /\ \/ /\ pc[r] = "dismiss"
          /\ \E i \in stale[r] : First(i, stale[r]) /\ Dismissed(i)
          /\ UNCHANGED last
       \/ pc[r] = "post" /\ Submitted(r)
    /\ Repeat(r)

Crash(r) ==
    /\ "crash" \in Faults
    /\ pc[r] # "idle"
    /\ Fail(r)
    /\ UNCHANGED hostVars

\* A person with write access dismisses one of Talooner's reviews.
PersonDismisses(i) ==
    /\ i \in Standing
    /\ Dismissed(i)
    /\ alone' = [r \in Runs |-> FALSE]
    /\ UNCHANGED <<last, callVars, before>>

RunStep(r) ==
    \/ List(r) \/ Dismiss(r) \/ Post(r)
    \/ Refused(r) \/ Unavailable(r) \/ Lost(r)

Next ==
    \/ \E r \in Runs : RunStep(r) \/ Crash(r)
    \/ \E r \in Runs, w \in Kinds \cup {"none"} : Begin(r, w)
    \/ \E i \in Ids : PersonDismisses(i)

Spec == Init /\ [][Next]_vars

\* A job that has started takes its next step, unless it is killed.
FairSpec == Spec /\ \A r \in Runs : WF_vars(RunStep(r))

-----------------------------------------------------------------------------
(* Properties.                                                             *)

\* Runs that are kept apart show one kind of verdict at a time, and take the
\* old one back before they issue the new one: whatever fails or is repeated,
\* the pull request is never approved and blocked at once.
Store == INSTANCE VerdictStore WITH verdicts <- Verdicts
OneVerdictAtATime == Store!Spec

\* A run nobody interfered with that reports success has left exactly the
\* verdict it wanted, and one review of it, whatever duplicates, leftovers of a
\* crash or contradictory verdicts of overlapping runs it found.
SettlesOnItsVerdict ==
    [][\A r \in Runs :
         pc[r] # "idle" /\ alone[r] /\ outcome'[r] = "done" =>
             /\ Verdicts' = {want[r]} \ {"none"}
             /\ \A i, j \in Standing' : i # j => i > before[r] /\ j > before[r]]_vars

\* A verdict that still holds does not lapse while a run tidies up around it:
\* a run nobody interferes with never takes back the last review that says what
\* it wants to say itself.
HoldsItsVerdict ==
    [][\A r \in Runs :
         pc[r] # "idle" /\ alone[r] /\ alone'[r] /\ want[r] \in Verdicts
             => want[r] \in Verdicts']_vars

\* What Report takes a call of SyncReview for, wherever it ends: no step of a run
\* that has the pull request to itself, but for persons who dismiss, does more
\* than take verdicts back or make its own the only one.
TakesBackOrSettles ==
    [][\A r \in Runs :
         pc[r] # "idle" /\ (Serial \/ alone[r])
             => Verdicts' \subseteq Verdicts \/ Verdicts' = {want[r]}]_vars

\* A submission has no key that would tell the host that it has it already; a
\* run leaves no more reviews than it has made attempts.
NoMoreThanAttempts ==
    [][\A r \in Runs :
         pc[r] # "idle" /\ alone[r] => last' <= before[r] + tries[r] + 1]_vars

\* The safety half of RunEnds.  The calls a run has still to make, at most.
CallsLeft(r) ==
    CASE pc[r] = "idle" -> 0
      [] pc[r] = "list" -> MaxReviews + 2
      [] pc[r] = "dismiss" -> Cardinality(stale[r]) + 1
      [] pc[r] = "post" -> 1

\* With every step a run has fewer calls left, or has repeated the present one
\* once more, which it does MaxRetries times; nobody else gives it more to do.
RunGetsOn ==
    [][\A r \in Runs : pc[r] # "idle" =>
         \/ CallsLeft(r)' < CallsLeft(r)
         \/ CallsLeft(r)' = CallsLeft(r) /\ tries'[r] > tries[r]
         \/ UNCHANGED <<pc[r], stale[r], tries[r]>> /\ ~RunStep(r)]_vars

\* SyncReview returns: no failure is repeated for ever.
RunEnds == \A r \in Runs : pc[r] # "idle" ~> pc[r] = "idle"
=============================================================================

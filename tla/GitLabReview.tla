---------------------------- MODULE GitLabReview ----------------------------
(***************************************************************************)
(* SyncReview of internal/host/gitlab.  GitLab has no review to dismiss: a *)
(* verdict is a discussion thread with Talooner's marker, left open to     *)
(* block and resolved to approve, and beside it the approval of Talooner's *)
(* own account.  A run lists the threads, keeps the first that reads like  *)
(* its verdict, replies to every other and resolves it, corrects the       *)
(* approval and, if it kept none, posts a thread, which it resolves if it  *)
(* approves.  Pipelines of one merge request are not kept apart.           *)
(***************************************************************************)
EXTENDS Naturals, FiniteSets

CONSTANTS
    Runs,         \* the pipelines that can be in flight on this merge request
    Faults,       \* which failures happen, a subset of FaultKinds
    Others,       \* what others do, a subset of OtherKinds
    MaxRetries,   \* how often the client repeats a call
    MaxThreads    \* bound: threads ever posted

\* refused: a call is answered with an error and not repeated.  unavailable:
\* it does nothing and is repeated.  lost: it does its work, the answer is
\* lost and it is repeated.  crash: the job is killed.
FaultKinds == {"refused", "unavailable", "lost", "crash"}

\* A person resolves or reopens a thread, or deletes one; a push moves the head.
OtherKinds == {"resolve", "delete", "push"}

ASSUME GitLabAssumption ==
    /\ Faults \subseteq FaultKinds
    /\ Others \subseteq OtherKinds
    /\ MaxRetries \in Nat
    /\ MaxThreads \in Nat

VARIABLES
    body,      \* per thread: the verdict its text states, "none" if it is not there
    open,      \* the unresolved threads
    approved,  \* Talooner's account has approved
    last,      \* the newest thread
    pc,        \* per run: its next host call
    want,      \* per run: the verdict it is to show
    kept,      \* per run: the thread it keeps or has posted, 0 for none
    stale,     \* per run: the threads it still has to dismiss
    fresh,     \* per run: the head is still the one it evaluated
    tries,     \* per run: how often it has repeated its present call
    alone,     \* ghost: per run: nobody else acted since it began
    calm,      \* ghost: per run: nor since a run succeeded with the same verdict
    before,    \* ghost: per run: the newest thread when it began
    settled    \* ghost: the verdict of the run that succeeded undisturbed, if
               \*   nobody has done anything since, "unsettled" otherwise

hostVars == <<body, open, approved, last>>
callVars == <<pc, want, kept, stale, fresh, tries>>
ghosts == <<alone, calm, before, settled>>
vars == <<hostVars, callVars, ghosts>>

Kinds == {"APPROVED", "CHANGES_REQUESTED"}
Ids == 1..MaxThreads
Stages == {"idle", "list", "reply", "resolve", "readApproval", "setApproval",
           "post", "settle"}

TypeOK ==
    /\ body \in [Ids -> Kinds \cup {"none"}]
    /\ open \in SUBSET Ids
    /\ approved \in BOOLEAN
    /\ last \in 0..MaxThreads
    /\ pc \in [Runs -> Stages]
    /\ want \in [Runs -> Kinds \cup {"none"}]
    /\ kept \in [Runs -> {0} \cup Ids]
    /\ stale \in [Runs -> SUBSET Ids]
    /\ fresh \in [Runs -> BOOLEAN]
    /\ tries \in [Runs -> 0..MaxRetries]
    /\ alone \in [Runs -> BOOLEAN]
    /\ calm \in [Runs -> BOOLEAN]
    /\ before \in [Runs -> 0..MaxThreads]
    /\ settled \in Kinds \cup {"none", "unsettled"}

Init ==
    /\ body = [i \in Ids |-> "none"]
    /\ open = {}
    /\ approved = FALSE
    /\ last = 0
    /\ pc = [r \in Runs |-> "idle"]
    /\ want = [r \in Runs |-> "none"]
    /\ kept = [r \in Runs |-> 0]
    /\ stale = [r \in Runs |-> {}]
    /\ fresh = [r \in Runs |-> FALSE]
    /\ tries = [r \in Runs |-> 0]
    /\ alone = [r \in Runs |-> FALSE]
    /\ calm = [r \in Runs |-> FALSE]
    /\ before = [r \in Runs |-> 0]
    /\ settled = "unsettled"

Threads == {i \in Ids : body[i] # "none"}

InFlight == {r \in Runs : pc[r] # "idle"}
Submitters == {r \in InFlight : want[r] # "none"}

\* What findVerdicts takes a thread for, whatever its text says.
ReadsAs(i) == IF i \in open THEN "CHANGES_REQUESTED" ELSE "APPROVED"

Approves(r) == want[r] = "APPROVED"

-----------------------------------------------------------------------------
(* Going on, giving up.                                                    *)

\* The call under way has succeeded and the next one is at stage.
Goto(r, stage) ==
    /\ pc' = [pc EXCEPT ![r] = stage]
    /\ tries' = [tries EXCEPT ![r] = 0]
    /\ UNCHANGED <<want, fresh, ghosts>>

\* SyncReview returns; what the run knew goes with it.
Forget(r) ==
    /\ pc' = [pc EXCEPT ![r] = "idle"]
    /\ want' = [want EXCEPT ![r] = "none"]
    /\ kept' = [kept EXCEPT ![r] = 0]
    /\ stale' = [stale EXCEPT ![r] = {}]
    /\ fresh' = [fresh EXCEPT ![r] = FALSE]
    /\ tries' = [tries EXCEPT ![r] = 0]
    /\ alone' = [alone EXCEPT ![r] = FALSE]
    /\ calm' = [calm EXCEPT ![r] = FALSE]
    /\ before' = [before EXCEPT ![r] = 0]

Succeed(r) ==
    /\ Forget(r)
    /\ settled' = IF alone[r] THEN want[r] ELSE "unsettled"

Fail(r) ==
    /\ Forget(r)
    /\ settled' = "unsettled"

\* Mutant: the bound is off by one.
RepeatsOnceMore(r) ==
    \/ /\ tries[r] <= MaxRetries
       /\ tries' = [tries EXCEPT ![r] = @ + 1]
       /\ UNCHANGED <<pc, want, kept, stale, fresh, ghosts>>
    \/ /\ tries[r] > MaxRetries
       /\ Fail(r)

\* The answer does not arrive: the same call again, or give up.
Repeat(r) ==
    \/ /\ tries[r] < MaxRetries
       /\ tries' = [tries EXCEPT ![r] = @ + 1]
       /\ UNCHANGED <<pc, want, kept, stale, fresh, ghosts>>
    \/ /\ tries[r] = MaxRetries
       /\ Fail(r)

-----------------------------------------------------------------------------
(* A run.                                                                  *)

\* A run reaches its verdict and calls SyncReview.  The bound leaves room for
\* the threads that the runs in flight are to post.
Begin(r, w) ==
    /\ pc[r] = "idle"
    /\ w # "none" => last + Cardinality(Submitters) < MaxThreads
    /\ pc' = [pc EXCEPT ![r] = "list"]
    /\ want' = [want EXCEPT ![r] = w]
    /\ fresh' = [fresh EXCEPT ![r] = TRUE]
    /\ alone' = [s \in Runs |-> s = r /\ InFlight = {}]
    /\ calm' = [s \in Runs |-> s = r /\ InFlight = {} /\ settled = w]
    /\ before' = [before EXCEPT ![r] = last]
    /\ settled' = "unsettled"
    /\ UNCHANGED <<hostVars, kept, stale, tries>>

\* Threads are listed from the oldest to the newest.
First(i, threads) == i \in threads /\ \A j \in threads : i <= j

Wanted(r) == {i \in Threads : ReadsAs(i) = want[r]}

\* The first thread that reads like the verdict is kept.
Keeps(r, i) == First(i, Wanted(r)) \/ (Wanted(r) = {} /\ i = 0)

\* Mutant: the other threads are left as they are.
DismissesNothing(rest) == "readApproval"

Dismissing(rest) == IF rest = {} THEN "readApproval" ELSE "reply"

List(r) ==
    /\ pc[r] = "list"
    /\ \E i \in {0} \cup Ids :
         /\ Keeps(r, i)
         /\ kept' = [kept EXCEPT ![r] = i]
         /\ stale' = [stale EXCEPT ![r] = Threads \ {i}]
         /\ Goto(r, Dismissing(Threads \ {i}))
    /\ UNCHANGED hostVars

DoneWith(r, i) ==
    /\ stale' = [stale EXCEPT ![r] = @ \ {i}]
    /\ Goto(r, Dismissing(stale[r] \ {i}))

\* dismissVerdict says in the thread that the verdict no longer holds, unless
\* the thread has gone, and then resolves it.
Reply(r) ==
    /\ pc[r] = "reply"
    /\ \E i \in stale[r] :
         /\ First(i, stale[r])
         /\ IF i \in Threads THEN Goto(r, "resolve") /\ UNCHANGED stale
            ELSE DoneWith(r, i)
    /\ UNCHANGED <<hostVars, kept>>

Resolved(i) == open' = open \ {i}

Resolve(r) ==
    /\ pc[r] = "resolve"
    /\ \E i \in stale[r] : First(i, stale[r]) /\ Resolved(i) /\ DoneWith(r, i)
    /\ UNCHANGED <<body, approved, last, kept>>

\* With the approval right, a thread is posted if none was kept.
Approved(r) ==
    IF kept[r] # 0 \/ want[r] = "none" THEN Succeed(r)
    ELSE Goto(r, "post") /\ UNCHANGED <<kept, stale>>

\* Mutant: an approval is given but never taken back.
LeavesTheApproval(r) ==
    /\ pc[r] = "readApproval"
    /\ IF approved \/ ~Approves(r) THEN Approved(r)
       ELSE Goto(r, "setApproval") /\ UNCHANGED <<kept, stale>>
    /\ UNCHANGED hostVars

ReadApproval(r) ==
    /\ pc[r] = "readApproval"
    /\ IF approved = Approves(r) THEN Approved(r)
       ELSE Goto(r, "setApproval") /\ UNCHANGED <<kept, stale>>
    /\ UNCHANGED hostVars

\* An approval names the commit it is for: the host takes none for an old head.
\* Taking back an approval that is not there is not an error.
Corrected(r) ==
    /\ Approves(r) => fresh[r]
    /\ approved' = Approves(r)

SetApproval(r) ==
    /\ pc[r] = "setApproval"
    /\ Corrected(r)
    /\ Approved(r)
    /\ UNCHANGED <<body, open, last>>

\* A new thread is open.
Posted(r) ==
    /\ last < MaxThreads
    /\ last' = last + 1
    /\ body' = [body EXCEPT ![last + 1] = want[r]]
    /\ open' = open \cup {last + 1}

Post(r) ==
    /\ pc[r] = "post"
    /\ Posted(r)
    /\ IF Approves(r)
       THEN /\ Goto(r, "settle")
            /\ kept' = [kept EXCEPT ![r] = last + 1]
            /\ UNCHANGED stale
       ELSE Succeed(r)
    /\ UNCHANGED approved

\* An approving thread is resolved once it has been posted.
Settle(r) ==
    /\ pc[r] = "settle"
    /\ Resolved(kept[r])
    /\ Succeed(r)
    /\ UNCHANGED <<body, approved, last>>

\* An approval for an old head is refused; a second one may be.
Refused(r) ==
    /\ \/ "refused" \in Faults /\ pc[r] # "idle"
       \/ pc[r] = "setApproval" /\ Approves(r) /\ (approved \/ ~fresh[r])
    /\ Fail(r)
    /\ UNCHANGED hostVars

Unavailable(r) ==
    /\ "unavailable" \in Faults
    /\ pc[r] # "idle"
    /\ Repeat(r)
    /\ UNCHANGED hostVars

Lost(r) ==
    /\ "lost" \in Faults
    /\ \/ /\ pc[r] = "resolve"
          /\ \E i \in stale[r] : First(i, stale[r]) /\ Resolved(i)
          /\ UNCHANGED <<body, approved, last>>
       \/ pc[r] = "setApproval" /\ Corrected(r) /\ UNCHANGED <<body, open, last>>
       \/ /\ pc[r] = "post"
          /\ last + Cardinality(Submitters) < MaxThreads
          /\ Posted(r)
          /\ UNCHANGED approved
       \/ pc[r] = "settle" /\ Resolved(kept[r]) /\ UNCHANGED <<body, approved, last>>
    /\ Repeat(r)

Crash(r) ==
    /\ "crash" \in Faults
    /\ pc[r] # "idle"
    /\ Fail(r)
    /\ UNCHANGED hostVars

-----------------------------------------------------------------------------
(* Others.                                                                 *)

Disturb(kind) ==
    /\ kind \in Others
    /\ alone' = [r \in Runs |-> FALSE]
    /\ calm' = [r \in Runs |-> FALSE]
    /\ settled' = "unsettled"
    /\ UNCHANGED <<last, pc, want, kept, stale, tries, before>>

PersonResolves(i) ==
    /\ i \in Threads
    /\ open' = IF i \in open THEN open \ {i} ELSE open \cup {i}
    /\ Disturb("resolve")
    /\ UNCHANGED <<body, approved, fresh>>

PersonDeletes(i) ==
    /\ i \in Threads
    /\ body' = [body EXCEPT ![i] = "none"]
    /\ open' = open \ {i}
    /\ Disturb("delete")
    /\ UNCHANGED <<approved, fresh>>

\* A push may reset approvals: a setting of the project.
Push ==
    /\ fresh' = [r \in Runs |-> FALSE]
    /\ approved' \in {approved, FALSE}
    /\ Disturb("push")
    /\ UNCHANGED <<body, open>>

RunStep(r) ==
    \/ List(r) \/ Reply(r) \/ Resolve(r) \/ ReadApproval(r) \/ SetApproval(r)
    \/ Post(r) \/ Settle(r) \/ Refused(r) \/ Unavailable(r) \/ Lost(r)

Next ==
    \/ \E r \in Runs : RunStep(r) \/ Crash(r)
    \/ \E r \in Runs, w \in Kinds \cup {"none"} : Begin(r, w)
    \/ \E i \in Ids : PersonResolves(i) \/ PersonDeletes(i)
    \/ Push

Spec == Init /\ [][Next]_vars

-----------------------------------------------------------------------------
(* Properties.                                                             *)

\* A run nobody interfered with that reports success has left its verdict: it
\* has approved exactly if it was to, and the threads that block are one that
\* it kept, or ones it has posted itself, whatever overlapping, killed or
\* repeated runs and persons had left.
SettlesOnItsVerdict ==
    [][\A r \in Runs :
         alone[r] /\ pc'[r] = "idle" /\ settled' # "unsettled" =>
             /\ approved' = Approves(r)
             /\ want[r] = "CHANGES_REQUESTED" => open' # {}
             /\ \A i \in open' :
                  \/ i > before[r]
                  \/ want[r] = "CHANGES_REQUESTED" /\ open' = {i}]_vars

\* A merge request is approved or blocked: no step of a run nobody interferes
\* with makes it both, neither by approving over an open thread that blocks nor
\* by posting one before its approval is taken back.
Both == approved /\ \E i \in open : body[i] = "CHANGES_REQUESTED"

NeverMakesBoth ==
    [][\A r \in Runs :
         alone[r] /\ (alone'[r] \/ pc'[r] = "idle") /\ Both' => Both]_vars

\* "a re-run with nothing changed makes no write, same as the discussion side"
\* (internal/host/gitlab/review.go, syncApproval).
RerunWritesNothing ==
    \A r \in Runs : calm[r] => pc[r] \in {"idle", "list", "readApproval"}

\* What does hold of it: where the verdict was reached before and nobody has done
\* anything since, a run neither touches the approval nor posts a thread; it only
\* replies to the threads it did not keep, and resolves them.
RerunPostsNothing ==
    \A r \in Runs : calm[r] => pc[r] \in {"idle", "list", "reply", "resolve", "readApproval"}

\* The calls a run has still to make, at most.
CallsLeft(r) ==
    CASE pc[r] = "idle" -> 0
      [] pc[r] = "list" -> 2 * MaxThreads + 5
      [] pc[r] = "reply" -> 2 * Cardinality(stale[r]) + 4
      [] pc[r] = "resolve" -> 2 * Cardinality(stale[r]) + 3
      [] pc[r] = "readApproval" -> 4
      [] pc[r] = "setApproval" -> 3
      [] pc[r] = "post" -> 2
      [] pc[r] = "settle" -> 1

\* SyncReview returns if it is let go on: with every step a run has fewer calls
\* left, or has repeated the present one once more, which it does MaxRetries
\* times; nobody else gives it more to do.
RunGetsOn ==
    [][\A r \in Runs : pc[r] # "idle" =>
         \/ CallsLeft(r)' < CallsLeft(r)
         \/ CallsLeft(r)' = CallsLeft(r) /\ tries'[r] > tries[r]
         \/ UNCHANGED <<pc[r], stale[r], tries[r]>> /\ ~RunStep(r)]_vars
=============================================================================

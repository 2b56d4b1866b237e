----------------------------- MODULE Assignment -----------------------------
(***************************************************************************)
(* internal/assignment: how a run reconciles the assignees and the review  *)
(* requests of one pull request with what the rules ask for, and the       *)
(* ledger comment by which it knows, from one run to the next, which of    *)
(* them are its own.                                                       *)
(*                                                                         *)
(* A run is one workflow job.  It takes a snapshot of the pull request,    *)
(* reads the ledger, adds and removes assignees, requests and withdraws    *)
(* reviews, and writes the ledger back.  Every host call is a step of its  *)
(* own, so persons, crashes and other runs come between any two of them.   *)
(* A host call that fails is recorded and the run goes on.                 *)
(***************************************************************************)
CONSTANTS
    Assignees,   \* who can be assigned, and
    Users,       \* who can be asked for a review,
    Teams,       \* or which team: three disjoint sets of names
    Runs,        \* the runs that can be in flight at once on this request
    Host,        \* "github" or "gitlab"
    Faults,      \* which failures happen, a subset of FaultKinds
    Races,       \* what persons do behind a run's back, of RaceKinds
    NoComment,   \* the ledger comment does not exist
    NoRoster     \* a GitLab run has not fetched the member list it edits

Reviewers == Users \cup Teams
Names == Assignees \cup Reviewers

\* refused: a call fails and does nothing.  lost: a call does its work and is
\* reported as failed.  crash: the job is killed.  ledgerRead: the ledger
\* cannot be read or parsed.  ledgerWrite: its write fails.  ledgerDeleted: a
\* person deletes the comment.
FaultKinds == {"refused", "lost", "crash", "ledgerRead", "ledgerWrite",
               "ledgerDeleted"}

\* midRun: a person adds a name while a run is in flight.  takeBack: a person
\* removes one.  reclaim: a person adds a name that the ledger lists as Talooner's.
RaceKinds == {"midRun", "takeBack", "reclaim"}

ASSUME AssignmentAssumption ==
    /\ Assignees \cap Reviewers = {}
    /\ Users \cap Teams = {}
    /\ Host \in {"github", "gitlab"}
    /\ Faults \subseteq FaultKinds
    /\ Races \subseteq RaceKinds
    /\ \A listed \in SUBSET Names : NoComment # listed /\ NoRoster # listed

VARIABLES
    standing,   \* the assignees and review requests the host shows
    manual,     \* ghost: those of them a person put there
    skipped,    \* ghost: those of them a withdrawal was to take back and passed over
    comment,    \* what the ledger comment lists
    pc,         \* per run: its next host call
    want,       \* per run: what the rules ask for
    seen,       \* per run: what it believes to be standing
    prev,       \* per run: the ledger it read
    owned,      \* per run: what it believes Talooner put there
    failed,     \* per run: a problem was recorded
    roster,     \* per run: the member list a GitLab write starts from
    found       \* per run: the ledger comment its write found

hostVars == <<standing, manual, skipped, comment>>
runVars == <<pc, want, seen, prev, owned, failed, roster, found>>
vars == <<hostVars, runVars>>

Stages == {"idle", "ledger", "addAssignees", "removeAssignees",
           "requestReviewers", "removeReviewRequests", "find", "put"}

TypeOK ==
    /\ standing \in SUBSET Names
    /\ manual \in SUBSET standing
    /\ skipped \in SUBSET standing
    /\ comment \in (SUBSET Names) \cup {NoComment}
    /\ pc \in [Runs -> Stages]
    /\ want \in [Runs -> SUBSET Names]
    /\ seen \in [Runs -> SUBSET Names]
    /\ prev \in [Runs -> SUBSET Names]
    /\ owned \in [Runs -> SUBSET Names]
    /\ failed \in [Runs -> BOOLEAN]
    /\ roster \in [Runs -> (SUBSET Names) \cup {NoRoster}]
    /\ found \in [Runs -> {"no", "yes", "gone"}]

Init ==
    /\ standing \in SUBSET Names
    /\ manual = standing
    /\ skipped = {}
    /\ comment = NoComment
    /\ pc = [r \in Runs |-> "idle"]
    /\ want = [r \in Runs |-> {}]
    /\ seen = [r \in Runs |-> {}]
    /\ prev = [r \in Runs |-> {}]
    /\ owned = [r \in Runs |-> {}]
    /\ failed = [r \in Runs |-> FALSE]
    /\ roster = [r \in Runs |-> NoRoster]
    /\ found = [r \in Runs |-> "no"]

-----------------------------------------------------------------------------
(* What a run works out from what it knows.                                *)

\* What the ledger comment claims for Talooner: nothing when there is none.
Claimed == IF comment = NoComment THEN {} ELSE comment

Adding(r) == pc[r] \in {"addAssignees", "requestReviewers"}
Dropping(r) == pc[r] \in {"removeAssignees", "removeReviewRequests"}

\* The names a call of this stage is about.
Part(r) ==
    IF pc[r] \in {"addAssignees", "removeAssignees"} THEN Assignees ELSE Reviewers

\* Mutant: everything unwanted is dropped, whoever put it there.
DropsTheUnwanted(r) == (seen[r] \ want[r]) \cap Part(r)

\* Mutant: nothing is ever taken back.
DropsNothing(r) == {}

ToAdd(r) == (want[r] \ seen[r]) \cap Part(r)
ToDrop(r) == ((owned[r] \ want[r]) \cap seen[r]) \cap Part(r)
Todo(r) == IF Adding(r) THEN ToAdd(r) ELSE ToDrop(r)

\* Mutant: every name the response shows is claimed, not only those asked for.
ClaimsTheResponse(r, shown) == owned[r] \cup shown

\* Mutant: the answer goes in as one name, not as a list of them.
ClaimsAListAsOne(r, shown) == owned[r] \cup {ToAdd(r) \cap shown}

\* What a run owns once an add has been answered with the list shown.
OwnedAfterAdd(r, shown) == owned[r] \cup (ToAdd(r) \cap shown)

\* Mutant: only what the rules ask for is written down.
WritesTheWanted(r) == want[r] \cap seen[r]

\* What the ledger will say: of what the run owns, what it believes standing.
NextLedger(r) == owned[r] \cap seen[r]

\* Mutant: a name that landed nowhere is not a problem.
NothingIgnored(r, shown) == FALSE

\* An assignee the host left out of its answer is a problem (ErrIgnored); a
\* reviewer left out is not looked at.
Ignored(r, shown) == pc[r] = "addAssignees" /\ ~(ToAdd(r) \subseteq shown)

After == [ledger |-> "addAssignees", addAssignees |-> "removeAssignees",
          removeAssignees |-> "requestReviewers",
          requestReviewers |-> "removeReviewRequests",
          removeReviewRequests |-> "find", find |-> "put"]

Advance(r) ==
    /\ pc' = [pc EXCEPT ![r] = After[pc[r]]]
    /\ roster' = [roster EXCEPT ![r] = NoRoster]

-----------------------------------------------------------------------------
(* The host's side of a call.                                              *)

\* GitHub edits the list itself; GitLab is sent a whole list, worked out from
\* the one fetched before.
Base(r) == IF Host = "gitlab" THEN roster[r] ELSE standing \cap Part(r)

Listed(r) == Host = "gitlab" => roster[r] # NoRoster

\* GitLab has no team reviewers: a call that names one is refused before it is
\* sent.
Unsendable(r) == Host = "gitlab" /\ Todo(r) \cap Teams # {}

\* Which of the names asked for the host may act on.  An assignee can be ignored
\* when it is added; GitHub takes review requests and removals all together or
\* not.  GitLab leaves out, of an addition as of a removal, whoever it finds no
\* user for by that name (lookupUserIDs), and says nothing of it.
Takes(r) ==
    IF Host = "gitlab" \/ pc[r] = "addAssignees"
    THEN SUBSET Todo(r) ELSE {Todo(r)}

Result(r, taken) ==
    IF Adding(r) THEN Base(r) \cup taken ELSE Base(r) \ taken

HostStores(r, list) ==
    /\ standing' = (standing \ Part(r)) \cup list
    /\ manual' = manual \cap standing'
    /\ UNCHANGED comment

\* Names the host was asked to take off and still lists.
PassesOver(names) == skipped' = (skipped \cup names) \cap standing'

-----------------------------------------------------------------------------
(* The steps of a run.                                                     *)

Reset(r) ==
    /\ pc' = [pc EXCEPT ![r] = "idle"]
    /\ want' = [want EXCEPT ![r] = {}]
    /\ seen' = [seen EXCEPT ![r] = {}]
    /\ prev' = [prev EXCEPT ![r] = {}]
    /\ owned' = [owned EXCEPT ![r] = {}]
    /\ failed' = [failed EXCEPT ![r] = FALSE]
    /\ roster' = [roster EXCEPT ![r] = NoRoster]
    /\ found' = [found EXCEPT ![r] = "no"]

\* The run fetches the pull request; the decision it comes to is w.  The
\* snapshot is not taken again.
Begin(r, w) ==
    /\ pc[r] = "idle"
    /\ pc' = [pc EXCEPT ![r] = "ledger"]
    /\ want' = [want EXCEPT ![r] = w]
    /\ seen' = [seen EXCEPT ![r] = standing]
    /\ UNCHANGED <<hostVars, prev, owned, failed, roster, found>>

\* Mutant: without a ledger, whatever stands is taken for Talooner's.
ClaimsTheUnlisted(r) ==
    /\ pc[r] = "ledger"
    /\ \/ prev' = [prev EXCEPT ![r] = Claimed]
       \/ /\ "ledgerRead" \in Faults
          /\ prev' = [prev EXCEPT ![r] = {}]
    /\ owned' = [owned EXCEPT ![r] = IF prev'[r] = {} THEN seen[r] ELSE prev'[r]]
    /\ Advance(r)
    /\ UNCHANGED <<hostVars, want, seen, failed, found>>

\* A ledger that cannot be read or parsed is an empty one.
ReadLedger(r) ==
    /\ pc[r] = "ledger"
    /\ \/ prev' = [prev EXCEPT ![r] = Claimed]
       \/ /\ "ledgerRead" \in Faults
          /\ prev' = [prev EXCEPT ![r] = {}]
    /\ owned' = [owned EXCEPT ![r] = prev'[r]]
    /\ Advance(r)
    /\ UNCHANGED <<hostVars, want, seen, failed, found>>

\* Nothing to add or to remove: no call.
Skip(r) ==
    /\ Adding(r) \/ Dropping(r)
    /\ Todo(r) = {}
    /\ Advance(r)
    /\ UNCHANGED <<hostVars, want, seen, prev, owned, failed, found>>

\* GitLab: read the list the write will replace.
Fetch(r) ==
    /\ Host = "gitlab"
    /\ Adding(r) \/ Dropping(r)
    /\ Todo(r) # {} /\ ~Unsendable(r)
    /\ roster[r] = NoRoster
    /\ roster' = [roster EXCEPT ![r] = standing \cap Part(r)]
    /\ UNCHANGED <<hostVars, pc, want, seen, prev, owned, failed, found>>

Calling(r) == Todo(r) # {} /\ ~Unsendable(r) /\ Listed(r)

\* AddAssignees and RequestReviewers, answered.
Add(r) ==
    /\ Adding(r) /\ Calling(r)
    /\ \E taken \in Takes(r) :
         LET shown == Result(r, taken) IN
         /\ HostStores(r, shown) /\ PassesOver({})
         /\ seen' = [seen EXCEPT ![r] = (@ \ Part(r)) \cup shown]
         /\ owned' = [owned EXCEPT ![r] = OwnedAfterAdd(r, shown)]
         /\ failed' = [failed EXCEPT ![r] = @ \/ Ignored(r, shown)]
    /\ Advance(r)
    /\ UNCHANGED <<want, prev, found>>

\* RemoveAssignees and RemoveReviewRequests, answered.  The run takes every name
\* it asked about for gone, the ones still on the list it is shown included.
Drop(r) ==
    /\ Dropping(r) /\ Calling(r)
    /\ \E taken \in Takes(r) :
         LET shown == Result(r, taken) IN
         /\ HostStores(r, shown) /\ PassesOver(ToDrop(r) \cap shown)
         /\ seen' = [seen EXCEPT ![r] = (@ \ Part(r)) \cup shown]
    /\ owned' = [owned EXCEPT ![r] = @ \ ToDrop(r)]
    /\ Advance(r)
    /\ UNCHANGED <<want, prev, failed, found>>

\* A call that fails, whether or not it did its work: the run keeps what it
\* believed and goes on with the next one.
CallFails(r) ==
    /\ Adding(r) \/ Dropping(r)
    /\ Todo(r) # {}
    /\ \/ /\ "refused" \in Faults \/ Unsendable(r)
          /\ UNCHANGED hostVars
       \/ /\ "lost" \in Faults
          /\ Calling(r)
          /\ \E taken \in Takes(r) : HostStores(r, Result(r, taken)) /\ PassesOver({})
    /\ failed' = [failed EXCEPT ![r] = TRUE]
    /\ Advance(r)
    /\ UNCHANGED <<want, seen, prev, owned, found>>

\* writeLedger and the search of UpsertComment: an unchanged ledger is not
\* written, and an empty one does not create the comment.
FindLedger(r) ==
    /\ pc[r] = "find"
    /\ UNCHANGED hostVars
    /\ IF \/ NextLedger(r) = prev[r]
          \/ comment = NoComment /\ NextLedger(r) = {}
       THEN Reset(r)
       ELSE /\ found' = [found EXCEPT ![r] = IF comment = NoComment THEN "no" ELSE "yes"]
            /\ Advance(r)
            /\ UNCHANGED <<want, seen, prev, owned, failed>>

\* The comment a POST leaves visible: the oldest one carries the ledger.
Posted(r) == IF comment = NoComment THEN NextLedger(r) ELSE comment

\* Edit what was found, post when nothing was or it has gone since.
Written(r) ==
    IF found[r] = "yes" THEN NextLedger(r)
    ELSE IF found[r] = "gone" /\ NextLedger(r) = {} THEN comment
    ELSE Posted(r)

PutLedger(r) ==
    /\ pc[r] = "put"
    /\ comment' = Written(r)
    /\ UNCHANGED <<standing, manual, skipped>>
    /\ Reset(r)

LedgerFails(r) ==
    /\ "ledgerWrite" \in Faults
    /\ pc[r] \in {"find", "put"}
    /\ NextLedger(r) # prev[r]
    /\ Reset(r)
    /\ UNCHANGED hostVars

Crash(r) ==
    /\ "crash" \in Faults
    /\ pc[r] # "idle"
    /\ Reset(r)
    /\ UNCHANGED hostVars

-----------------------------------------------------------------------------
(* Everyone else who writes on the pull request.                           *)

InFlight == \E r \in Runs : pc[r] # "idle"

PersonAdds(n) ==
    /\ n \notin standing
    /\ InFlight => "midRun" \in Races
    /\ n \in Claimed => "reclaim" \in Races
    /\ standing' = standing \cup {n}
    /\ manual' = manual \cup {n}
    /\ UNCHANGED <<skipped, comment, runVars>>

\* A person unassigns somebody, withdraws a request, or answers it.
PersonRemoves(n) ==
    /\ n \in standing
    /\ InFlight => "takeBack" \in Races
    /\ standing' = standing \ {n}
    /\ manual' = manual \ {n}
    /\ PassesOver({})
    /\ UNCHANGED <<comment, runVars>>

PersonDeletesLedger ==
    /\ "ledgerDeleted" \in Faults
    /\ comment # NoComment
    /\ comment' = NoComment
    /\ found' = [r \in Runs |-> IF found[r] = "yes" THEN "gone" ELSE found[r]]
    /\ UNCHANGED <<standing, manual, skipped, pc, want, seen, prev, owned, failed, roster>>

RunStep(r) ==
    \/ ReadLedger(r) \/ Skip(r) \/ Fetch(r) \/ Add(r) \/ Drop(r)
    \/ CallFails(r) \/ FindLedger(r) \/ PutLedger(r) \/ LedgerFails(r)

Next ==
    \/ \E r \in Runs : RunStep(r) \/ Crash(r)
    \/ \E r \in Runs, w \in SUBSET Names : Begin(r, w)
    \/ \E n \in Names : PersonAdds(n) \/ PersonRemoves(n)
    \/ PersonDeletesLedger

Spec == Init /\ [][Next]_vars

\* A job that has started takes its next step, unless it is killed.
FairSpec == Spec /\ \A r \in Runs : WF_vars(RunStep(r))

-----------------------------------------------------------------------------
(* Properties.                                                             *)

\* Talooner's own steps never take away an assignee or a review request that a
\* person put there: "never one taken away from the person who put it there"
\* (docs/actions.md, Reversibility).  Whatever fails, in whatever order runs
\* overlap, a ledger that is lost or stale errs on the side of leaving it.
NeverTakenFromItsPerson ==
    [][pc' # pc => manual \subseteq standing']_vars

\* A run that found no ledger, or could not read it, removes nothing: the
\* promise logged by Syncer.ledger ("this run will remove nothing").  It has to
\* hold of the names the run itself has just added too.
UnreadableRemovesNothing ==
    \A r \in Runs : pc[r] # "idle" /\ prev[r] = {} => owned[r] \subseteq want[r]

\* A run that leaves a call behind without noting a problem got everything it
\* asked for: an assignee the host ignored is a problem, and a target is not
\* "skipped" (docs/actions.md, Reversibility).
AskedForOrFailed ==
    [][\A r \in Runs :
         Adding(r) /\ pc'[r] = After[pc[r]] /\ ~failed'[r] => ToAdd(r) \subseteq standing']_vars

\* What of it holds on GitLab too, where a reviewer nobody knows is left out in
\* silence: an assignee the rules ask for has been on the pull request in the
\* run's snapshot or is there now, or the run has noted a problem.
AssigneesAreToldOf ==
    [][\A r \in Runs :
         pc[r] = "addAssignees" /\ pc'[r] = "removeAssignees" /\ ~failed'[r]
           => ToAdd(r) \subseteq standing' /\ want[r] \cap Assignees \subseteq seen[r] \cup seen'[r]]_vars

\* What Talooner put on the pull request and has it in hand to take back: all of
\* it, but for the names GitLab passed over when it was asked to take them off.
Own == standing \ (manual \cup skipped)

\* A run that met no problem leaves nothing of Talooner's standing that the
\* rules no longer ask for, whatever earlier runs were refused to take back,
\* but for the names GitLab has passed over.  Of runs that come one after the
\* other and end; one that begins before another has ended decides on a list
\* that is no longer true.
KeepsNothingUnwanted ==
    \A r \in Runs : pc[r] \in {"find", "put"} /\ ~failed[r] => Own \subseteq want[r]

\* Between runs, whatever Talooner put on the pull request, still stands and was
\* not passed over is in the ledger, so that a later run can take it back.  Of
\* runs that come one after the other and are not killed.
LedgerAccountsForAll == ~InFlight => Own \subseteq Claimed

\* What the ledger's own text says: "Anything not listed here was added by a
\* person and is left alone" (ledger.go).  The code keeps it on GitHub.  On
\* GitLab a name that is passed over leaves the ledger and stays on the merge
\* request, for good; no run checks this.
UnlistedIsAPersons == ~InFlight => standing \ manual \subseteq Claimed
=============================================================================

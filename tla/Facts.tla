-------------------------------- MODULE Facts --------------------------------
(***************************************************************************)
(* facts.PR: the facts a policy is evaluated on, gathered from the host in *)
(* separate calls while people push, review and dismiss and checks run.    *)
(* The files' statistics and the pull request are read side by side, then  *)
(* the check runs and statuses of the pull request's head, the diff and    *)
(* the reviews; from these the facts are derived.  Lists are read whole or *)
(* not at all, as HostClient shows.                                        *)
(***************************************************************************)
EXTENDS Naturals, Sequences

CONSTANTS
    Hosts,        \* a subset of {"github", "gitlab"}
    People,       \* the reviewers
    Bots,         \* the ones of them that are bots
    Files,        \* numbered in the order in which hosts list them
    Manifests,    \* the ones of them that declare dependencies
    Changes,      \* what a head may change: files, and what is shown of each
    Headers,      \* whether patches come with a "diff --git" line: no host's do
    Rules,        \* CODEOWNERS: the files, teams and people of each entry
    RunNames,     \* check runs
    StatusNames,  \* commit statuses
    Patterns,     \* the checks that config.yaml names as the tests
    MaxHead,      \* bound: heads
    MaxEvents     \* bound: what others do, all in all

\* The lines of a file can have changed and the patch be shown, or withheld
\* because it is binary or large; a renamed file has neither.
Showings == {"shown", "withheld", "renamed"}

Teams == UNION {Rules[i].teams : i \in DOMAIN Rules}

ASSUME FactsAssumption ==
    /\ Hosts \subseteq {"github", "gitlab"}
    /\ Bots \subseteq People
    /\ Files \subseteq Nat
    /\ Manifests \subseteq Files
    /\ Changes \subseteq UNION {[s -> Showings] : s \in SUBSET Files}
    /\ Headers \in BOOLEAN
    /\ Rules \in Seq([files : SUBSET Files, teams : SUBSET Teams, people : SUBSET People])
    /\ \A i \in DOMAIN Rules : Rules[i].teams \cup Rules[i].people # {}
    /\ RunNames \cap StatusNames = {}
    /\ MaxHead \in Nat \ {0}
    /\ MaxEvents \in Nat

VARIABLES
    host,        \* the host of this behaviour
    head,        \* the pull request's head
    change,      \* what it changes
    reviews,     \* GitHub's reviews or GitLab's notes, oldest first
    checks,      \* per head: the state of each check run and status
    events,      \* how often others have done something
    pc,          \* the next call of the gathering, or how it ended
    read,        \* which of the calls side by side are answered
    sha,         \* the head of the pull request as it was read
    stats,       \* per file, as it was read: whether lines have changed
    ci,          \* the checks as they were read
    diff,        \* the files of the diff as it was read
    cut,         \* the diff was cut off
    stamp,       \* the head that GitLab's approvals are taken for
    facts,       \* what was derived, if it was
    calm,        \* ghost: no push since the gathering began
    steady,      \* ghost: <<name, head, state>> of the checks that have not
                 \*   changed since
    objectors,   \* ghost: who has objected all the time since
    approvals    \* ghost: <<person, head>> of each approval that stood since

hostVars == <<host, head, change, reviews, checks, events>>
jobVars == <<pc, read, sha, stats, ci, diff, cut, stamp, facts>>
ghosts == <<calm, steady, objectors, approvals>>
vars == <<hostVars, jobVars, ghosts>>

Heads == 1..MaxHead
Names == RunNames \cup StatusNames

\* A check's status and conclusion, or its state, as far as they are told
\* apart: under way, well ended, badly ended, anything else.
CheckStates == {"none", "pending", "success", "failure", "other"}

Decisive == {"APPROVED", "CHANGES_REQUESTED", "DISMISSED"}
ReviewStates == Decisive \cup {"COMMENTED"}
NoteStates == {"approved", "unapproved", "thread", "resolved"}
Reviews == [who : People, state : ReviewStates \cup NoteStates, commit : Heads]

FactSets == [sha : Heads, pending : BOOLEAN, passing : {<<>>, <<TRUE>>, <<FALSE>>},
             truncated : BOOLEAN, counted : SUBSET Manifests,
             human : BOOLEAN, objected : BOOLEAN,
             approved : SUBSET Teams, stale : SUBSET Teams]

Resting == {"idle", "done", "refused"}
Stages == {"side", "runs", "statuses", "diff", "stamp", "reviews"}

TypeOK ==
    /\ host \in Hosts
    /\ head \in Heads
    /\ change \in Changes
    /\ reviews \in Seq(Reviews)
    /\ checks \in [Heads -> [Names -> CheckStates]]
    /\ events \in 0..MaxEvents
    /\ pc \in Resting \cup Stages
    /\ read \subseteq {"files", "pull"}
    /\ sha \in Heads
    /\ \E s \in SUBSET Files : stats \in [s -> BOOLEAN]
    /\ ci \in [Names -> CheckStates]
    /\ diff \subseteq Files
    /\ cut \in BOOLEAN
    /\ stamp \in Heads
    /\ pc = "done" => facts \in FactSets
    /\ calm \in BOOLEAN
    /\ steady \subseteq Names \X Heads \X CheckStates
    /\ objectors \subseteq People
    /\ approvals \subseteq People \X Heads

-----------------------------------------------------------------------------
(* What the host shows.                                                    *)

NoChecks == [n \in Names |-> "none"]

\* PullRequestReviews: GitLab's notes and threads stand in for reviews, its
\* approvals for approvals of one head.
Report(r, h) ==
    CASE r.state = "approved"   -> [who |-> r.who, state |-> "APPROVED", commit |-> h]
      [] r.state = "unapproved" -> [who |-> r.who, state |-> "DISMISSED", commit |-> h]
      [] r.state = "thread"     -> [who |-> r.who, state |-> "CHANGES_REQUESTED", commit |-> h]
      [] r.state = "resolved"   -> [who |-> r.who, state |-> "COMMENTED", commit |-> h]
      [] OTHER                  -> r

Reported(h) == [i \in DOMAIN reviews |-> Report(reviews[i], h)]

\* GitHub counts lines, for GitLab the client counts those of the patch.
Lines(f) == change[f] = "shown" \/ (change[f] = "withheld" /\ host = "github")

Shown == {f \in DOMAIN change : change[f] = "shown"}

-----------------------------------------------------------------------------
(* What is derived.                                                        *)

\* Mutant: a comment counts as a decision.
AnyWord(list, i) ==
    \A j \in DOMAIN list : j > i => list[j].who # list[i].who

\* currentDecisions: a reviewer's last decision; a dismissal is none.
Latest(list, i) ==
    /\ list[i].state \in Decisive
    /\ \A j \in DOMAIN list :
         j > i /\ list[j].who = list[i].who => list[j].state \notin Decisive

Decisions(list) == {list[i] : i \in {j \in DOMAIN list : Latest(list, j)}}

Objected(list) == \E d \in Decisions(list) : d.state = "CHANGES_REQUESTED"

\* Mutant: an approval of any head.
Approvers(list, h) == {d.who : d \in {e \in Decisions(list) : e.state = "APPROVED"}}

Approving(list, h) ==
    {d.who : d \in {e \in Decisions(list) : e.state = "APPROVED" /\ e.commit = h}}

Superseded(list, h) ==
    {d.who : d \in {e \in Decisions(list) : e.state = "APPROVED" /\ e.commit # h}}

\* Mutant: the first entry for a file.
First(i, f) ==
    /\ f \in Rules[i].files
    /\ \A j \in DOMAIN Rules : j < i => f \notin Rules[j].files

\* codeownersMatch: the last entry for a file.
Owns(i, f) ==
    /\ f \in Rules[i].files
    /\ \A j \in DOMAIN Rules : j > i => f \notin Rules[j].files

\* teamProxyMembers: who is named beside the team.
Members(team, files) ==
    UNION {Rules[i].people : i \in {j \in DOMAIN Rules :
              team \in Rules[j].teams /\ \E f \in files : Owns(j, f)}}

\* Mutant: a failure is not waited with.
Hasty(matched) ==
    IF "failure" \in matched THEN <<FALSE>>
    ELSE IF matched = {} \/ "pending" \in matched \/ "other" \in matched THEN <<>> ELSE <<TRUE>>

\* derivePassing, of the states of the checks that match.
Passing(matched) ==
    IF matched = {} \/ "pending" \in matched THEN <<>>
    ELSE IF "failure" \in matched THEN <<FALSE>>
    ELSE IF "other" \in matched THEN <<>> ELSE <<TRUE>>

\* splitDiffFiles: without its header a patch belongs to no file.
Readable == IF Headers THEN diff ELSE {}

\* Mutant: what is not in the diff counts for nothing.
Lenient == TRUE

\* countDependencyChanges: every manifest whose lines have changed is read.
Countable == \A f \in Manifests \cap DOMAIN stats : stats[f] => f \in Readable

Derived(list) ==
    [sha |-> sha,
     pending |-> \E n \in Names : ci[n] = "pending",
     passing |-> Passing({ci[n] : n \in Patterns} \ {"none"}),
     truncated |-> cut,
     counted |-> Manifests \cap Readable,
     human |-> Approving(list, sha) \ Bots # {},
     objected |-> Objected(list),
     approved |-> {t \in Teams : Approving(list, sha) \cap Members(t, DOMAIN stats) # {}},
     stale |-> {t \in Teams : /\ Superseded(list, sha) \cap Members(t, DOMAIN stats) # {}
                              /\ Approving(list, sha) \cap Members(t, DOMAIN stats) = {}}]

-----------------------------------------------------------------------------
(* What has stood since the gathering began.                               *)

Standing == {<<n, h, checks[h][n]>> : n \in Names, h \in Heads}

\* Who asked for changes or opened a thread, and has but commented since.
Objectors ==
    {p \in People : \E i \in DOMAIN reviews :
        /\ reviews[i].who = p
        /\ reviews[i].state \in {"CHANGES_REQUESTED", "thread"}
        /\ \A j \in DOMAIN reviews : j > i /\ reviews[j].who = p =>
             reviews[j].state \in {"COMMENTED", "CHANGES_REQUESTED", "thread", "resolved"}}

Approves(p, h) ==
    \E i \in DOMAIN reviews :
        /\ reviews[i].who = p /\ reviews[i].commit = h
        /\ reviews[i].state \in {"APPROVED", "approved"}
        /\ \A j \in DOMAIN reviews : j > i /\ reviews[j].who = p =>
             reviews[j].state \notin Decisive \cup {"approved", "unapproved"}

Approvals == {a \in People \X Heads : Approves(a[1], a[2])}

\* Others act, and time passes for the gathering.
Event ==
    /\ events < MaxEvents
    /\ events' = events + 1
    /\ UNCHANGED <<host, jobVars>>
    /\ calm' = (calm /\ head' = head)
    /\ steady' = steady \cap Standing'
    /\ objectors' = objectors \cap Objectors'
    /\ approvals' = IF pc \in Resting THEN approvals ELSE approvals \cup Approvals'

-----------------------------------------------------------------------------
(* What others do.                                                         *)

Init ==
    /\ host \in Hosts
    /\ head = 1
    /\ change \in Changes
    /\ reviews = <<>>
    /\ checks = [h \in Heads |-> NoChecks]
    /\ events = 0
    /\ pc = "idle"
    /\ read = {}
    /\ sha = 1
    /\ stats = <<>>
    /\ ci = NoChecks
    /\ diff = {} /\ cut = FALSE
    /\ stamp = 1
    /\ facts = <<>>
    /\ calm = FALSE
    /\ steady = {}
    /\ objectors = {}
    /\ approvals = {}

Push ==
    /\ head < MaxHead
    /\ head' = head + 1
    /\ change' \in Changes
    /\ UNCHANGED <<reviews, checks>>
    /\ Event

Adds(p, state) ==
    /\ reviews' = Append(reviews, [who |-> p, state |-> state, commit |-> head])
    /\ UNCHANGED <<head, change, checks>>
    /\ Event

Turns(i, state) ==
    /\ reviews' = [reviews EXCEPT ![i].state = state]
    /\ UNCHANGED <<head, change, checks>>
    /\ Event

\* A review of the pull request's head.
Submit(p) ==
    /\ host = "github"
    /\ \E state \in {"APPROVED", "CHANGES_REQUESTED", "COMMENTED"} : Adds(p, state)

Dismiss(i) ==
    /\ reviews[i].state \in {"APPROVED", "CHANGES_REQUESTED"}
    /\ Turns(i, "DISMISSED")

\* An approval outlives a push, and is given once until it is taken back.
Approved(p) == \E h \in Heads : Approves(p, h)

Note(p) ==
    /\ host = "gitlab"
    /\ \/ ~Approved(p) /\ Adds(p, "approved")
       \/ Approved(p) /\ Adds(p, "unapproved")
       \/ Adds(p, "thread")

Resolve(i) ==
    /\ \/ reviews[i].state = "thread" /\ Turns(i, "resolved")
       \/ reviews[i].state = "resolved" /\ Turns(i, "thread")

\* GitLab has statuses only.
CheckReports(h, n, state) ==
    /\ h <= head
    /\ n \in RunNames => host = "github"
    /\ checks' = [checks EXCEPT ![h][n] = state]
    /\ UNCHANGED <<head, change, reviews>>
    /\ Event

-----------------------------------------------------------------------------
(* The gathering.                                                          *)

Goto(stage) == pc' = stage

Begin ==
    /\ pc = "idle"
    /\ Goto("side")
    /\ calm' = TRUE
    /\ steady' = Standing
    /\ objectors' = Objectors
    /\ approvals' = Approvals
    /\ UNCHANGED <<hostVars, read, sha, stats, ci, diff, cut, stamp, facts>>

\* Of the calls side by side the second to be answered lets it go on.
Answered(call) ==
    /\ read' = read \cup {call}
    /\ Goto(IF read = {} THEN "side" ELSE "runs")

\* ChangedFileStats and, beside it, ResolveMergeable.
ReadFiles ==
    /\ pc = "side" /\ "files" \notin read
    /\ Answered("files")
    /\ stats' = [f \in DOMAIN change |-> Lines(f)]
    /\ UNCHANGED <<hostVars, sha, ci, diff, cut, stamp, facts, ghosts>>

\* Mutant: the base of the pull request.
BaseSHA == head - 1

HeadSHA == head

ReadPull ==
    /\ pc = "side" /\ "pull" \notin read
    /\ Answered("pull")
    /\ sha' = HeadSHA
    /\ UNCHANGED <<hostVars, stats, ci, diff, cut, stamp, facts, ghosts>>

\* Mutant: the checks of the head there is now.
OfTheNewest(names) ==
    ci' = [n \in Names |-> IF n \in names THEN checks[head][n] ELSE ci[n]]

\* CommitChecks asks for the commit the pull request showed.
OfTheSha(names) ==
    ci' = [n \in Names |-> IF n \in names THEN checks[sha][n] ELSE ci[n]]

ReadRuns ==
    /\ pc = "runs"
    /\ OfTheSha(RunNames)
    /\ Goto("statuses")
    /\ UNCHANGED <<hostVars, read, sha, stats, diff, cut, stamp, facts, ghosts>>

ReadStatuses ==
    /\ pc = "statuses"
    /\ OfTheSha(StatusNames)
    /\ Goto("diff")
    /\ UNCHANGED <<hostVars, read, sha, stats, diff, cut, stamp, facts, ghosts>>

\* The patches in the order of the files, up to the first that is too much.
ReadDiff ==
    /\ pc = "diff"
    /\ \E s \in {Shown} \cup {{f \in Shown : f < g} : g \in Shown} :
         /\ diff' = s
         /\ cut' = (s # Shown)
    /\ Goto(IF host = "gitlab" THEN "stamp" ELSE "reviews")
    /\ UNCHANGED <<hostVars, read, sha, stats, ci, stamp, facts, ghosts>>

\* GitLab: the merge request once more, for the head of the approvals.
ReadStamp ==
    /\ pc = "stamp"
    /\ stamp' = head
    /\ Goto("reviews")
    /\ UNCHANGED <<hostVars, read, sha, stats, ci, diff, cut, facts, ghosts>>

\* What was read makes way for what is derived from it.
ReadReviews ==
    /\ pc = "reviews"
    /\ \/ /\ Countable
          /\ facts' = Derived(Reported(stamp))
          /\ Goto("done")
       \/ ~Countable /\ Goto("refused") /\ UNCHANGED facts
    /\ read' = {} /\ ci' = NoChecks /\ stamp' = 1
    /\ UNCHANGED <<hostVars, sha, stats, diff, cut, ghosts>>

\* The job goes on, or has failed: any call may, and then nothing is reported.
Return ==
    /\ pc # "idle"
    /\ Goto("idle")
    /\ read' = {} /\ sha' = 1 /\ stats' = <<>> /\ ci' = NoChecks
    /\ diff' = {} /\ cut' = FALSE /\ stamp' = 1 /\ facts' = <<>>
    /\ calm' = FALSE /\ steady' = {} /\ objectors' = {} /\ approvals' = {}
    /\ UNCHANGED hostVars

Next ==
    \/ Push
    \/ \E p \in People : Submit(p) \/ Note(p)
    \/ \E i \in DOMAIN reviews : Dismiss(i) \/ Resolve(i)
    \/ \E h \in Heads, n \in Names, s \in CheckStates \ {"none"} : CheckReports(h, n, s)
    \/ Begin \/ ReadFiles \/ ReadPull \/ ReadRuns \/ ReadStatuses
    \/ ReadDiff \/ ReadStamp \/ ReadReviews \/ Return

Spec == Init /\ [][Next]_vars

-----------------------------------------------------------------------------
(* Properties.                                                             *)

\* Whoever objected before the facts were gathered, and has neither decided
\* otherwise nor been dismissed or resolved since, is reported: no comment of
\* theirs, push or approval by others hides the objection.
ObjectionsAreReported == pc = "done" /\ objectors # {} => facts.objected

\* A human approval that is reported was given by a human and stood while the
\* facts were gathered, on GitHub for the very commit that is reported,
\* whatever was pushed in between.
ApprovalsAreOfTheSha ==
    pc = "done" /\ facts.human =>
        \E p \in People \ Bots, h \in Heads :
            <<p, h>> \in approvals /\ (host = "github" => h = facts.sha)

\* A team's approval is reported only if someone gave it who is named beside
\* the team by the entry that decides on a changed file; an entry that is
\* overridden gives nobody a say.
TeamsAreOwners ==
    pc = "done" =>
        \A t \in facts.approved : \E f \in DOMAIN stats, i \in DOMAIN Rules, h \in Heads :
            /\ f \in Rules[i].files /\ t \in Rules[i].teams
            /\ \A j \in DOMAIN Rules : f \in Rules[j].files => j <= i
            /\ \E p \in Rules[i].people :
                 <<p, h>> \in approvals /\ (host = "github" => h = facts.sha)

\* The tests of the reported commit pass or fail only by what its checks, read
\* in two calls, have shown meanwhile: neither while a test is still running
\* nor, well, with one that has not ended well; and a check that runs on is
\* reported.
ChecksAreNotGuessed ==
    pc = "done" => \A n \in Names, s \in CheckStates : <<n, facts.sha, s>> \in steady =>
        /\ n \in Patterns /\ facts.passing = <<TRUE>> => s \in {"success", "none"}
        /\ n \in Patterns /\ facts.passing # <<>> => s # "pending"
        /\ s = "pending" => facts.pending

\* Dependencies are never counted past a manifest: unless something was pushed
\* meanwhile, a gathering that ends well has read every manifest that has
\* changed, however much of the diff was cut off or withheld.  On GitHub; GitLab
\* shows no lines of what it withholds.
CountsNothingUnseen ==
    pc = "done" /\ calm /\ host = "github" =>
        \A f \in Manifests \cap DOMAIN change :
            change[f] \in {"shown", "withheld"} => f \in facts.counted

\* The facts fit together though they are read in separate calls: unless
\* something was pushed meanwhile they are of the head there is and of its files,
\* and a diff that is not reported as truncated is whole.
FactsFitTogether ==
    pc = "done" /\ calm =>
        /\ facts.sha = head
        /\ DOMAIN stats = DOMAIN change
        /\ facts.truncated \/ diff = Shown

\* A team's approval is reported as stale only if someone who owns a changed
\* file for the team has approved, on GitHub for another commit; on GitLab,
\* where approvals are taken for the head of the moment, only a push while the
\* facts are gathered makes one stale.
StaleTeamsHaveApproved ==
    pc = "done" => \A t \in facts.stale :
        /\ \E f \in DOMAIN stats, i \in DOMAIN Rules, h \in Heads :
              /\ Owns(i, f) /\ t \in Rules[i].teams
              /\ \E p \in Rules[i].people :
                   <<p, h>> \in approvals /\ (host = "github" => h # facts.sha)
        /\ host = "gitlab" => ~calm

\* What comes of RefusesOnlyTheUnseen failing, when no patch has a header: facts
\* are given only for changes that leave every manifest's lines alone, and no
\* dependency is ever counted.
NoManifestIsCounted ==
    pc = "done" =>
        facts.counted = {} /\ \A f \in Manifests \cap DOMAIN stats : ~stats[f]

\* "A manifest reformatted with no semantic change is unaffected: it's present
\* in the diff" (docs/facts.md): facts are refused only for a manifest that is
\* not in the diff.
RefusesOnlyTheUnseen ==
    pc = "refused" /\ calm => \E f \in Manifests \cap DOMAIN stats : stats[f] /\ f \notin diff
=============================================================================

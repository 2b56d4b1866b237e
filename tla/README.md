# Talooner: models, checks and proofs

Talooner reviews pull requests by a rule set. A GitHub workflow (or a GitLab
pipeline) starts a job for an event; the job reads the pull request, has the
*cluster* evaluate the rules of the base branch, and carries out the decision:
a sticky comment, a review that approves or requests changes, assignees and
review requests, a check run. The job keeps nothing: what has to survive from
one job to the next is on the pull request itself (marked reviews, comments, the
ledger comment) or in the cluster (the subscription).

What is hard about it is therefore not inside a job but between jobs, hosts and
people. Jobs overlap, are killed between two calls, repeat calls whose answer
they never saw, and work from snapshots that persons change in the meantime.
These TLA+ modules model that: every host call is a step.

Source paths below are relative to the repository root (`src/` in
`PROJECT.json`). `PROJECT.json` names, for every definition, the lines it
models, for every property a mutation of the model that violates it, and every
hazard of the code with the properties that watch it.

## 1. The system

| Component | State it keeps | Operations | Correct when |
|---|---|---|---|
| workflow template `internal/onboard/templates/talooner.yml` | GitHub's concurrency group: one job runs, one waits | an event queues, displaces, starts | one job per pull request; what is new gets evaluated |
| events, commands `internal/event`, `internal/command` | none | payload to event; comment to command | the right pull request and head; only those who may give commands |
| pipeline `internal/run` | one job's locals | gate, load, gather facts, evaluate, report, fail open | what is reported agrees and is not half done; failures are neutral |
| cluster client `internal/cluster` | (remote) subscription, the evaluation in flight | subscribe, evaluate, explain | nothing happens until asked |
| facts `internal/facts` | the snapshots of one gathering | read files, pull request, checks, diff and reviews in separate calls; derive | facts are of the head that is reported on, and nothing unread counts as nothing |
| actions `internal/action` | `done` flag per executor | decode, validate, execute in order, plan diff | all of a decision or none; each executor once |
| review `internal/review`, `internal/host/github/review.go` | marked reviews on the host | list, keep one, dismiss the rest, submit | one verdict at a time; the last verdict wins |
| GitLab's verdict `internal/host/gitlab/review.go` | marked discussion threads, Talooner's approval | list, keep one, reply to and resolve the rest, approve or take it back, post | approved or blocked, never both; the last verdict wins |
| check run `internal/check`, `internal/host/github/checkrun.go`, `internal/host/gitlab/checkrun.go` | a check run (or commit status) per head | conclude, find by name, create or update, send annotations in batches | follows the review; neutral on failure; one per head, complete |
| assignments `internal/assignment`, `internal/host/*/assignees.go` | assignees, review requests; the ledger comment | add, remove, request, withdraw, write the ledger | never takes away what a person put there; leaves nothing of its own behind |
| sticky comments `internal/comment`, `internal/host/*/comment.go` | one comment per topic | find by marker, page by page; edit, or post; read | one comment per topic, saying what the job found |
| host clients `internal/host/github/client.go`, `internal/host/gitlab/client.go` | attempts, waits, pages of an operation | request, wait, repeat, page, poll | ends; waits as long as it is asked; a list is whole |
| configuration, credentials, onboarding, command line | files | read, write | not modelled (section 7) |

How they interact: `run.Run` is the only caller of everything else. It calls the
host for data, the cluster for the decision, then `action.Registry.Execute`,
which calls the review and the assignment executors, and `report` calls both
once more for what no action asked for (`internal/run/run.go:509-517`). There
are no callbacks. Only two fact calls run side by side. All sharing is through
the host and the cluster, and nothing on the host is transactional.

The hard behaviours: overlapping jobs (suites have a concurrency group of their
own, GitLab pipelines have none), jobs
killed between calls, calls refused, unavailable, or done but unanswered and
repeated, persons acting in between, stale snapshots and stale ledgers, a queue
of length one, and several resources that have to agree although they are
written one after the other.

## 2. The modules

| Module | Models | Composed with |
|---|---|---|
| `Decision` | a decision as a sequence of actions: whether it can be performed, by which executors, its verdict, conclusion, comment body | extended by `Report` |
| `Report` | one job at a time, from the start to the check run: loading, facts, evaluation, comment, executors, failure paths | uses `Decision` |
| `ReviewSync` | `SyncReview` call by call, many runs | refines `VerdictStore` |
| `VerdictStore` | the abstract promise: at most one kind of verdict stands | instantiated by `ReviewSync` |
| `GitLabReview` | GitLab's `SyncReview` call by call: threads, replies, approval, many runs | |
| `Assignment` | `assignment.Syncer.Sync` and the ledger, call by call, many runs, both hosts | |
| `Dispatch` | events, concurrency groups, the gate, subscription, stale heads; a report is one step | |
| `Sticky` | upserts of comments, notes, check runs and statuses, call by call and page by page, many runs | |
| `HostClient` | one operation of a host client: attempts, rate limits, backoff, paging, polling, cancellation | refines `HostCall` |
| `HostCall` | what the modules above assume of a call: done up to `MaxRetries + 1` times, at least once if it ends well | instantiated by `HostClient` |
| `Facts` | `facts.PR` call by call, what is derived, and what others do meanwhile, both hosts | |
| `*Proofs` | the theorems of the module they are named after | |
| `MC*` | the finite instances TLC checks | |

The cut is by shared state. `Dispatch` decides which jobs run and when their
facts are read. `Report` says what one job writes, in which order, and what is
left when it fails, with the review and the assignments as one cell each.
`ReviewSync`, `GitLabReview` and `Assignment` open these two cells, let several jobs into them
at once, and let every call fail in its own way. Where `Report` lets a review
executor fail half done (`verdict' \in {verdict, "none", Verdict(decision)}`), it
allows what `ReviewSync` shows to be the possible leftovers of runs kept apart
(`TakesBackOrSettles`, proved). On GitLab that one cell holds of a run that ends
well (`SettlesOnItsVerdict`); one that fails between its approval and `Settle` may
leave the approval beside a thread that is still open, which `Report` does not
tell apart from either.
`Sticky` opens the comment and the check run in the same way (what `Report` takes
for granted of a write that fails is `ShowsItOrWhatWas`, proved), `Facts` the facts
that `Report` receives as one value, and `HostClient` a single call of any of
them: the faults `refused`, `unavailable` and `lost` of `ReviewSync`,
`GitLabReview` and `Sticky` are the steps of `HostCall`.

### Report and Decision

An action is represented by its verb, or by what is wrong with it (`unknown`
verb, `incomplete` argument or target). `Decisions` is the set of decisions the
cluster may return. The stages of `pc` are the calls of `Runner.evaluate`,
`Runner.report`, `failOpen`, `rulesetBroken` and `configBroken` in their order.
`Work(decision)` is the list of executors `report` calls; `synced` holds their
`done` flags, so the second call of an executor passes over. `Begin` starts a job
on `/review` (`Subscribe`, with its acknowledgement) or on another event
(`CheckSubscription`); `FetchPull` takes the head the job reports on, and `Push`
moves the head under it. The way out of each of the three (`Over`) ends the job
without a report: silently, or with an error and no check run. Checks are kept per head. Each fault of `Faults`
names the call that fails. Where a call may have done its work before it was
reported as failed, the step allows both.

### ReviewSync and VerdictStore

`state[i]` is what the host shows of Talooner's i-th marked review, and `last`
the newest. A run is `Begin` (it has its verdict `want`), `List` (keeps the first
standing review in the wanted state, whatever commit it is for), `Dismiss` (one
call per other review, oldest first) and `Post`. The client
(`internal/host/github/client.go:143-226`) repeats a call that is unavailable or
unanswered up to `MaxRetries` times: `Lost` does the work and repeats, so a
submission may be done several times. `Refused` includes the host's refusal to
dismiss a review that a person or another run has dismissed. `PersonDismisses`
is the person's step. With `Serial` the concurrency group keeps runs apart.

`alone` and `before` are ghosts: whether anybody else has acted since a run
began, and what was there when it began.

### GitLabReview

GitLab has no reviews to dismiss. A verdict is a discussion thread with the
marker, open to block and resolved to approve, and beside it the approval of
Talooner's account. `body[i]` is what the i-th thread says, `open` the
unresolved ones, `approved` the account's approval. `ReadsAs` is what the code
takes a thread for: only whether it is open counts, not what it says. A run is
`Begin`, `List`, `Reply` and `Resolve` for each thread but the one it keeps,
`ReadApproval`, `SetApproval` if it differs, `Post` if it kept none, and
`Settle`, which resolves an approving thread it has just opened. Faults are as in
`ReviewSync`. An approval names its commit, so the host refuses one after a push
(`fresh`); taking back an approval that is not there is not an error. Persons
resolve, reopen and delete threads, and a push may reset approvals. GitLab's
pipelines of one merge request are not kept apart, so runs always overlap.

`settled` and `calm` are ghosts for `RerunWritesNothing`: the verdict a run
has left undisturbed, and whether a run has nothing else to say.

### Sticky

One kind of thing per behaviour (`kind`): a GitHub comment, a GitLab note, a
check run, a GitLab commit status. `says[i]` is what the i-th thing written says,
`keyed` which of them carry the marker or the name, `noted` which batches of
annotations a check run has. A run calls `UpsertComment` (mode `upsert`, or
`editOnly`), `CreateComment` (`create`), `CommentBody` (`read`) or
`UpsertCheckRun`: it lists page by page (`List`, with `found` the best match so
far), then edits or posts, then sends the remaining batches. A note's place in
the list is counted from the newest (`Rank`), so notes move to later pages while
it is read. An edit that meets a deleted comment goes on to post a new one, unless
it is `editOnly`; every other failure ends the call. A status is one call, and
the host keeps one per name. Faults and repetitions are as in `ReviewSync`;
persons write, quote the marker and delete. `Shown` is what people take for
Talooner's word: the oldest comment with the marker, the newest check run.

`alone` and `had` are ghosts: whether anybody else has written, quoted or
deleted anything under the marker since a run began, and whether there was
something to write to.

### HostClient and HostCall

`Begin` starts a single request (`call`), a list or a poll. `send` is one attempt
(`attempt` in either client): answered, garbled, refused, unavailable, or
limited, with the two hosts' different ideas of which answers are rate limits
(`IsRateLimited`) and the headers that say how long (`RateLimitWait`). A
`Retry-After` is a number of seconds or a date (`After`), and may come with a server
error too; the client reads the number alone, and only of a rate limit
(`Legible`, `Heeded`), which `Asked` and the ghost `heard` keep apart from what the
host wants. `Repeat` is
the loop of `do`, `NextPage` that of `paginate` and `collectObject`, with the
foreign link and the page limit, `NextPoll` that of `ResolveMergeable`. `Cancel`
ends the job's context at any moment. Time is in seconds and passes only in
sleeps. `works`, `waited`, `notBefore` and `heard` are ghosts: how often the host has done
the present call's work, how long the operation has slept, until when the host
wants to be left alone and whether the client has read that. `HostCall` forgets all but the first, and is what the
other modules rely on.

### Facts

The stages of `pc` are the host calls of `facts.PR` in their order: the files'
statistics beside the pull request, check runs, statuses, diff, on GitLab the
merge request again for the approvals' commit, reviews. Each reads the host as
it is at that moment. The derivations are operators: `Decisions` (a reviewer's
last decision), `Passing`, `Owns` (the last entry of CODEOWNERS for a file),
`Members`, `Countable`, `Derived`. An entry that names nobody is dropped when
CODEOWNERS is parsed, so `Rules` has none (`FactsAssumption`). A file's patch is shown, withheld, or there is
none. `Headers` says whether patches come with a `diff --git` line, which
`splitDiffFiles` looks for; from neither host they do, and both runs say so.
Others push, review, dismiss, open and resolve threads, and let checks report,
between any two calls. `calm`, `steady`, `objectors` and `approvals` are ghosts:
no push since the gathering began, the checks that have not changed since, who
has objected all the time, which approvals have stood at some time.

### Assignment

`standing` is what the host shows, `manual` (ghost) what of it a person put
there, `comment` the ledger. A run takes its snapshot (`Begin`, the decision's
names are `want`), reads the ledger, makes its four calls in the code's order,
and writes the ledger by search and then edit or post. `Skip` is a call with
nothing to do. On GitLab `Fetch` reads the list and `Add`/`Drop` replace it;
teams are refused before sending; users nobody knows are left out of additions and
of removals alike (`Takes`), and a run takes a removal that was answered for done,
so what GitLab has passed over leaves the ledger and stays (`skipped`, a ghost). On
GitHub assignees may be ignored, review requests and removals are all or nothing. Persons add and
remove names, delete the ledger; `Races` says what they do while a run is in
flight and whether they put back a name the ledger still lists.

### Dispatch

`news` counts what has happened on a pull request that is worth evaluating: a
push, a submitted review, the end of a check suite; a head is named by the news
its push was. `seen` is the news a job's facts take account of, `shown` that of
the last report. `Arrive` is the concurrency group: start if it is free, else take
the waiting place, whoever holds it. A check suite's payload has neither
`pull_request.number` nor `issue.number`, so all suites share the group
`NoNumber`. The job is `run.Run`: commands, `closed`, the subscription gate,
the stale-head exit, facts, an evaluation the cluster refuses while another of
the same pull request is in flight, the report. `reported` (ghost) is what each
group's last report took account of: the jobs of a pull request's own group and
the suites' overlap, and each may replace what the other has shown. `Races`
admits the overlap and the displacement of a waiting event by one that does
nothing; the run has the first, section 6 what the second does. `Covers`, which
says when a displaced event is made up for, is about what is reported: a displaced
`/review`, `/stop` or closed loses its change of the subscription.

## 3. The runs

Distinct states and time are those of one machine with two workers.

| Run | Instance | Shows |
|---|---|---|
| `ReportFaults` | all decisions of up to 2 actions of 5 kinds, two heads, all 12 faults; 345,352 states | `ReportsAgree`, `CheckFollowsTheReview`, `NothingHalfUnderstood`, `FailsOpen` |
| `Sticky` | all four kinds, 2 overlapping runs, all faults, one repetition, persons, pages of 1 comment and at most 2, at most 2 batches and 4 things, symmetric; 1,807,350 states | `FindsTheShown`, `ShowsItsReport`, `AddsNoSecond` |
| `HostClient` | both hosts, 2 repetitions, sleeps of at most 3 s, 2 pages, 3 polls, hosts that ask for 0, 2, 3 or 4 s, in seconds or by a date, fair; 210,496 states | refinement of `HostCall`, `NotBeforeAsked`, `WholeLists`, `PatienceIsBounded`, `OperationEnds` |
| `Facts` | both hosts, a person and a bot, a source file and a manifest, 2 heads, 4 events, a check run and a status; 4,614,357 states | `ObjectionsAreReported`, `ApprovalsAreOfTheSha`, `TeamsAreOwners`, `ChecksAreNotGuessed`, `CountsNothingUnseen` |
| `ReviewSerial` | 2 runs kept apart, all faults, one repetition, up to 6 reviews, fair | refinement of `VerdictStore`, `HoldsItsVerdict`, `RunEnds` |
| `ReviewOverlap` | 2 overlapping runs, the same faults, symmetric | `SettlesOnItsVerdict` |
| `AssignmentOverlap` | GitHub, 1 assignee, 1 reviewer, 2 overlapping runs, all faults, persons withdraw names during runs | `NeverTakenFromItsPerson`, `UnreadableRemovesNothing`, `AskedForOrFailed` |
| `AssignmentGitLab` | GitLab, 2 assignees, 1 user, 1 team, one run at a time, refused calls, names passed over; 49,990 states | `LedgerAccountsForAll`, `KeepsNothingUnwanted` |
| `DispatchQueue` | 1 pull request and its suites' group, which overlap, all nine triggers, failing calls and killed jobs, 3 news, fair; 568,047 states | `OnlyTheSubscribed`, `NothingIsForgotten`, `NeverOlder`, `NewsIsShown` |
| `GitLabReview` | 2 overlapping pipelines, all faults, one repetition, up to 3 threads, persons and pushes, symmetric; 2,872,502 states | `SettlesOnItsVerdict`, `NeverMakesBoth` |

What each property says stands in the comment above it. The bounds, and why
they are enough:

* **Two actions per decision** (`MaxActions`): `Verdict`, `Conclusion`, `Body`
  and `Performable` depend on which kinds occur, and with two of five kinds
  every contradictory pair (approve and block, something performable and
  something not) occurs in both orders. The proofs hold for any length.
* **Two heads** (`MaxHead`): the job's and one later.
* **Two runs** (`Runs`): every interference in the code is between a reader and
  one other writer; crashed runs leave their traces and begin again, so a
  behaviour has any number of runs one after the other. The proofs hold for
  any number of overlapping ones.
* **One repetition** (`MaxRetries`): enough for a duplicate submission; `MaxReviews
  = 6` leaves room for a run that submits twice, another that does so while it
  is in flight, and one that clears up after both. `Begin`'s guard reserves room
  for every repetition, so no run is stopped by the bound half way.
* **Three threads** (`MaxThreads`): two left by overlapping or repeating runs, and
  the one of a run that clears them up and posts anew. The proofs hold for any
  number.
* **Two pages of one thing, two batches, four things** (`MaxPages`, `PageSize`,
  `MaxBatches`, `MaxThings`): a copy on the first page and one on the second, a
  list that is refused as too long, a batch that is sent and one that is not; a
  copy left by a repetition on each side of a run, and a person's comment. As in
  `ReviewSync`, nothing begins without room for its repetitions. The proofs hold
  for any numbers.
* **Delays 0, 2, 3, 4 with `MaxWait = 3`**: less than a second, less than the
  limit, the limit, more than it. The backoff 1, 2, 3 is capped at the third.
* **Four events** (`MaxEvents`): a review before the gathering, one that takes it
  back or another opinion, a push and a check's report in between; every property
  needs at most three. The proofs hold for any number.
* **One or two names per kind**: names are treated one by one in every set
  operation of `Sync`; a second assignee is there for a partly ignored call and
  for the replaced list of GitLab.
* **Three news** (`MaxNews`): one reported, one in a job of one group and one in a job
  of the other, or one running, one waiting and one that displaces. News is
  bounded, comments, closing and reopening are not. The proofs hold for any
  number.

Symmetry is used only in runs without temporal properties beyond `[][A]_v`.
All runs check for deadlock: new runs can always begin, or time out and end.

The violating runs check one statement of the documentation each and find it
contradicted by the code:

| Run | Statement | What happens |
|---|---|---|
| `AssignmentLostUpdate` | docs/actions.md:118-119, "never one taken away from the person who put it there" | GitLab: a person assigns somebody between the fetch of the list and its replacement; the name is gone |
| `FactsDiff` | docs/facts.md:166-167, "each one's `diff --git` header stays intact", and :238-240, "A manifest reformatted with no semantic change is unaffected: it's present in the diff" | the hosts' patches have no such line (`internal/host/github/diff.go:44-57`, `internal/host/gitlab/diff.go:35-48`; `internal/host/gitlab/diff_test.go:32`), so `splitDiffFiles` (`internal/facts/dependencies.go:44-63`) finds no file, and every pull request that changes lines of a manifest is refused its facts |

The other statements that the models contradict are in section 6 with the
configuration that shows each.

## 4. Fairness

`WF_vars(RunStep(r))` in `ReviewSync`, `WF_vars(JobStep)` in `Report`,
`WF_vars(JobStep(g))` in `Dispatch`: a Go program that is running takes its next
step. Its calls have deadlines (a failing call is a step too), so it is not
stuck in one. `Crash` is not under fairness and may come at any time.
`WF_vars(ClientStep)` in `HostClient`: an answer comes or the `http.Client`'s
Timeout ends the attempt, and a sleep ends.
`WF_vars(StartWaiting(g))` in `Dispatch`: GitHub starts the pending job of a
group that has become free. Nothing is assumed of persons, of pushes or of
events, and nothing strong: in `RunEnds`, `OperationEnds` and `NewsIsShown` a call
may fail every time.

`RunEnds` and `OperationEnds` therefore show that a run's and the client's
patience is bounded, and `NewsIsShown` that two queues of length one lose nothing as
long as what displaces does the work of what it displaced, with the stale-head
exit, the single subscription check and refused evaluations on the way: some job
reports it, which a job of the other group may undo (section 6). A job that fails satisfies `NewsIsShown` by
failing visibly (`alarm`): Talooner does not try again by itself.

## 5. What is proved

TLAPS checks the theorems listed in `PROJECT.json` for every value of the
constants allowed by the modules' named assumptions.

**Report** (`ReportProofs`), for any set of decisions of any length, any number
of heads, all faults. `TypeCorrect` carries the invariant `UnderWay`: which
executors have been called when `step` is reached (`\A k \in 1..step :
Work(decision)[k] \in synced \cup {"derived"}`), that what they were called for
stands, that only a performable decision gets past `evaluate`, and that
`brokenComment` comes after a neutral check. With the lemma
`WorkEndsWithBoth` (whatever the decision, `Work` ends with review and
assignment) `AllCalled` follows, and from it `ReportedRunsAgree`,
`TheReviewComesFirst`, `NothingIsHalfPerformed` and `FailuresAreNeutral`. The
invariant is needed because none of these mentions `step` or `synced`.
`FailuresAreNeutral` says of a job that fails before it has the pull request
(`Early`) that it writes no check run, and of every other one that its check run
is neutral.
`VerdictMatchesConclusion`, `OrderDoesNotMatter` (only the kinds of actions in a
decision count, neither their order nor their number) and `BlocksStand` (no action
added to a block makes it anything else) are the pure facts about decisions
beneath. Two more invariants say what time a job's data is of: `OfItsTime` (every
head read so far lies between `sha` and `head`) gives `FactsComeAfterTheSha`, which
is what is left of the promise that facts are of the sha, and `Written` (the
comment says what it should from `work` on, and every cell once the job has
reported) gives `ReportsStand`.

**ReviewSync** (`ReviewSyncProofs`), for any number of runs, reviews and
repetitions. `ReviewsAreKnown` is the invariant: a run that is apart from others
knows the standing reviews (they are the kept one and those in `stale`), and
when it is about to submit, all that stand say what it wants. Duplicates of a
repeated submission are why it has to say "all", not "none". From it
`SerialRunsImplementTheStore` (each step is a step of `VerdictStore` or a
stutter), `SuccessSettles` and `VerdictHolds`. The last two do not assume that
runs are kept apart, only that nobody interfered with this one. `ReportMayRely`
speaks of the steps between: whatever of a run fails, a part of the old verdicts
stands or its own alone. `SubmissionsAreAttempts` counts the duplicates a repeated
submission leaves, with the invariant `FewSubmitted` (`last` grows at `post` only,
and there at most once per attempt).

**Assignment** (`AssignmentProofs`), for any names, runs, faults and both hosts.
`NothingOfAPersonsIsTaken` assumes `Races \subseteq {"takeBack"}`: nobody adds a
name behind a run's back (on GitLab that is the lost update of
`AssignmentLostUpdate`) or puts back one the ledger lists. Its invariant,
`EntriesAreSafe`, says that what any run owns, any ledger it read, and the
ledger comment claim no name of a person's. It must speak of all runs at once,
since each writes the ledger the others read. `UnreadableIsHarmless` needs no
assumption. `GitHubTellsWhatItIgnores` is about GitHub only: on GitLab it is
false (section 6), but for assignees, of which `AssigneesAreNotLost` says it on
either host. `LedgerIsComplete` and `NothingIsLeftBehind` are about runs that
come one after the other and whose calls are refused, but neither lost nor cut
off by a kill (`Orderly`; on GitLab also that no person removes a name during a
run). Their invariant `Accounted` follows what is Talooner's from the ledger to
the run that reads it and back: whatever stands and is no person's is listed
between runs, and owned and known to the run in flight (`HandedOn`), or has been
passed over by GitLab (`skipped`). Since GitHub passes over nothing
(`NothingPassedOver`), the ledger's own text holds there
(`UnlistedIsAPersonsOnGitHub`). Without `Orderly` all three are false, and the last
is on GitLab (section 6).

**Dispatch** (`DispatchProofs`), for any number of pull requests, groups that
overlap and whatever fails. Every job is in the group of its event, and a suite's
never ends a subscription (`InItsGroup`); so a job of a pull request's own group
works on a subscribed pull request (`OnlyTheSubscribedAreServed`), since the only
jobs that could unsubscribe wait behind it. A group's last report is no newer than
the facts of the job it runs (`UpToDate`), so no group replaces a report of its
own by an older one (`ReportsNeverGetOlder`). Only `NoWakeupIsLost` assumes
something, `"displaced" \notin Races`, without which it is false (section 6). It is the
safety half of `NewsIsShown`: whatever is new on a subscribed pull request and
neither reported nor
failed has a job that runs or waits. `NothingIsForgotten` itself is not
inductive, since a job that runs may be one that does nothing; its invariant
`Wakeup` says of which jobs that is enough (`TakesCareOf`): one that waits or
has not yet looked at the head, and comes with the present one or none; one that
has looked and not yet read the facts; one whose facts are all there are; one that
will end the subscription.

**GitLabReview** (`GitLabReviewProofs`), for any number of overlapping runs,
threads and repetitions, all faults, whatever persons do. The invariant `Inv`
says what a run nobody has interfered with may rely on at each of its calls:
until the threads are done with, every open one is the one it kept or one it has
yet to dismiss (`KnowsTheOpen`); then only the kept one is open
(`OnlyKeptOpen`), and it reads like the verdict; when it posts, only what it has
posted itself is open, and the approval is right (`OnlyOwnOpen`). It speaks of
open threads alone because a dismissed thread stays, and reads like an approval.
From it follow `Settles` (the verdict is left, in threads and approval) and
`NeverBoth` (such a run makes no merge request approved and blocked at once,
which holds because it corrects the approval after it has resolved and before it
posts). `RerunsPostNothing` is what is left of the comment that a re-run makes no
write (section 6): where the verdict was reached before and nobody has acted
since, a run replies and resolves, and neither posts nor touches the approval.
Its invariant `Rests` ties the ghosts to the host: a settled verdict still has
its thread and its approval (`SettledStands`), and a calm run has found them
(`CalmKnows`).

**Sticky** (`StickyProofs`), for any number of runs, things, pages and batches,
whoever interferes. `Inv` has two halves. What holds of every run (`Course`): what
it has found has been written, it knows its text, and only the modes that may
post do. What holds of a run that is alone: while it lists, the pages behind it
hold no better match than `found` (`Sought`), because things only move to later
pages (`RankGrows`, the lemma about `Rank` that makes paging in both directions
sound); when it writes, `found` is what people see (`Held`), and the batches it
has sent are there. From it `SearchesFind`, `ReportsAreShown`, `NoneIsAdded`, and `ShownIsNeverElse`:
step by step, what people see is what they saw or the run's report.
`OnlyMarkedIsRewritten` is about all runs, alone or not: an edit goes to an id
found some calls before, and the thing may have been deleted since. Its invariant
`AllOwned` says that whatever was found carries the marker still or is gone, which
holds because a marker is never taken off and an id never given again.

**HostClient** (`HostClientProofs`), for any limits and any headers. `Counts` ties
attempts, answers and the ghost `works` together; `Patient` bounds what has been
slept by the attempts made, with the arithmetic in `Budget`; `Obedient` says that
a sleep reaches the moment the host has named, where the client has read it
(`heard`). From them `HostIsLeftAlone`,
`ListsAreWhole`, `PatienceEnds` and `ClientImplementsCalls`, the refinement
of `HostCall`.

**The safety half of liveness.** `RunsGetOn` (`ReviewSync`, `GitLabReview`),
`OperationsGetOn` (`HostClient`) and `JobsGetOn` (`Report`) prove that a measure,
the calls or stages left and among equals the repetitions made, goes down
with every step of a run and is left alone by everybody else's, for any limits.
What `RunEnds` and `OperationEnds` need beyond that is fairness and the
well-foundedness of the measure.

**Facts** (`FactsProofs`), for any people, files, rules, checks, heads and any
number of events, with or without headers. The invariant `Inv` says what the
ghosts have to do with what has been read so far: approvals on the host are
among `approvals`, objectors still object (`SoFar`), a steady check reads as it
stands (`ChecksRead`), the statistics of a calm gathering are of its head
(`StatsRead`), and a host shows only states of its own (`OwnStates`). That an
objector's last decision is an objection needs a last element of a history, which
`LastOf` gets from the well-foundedness of the naturals. From it
`ObjectionsReach`, `ApprovalsStand`, `OwnersApprove`, `ChecksTell` and
`ManifestsAreSeen`. A second invariant, `Fitting`, follows the approvals' commit, the
head and the outcome from call to call. From it `CallsFitTogether` (without a
push the separate calls describe one head), `StaleTeamsApproved`, and the cause of
the finding of `FactsDiff`: with patches as the hosts send them no gathering that
succeeds has touched a manifest's lines (`WithoutHeadersNoneIsCounted`); were the
`diff --git` line there, only a manifest the diff does not show would be refused
(`HeadersWouldDo`, a statement about a remedy and not about the code).

Only model-checked: `RunEnds`, `NewsIsShown` and `OperationEnds`, because the prover
reaches neither fairness nor ENABLED; their safety halves are proved as said.
Everything else a passing run checks is proved, under the assumptions named here.

Proved and in no run (each was checked on the run's instance before it was
proved; a `PROPERTY` or `INVARIANT` line in the configuration does it again):
`AssigneesAreToldOf`, `UnlistedIsAPersons` (on GitHub), `TakesBackOrSettles`, `NoMoreThanAttempts`, `RunGetsOn`,
`RerunPostsNothing`, `OperationGetsOn`, `FactsFitTogether`,
`StaleTeamsHaveApproved`, `NoManifestIsCounted`, `RewritesOnlyMarked`,
`ShowsItOrWhatWas`, `FactsAreNeverOlder`, `ReportStands`, `JobGetsOn`; and
`NeverTakenFromItsPerson` on GitLab, which `AssignmentGitLab` leaves to the proof.

## 6. Known limits of the code the models show

Each can be reproduced by changing a configuration as said; the runs leave them
out so that everything else can be checked around them.

* *Facts of two heads.* docs/architecture.md:419 calls the result "a pure function
  of the PR at that sha"; a push between two fact calls mixes two heads, and they
  are reported for the first: `ReportFaults` with `INVARIANT FactsAreOfTheSha`.
  `Facts` shows what holds all the same.
* *Two jobs at a time.* docs/architecture.md:355 has "One run per PR at a time."; a
  suite's job runs beside the pull request's. The older facts can be reported last
  and stay, and a suite's job can report after `/stop`: `DispatchQueue` with
  `PROPERTY ShownNeverOlder`, `PROPERTY NewsStaysShown` and `INVARIANT
  ReportsTheSubscribed`.
* *A failure without a check run.* docs/actions.md:66 has "Infrastructure failure
  resolving to `neutral`"; a job that fails to subscribe, to ask for the subscription
  or to fetch the pull request, or finds no base ref, ends with an error and leaves
  the check run as it is (`internal/run/run.go:90-151`): `ReportFaults` with
  `PROPERTY AlwaysNeutral`.
* *A removal that GitLab passes over.* `internal/assignment/ledger.go:55` tells the
  reader "Anything not listed here was added by a person and is left alone". Who is no
  user by that name any more is left out of a removal without an error
  (`internal/host/gitlab/assignees.go:40-58`), `Sync` takes the name off the ledger, and
  it stays on the merge request, for good: `AssignmentGitLab` with `INVARIANT
  UnlistedIsAPersons`.
* *Earlier than asked.* A `Retry-After` that is a date is not read
  (`strconv.Atoi`, `internal/host/github/client.go:263-275`,
  `internal/host/gitlab/client.go:267-279`): the client comes back at the reset, or
  after a second. One on a server error is not looked at, and the call is repeated
  after the ordinary backoff: `HostClient` with `INVARIANT NeverBeforeAsked`.
* *A displaced command.* A `/review`, `/stop` or closed that waits and is displaced by
  a push is never carried out; the subscription stays as it was.
* *A displaced push.* docs/architecture.md:357-358 has "a stale in-flight
  evaluation self-corrects"; a comment that is no command takes the waiting place
  of a push, and that head is never evaluated: `DispatchQueue` with `Races =
  {"displaced", "overlap"}`, `NothingIsForgotten`.
* *A re-run that writes.* internal/host/gitlab/review.go:230-232 has "a re-run with
  nothing changed makes no write"; after approve, block, block the thread of the
  approval keeps its marker and every later run replies to it once more:
  `GitLabReview` with `INVARIANT RerunWritesNothing`.
* *Duplicates that stay.* Overlapping runs or a repeated POST leave two comments with
  a marker, or two check runs of a name. Later runs write to the one people see
  and leave the other as it was, for good, where docs/actions.md:56 has "never
  duplicated" and :76 "One comment per logical topic". No property of `Sticky` says
  that there is one copy, only that the one people see is right
  (`ShowsItsReport`) and that copies are not added to (`AddsNoSecond`).
* *A quoted marker.* A person's older comment that quotes the marker is taken for
  Talooner's; it is then edited, or the edit is refused.
* *Annotations again.* Annotations are added, so a repeated or later call for the
  same head adds them once more; those beyond `maxAnnotations` are dropped.
* *GitLab's approvals are of every commit.* They are stamped with the head of the
  moment (`ReadStamp`), and outlive a push unless the project resets them; that
  is why `ApprovalsAreOfTheSha` speaks of the commit on GitHub only. An approval or
  its withdrawal hides the same person's open thread, and an open thread their
  approval.
* *What GitLab withholds* has no lines, so a manifest with a withheld patch counts
  as unchanged: `Facts` without `host = "github"` in `CountsNothingUnseen`.
* *Bots and teams.* `human` leaves bots out, a team's approval does not.
* *A garbled answer* of status 2xx ends a call that has done its work.
* *Put back by hand.* A name Talooner assigned, a person removed and a person
  assigned again is still in the ledger, and is removed when the rules no longer
  ask for it: `AssignmentOverlap` with `Races = {"reclaim"}`,
  `NeverTakenFromItsPerson`.
* *Killed before the ledger.* Calls come before the ledger, so a job killed in
  between leaves names that no run takes back, and the ledger's text is wrong about
  them: `AssignmentGitLab` with `Faults = {"crash"}`, `LedgerAccountsForAll`.
* *Runs that overlap* hand a wrong ledger on: one that has taken its snapshot before
  the other adds a name leaves it, although its rules do not ask for it:
  `AssignmentOverlap` with `INVARIANT KeepsNothingUnwanted`.
* *Removed by hand, and back.* On GitLab a name a person removes between the fetch of
  a list and its replacement is put back, as nobody's, and no run takes it away:
  `AssignmentGitLab` with `Races = {"takeBack"}`, `KeepsNothingUnwanted`.
* *Unknown GitLab reviewers* are left out of the request silently
  (`internal/host/gitlab/assignees.go`): `AskedForOrFailed` with `Host =
  "gitlab"`.
* *A block that fails open.* If a decision blocks and a later action's call
  fails, the review requests changes and the check run of that head is neutral
  (`failOpen`), where docs/actions.md:68-69 speaks of failing closed on policy
  outcomes.
* *A stop that fails.* `/stop` posts its answer ("will not evaluate this pull
  request again", `internal/comment/comment.go:189`) before it unsubscribes; if
  that call fails, the next push is evaluated.
* *A GitLab thread whose text disagrees.* A dismissed blocking thread reads like
  an approval and may be kept as one: the verdict's thread then says that changes
  are requested, with a reply that this no longer holds. An approving thread
  whose answer was lost, or whose run was killed before `Settle`, is open and
  blocks, and a later run that blocks may keep it.
* *Overlapping runs* can leave contradicting reviews, and a repeated POST two of
  the same: `ReviewSerial` with `Serial = FALSE`, `OneVerdictAtATime`. The next
  undisturbed run clears them up (`SettlesOnItsVerdict`).
* *A block without a comment action* has no findings in the sticky comment, and
  the review that blocks points to it (`internal/run/run.go:529-543`).
* *The acknowledgement* of `/review` stays when a job fails open in any way but
  those that write the comment.
* *A retracted approval* with no rule fired gives a successful check run
  (`internal/check/check.go:49`), where docs/actions.md:105 speaks of neutral.
* *A refused evaluation* (409, another is in flight) is `ErrAction`, and is
  reported to the user as a broken ruleset (`internal/run/run.go:216`).
* *The workflow's `if`* looks for the handle at the start of a comment;
  `command.Parse` would find it on later lines.
* *A check suite* of several pull requests re-evaluates the first only
  (`internal/event/event.go:198`).

## 7. What is not modelled

* Of the facts: `modules`, code units, `user.*` and the sizes (functions of one
  snapshot), and the parsers of manifests, which are not reached with either
  host's diff (`FactsDiff`). A CODEOWNERS pattern is the set of files it matches.
  `Contents`, `LastToucher` and `HasWriteAccess` are single requests.
* The pages of the lists that `Facts` reads: each is a snapshot. `HostClient` shows
  that a list is whole or an error, `Sticky` what changes between pages do.
* The plan of a pull request from a fork (compared and commented on before the
  ordinary report; its failure is only logged), the plan diff, `/why` and
  `/plan` replies: they read and post one comment, as `create` and `read` of
  `Sticky`.
* The text of commands (lines, fences), GitLab's events and their pipelines.
* Texts: the wording of comments, reviews, check runs and ledger, their lengths.
* Configuration parsing, credentials, redaction, onboarding, the command line:
  files and wiring without a protocol. The rule engine behind the cluster is
  another repository: any decision of a set.

## 8. Plan

Done, in this order because the verdict and the assignments are what people see
and cannot easily be tested: `Decision` and `Report`, `ReviewSync` over
`VerdictStore`, `Assignment`, `Dispatch`, `GitLabReview`, then what they assume of
others: `Sticky`, `HostClient` over `HostCall`, `Facts`, each with its proofs.

Next:

1. Proof: what of the ledger's `Accounted` holds with lost calls and killed jobs.
2. `Report`: the fork plan and the replies to `/why` and `/plan`.
3. `Dispatch`: several pull requests per suite, GitLab's pipelines, and what a job
   that was refused writes over the other's report; the displaced command's
   subscription.
4. `Command`: lines, fences, quoting, against the workflow's `if`.

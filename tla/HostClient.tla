----------------------------- MODULE HostClient -----------------------------
(***************************************************************************)
(* The HTTP client under every other module: what it does with an answer,  *)
(* how long it waits and how often it repeats (do and attempt), how it     *)
(* collects a list page by page (paginate, collectObject) and how it waits *)
(* for the host to have computed whether a pull request can be merged      *)
(* (ResolveMergeable).  Times are in seconds.                              *)
(***************************************************************************)
EXTENDS Naturals

CONSTANTS
    Hosts,        \* a subset of {"github", "gitlab"}
    MaxRetries,   \* maxRetries
    MaxWait,      \* maxWait
    MaxPages,     \* maxPages
    MaxPolls,     \* mergeablePollAttempts
    Delays        \* bound: what a host may ask for in a header

\* The last conjunct holds of all numbers; the prover does not know powers.
ASSUME HostClientAssumption ==
    /\ Hosts \subseteq {"github", "gitlab"}
    /\ MaxRetries \in Nat
    /\ MaxWait \in Nat \ {0}
    /\ MaxPages \in Nat \ {0}
    /\ MaxPolls \in Nat
    /\ Delays \subseteq Nat
    /\ \A n \in 0..(MaxRetries + MaxPolls) : 2 ^ n \in Nat \ {0}

VARIABLES
    host,       \* the host of this behaviour
    op,         \* the operation: one call, a list, or a poll
    pc,         \* where it is, or how it ended
    tries,      \* attempts of the present call that have failed
    wait,       \* how long it is going to sleep
    count,      \* calls of the operation that were answered
    answer,     \* whether the last answer asks for another call
    cancelled,  \* the context of the job
    works,      \* ghost: how often the host has done the present call's work
    waited,     \* ghost: how long the operation has slept
    notBefore,  \* ghost: until when the host has last asked to be left alone
    heard       \* ghost: it has asked so where and how the client looks for it

clientVars == <<op, pc, tries, wait, count, answer, cancelled>>
ghosts == <<works, waited, notBefore, heard>>
vars == <<host, clientVars, ghosts>>

Ops == {"call", "list", "poll"}
Busy == {"send", "sleep", "answered", "pause"}

\* abandoned: after a call that was answered well.
Resting == {"idle", "done", "failed", "abandoned"}

MaxCalls == MaxPages + MaxPolls + 1

TypeOK ==
    /\ host \in Hosts
    /\ op \in Ops
    /\ pc \in Resting \cup Busy
    /\ tries \in 0..MaxRetries
    /\ wait \in 0..MaxWait
    /\ count \in 0..MaxCalls
    /\ answer \in {"end", "next", "foreign"}
    /\ cancelled \in BOOLEAN
    /\ works \in 0..(MaxRetries + 1)
    /\ waited \in Nat
    /\ notBefore \in Nat
    /\ heard \in BOOLEAN

Init ==
    /\ host \in Hosts
    /\ op = "call"
    /\ pc = "idle"
    /\ tries = 0
    /\ wait = 0
    /\ count = 0
    /\ answer = "end"
    /\ cancelled = FALSE
    /\ works = 0
    /\ waited = 0
    /\ notBefore = 0
    /\ heard = TRUE

Begin(o) ==
    /\ pc \in Resting
    /\ ~cancelled
    /\ op' = o
    /\ pc' = "send"
    /\ tries' = 0
    /\ wait' = 0
    /\ count' = 0
    /\ answer' = "end"
    /\ works' = 0
    /\ waited' = 0
    /\ notBefore' = 0
    /\ heard' = TRUE
    /\ UNCHANGED <<host, cancelled>>

-----------------------------------------------------------------------------
(* One attempt.                                                            *)

\* Mutant: the doubling is not capped.
Doubles(n) == 2 ^ n

Backoff(n) == IF 2 ^ n > MaxWait THEN MaxWait ELSE 2 ^ n

\* The call ends without an answer of use.
Fail ==
    /\ pc' = "failed"
    /\ UNCHANGED <<host, op, tries, wait, count, answer, cancelled>>

Sleep(secs) ==
    /\ pc' = "sleep"
    /\ tries' = tries + 1
    /\ wait' = secs
    /\ UNCHANGED <<host, op, count, answer, cancelled>>

\* Mutant: a sleep that the host has asked for is not counted.
WaitsUncounted(secs) ==
    /\ pc' = "sleep"
    /\ tries' = (tries + 1) % (MaxRetries + 1)
    /\ wait' = secs
    /\ UNCHANGED <<host, op, count, answer, cancelled>>

\* Mutant: one attempt too many.
RepeatsOnceMore(secs) ==
    \/ tries > MaxRetries /\ Fail
    \/ tries <= MaxRetries /\ Sleep(secs)

Repeat(secs) ==
    \/ tries = MaxRetries /\ Fail
    \/ tries < MaxRetries /\ Sleep(secs)

Succeed(next) ==
    /\ pc = "send"
    /\ ~cancelled
    /\ op = "call" => next = "end"
    /\ op = "poll" => next # "foreign"
    /\ works' = works + 1
    /\ pc' = "answered"
    /\ count' = count + 1
    /\ answer' = next
    /\ UNCHANGED <<host, op, tries, wait, cancelled, waited, notBefore, heard>>

\* The work is done, but its answer cannot be decoded: no repetition.
Garbled ==
    /\ pc = "send"
    /\ ~cancelled
    /\ works' = works + 1
    /\ Fail
    /\ UNCHANGED <<waited, notBefore, heard>>

\* A Retry-After header, which may be absent: so many seconds, or the date that
\* is so many seconds away.
After == {<<>>} \cup ({"seconds", "date"} \X Delays)

\* Only a number is read (strconv.Atoi).
Legible(after) == after # <<>> /\ after[1] = "seconds"

\* A server error, a broken connection, an answer that breaks off.  The work
\* may have been done all the same.  What a server error asks for is not read.
Unavailable ==
    /\ pc = "send"
    /\ ~cancelled
    /\ works' \in {works, works + 1}
    /\ Repeat(Backoff(tries))
    /\ \E after \in After :
         IF after = <<>> THEN UNCHANGED <<notBefore, heard>>
         ELSE notBefore' = waited + after[2] /\ heard' = FALSE
    /\ UNCHANGED waited

\* An answer with status 403 or 429: its Retry-After, the seconds until its rate
\* limit is reset (none, too, if they are no number), and whether requests remain.
Reset == {<<>>} \cup {<<d>> : d \in Delays}
Limits == [status : {403, 429}, after : After, reset : Reset, remaining : BOOLEAN]

\* GitHub's secondary limits come with Retry-After, its primary one with
\* nothing remaining; GitLab's have a status of their own.
IsRateLimited(l) ==
    \/ host = "github" /\ (l.after # <<>> \/ (l.status = 403 /\ ~l.remaining))
    \/ host = "gitlab" /\ l.status = 429

\* What the host asks for, and what of it the client reads.
Asked(l) ==
    IF l.after # <<>> THEN l.after[2]
    ELSE IF l.reset # <<>> THEN l.reset[1] ELSE 0

Heeded(l) ==
    IF Legible(l.after) THEN l.after[2]
    ELSE IF l.reset # <<>> THEN l.reset[1] ELSE 0

\* Mutant: the client's own backoff, whatever the host asks for.
IgnoresTheHeader(l) == Backoff(tries)

\* Never less than a second.
RateLimitWait(l) == IF Heeded(l) = 0 THEN 1 ELSE Heeded(l)

Limited(l) ==
    /\ pc = "send"
    /\ ~cancelled
    /\ \/ /\ IsRateLimited(l) /\ RateLimitWait(l) <= MaxWait
          /\ Repeat(RateLimitWait(l))
          /\ notBefore' = waited + Asked(l)
          /\ heard' = (l.after = <<>> \/ Legible(l.after))
       \/ /\ IsRateLimited(l) => RateLimitWait(l) > MaxWait
          /\ Fail
          /\ UNCHANGED <<notBefore, heard>>
    /\ UNCHANGED <<works, waited>>

\* Not found, forbidden, malformed.
Refused ==
    /\ pc = "send"
    /\ ~cancelled
    /\ Fail
    /\ UNCHANGED ghosts

-----------------------------------------------------------------------------
(* From one attempt or call to the next.                                   *)

Wake ==
    /\ pc \in {"sleep", "pause"}
    /\ ~cancelled
    /\ pc' = "send"
    /\ waited' = waited + wait
    /\ wait' = 0
    /\ works' = IF pc = "pause" THEN 0 ELSE works
    /\ tries' = IF pc = "pause" THEN 0 ELSE tries
    /\ UNCHANGED <<host, op, count, answer, cancelled, notBefore, heard>>

Rest(how) ==
    /\ pc' = how
    /\ UNCHANGED <<host, op, tries, wait, count, answer, cancelled, ghosts>>

\* Mutant: a list that is too long is cut off.
CutsOff == IF answer = "foreign" THEN "abandoned" ELSE "done"

\* A link to another host is not followed, and a list that goes on and on not
\* collected.
Unlisted == "abandoned"

\* Page after page, as the host links them.
NextPage ==
    /\ op = "list" /\ answer # "end"
    /\ \/ /\ answer = "next" /\ count < MaxPages
          /\ pc' = "send"
          /\ tries' = 0
          /\ works' = 0
          /\ UNCHANGED <<host, op, wait, count, answer, cancelled, waited, notBefore, heard>>
       \/ (answer = "next" => count = MaxPages) /\ Rest(Unlisted)

\* Mutant: a poll that is neither delayed nor counted.
PollsAgain ==
    /\ pc' = "pause"
    /\ wait' = 0
    /\ count' = 0
    /\ UNCHANGED <<host, op, tries, answer, cancelled, ghosts>>

\* Sleep before the next poll.
Pause ==
    /\ pc' = "pause"
    /\ wait' = Backoff(count - 1)
    /\ UNCHANGED <<host, op, tries, count, answer, cancelled, ghosts>>

\* Whether it can be merged is not known yet; after the last poll that is the
\* answer.
NextPoll ==
    /\ op = "poll" /\ answer # "end"
    /\ \/ count <= MaxPolls /\ Pause
       \/ count > MaxPolls /\ Rest("done")

Turn ==
    /\ pc = "answered"
    /\ \/ answer = "end" /\ Rest("done")
       \/ NextPage \/ NextPoll

\* The context is done: the request under way is broken off, the sleep ends.
GiveUp ==
    /\ cancelled
    /\ pc \in {"send", "sleep", "pause"}
    /\ works' \in IF pc = "send" THEN {works, works + 1} ELSE {works}
    /\ pc' = IF pc = "pause" THEN "abandoned" ELSE "failed"
    /\ UNCHANGED <<host, op, tries, wait, count, answer, cancelled, waited, notBefore, heard>>

\* The job is told to end.
Cancel ==
    /\ ~cancelled
    /\ cancelled' = TRUE
    /\ UNCHANGED <<host, op, pc, tries, wait, count, answer, ghosts>>

\* Another job, another client.
Restart ==
    /\ cancelled
    /\ pc \in Resting
    /\ cancelled' = FALSE
    /\ UNCHANGED <<host, op, pc, tries, wait, count, answer, ghosts>>

ClientStep ==
    \/ \E next \in {"end", "next", "foreign"} : Succeed(next)
    \/ \E l \in Limits : Limited(l)
    \/ Garbled \/ Unavailable \/ Refused \/ Wake \/ Turn \/ GiveUp

Next ==
    \/ ClientStep \/ Cancel \/ Restart
    \/ \E o \in Ops : Begin(o)

Spec == Init /\ [][Next]_vars

\* Answers come or time out (the http.Client's Timeout), and sleeps end.
FairSpec == Spec /\ WF_vars(ClientStep)

-----------------------------------------------------------------------------
(* Properties.                                                             *)

Phase ==
    IF pc \in {"answered", "pause", "done", "abandoned"} THEN "ok"
    ELSE IF pc \in {"send", "sleep"} THEN "open" ELSE pc

\* Whatever the host answers, cancels or withholds, each call of the client is
\* one that the models of the components assume: repeated at most MaxRetries
\* times, done at least once if it ends well, and maybe done if it fails.
Abstract == INSTANCE HostCall WITH phase <- Phase
EveryCallIsAHostCall == Abstract!Spec

\* After a rate limit the client does not come back before the time the host
\* has asked for in seconds, or by its reset, and rather fails than cut it
\* short; after whatever failure it lets a second pass.
NotBeforeAsked ==
    /\ pc = "sleep" => wait >= 1
    /\ pc = "send" /\ tries > 0 /\ heard => waited >= notBefore

\* The same of every Retry-After, a date and one on a server error included.  The
\* client does not keep it (strconv.Atoi refuses a date, attempt's case of 5xx
\* reads no header); no run checks this.
NeverBeforeAsked == pc = "send" /\ tries > 0 => waited >= notBefore

\* A list that is returned is the whole list: the host had no further page to
\* link to.
WholeLists == op = "list" /\ pc = "done" => answer = "end"

\* However the answers, limits and errors are mixed, an operation holds its
\* job for a bounded time.
PatienceIsBounded ==
    waited + wait <= MaxWait * (tries + count * (MaxRetries + 1))

\* The safety half of OperationEnds.  What an operation has before it: a call, for
\* each that it may still have answered, what it makes of the answer, a pause.
StagesLeft ==
    IF pc \in Resting THEN 0
    ELSE 3 * (MaxCalls - count)
         + (IF pc = "answered" THEN 3 ELSE IF pc = "pause" THEN 2 ELSE 1)

Attempted == 2 * tries + (IF pc = "send" THEN 1 ELSE 0)

\* Every step of the client leaves it less, or one of the MaxRetries repetitions
\* of the present call less; being cancelled leaves it what it had.
OperationGetsOn ==
    [][(pc \in Busy =>
         \/ StagesLeft' < StagesLeft
         \/ (StagesLeft' = StagesLeft /\ Attempted' > Attempted)
         \/ (UNCHANGED <<pc, count, tries>> /\ ~ClientStep))]_vars

\* An operation ends even if the host never gives a useful answer, links from
\* page to page without end, or never knows.
OperationEnds == pc \in Busy ~> pc \in Resting
=============================================================================

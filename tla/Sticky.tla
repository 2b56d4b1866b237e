------------------------------- MODULE Sticky -------------------------------
(***************************************************************************)
(* What Talooner writes in place: sticky comments (GitHub) and notes       *)
(* (GitLab), found by their marker, check runs, found by their name, and   *)
(* GitLab's commit statuses, which the host finds itself.  Finding and     *)
(* writing are separate calls, and the list a comment is looked for in     *)
(* comes page by page.  One kind of thing, under one marker or name, with  *)
(* what else is on the pull request.                                       *)
(***************************************************************************)
EXTENDS Naturals, FiniteSets

CONSTANTS
    Kinds,        \* the kinds of things looked at, a subset of AllKinds
    Runs,         \* the runs that can be in flight on this pull request
    Texts,        \* what a run may have to say
    Faults,       \* which failures happen, a subset of FaultKinds
    Others,       \* what persons do in between, a subset of OtherKinds
    MaxRetries,   \* how often the client repeats a call
    PageSize,     \* things on a page of the list
    MaxPages,     \* pages a list may have before it is refused
    MaxBatches,   \* batches of annotations a check run takes
    MaxThings     \* bound: things ever written

\* comment: a GitHub comment, listed oldest first.  note: a GitLab note, listed
\* newest first.
AllKinds == {"comment", "note", "checkRun", "status"}

\* As in ReviewSync; a call that does nothing and whose answer is lost is
\* unavailable.
FaultKinds == {"refused", "unavailable", "lost", "crash"}

\* write: a comment of their own.  quote: one that repeats the marker.  delete:
\* any comment.
OtherKinds == {"write", "quote", "delete"}

ASSUME StickyAssumption ==
    /\ Kinds \subseteq AllKinds
    /\ IsFiniteSet(Runs)
    /\ Faults \subseteq FaultKinds
    /\ Others \subseteq OtherKinds
    /\ "none" \notin Texts /\ "plain" \notin Texts
    /\ MaxRetries \in Nat
    /\ PageSize \in Nat \ {0}
    /\ MaxPages \in Nat \ {0}
    /\ MaxBatches \in Nat
    /\ MaxThings \in Nat

VARIABLES
    kind,      \* the kind of thing this behaviour is about
    says,      \* per thing: its text or conclusion, "plain" for words
               \*   of another kind, "none" if it is not there
    keyed,     \* the things that carry the marker or the name
    noted,     \* which batches of annotations are on which thing
    last,      \* the newest thing's id
    pc,        \* per run: its next host call, or how it ended
    mode,      \* per run: what it was called for
    want,      \* per run: what it has to say
    parts,     \* per run: into how many batches its annotations are cut
    page,      \* per run: the page it lists next
    found,     \* per run: the thing it has found or written, 0 for none
    batch,     \* per run: the batch it sends next
    tries,     \* per run: how often it has repeated its present call
    alone,     \* ghost: per run: nobody else has deleted, quoted or written
               \*   anything under the marker since it began
    had        \* ghost: per run: something was there when it began

hostVars == <<kind, says, keyed, noted, last>>
callVars == <<pc, mode, want, parts, page, found, batch, tries>>
ghosts == <<alone, had>>
vars == <<hostVars, callVars, ghosts>>

Ids == 1..MaxThings
Batches == 1..MaxBatches
Modes == {"upsert", "editOnly", "create", "read"}
Resting == {"idle", "done", "failed"}
Calls == {"list", "edit", "post", "annotate"}

Comments == {"comment", "note"}

TypeOK ==
    /\ kind \in Kinds
    /\ says \in [Ids -> Texts \cup {"none", "plain"}]
    /\ keyed \subseteq Ids
    /\ noted \subseteq Ids \X Batches
    /\ last \in 0..MaxThings
    /\ pc \in [Runs -> Resting \cup Calls]
    /\ mode \in [Runs -> Modes]
    /\ want \in [Runs -> Texts \cup {"none"}]
    /\ parts \in [Runs -> 0..MaxBatches]
    /\ page \in [Runs -> 1..MaxPages]
    /\ found \in [Runs -> 0..MaxThings]
    /\ batch \in [Runs -> 1..(MaxBatches + 1)]
    /\ tries \in [Runs -> 0..MaxRetries]
    /\ alone \in [Runs -> BOOLEAN]
    /\ had \in [Runs -> BOOLEAN]

Init ==
    /\ kind \in Kinds
    /\ says = [i \in Ids |-> "none"]
    /\ keyed = {}
    /\ noted = {}
    /\ last = 0
    /\ pc = [r \in Runs |-> "idle"]
    /\ mode = [r \in Runs |-> "read"]
    /\ want = [r \in Runs |-> "none"]
    /\ parts = [r \in Runs |-> 0]
    /\ page = [r \in Runs |-> 1]
    /\ found = [r \in Runs |-> 0]
    /\ batch = [r \in Runs |-> 1]
    /\ tries = [r \in Runs |-> 0]
    /\ alone = [r \in Runs |-> FALSE]
    /\ had = [r \in Runs |-> FALSE]

Live == {i \in Ids : says[i] # "none"}
InFlight == {r \in Runs : pc[r] \notin Resting}
Writers == {r \in InFlight : mode[r] \in {"upsert", "create"}}

Least(i, S) == i \in S /\ \A j \in S : i <= j
Greatest(i, S) == i \in S /\ \A j \in S : j <= i

\* What people see: a reader of a thread meets the oldest copy first, a host
\* shows the newest check run and status of a name.
Shown(i) ==
    \/ kind \in Comments /\ Least(i, keyed)
    \/ kind \notin Comments /\ Greatest(i, keyed)
    \/ keyed = {} /\ i = 0

-----------------------------------------------------------------------------
(* The client: how a run goes on after a call.                             *)

\* The call under way has been answered: on to the next one.
Goto(r, next) ==
    /\ pc' = [pc EXCEPT ![r] = next]
    /\ tries' = [tries EXCEPT ![r] = 0]
    /\ UNCHANGED <<mode, want, parts>>

\* The operation returns; of what the run knew only what it read is left.
Return(r, how, result) ==
    /\ pc' = [pc EXCEPT ![r] = how]
    /\ mode' = [mode EXCEPT ![r] = "read"]
    /\ want' = [want EXCEPT ![r] = "none"]
    /\ parts' = [parts EXCEPT ![r] = 0]
    /\ page' = [page EXCEPT ![r] = 1]
    /\ found' = [found EXCEPT ![r] = result]
    /\ batch' = [batch EXCEPT ![r] = 1]
    /\ tries' = [tries EXCEPT ![r] = 0]

Fail(r) == Return(r, "failed", 0)

\* No answer: the same call again, or give up.
Repeat(r) ==
    \/ /\ tries[r] < MaxRetries
       /\ tries' = [tries EXCEPT ![r] = @ + 1]
       /\ UNCHANGED <<pc, mode, want, parts, page, found, batch>>
    \/ tries[r] = MaxRetries /\ Fail(r)

\* The ghosts after a step of r: others can no longer rely on what they saw if
\* it changed something under the marker; what has ended relies on nothing.
Alone(r, changed) ==
    /\ alone' = [s \in Runs |-> alone[s] /\ pc'[s] \in Calls /\ (s = r \/ ~changed)]
    /\ had' = [s \in Runs |-> had[s] /\ alone'[s]]

-----------------------------------------------------------------------------
(* A run calls UpsertComment, CreateComment, CommentBody or UpsertCheckRun. *)

\* A write that may add a thing begins only if the bound leaves room for all
\* that it and the writers in flight may add by repeating; a check run that is
\* there is never added again, and a status takes the place of the last one.
Room(m) ==
    \/ m \in {"read", "editOnly"}
    \/ kind = "status"
    \/ kind = "checkRun" /\ keyed # {}
    \/ last + (MaxRetries + 1) * (Cardinality(Writers) + 1) <= MaxThings

Start(m) == IF m = "create" \/ kind = "status" THEN "post" ELSE "list"

Begin(r, m, t, n) ==
    /\ pc[r] \in Resting
    /\ kind \in Comments \/ m = "upsert"
    /\ kind = "checkRun" \/ n = 0
    /\ t = "none" <=> m \in {"read", "create"}
    /\ Room(m)
    /\ pc' = [pc EXCEPT ![r] = Start(m)]
    /\ mode' = [mode EXCEPT ![r] = m]
    /\ want' = [want EXCEPT ![r] = t]
    /\ parts' = [parts EXCEPT ![r] = n]
    /\ page' = [page EXCEPT ![r] = 1]
    /\ found' = [found EXCEPT ![r] = 0]
    /\ batch' = [batch EXCEPT ![r] = 1]
    /\ alone' = [alone EXCEPT ![r] = TRUE]
    /\ had' = [had EXCEPT ![r] = keyed # {}]
    /\ UNCHANGED <<hostVars, tries>>

\* Where a comment stands in the list: comments from the oldest to the newest,
\* notes the other way round.
Rank(i) ==
    IF kind = "note" THEN Cardinality({j \in Live : j >= i})
                     ELSE Cardinality({j \in Live : j <= i})

\* A check run is looked for in a list of one page.
OnPage(p) ==
    {i \in Live : \/ kind = "checkRun"
                  \/ (p - 1) * PageSize < Rank(i) /\ Rank(i) <= p * PageSize}

\* Mutant: the list is taken to end with its first page.
OnePage(p) == FALSE

More(p) == kind # "checkRun" /\ \E i \in Live : Rank(i) > p * PageSize

\* Mutant: the newest copy, for comments too.
Newest(i, S) == Greatest(i, S) \/ (S = {} /\ i = 0)

\* The oldest comment with the marker, the newest check run of the name.
Pick(i, S) ==
    \/ kind \in Comments /\ Least(i, S)
    \/ kind \notin Comments /\ Greatest(i, S)
    \/ S = {} /\ i = 0

\* The search is over: what was found is read, edited, or missing.
Finds(r, i) ==
    \/ /\ mode[r] = "read" \/ (i = 0 /\ mode[r] = "editOnly")
       /\ Return(r, "done", i)
    \/ /\ mode[r] # "read" /\ (i = 0 => mode[r] # "editOnly")
       /\ Goto(r, IF i = 0 THEN "post" ELSE "edit")
       /\ found' = [found EXCEPT ![r] = i]
       /\ UNCHANGED <<page, batch>>

\* Mutant: one page more than the limit.
NoLastPage(r) == page[r] > MaxPages

\* A list longer than the limit is refused, not cut off.
LastPage(r) == page[r] = MaxPages

List(r) ==
    /\ pc[r] = "list"
    /\ \E i \in 0..MaxThings :
         /\ Pick(i, (keyed \cap OnPage(page[r])) \cup ({found[r]} \ {0}))
         /\ \/ /\ ~More(page[r])
               /\ Finds(r, i)
            \/ /\ More(page[r]) /\ ~LastPage(r)
               /\ Goto(r, "list")
               /\ found' = [found EXCEPT ![r] = i]
               /\ page' = [page EXCEPT ![r] = @ + 1]
               /\ UNCHANGED batch
            \/ /\ More(page[r]) /\ LastPage(r)
               /\ Fail(r)
    /\ Alone(r, FALSE)
    /\ UNCHANGED hostVars

\* Annotations are added to what is there, which a repeated call does twice.
Note(i, b, r) == noted' = noted \cup {<<i, n>> : n \in {b} \cap 1..parts[r]}

\* Mutant: the first batch only.
WritesOnce(r, i, b) == Return(r, "done", 0)

\* A check run takes its annotations batch by batch.
Written(r, i, b) ==
    \/ b >= parts[r] /\ Return(r, "done", 0)
    \/ /\ b < parts[r]
       /\ Goto(r, "annotate")
       /\ found' = [found EXCEPT ![r] = i]
       /\ batch' = [batch EXCEPT ![r] = b + 1]
       /\ UNCHANGED page

Edited(r) ==
    /\ says' = [says EXCEPT ![found[r]] = want[r]]
    /\ Note(found[r], batch[r], r)
    /\ UNCHANGED <<kind, keyed, last>>

\* GitLab keeps one status per name.
NewId == IF kind = "status" THEN 1 ELSE last + 1

Posted(r) ==
    /\ NewId \in Ids
    /\ says' = [says EXCEPT ![NewId] = IF mode[r] = "create" THEN "plain" ELSE want[r]]
    /\ keyed' = IF mode[r] = "create" THEN keyed ELSE keyed \cup {NewId}
    /\ last' = NewId
    /\ Note(NewId, 1, r)
    /\ UNCHANGED kind

Gone(r) == says[found[r]] = "none"

Edit(r) ==
    /\ pc[r] \in {"edit", "annotate"}
    /\ ~Gone(r)
    /\ Edited(r)
    /\ Written(r, found[r], batch[r])
    /\ Alone(r, TRUE)

Post(r) ==
    /\ pc[r] = "post"
    /\ Posted(r)
    /\ Written(r, NewId, 1)
    /\ Alone(r, mode[r] # "create")

-----------------------------------------------------------------------------
(* Faults.                                                                 *)

\* Mutant: any failure is taken for a comment that is gone.
PostsAfterAnyFailure(r) == mode[r] = "upsert"

\* A comment that was deleted after it was found is written anew.
PostsInstead(r) == mode[r] = "upsert" /\ Gone(r)

Refused(r) ==
    /\ pc[r] \in Calls
    /\ "refused" \in Faults \/ (pc[r] = "edit" /\ Gone(r))
    /\ IF pc[r] = "edit" /\ PostsInstead(r)
       THEN Goto(r, "post") /\ UNCHANGED <<page, found, batch>>
       ELSE Fail(r)
    /\ Alone(r, FALSE)
    /\ UNCHANGED hostVars

Unavailable(r) ==
    /\ "unavailable" \in Faults
    /\ pc[r] \in Calls
    /\ Repeat(r)
    /\ Alone(r, FALSE)
    /\ UNCHANGED hostVars

\* The call has done its work, and the run does not learn of it.
Lost(r) ==
    /\ "lost" \in Faults
    /\ \/ pc[r] \in {"edit", "annotate"} /\ ~Gone(r) /\ Edited(r)
       \/ pc[r] = "post" /\ Posted(r)
    /\ Repeat(r)
    /\ Alone(r, mode[r] # "create")

Crash(r) ==
    /\ "crash" \in Faults
    /\ pc[r] \in Calls
    /\ Fail(r)
    /\ Alone(r, FALSE)
    /\ UNCHANGED hostVars

-----------------------------------------------------------------------------
(* Persons.                                                                *)

PersonWrites(quoting) ==
    /\ (IF quoting THEN "quote" ELSE "write") \in Others
    /\ kind \in Comments
    /\ last + (MaxRetries + 1) * Cardinality(Writers) < MaxThings
    /\ last' = last + 1
    /\ says' = [says EXCEPT ![last + 1] = "plain"]
    /\ keyed' = IF quoting THEN keyed \cup {last + 1} ELSE keyed
    /\ alone' = [r \in Runs |-> alone[r] /\ ~quoting]
    /\ had' = [r \in Runs |-> had[r] /\ ~quoting]
    /\ UNCHANGED <<kind, noted, callVars>>

PersonDeletes(i) ==
    /\ "delete" \in Others
    /\ kind \in Comments
    /\ i \in Live
    /\ says' = [says EXCEPT ![i] = "none"]
    /\ keyed' = keyed \ {i}
    /\ alone' = [r \in Runs |-> FALSE]
    /\ had' = [r \in Runs |-> FALSE]
    /\ UNCHANGED <<kind, noted, last, callVars>>

RunStep(r) ==
    \/ List(r) \/ Edit(r) \/ Post(r)
    \/ Refused(r) \/ Unavailable(r) \/ Lost(r)

Next ==
    \/ \E r \in Runs : RunStep(r) \/ Crash(r)
    \/ \E r \in Runs, m \in Modes, t \in Texts \cup {"none"}, n \in 0..MaxBatches :
         Begin(r, m, t, n)
    \/ \E quoting \in BOOLEAN : PersonWrites(quoting)
    \/ \E i \in Ids : PersonDeletes(i)

Spec == Init /\ [][Next]_vars

-----------------------------------------------------------------------------
(* Properties.                                                             *)

\* A search nobody interferes with ends with the thing people see, however
\* many pages, copies, quotes and comments of other people there are, and with
\* nothing only if there is nothing.
FindsTheShown ==
    [][\A r \in Runs :
         pc[r] = "list" /\ alone[r] /\ pc'[r] \notin {"list", "failed"} =>
             Shown(found'[r])]_vars

\* From now on people see what r had to say.
Reports(r) ==
    \E i \in keyed' :
        /\ Shown(i)'
        /\ says'[i] = want[r]
        /\ \A b \in 1..parts[r] : <<i, b>> \in noted'

\* When such a run ends well, what people see is what it had to say, with all
\* of its annotations: whatever copies overlapping runs, repeated calls and
\* crashes have left, it is not one of the others that it has written to.  An
\* edit-only run may find nothing to edit.
ShowsItsReport ==
    [][\A r \in Runs :
         /\ pc[r] \in Calls /\ alone[r] /\ pc'[r] = "done"
         /\ mode[r] \in {"upsert", "editOnly"}
         => \/ mode[r] = "editOnly" /\ keyed = {}
            \/ Reports(r)]_vars

\* Where there is something to write to, a run nobody interferes with adds
\* nothing, whatever fails and however often it repeats a call; and an
\* edit-only run never does, not even when what it edits is deleted under it.
AddsNoSecond ==
    [][\A r \in Runs :
         /\ kind # "status"
         /\ pc[r] \in Calls /\ mode[r] \in {"upsert", "editOnly"}
         /\ (alone[r] /\ had[r]) \/ mode[r] = "editOnly"
         /\ pc'[r] # pc[r] \/ tries'[r] # tries[r]
         => last' = last]_vars

\* Whoever deletes, quotes or writes between the search and the edit: nobody's
\* words are replaced, by a run or by anybody, but under the marker, and what a
\* run edits by an id it found some calls ago is not another thing by now.
RewritesOnlyMarked ==
    [][\A i \in Live : says'[i] \notin {says[i], "none"} => i \in keyed]_vars

\* Whatever fails or is repeated on the way, a step of a run nobody interferes
\* with leaves what people see as it was or makes it what the run has to say.
\* Report's WriteComment takes this for granted of a comment it could not write.
ShowsItOrWhatWas ==
    [][\A r \in Runs : alone[r] /\ RunStep(r) =>
         \A i \in keyed' : Shown(i)' =>
             says'[i] = want[r] \/ (i \in keyed /\ Shown(i) /\ says'[i] = says[i])]_vars
=============================================================================

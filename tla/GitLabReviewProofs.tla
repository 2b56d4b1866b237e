------------------------- MODULE GitLabReviewProofs -------------------------
(***************************************************************************)
(* Proofs about GitLabReview, for any number of runs and threads and any   *)
(* number of repetitions.                                                  *)
(***************************************************************************)
EXTENDS GitLabReview, FiniteSetTheorems, TLAPS

\* A run that posts or settles a thread has a verdict to show, a thread that
\* is open is there, and threads are numbered on.
Sound ==
    /\ open \subseteq Threads
    /\ \A r \in Runs :
         /\ before[r] <= last
         /\ pc[r] \in {"post", "settle"} => want[r] \in Kinds
         /\ pc[r] = "settle" => kept[r] \in Ids /\ Approves(r)

\* The run nobody else interferes with is the only one in flight.
AloneIsAlone ==
    \A r \in Runs : alone[r] =>
        pc[r] # "idle" /\ \A s \in Runs \ {r} : pc[s] = "idle"

\* What it has read still holds: no thread is open but the one it kept, which
\* reads like its verdict, and those it has yet to dismiss.
KnowsTheOpen(r) ==
    /\ open \subseteq stale[r] \cup {kept[r]}
    /\ kept[r] \notin stale[r]

KeptReadsRight(r) == kept[r] # 0 => ReadsAs(kept[r]) = want[r]

\* No thread is open but the one it kept.
OnlyKeptOpen(r) == open \subseteq {kept[r]}

\* No thread is open but what it has posted itself.
OnlyOwnOpen(r) == \A i \in open : i > before[r] /\ body[i] = want[r]

Knows(r) ==
    /\ pc[r] \in {"reply", "resolve"} => KnowsTheOpen(r) /\ KeptReadsRight(r)
    /\ pc[r] \in {"readApproval", "setApproval"} => OnlyKeptOpen(r) /\ KeptReadsRight(r)
    /\ pc[r] = "post" => kept[r] = 0 /\ OnlyOwnOpen(r) /\ approved = Approves(r)
    /\ pc[r] = "settle" => kept[r] > before[r] /\ OnlyOwnOpen(r) /\ approved

Inv == Sound /\ AloneIsAlone /\ \A r \in Runs : alone[r] => Knows(r)

-----------------------------------------------------------------------------
(* What a step of a run does to what the runs know.                        *)

\* Going on moves nobody but the run that goes on.
LEMMA GoingOn ==
    ASSUME TypeOK, NEW r \in Runs, NEW stage \in Stages, Goto(r, stage)
    PROVE  /\ pc' \in [Runs -> Stages]
           /\ tries' \in [Runs -> 0..MaxRetries]
           /\ pc'[r] = stage
           /\ \A s \in Runs \ {r} : pc'[s] = pc[s]
           /\ want' = want /\ fresh' = fresh
           /\ alone' = alone /\ calm' = calm /\ before' = before /\ settled' = settled
BY GitLabAssumption DEF Goto, TypeOK, ghosts

\* A run that ends forgets what it knew, and nobody else does.
LEMMA Ending ==
    ASSUME TypeOK, NEW r \in Runs, Forget(r)
    PROVE  /\ pc' \in [Runs -> Stages] /\ want' \in [Runs -> Kinds \cup {"none"}]
           /\ kept' \in [Runs -> {0} \cup Ids] /\ stale' \in [Runs -> SUBSET Ids]
           /\ fresh' \in [Runs -> BOOLEAN] /\ tries' \in [Runs -> 0..MaxRetries]
           /\ alone' \in [Runs -> BOOLEAN] /\ calm' \in [Runs -> BOOLEAN]
           /\ before' \in [Runs -> 0..MaxThreads]
           /\ pc'[r] = "idle" /\ ~alone'[r] /\ before'[r] = 0
           /\ \A s \in Runs \ {r} :
                /\ pc'[s] = pc[s] /\ want'[s] = want[s] /\ kept'[s] = kept[s]
                /\ alone'[s] = alone[s] /\ before'[s] = before[s]
<1> USE GitLabAssumption DEF Forget, TypeOK
<1>1. /\ pc' \in [Runs -> Stages] /\ want' \in [Runs -> Kinds \cup {"none"}]
      /\ fresh' \in [Runs -> BOOLEAN] /\ alone' \in [Runs -> BOOLEAN]
      /\ calm' \in [Runs -> BOOLEAN]
  BY DEF Stages
<1>2. kept' \in [Runs -> {0} \cup Ids] /\ stale' \in [Runs -> SUBSET Ids]
  OBVIOUS
<1>3. tries' \in [Runs -> 0..MaxRetries] /\ before' \in [Runs -> 0..MaxThreads]
  OBVIOUS
<1>4. /\ pc'[r] = "idle" /\ ~alone'[r] /\ before'[r] = 0
      /\ \A s \in Runs \ {r} :
           /\ pc'[s] = pc[s] /\ want'[s] = want[s] /\ kept'[s] = kept[s]
           /\ alone'[s] = alone[s] /\ before'[s] = before[s]
  OBVIOUS
<1> QED
  BY <1>1, <1>2, <1>3, <1>4

\* The run that ended is idle, whether it succeeded or failed, and the verdict
\* it has settled on is its own, or none.
LEMMA EndingTypes ==
    ASSUME TypeOK, NEW r \in Runs, Succeed(r) \/ Fail(r)
    PROVE  Forget(r) /\ settled' \in {want[r], "unsettled"}
           /\ settled' \in Kinds \cup {"none", "unsettled"}
BY DEF Succeed, Fail, TypeOK

\* A resolved thread is no longer open, and no other changes.
LEMMA ResolvingTakesOne ==
    ASSUME TypeOK, NEW i, Resolved(i), body' = body
    PROVE  open' \in SUBSET Ids /\ Threads' = Threads /\ open' = open \ {i}
BY DEF Resolved, TypeOK, Threads

\* A new thread is open, and no other changes.
LEMMA PostingAddsOne ==
    ASSUME TypeOK, NEW r \in Runs, Posted(r), want[r] \in Kinds
    PROVE  /\ last + 1 \in Ids /\ last' = last + 1 /\ last' \in 0..MaxThreads
           /\ body' \in [Ids -> Kinds \cup {"none"}]
           /\ open' \in SUBSET Ids /\ open' = open \cup {last + 1}
           /\ Threads' = Threads \cup {last + 1}
           /\ body'[last + 1] = want[r]
           /\ \A j \in Ids \ {last + 1} : body'[j] = body[j]
<1>1. last + 1 \in Ids /\ last' = last + 1 /\ last' \in 0..MaxThreads
  BY GitLabAssumption DEF Posted, TypeOK, Ids
<1>2. /\ body' \in [Ids -> Kinds \cup {"none"}]
      /\ body'[last + 1] = want[r]
      /\ \A j \in Ids \ {last + 1} : body'[j] = body[j]
  BY <1>1 DEF Posted, TypeOK
<1>3. Threads' = Threads \cup {last + 1}
  BY <1>1, <1>2 DEF Threads, Kinds
<1> QED
  BY <1>1, <1>2, <1>3 DEF Posted, TypeOK
-----------------------------------------------------------------------------
(* Types.                                                                  *)

\* A run that goes on keeps the types; what else it changes, it says.
LEMMA GoingOnTypes ==
    ASSUME TypeOK, NEW r \in Runs, NEW stage \in Stages, Goto(r, stage),
           body' \in [Ids -> Kinds \cup {"none"}], open' \in SUBSET Ids,
           approved' \in BOOLEAN, last' \in 0..MaxThreads,
           kept' \in [Runs -> {0} \cup Ids], stale' \in [Runs -> SUBSET Ids]
    PROVE  TypeOK'
BY GoingOn DEF TypeOK

\* So does one that ends.
LEMMA EndingKeepsTypes ==
    ASSUME TypeOK, NEW r \in Runs, Succeed(r) \/ Fail(r),
           body' \in [Ids -> Kinds \cup {"none"}], open' \in SUBSET Ids,
           approved' \in BOOLEAN, last' \in 0..MaxThreads
    PROVE  TypeOK'
BY Ending, EndingTypes DEF TypeOK

\* And one that repeats its call or gives up.
LEMMA RepeatingTypes ==
    ASSUME TypeOK, NEW r \in Runs, Repeat(r),
           body' \in [Ids -> Kinds \cup {"none"}], open' \in SUBSET Ids,
           approved' \in BOOLEAN, last' \in 0..MaxThreads
    PROVE  TypeOK'
<1>1. CASE Fail(r)
  BY <1>1, EndingKeepsTypes
<1>2. CASE /\ tries[r] < MaxRetries
           /\ tries' = [tries EXCEPT ![r] = @ + 1]
           /\ UNCHANGED <<pc, want, kept, stale, fresh, ghosts>>
  <2>1. tries' \in [Runs -> 0..MaxRetries]
    BY <1>2, GitLabAssumption DEF TypeOK
  <2> QED
    BY <1>2, <2>1 DEF TypeOK, ghosts
<1> QED
  BY <1>1, <1>2 DEF Repeat

\* With the approval right a run ends or goes on to post.
LEMMA ApprovedTypes ==
    ASSUME TypeOK, NEW r \in Runs, Approved(r), approved' \in BOOLEAN,
           UNCHANGED <<body, open, last>>
    PROVE  TypeOK'
<1>1. CASE Succeed(r)
  BY <1>1, EndingKeepsTypes DEF TypeOK
<1>2. CASE Goto(r, "post") /\ UNCHANGED <<kept, stale>>
  BY <1>2, GoingOnTypes DEF TypeOK, Stages
<1> QED
  BY <1>1, <1>2 DEF Approved

\* A thread done with makes room for the next, or for the approval.
LEMMA DoneTypes ==
    ASSUME TypeOK, NEW r \in Runs, NEW i \in Ids, DoneWith(r, i),
           open' \in SUBSET Ids, UNCHANGED <<body, approved, last, kept>>
    PROVE  TypeOK'
<1>1. stale' \in [Runs -> SUBSET Ids]
  BY DEF DoneWith, TypeOK
<1>2. Dismissing(stale[r] \ {i}) \in Stages
  BY DEF Dismissing, Stages
<1> QED
  BY <1>1, <1>2, GoingOnTypes DEF DoneWith, TypeOK

LEMMA RunKeepsTypes ==
    ASSUME TypeOK, Sound, NEW r \in Runs, RunStep(r) \/ Crash(r)
    PROVE  TypeOK'
<1>1. CASE List(r)
  <2>1. PICK i \in {0} \cup Ids :
          /\ kept' = [kept EXCEPT ![r] = i]
          /\ stale' = [stale EXCEPT ![r] = Threads \ {i}]
          /\ Goto(r, Dismissing(Threads \ {i}))
    BY <1>1 DEF List
  <2>2. Dismissing(Threads \ {i}) \in Stages
    BY DEF Dismissing, Stages
  <2>3. kept' \in [Runs -> {0} \cup Ids] /\ stale' \in [Runs -> SUBSET Ids]
    BY <2>1 DEF TypeOK, Threads
  <2> QED
    BY <1>1, <2>1, <2>2, <2>3, GoingOnTypes DEF List, hostVars, TypeOK
<1>2. CASE Reply(r)
  <2>1. PICK i \in stale[r] :
          IF i \in Threads THEN Goto(r, "resolve") /\ UNCHANGED stale
          ELSE DoneWith(r, i)
    BY <1>2 DEF Reply
  <2>2. i \in Ids /\ UNCHANGED <<body, open, approved, last, kept>>
    BY <1>2 DEF Reply, hostVars, TypeOK
  <2>3. CASE i \in Threads
    BY <2>1, <2>2, <2>3, GoingOnTypes DEF TypeOK, Stages
  <2>4. CASE i \notin Threads
    BY <2>1, <2>2, <2>4, DoneTypes DEF TypeOK
  <2> QED
    BY <2>3, <2>4
<1>3. CASE Resolve(r)
  <2>1. PICK i \in stale[r] : Resolved(i) /\ DoneWith(r, i)
    BY <1>3 DEF Resolve
  <2>2. i \in Ids /\ UNCHANGED <<body, approved, last, kept>>
    BY <1>3 DEF Resolve, TypeOK
  <2>3. open' \in SUBSET Ids
    BY <2>1, <2>2, ResolvingTakesOne
  <2> QED
    BY <2>1, <2>2, <2>3, DoneTypes
<1>4. CASE ReadApproval(r)
  <2>1. UNCHANGED <<body, open, approved, last>>
    BY <1>4 DEF ReadApproval, hostVars
  <2>2. CASE Approved(r)
    BY <2>1, <2>2, ApprovedTypes DEF TypeOK
  <2>3. CASE Goto(r, "setApproval") /\ UNCHANGED <<kept, stale>>
    BY <2>1, <2>3, GoingOnTypes DEF TypeOK, Stages
  <2> QED
    BY <1>4, <2>2, <2>3 DEF ReadApproval
<1>5. CASE SetApproval(r)
  BY <1>5, ApprovedTypes DEF SetApproval, Corrected, Approves
<1>6. CASE Post(r)
  <2>1. want[r] \in Kinds
    BY <1>6 DEF Post, Sound
  <2>2. /\ last + 1 \in Ids /\ last' \in 0..MaxThreads
        /\ body' \in [Ids -> Kinds \cup {"none"}] /\ open' \in SUBSET Ids
        /\ approved' \in BOOLEAN
    BY <1>6, <2>1, PostingAddsOne DEF Post, TypeOK
  <2>3. CASE Succeed(r)
    BY <2>2, <2>3, EndingKeepsTypes
  <2>4. CASE /\ Goto(r, "settle")
             /\ kept' = [kept EXCEPT ![r] = last + 1]
             /\ UNCHANGED stale
    <3>1. kept' \in [Runs -> {0} \cup Ids] /\ stale' \in [Runs -> SUBSET Ids]
      BY <2>2, <2>4 DEF TypeOK
    <3> QED
      BY <2>2, <2>4, <3>1, GoingOnTypes DEF Stages
  <2> QED
    BY <1>6, <2>3, <2>4 DEF Post
<1>7. CASE Settle(r)
  <2>1. open' \in SUBSET Ids
    BY <1>7, ResolvingTakesOne DEF Settle
  <2> QED
    BY <1>7, <2>1, EndingKeepsTypes DEF Settle, TypeOK
<1>8. CASE Refused(r) \/ Crash(r)
  BY <1>8, EndingKeepsTypes DEF Refused, Crash, hostVars, TypeOK
<1>9. CASE Unavailable(r)
  BY <1>9, RepeatingTypes DEF Unavailable, hostVars, TypeOK
<1>10. CASE Lost(r)
  <2>1. Repeat(r)
    BY <1>10 DEF Lost
  <2>2. CASE /\ \E i \in stale[r] : Resolved(i)
             /\ UNCHANGED <<body, approved, last>>
    BY <2>1, <2>2, ResolvingTakesOne, RepeatingTypes DEF TypeOK
  <2>3. CASE Corrected(r) /\ UNCHANGED <<body, open, last>>
    BY <2>1, <2>3, RepeatingTypes DEF TypeOK, Corrected, Approves
  <2>4. CASE pc[r] = "post" /\ Posted(r) /\ UNCHANGED approved
    BY <2>1, <2>4, PostingAddsOne, RepeatingTypes DEF TypeOK, Sound
  <2>5. CASE Resolved(kept[r]) /\ UNCHANGED <<body, approved, last>>
    BY <2>1, <2>5, ResolvingTakesOne, RepeatingTypes DEF TypeOK
  <2> QED
    BY <1>10, <2>2, <2>3, <2>4, <2>5 DEF Lost
<1> QED
  BY <1>1, <1>2, <1>3, <1>4, <1>5, <1>6, <1>7, <1>8, <1>9, <1>10 DEF RunStep
LEMMA StepKeepsTypes == ASSUME TypeOK, Sound, [Next]_vars PROVE TypeOK'
<1> USE GitLabAssumption
<1>1. ASSUME NEW r \in Runs, RunStep(r) \/ Crash(r) PROVE TypeOK'
  BY <1>1, RunKeepsTypes
<1>2. ASSUME NEW r \in Runs, NEW w \in Kinds \cup {"none"}, Begin(r, w)
      PROVE  TypeOK'
  <2>1. UNCHANGED <<body, open, approved, last, kept, stale, tries>>
    BY <1>2 DEF Begin, hostVars
  <2>2. pc' \in [Runs -> Stages] /\ want' \in [Runs -> Kinds \cup {"none"}]
        /\ fresh' \in [Runs -> BOOLEAN]
    BY <1>2 DEF Begin, TypeOK, Stages
  <2>3. alone' \in [Runs -> BOOLEAN] /\ calm' \in [Runs -> BOOLEAN]
    BY <1>2 DEF Begin
  <2>4. before' \in [Runs -> 0..MaxThreads] /\ settled' = "unsettled"
    BY <1>2 DEF Begin, TypeOK
  <2> QED
    BY <2>1, <2>2, <2>3, <2>4 DEF TypeOK
<1>3. ASSUME NEW i \in Ids, PersonResolves(i) \/ PersonDeletes(i) PROVE TypeOK'
  BY <1>3 DEF PersonResolves, PersonDeletes, Disturb, TypeOK
<1>4. CASE Push
  BY <1>4 DEF Push, Disturb, TypeOK
<1>5. CASE UNCHANGED vars
  BY <1>5 DEF vars, hostVars, callVars, ghosts, TypeOK
<1> QED
  BY <1>1, <1>2, <1>3, <1>4, <1>5 DEF Next

-----------------------------------------------------------------------------
(* What the runs know, they know after every step.                         *)

\* The step of a run leaves what others know alone: they are not alone.
LEMMA OneMoves ==
    ASSUME TypeOK, Inv, NEW r \in Runs, pc[r] # "idle",
           \A s \in Runs \ {r} : pc'[s] = pc[s] /\ alone'[s] = alone[s],
           alone'[r] => alone[r] /\ pc'[r] # "idle"
    PROVE  AloneIsAlone' /\ \A s \in Runs \ {r} : ~alone'[s]
<1>1. \A s \in Runs \ {r} : ~alone[s]
  BY DEF Inv, AloneIsAlone
<1> QED
  BY <1>1 DEF Inv, AloneIsAlone

\* A run that goes on has only itself to answer for.
LEMMA GoingOnKeeps ==
    ASSUME TypeOK, Inv, NEW r \in Runs, pc[r] # "idle",
           NEW stage \in Stages \ {"idle"}, Goto(r, stage),
           open' \subseteq Threads', last' \in Nat, last' >= last,
           \A s \in Runs \ {r} : kept'[s] = kept[s],
           stage \in {"post", "settle"} => want[r] \in Kinds,
           stage = "settle" => kept'[r] \in Ids /\ Approves(r),
           alone[r] => Knows(r)'
    PROVE  Inv'
<1>1. /\ pc'[r] = stage /\ \A s \in Runs \ {r} : pc'[s] = pc[s]
      /\ want' = want /\ alone' = alone /\ before' = before
  BY GoingOn
<1>2. AloneIsAlone' /\ \A s \in Runs \ {r} : ~alone'[s]
  BY <1>1, OneMoves
<1>3. Sound'
  <2>1. \A s \in Runs : before'[s] <= last'
    BY <1>1 DEF Inv, Sound, TypeOK
  <2>2. \A s \in Runs :
          /\ pc'[s] \in {"post", "settle"} => want'[s] \in Kinds
          /\ pc'[s] = "settle" => kept'[s] \in Ids /\ want'[s] = "APPROVED"
    BY <1>1 DEF Inv, Sound, Approves
  <2> QED
    BY <2>1, <2>2 DEF Sound, Approves
<1> QED
  BY <1>1, <1>2, <1>3 DEF Inv

\* A run that has ended knows nothing.
LEMMA EndingKeeps ==
    ASSUME TypeOK, Inv, NEW r \in Runs, pc[r] # "idle", Succeed(r) \/ Fail(r),
           open' \subseteq Threads', last' \in Nat, last' >= last
    PROVE  Inv'
<1>1. /\ pc'[r] = "idle" /\ ~alone'[r] /\ before'[r] = 0
      /\ \A s \in Runs \ {r} :
           /\ pc'[s] = pc[s] /\ want'[s] = want[s] /\ kept'[s] = kept[s]
           /\ alone'[s] = alone[s] /\ before'[s] = before[s]
  BY Ending, EndingTypes
<1>2. AloneIsAlone' /\ \A s \in Runs \ {r} : ~alone'[s]
  BY <1>1, OneMoves
<1>3. Sound'
  <2>1. \A s \in Runs : before'[s] <= last'
    BY <1>1 DEF Inv, Sound, TypeOK
  <2>2. \A s \in Runs :
          /\ pc'[s] \in {"post", "settle"} => want'[s] \in Kinds
          /\ pc'[s] = "settle" => kept'[s] \in Ids /\ want'[s] = "APPROVED"
    BY <1>1 DEF Inv, Sound, Approves
  <2> QED
    BY <2>1, <2>2 DEF Sound, Approves
<1> QED
  BY <1>1, <1>2, <1>3 DEF Inv

\* A run that repeats a call knows what it knew, if the call has done it no harm.
LEMMA RepeatingKeeps ==
    ASSUME TypeOK, Inv, NEW r \in Runs, pc[r] # "idle", Repeat(r),
           open' \subseteq Threads', last' \in Nat, last' >= last,
           alone[r] /\ UNCHANGED <<pc, want, kept, stale, before>> => Knows(r)'
    PROVE  Inv'
<1>1. CASE Fail(r)
  BY <1>1, EndingKeeps
<1>2. CASE UNCHANGED <<pc, want, kept, stale, fresh, ghosts>>
  <2>1. UNCHANGED <<pc, want, kept, stale, alone, before>>
    BY <1>2 DEF ghosts
  <2>2. AloneIsAlone' /\ \A s \in Runs \ {r} : ~alone'[s]
    BY <2>1 DEF Inv, AloneIsAlone
  <2>3. Sound'
    <3>1. \A s \in Runs : before'[s] <= last'
      BY <2>1 DEF Inv, Sound, TypeOK
    <3> QED
      BY <2>1, <3>1 DEF Inv, Sound, Approves
  <2> QED
    BY <2>1, <2>2, <2>3 DEF Inv
<1> QED
  BY <1>1, <1>2 DEF Repeat
\* With the approval right and no thread kept, no thread is open at all.
LEMMA ApprovedKeeps ==
    ASSUME TypeOK, Inv, NEW r \in Runs, pc[r] # "idle", Approved(r),
           UNCHANGED <<body, open, last>>, approved' = Approves(r),
           alone[r] => OnlyKeptOpen(r)
    PROVE  Inv'
<1>1. open' \subseteq Threads' /\ last' \in Nat /\ last' >= last
  BY DEF Inv, Sound, Threads, TypeOK
<1>2. CASE Succeed(r)
  BY <1>1, <1>2, EndingKeeps
<1>3. CASE kept[r] = 0 /\ want[r] # "none" /\ Goto(r, "post") /\ UNCHANGED <<kept, stale>>
  <2>1. pc'[r] = "post" /\ want' = want
    BY <1>3, GoingOn DEF Stages
  <2>2. want[r] \in Kinds
    BY <1>3 DEF TypeOK
  <2>3. alone[r] => open' = {}
    BY <1>3 DEF OnlyKeptOpen, TypeOK, Ids
  <2>4. alone[r] => Knows(r)'
    BY <1>3, <2>1, <2>3 DEF Knows, OnlyOwnOpen, Approves
  <2> QED
    BY <1>1, <1>3, <2>2, <2>4, GoingOnKeeps DEF Stages
<1> QED
  BY <1>2, <1>3 DEF Approved

\* Once a thread is done with, it is neither open nor to be dismissed.
LEMMA DoneKeeps ==
    ASSUME TypeOK, Inv, NEW r \in Runs, pc[r] # "idle",
           NEW i \in stale[r], DoneWith(r, i),
           open' = open \ {i}, UNCHANGED <<body, last, kept>>,
           alone[r] => KnowsTheOpen(r) /\ KeptReadsRight(r)
    PROVE  Inv'
<1>1. open' \subseteq Threads' /\ last' \in Nat /\ last' >= last
  BY DEF Inv, Sound, Threads, TypeOK
<1>2. Dismissing(stale[r] \ {i}) \in {"reply", "readApproval"}
  BY DEF Dismissing
<1>3. /\ pc'[r] = Dismissing(stale[r] \ {i}) /\ want' = want
      /\ stale'[r] = stale[r] \ {i}
  BY <1>2, GoingOn DEF DoneWith, Stages, TypeOK
<1>4. alone[r] => KnowsTheOpen(r)' /\ KeptReadsRight(r)'
  BY <1>3 DEF KnowsTheOpen, KeptReadsRight, ReadsAs
<1>5. alone[r] /\ pc'[r] = "readApproval" => OnlyKeptOpen(r)'
  <2>1. pc'[r] = "readApproval" => stale'[r] = {}
    BY <1>3 DEF Dismissing
  <2> QED
    BY <1>4, <2>1 DEF KnowsTheOpen, OnlyKeptOpen
<1>6. alone[r] => Knows(r)'
  BY <1>2, <1>3, <1>4, <1>5 DEF Knows
<1> QED
  BY <1>1, <1>2, <1>6, GoingOnKeeps DEF DoneWith, Stages

LEMMA RunKeeps ==
    ASSUME TypeOK, Inv, NEW r \in Runs, RunStep(r) \/ Crash(r)
    PROVE  Inv'
<1>a. pc[r] # "idle"
  BY DEF RunStep, Crash, List, Reply, Resolve, ReadApproval, SetApproval, Post,
         Settle, Refused, Unavailable, Lost
<1>b. open \subseteq Threads /\ last \in Nat
  BY DEF Inv, Sound, TypeOK
<1>c. alone[r] => Knows(r)
  BY DEF Inv
<1>1. CASE List(r)
  <2>1. PICK i \in {0} \cup Ids :
          /\ Keeps(r, i)
          /\ kept' = [kept EXCEPT ![r] = i]
          /\ stale' = [stale EXCEPT ![r] = Threads \ {i}]
          /\ Goto(r, Dismissing(Threads \ {i}))
    BY <1>1 DEF List
  <2>2. UNCHANGED <<body, open, approved, last>>
    BY <1>1 DEF List, hostVars
  <2>3. Dismissing(Threads \ {i}) \in {"reply", "readApproval"}
    BY DEF Dismissing
  <2>4. pc'[r] = Dismissing(Threads \ {i}) /\ want' = want
    BY <2>1, <2>3, GoingOn DEF Stages
  <2>5. kept'[r] = i /\ stale'[r] = Threads \ {i}
        /\ \A s \in Runs \ {r} : kept'[s] = kept[s]
    BY <2>1 DEF TypeOK
  <2>6. KnowsTheOpen(r)'
    BY <1>b, <2>2, <2>5 DEF KnowsTheOpen
  <2>7. KeptReadsRight(r)'
    BY <2>1, <2>2, <2>4, <2>5 DEF KeptReadsRight, Keeps, First, Wanted, ReadsAs
  <2>8. pc'[r] = "readApproval" => OnlyKeptOpen(r)'
    <3>1. pc'[r] = "readApproval" => stale'[r] = {}
      BY <2>4, <2>5 DEF Dismissing
    <3> QED
      BY <2>6, <3>1 DEF KnowsTheOpen, OnlyKeptOpen
  <2>9. Knows(r)'
    BY <2>3, <2>4, <2>6, <2>7, <2>8 DEF Knows
  <2>10. open' \subseteq Threads' /\ last' \in Nat /\ last' >= last
    BY <1>b, <2>2 DEF Threads
  <2> QED
    BY <1>a, <2>1, <2>3, <2>5, <2>9, <2>10, GoingOnKeeps DEF Stages
<1>2. CASE Reply(r)
  <2>1. PICK i \in stale[r] :
          IF i \in Threads THEN Goto(r, "resolve") /\ UNCHANGED stale
          ELSE DoneWith(r, i)
    BY <1>2 DEF Reply
  <2>2. pc[r] = "reply" /\ UNCHANGED <<body, open, approved, last, kept>>
    BY <1>2 DEF Reply, hostVars
  <2>3. alone[r] => KnowsTheOpen(r) /\ KeptReadsRight(r)
    BY <1>c, <2>2 DEF Knows
  <2>4. CASE i \in Threads
    <3>1. pc'[r] = "resolve" /\ want' = want /\ stale' = stale
      BY <2>1, <2>4, GoingOn DEF Stages
    <3>2. alone[r] => Knows(r)'
      BY <2>2, <2>3, <3>1 DEF Knows, KnowsTheOpen, KeptReadsRight, ReadsAs
    <3>3. open' \subseteq Threads' /\ last' \in Nat /\ last' >= last
      BY <1>b, <2>2 DEF Threads
    <3> QED
      BY <1>a, <2>1, <2>2, <2>4, <3>2, <3>3, GoingOnKeeps DEF Stages
  <2>5. CASE i \notin Threads
    BY <1>a, <1>b, <2>1, <2>2, <2>3, <2>5, DoneKeeps
  <2> QED
    BY <2>4, <2>5
<1>3. CASE Resolve(r)
  <2>1. PICK i \in stale[r] : Resolved(i) /\ DoneWith(r, i)
    BY <1>3 DEF Resolve
  <2>2. alone[r] => KnowsTheOpen(r) /\ KeptReadsRight(r)
    BY <1>3, <1>c DEF Resolve, Knows
  <2> QED
    BY <1>3, <1>a, <2>1, <2>2, DoneKeeps DEF Resolve, Resolved
<1>4. CASE ReadApproval(r)
  <2>1. pc[r] = "readApproval" /\ UNCHANGED <<body, open, approved, last>>
    BY <1>4 DEF ReadApproval, hostVars
  <2>2. alone[r] => OnlyKeptOpen(r) /\ KeptReadsRight(r)
    BY <1>c, <2>1 DEF Knows
  <2>3. CASE approved = Approves(r) /\ Approved(r)
    BY <1>a, <2>1, <2>2, <2>3, ApprovedKeeps
  <2>4. CASE Goto(r, "setApproval") /\ UNCHANGED <<kept, stale>>
    <3>1. pc'[r] = "setApproval" /\ want' = want
      BY <2>4, GoingOn DEF Stages
    <3>2. alone[r] => Knows(r)'
      BY <2>1, <2>2, <2>4, <3>1 DEF Knows, OnlyKeptOpen, KeptReadsRight, ReadsAs
    <3>3. open' \subseteq Threads' /\ last' \in Nat /\ last' >= last
      BY <1>b, <2>1 DEF Threads
    <3> QED
      BY <1>a, <2>4, <3>2, <3>3, GoingOnKeeps DEF Stages
  <2> QED
    BY <1>4, <2>3, <2>4 DEF ReadApproval
<1>5. CASE SetApproval(r)
  <2>1. alone[r] => OnlyKeptOpen(r)
    BY <1>5, <1>c DEF SetApproval, Knows
  <2> QED
    BY <1>5, <1>a, <2>1, ApprovedKeeps DEF SetApproval, Corrected
<1>6. CASE Post(r)
  <2>1. pc[r] = "post" /\ want[r] \in Kinds /\ before[r] <= last
    BY <1>6 DEF Post, Inv, Sound
  <2>2. /\ last + 1 \in Ids /\ last' = last + 1
        /\ open' = open \cup {last + 1} /\ Threads' = Threads \cup {last + 1}
        /\ body'[last + 1] = want[r]
        /\ \A j \in Ids \ {last + 1} : body'[j] = body[j]
    BY <1>6, <2>1, PostingAddsOne DEF Post
  <2>3. open' \subseteq Threads' /\ last' \in Nat /\ last' >= last
    BY <1>b, <2>2
  <2>4. CASE Succeed(r)
    BY <1>a, <2>3, <2>4, EndingKeeps
  <2>5. CASE /\ Approves(r)
             /\ Goto(r, "settle")
             /\ kept' = [kept EXCEPT ![r] = last + 1]
    <3>1. pc'[r] = "settle" /\ want' = want /\ before' = before /\ approved' = approved
      BY <1>6, <2>5, GoingOn DEF Stages, Post
    <3>2. kept'[r] = last + 1 /\ \A s \in Runs \ {r} : kept'[s] = kept[s]
      BY <2>5 DEF TypeOK
    <3>3. alone[r] => OnlyOwnOpen(r) /\ approved = Approves(r)
      BY <1>c, <2>1 DEF Knows
    <3>4. before[r] \in Nat /\ kept'[r] > before'[r]
      BY <1>b, <2>1, <3>1, <3>2 DEF TypeOK
    <3>5. alone[r] => OnlyOwnOpen(r)'
      BY <2>2, <3>1, <3>2, <3>3, <3>4 DEF OnlyOwnOpen, TypeOK
    <3>6. alone[r] => Knows(r)'
      BY <2>5, <3>1, <3>3, <3>4, <3>5 DEF Knows
    <3> QED
      BY <1>a, <2>1, <2>2, <2>3, <2>5, <3>2, <3>6, GoingOnKeeps DEF Stages
  <2> QED
    BY <1>6, <2>4, <2>5 DEF Post
<1>7. CASE Settle(r)
  BY <1>7, <1>a, <1>b, EndingKeeps DEF Settle, Resolved, Threads
<1>8. CASE Refused(r) \/ Crash(r)
  BY <1>8, <1>a, <1>b, EndingKeeps DEF Refused, Crash, hostVars, Threads
<1>9. CASE Unavailable(r)
  <2>1. Repeat(r) /\ UNCHANGED <<body, open, approved, last>>
    BY <1>9 DEF Unavailable, hostVars
  <2>2. alone[r] /\ UNCHANGED <<pc, want, kept, stale, before>> => Knows(r)'
    BY <1>c, <2>1 DEF Knows, KnowsTheOpen, KeptReadsRight, OnlyKeptOpen,
                      OnlyOwnOpen, ReadsAs, Approves
  <2>3. open' \subseteq Threads' /\ last' \in Nat /\ last' >= last
    BY <1>b, <2>1 DEF Threads
  <2> QED
    BY <1>a, <2>1, <2>2, <2>3, RepeatingKeeps
<1>10. CASE Lost(r)
  <2>1. Repeat(r)
    BY <1>10 DEF Lost
  <2>2. CASE /\ pc[r] = "resolve"
             /\ \E i \in stale[r] : Resolved(i)
             /\ UNCHANGED <<body, approved, last>>
    <3>1. PICK i \in stale[r] : Resolved(i)
      BY <2>2
    <3>2. open' = open \ {i} /\ open' \subseteq Threads'
      BY <1>b, <2>2, <3>1 DEF Resolved, Threads
    <3>3. alone[r] /\ UNCHANGED <<pc, want, kept, stale, before>> => Knows(r)'
      BY <1>c, <2>2, <3>2 DEF Knows, KnowsTheOpen, KeptReadsRight, ReadsAs
    <3> QED
      BY <1>a, <1>b, <2>1, <2>2, <3>2, <3>3, RepeatingKeeps
  <2>3. CASE pc[r] = "setApproval" /\ UNCHANGED <<body, open, last>>
    <3>1. alone[r] /\ UNCHANGED <<pc, want, kept, stale, before>> => Knows(r)'
      BY <1>c, <2>3 DEF Knows, OnlyKeptOpen, KeptReadsRight, ReadsAs
    <3>2. open' \subseteq Threads' /\ last' \in Nat /\ last' >= last
      BY <1>b, <2>3 DEF Threads
    <3> QED
      BY <1>a, <2>1, <3>1, <3>2, RepeatingKeeps
  <2>4. CASE pc[r] = "post" /\ Posted(r) /\ UNCHANGED approved
    <3>1. want[r] \in Kinds /\ before[r] <= last /\ before[r] \in Nat
      BY <2>4 DEF Inv, Sound, TypeOK
    <3>2. /\ last + 1 \in Ids /\ last' = last + 1
          /\ open' = open \cup {last + 1} /\ Threads' = Threads \cup {last + 1}
          /\ body'[last + 1] = want[r]
          /\ \A j \in Ids \ {last + 1} : body'[j] = body[j]
      BY <2>4, <3>1, PostingAddsOne
    <3>3. open' \subseteq Threads' /\ last' \in Nat /\ last' >= last
      BY <1>b, <3>2
    <3>4. alone[r] /\ UNCHANGED <<pc, want, kept, stale, before>> => Knows(r)'
      <4>1. alone[r] => kept[r] = 0 /\ OnlyOwnOpen(r) /\ approved = Approves(r)
        BY <1>c, <2>4 DEF Knows
      <4>2. alone[r] /\ UNCHANGED <<pc, want, kept, stale, before>> => OnlyOwnOpen(r)'
        BY <1>b, <3>1, <3>2, <4>1 DEF OnlyOwnOpen, TypeOK
      <4> QED
        BY <2>4, <4>1, <4>2 DEF Knows, Approves
    <3> QED
      BY <1>a, <2>1, <3>3, <3>4, RepeatingKeeps
  <2>5. CASE pc[r] = "settle" /\ Resolved(kept[r]) /\ UNCHANGED <<body, approved, last>>
    <3>1. open' = open \ {kept[r]} /\ open' \subseteq Threads'
      BY <1>b, <2>5 DEF Resolved, Threads
    <3>2. alone[r] /\ UNCHANGED <<pc, want, kept, stale, before>> => Knows(r)'
      BY <1>c, <2>5, <3>1 DEF Knows, OnlyOwnOpen
    <3> QED
      BY <1>a, <1>b, <2>1, <2>5, <3>1, <3>2, RepeatingKeeps
  <2> QED
    BY <1>10, <2>2, <2>3, <2>4, <2>5 DEF Lost
<1> QED
  BY <1>1, <1>2, <1>3, <1>4, <1>5, <1>6, <1>7, <1>8, <1>9, <1>10 DEF RunStep
LEMMA StepKeeps == ASSUME TypeOK, Inv, [Next]_vars PROVE Inv'
<1>1. ASSUME NEW r \in Runs, RunStep(r) \/ Crash(r) PROVE Inv'
  BY <1>1, RunKeeps
<1>2. ASSUME NEW r \in Runs, NEW w \in Kinds \cup {"none"}, Begin(r, w)
      PROVE  Inv'
  <2>1. UNCHANGED <<body, open, last, kept>>
    BY <1>2 DEF Begin, hostVars
  <2>2. /\ pc[r] = "idle" /\ pc'[r] = "list" /\ before'[r] = last
        /\ \A s \in Runs \ {r} :
             pc'[s] = pc[s] /\ want'[s] = want[s] /\ before'[s] = before[s]
    BY <1>2 DEF Begin, TypeOK
  <2>3. \A s \in Runs : alone'[s] => s = r /\ InFlight = {}
    BY <1>2 DEF Begin
  <2>4. Sound'
    <3>1. \A s \in Runs : before'[s] <= last'
      BY <2>1, <2>2 DEF Inv, Sound, TypeOK
    <3> QED
      BY <2>1, <2>2, <3>1 DEF Inv, Sound, Approves, Threads
  <2>5. AloneIsAlone'
    BY <2>2, <2>3 DEF AloneIsAlone, InFlight
  <2>6. \A s \in Runs : alone'[s] => Knows(s)'
    BY <2>2, <2>3 DEF Knows
  <2> QED
    BY <2>4, <2>5, <2>6 DEF Inv
<1>3. ASSUME open' \subseteq Threads', \A r \in Runs : ~alone'[r],
             UNCHANGED <<last, pc, want, kept, before>>
      PROVE  Inv'
  BY <1>3 DEF Inv, Sound, AloneIsAlone, Approves
<1>4. ASSUME NEW i \in Ids, PersonResolves(i) PROVE Inv'
  <2>1. open' \subseteq Threads'
    BY <1>4 DEF PersonResolves, Inv, Sound, Threads
  <2> QED
    BY <1>3, <1>4, <2>1 DEF PersonResolves, Disturb
<1>5. ASSUME NEW i \in Ids, PersonDeletes(i) PROVE Inv'
  <2>1. open' \subseteq Threads'
    BY <1>5 DEF PersonDeletes, Inv, Sound, Threads, TypeOK
  <2> QED
    BY <1>3, <1>5, <2>1 DEF PersonDeletes, Disturb
<1>6. CASE Push
  <2>1. open' \subseteq Threads'
    BY <1>6 DEF Push, Inv, Sound, Threads
  <2> QED
    BY <1>3, <1>6, <2>1 DEF Push, Disturb
<1>7. CASE UNCHANGED vars
  BY <1>7 DEF vars, hostVars, callVars, ghosts, Inv, Sound, AloneIsAlone, Knows,
      KnowsTheOpen, KeptReadsRight, OnlyKeptOpen, OnlyOwnOpen, ReadsAs, Approves,
      Threads
<1> QED
  BY <1>1, <1>2, <1>4, <1>5, <1>6, <1>7 DEF Next

\* Every step keeps the types of the threads and of the runs' locals, and what
\* a run nobody interferes with has read of the threads stays true.
THEOREM TypeCorrect == Spec => [](TypeOK /\ Inv)
<1>1. Init => TypeOK
  <2>1. "idle" \in Stages /\ 0 \in 0..MaxThreads /\ 0 \in 0..MaxRetries
    BY GitLabAssumption DEF Stages
  <2>2. ASSUME Init
        PROVE  /\ body \in [Ids -> Kinds \cup {"none"}] /\ open \in SUBSET Ids
               /\ approved \in BOOLEAN /\ last \in 0..MaxThreads
               /\ settled \in Kinds \cup {"none", "unsettled"}
    BY <2>1, <2>2 DEF Init
  <2>3. ASSUME Init
        PROVE  /\ pc \in [Runs -> Stages] /\ want \in [Runs -> Kinds \cup {"none"}]
               /\ kept \in [Runs -> {0} \cup Ids] /\ stale \in [Runs -> SUBSET Ids]
               /\ tries \in [Runs -> 0..MaxRetries]
               /\ before \in [Runs -> 0..MaxThreads]
    BY <2>1, <2>3 DEF Init
  <2>4. ASSUME Init
        PROVE  /\ fresh \in [Runs -> BOOLEAN] /\ alone \in [Runs -> BOOLEAN]
               /\ calm \in [Runs -> BOOLEAN]
    BY <2>4 DEF Init
  <2> QED
    BY <2>2, <2>3, <2>4 DEF TypeOK
<1>2. Init => Inv
  BY DEF Init, Inv, Sound, AloneIsAlone
<1>3. TypeOK /\ Inv /\ [Next]_vars => TypeOK' /\ Inv'
  BY StepKeepsTypes, StepKeeps DEF Inv
<1> QED
  BY <1>1, <1>2, <1>3, PTL DEF Spec

-----------------------------------------------------------------------------
(* What the steps of a run nobody interferes with lead to.                 *)

\* Only the run itself takes a step that ends it, or that it is alone after.
LEMMA OnlyItsOwnSteps ==
    ASSUME TypeOK, Inv, [Next]_vars, NEW r \in Runs, alone[r]
    PROVE  \/ RunStep(r) \/ Crash(r)
           \/ UNCHANGED hostVars /\ pc'[r] # "idle"
           \/ ~alone'[r] /\ pc'[r] # "idle"
<1>1. pc[r] # "idle" /\ \A s \in Runs \ {r} : pc[s] = "idle"
  BY DEF Inv, AloneIsAlone
<1>2. ASSUME NEW s \in Runs \ {r} PROVE ~RunStep(s) /\ ~Crash(s)
  BY <1>1, <1>2 DEF RunStep, Crash, List, Reply, Resolve, ReadApproval,
      SetApproval, Post, Settle, Refused, Unavailable, Lost
<1>3. ASSUME NEW s \in Runs, NEW w \in Kinds \cup {"none"}, Begin(s, w)
      PROVE  UNCHANGED hostVars /\ pc'[r] # "idle"
  BY <1>1, <1>3 DEF Begin, TypeOK
<1>4. ASSUME \/ \E i \in Ids : PersonResolves(i) \/ PersonDeletes(i)
             \/ Push
      PROVE  ~alone'[r] /\ pc'[r] # "idle"
  BY <1>1, <1>4 DEF PersonResolves, PersonDeletes, Push, Disturb
<1>5. CASE UNCHANGED vars
  BY <1>1, <1>5 DEF vars, callVars
<1> QED
  BY <1>2, <1>3, <1>4, <1>5 DEF Next

\* What SettlesOnItsVerdict says of one run.
HasItsVerdict(r) ==
    /\ approved' = Approves(r)
    /\ want[r] = "CHANGES_REQUESTED" => open' # {}
    /\ \A i \in open' :
         \/ i > before[r]
         \/ want[r] = "CHANGES_REQUESTED" /\ open' = {i}

\* A run that only goes on does not end.
LEMMA EndsBySucceeding ==
    ASSUME TypeOK, NEW r \in Runs, pc[r] # "idle",
           Repeat(r) \/ Fail(r) \/ \E stage \in Stages \ {"idle"} : Goto(r, stage),
           pc'[r] = "idle"
    PROVE  settled' = "unsettled"
BY GoingOn DEF Repeat, Fail

\* With the approval right, a run that has kept a thread, or wants none, is done.
LEMMA ApprovedSettles ==
    ASSUME TypeOK, NEW r \in Runs, pc[r] # "idle", Approved(r), pc'[r] = "idle",
           approved' = Approves(r), open' = open,
           OnlyKeptOpen(r), KeptReadsRight(r)
    PROVE  HasItsVerdict(r)
<1>1. kept[r] # 0 \/ want[r] = "none"
  BY GoingOn DEF Approved, Stages
<1>2. want[r] = "CHANGES_REQUESTED" => open = {kept[r]}
  BY <1>1 DEF OnlyKeptOpen, KeptReadsRight, ReadsAs
<1>3. want[r] # "CHANGES_REQUESTED" => open = {}
  BY <1>1 DEF OnlyKeptOpen, KeptReadsRight, ReadsAs, TypeOK, Ids, Kinds
<1> QED
  BY <1>2, <1>3 DEF HasItsVerdict

LEMMA RunSettles ==
    ASSUME TypeOK, Inv, NEW r \in Runs, RunStep(r) \/ Crash(r), alone[r],
           pc'[r] = "idle", settled' # "unsettled"
    PROVE  HasItsVerdict(r)
<1>1. pc[r] # "idle" /\ Knows(r)
  BY DEF Inv, AloneIsAlone
<1>2. ~Repeat(r) /\ ~Fail(r) /\ \A stage \in Stages \ {"idle"} : ~Goto(r, stage)
  BY <1>1, EndsBySucceeding
<1>3. \A rest : Dismissing(rest) \in Stages \ {"idle"}
  BY DEF Dismissing, Stages
<1>4. CASE List(r) \/ Reply(r) \/ Resolve(r)
  BY <1>2, <1>3, <1>4 DEF List, Reply, Resolve, DoneWith, Stages
<1>5. CASE ReadApproval(r)
  <2>1. approved = Approves(r) /\ Approved(r)
    BY <1>2, <1>5 DEF ReadApproval, Stages
  <2> QED
    BY <1>1, <1>5, <2>1, ApprovedSettles DEF ReadApproval, Knows, hostVars
<1>6. CASE SetApproval(r)
  BY <1>1, <1>6, ApprovedSettles DEF SetApproval, Corrected, Knows
<1>7. CASE Post(r)
  <2>1. want[r] \in Kinds /\ before[r] <= last
    BY <1>7 DEF Post, Inv, Sound
  <2>2. ~Approves(r) /\ approved' = approved
    BY <1>2, <1>7 DEF Post, Stages
  <2>3. OnlyOwnOpen(r) /\ approved = Approves(r)
    BY <1>1, <1>7 DEF Post, Knows
  <2>4. open' = open \cup {last + 1} /\ last \in Nat /\ before[r] \in Nat
    BY <1>7, <2>1, PostingAddsOne DEF Post, TypeOK
  <2>5. \A i \in open' : i > before[r]
    BY <2>1, <2>3, <2>4 DEF OnlyOwnOpen
  <2>6. open' # {}
    BY <2>4
  <2> QED
    BY <2>2, <2>3, <2>5, <2>6 DEF HasItsVerdict, Approves
<1>8. CASE Settle(r)
  <2>1. Approves(r) /\ OnlyOwnOpen(r) /\ approved
    BY <1>1, <1>8 DEF Settle, Inv, Sound, Knows
  <2>2. open' \subseteq open /\ approved' = approved
    BY <1>8 DEF Settle, Resolved
  <2> QED
    BY <2>1, <2>2 DEF HasItsVerdict, OnlyOwnOpen, Approves
<1>9. CASE Refused(r) \/ Unavailable(r) \/ Lost(r) \/ Crash(r)
  BY <1>2, <1>9 DEF Refused, Unavailable, Lost, Crash
<1> QED
  BY <1>4, <1>5, <1>6, <1>7, <1>8, <1>9 DEF RunStep

\* A run nobody interfered with that reports success has left its verdict,
\* whatever other runs and persons had left before.
THEOREM Settles == Spec => SettlesOnItsVerdict
<1>1. TypeOK /\ Inv /\ [Next]_vars =>
        [\A r \in Runs :
           alone[r] /\ pc'[r] = "idle" /\ settled' # "unsettled" =>
               /\ approved' = Approves(r)
               /\ want[r] = "CHANGES_REQUESTED" => open' # {}
               /\ \A i \in open' :
                    \/ i > before[r]
                    \/ want[r] = "CHANGES_REQUESTED" /\ open' = {i}]_vars
  BY OnlyItsOwnSteps, RunSettles DEF HasItsVerdict, Inv
<1> QED
  BY <1>1, TypeCorrect, PTL DEF Spec, SettlesOnItsVerdict

\* The step of a run that is alone opens a blocking thread only while the merge
\* request is not approved, and approves only while no thread is open.
LEMMA RunNeverMakesBoth ==
    ASSUME TypeOK, Inv, NEW r \in Runs, RunStep(r) \/ Crash(r), alone[r], Both'
    PROVE  Both
<1>1. pc[r] # "idle" /\ Knows(r)
  BY DEF Inv, AloneIsAlone
<1>2. CASE UNCHANGED hostVars
  BY <1>2 DEF hostVars, Both
<1>3. CASE open' \subseteq open /\ UNCHANGED <<body, approved>>
  BY <1>3 DEF Both
<1>4. CASE pc[r] = "setApproval" /\ Corrected(r) /\ UNCHANGED <<body, open>>
  <2>1. OnlyKeptOpen(r) /\ KeptReadsRight(r)
    BY <1>1, <1>4 DEF Knows
  <2>2. Approves(r) => open = {}
    BY <2>1 DEF OnlyKeptOpen, KeptReadsRight, ReadsAs, Approves, TypeOK, Ids
  <2> QED
    BY <1>4, <2>2 DEF Both, Corrected
<1>5. CASE pc[r] = "post" /\ Posted(r) /\ UNCHANGED approved
  <2>1. want[r] \in Kinds /\ OnlyOwnOpen(r) /\ approved = Approves(r)
    BY <1>1, <1>5 DEF Inv, Sound, Knows
  <2>2. \A i \in open' : body'[i] = want[r]
    BY <1>5, <2>1, PostingAddsOne DEF OnlyOwnOpen, TypeOK
  <2> QED
    BY <1>5, <2>1, <2>2 DEF Both, Approves
<1>6. CASE List(r) \/ Reply(r) \/ ReadApproval(r) \/ Refused(r) \/ Unavailable(r) \/ Crash(r)
  BY <1>2, <1>6 DEF List, Reply, ReadApproval, Refused, Unavailable, Crash
<1>7. CASE Resolve(r) \/ Settle(r)
  BY <1>3, <1>7 DEF Resolve, Settle, Resolved
<1>8. CASE SetApproval(r) \/ Post(r)
  BY <1>4, <1>5, <1>8 DEF SetApproval, Post
<1>9. CASE Lost(r)
  BY <1>3, <1>4, <1>5, <1>9 DEF Lost, Resolved
<1> QED
  BY <1>6, <1>7, <1>8, <1>9 DEF RunStep

\* A merge request is approved or blocked: no step of a run nobody interferes
\* with makes it both.
THEOREM NeverBoth == Spec => NeverMakesBoth
<1>1. TypeOK /\ Inv /\ [Next]_vars =>
        [\A r \in Runs :
           alone[r] /\ (alone'[r] \/ pc'[r] = "idle") /\ Both' => Both]_vars
  <2>1. ASSUME TypeOK, Inv, [Next]_vars, NEW r \in Runs,
               alone[r], alone'[r] \/ pc'[r] = "idle", Both'
        PROVE  Both
    <3>1. CASE RunStep(r) \/ Crash(r)
      BY <2>1, <3>1, RunNeverMakesBoth
    <3>2. CASE UNCHANGED hostVars
      BY <2>1, <3>2 DEF hostVars, Both
    <3> QED
      BY <2>1, <3>1, <3>2, OnlyItsOwnSteps
  <2> QED
    BY <2>1
<1> QED
  BY <1>1, TypeCorrect, PTL DEF Spec, NeverMakesBoth
-----------------------------------------------------------------------------
(* A rerun.                                                                *)

\* While a run is alone, the thread it keeps is there.
KeptIsThere ==
    \A r \in Runs :
        alone[r] /\ pc[r] # "list" /\ kept[r] # 0 => kept[r] \in Threads

\* As long as nobody does anything, the settled verdict is what the host shows.
SettledStands ==
    settled # "unsettled" =>
        /\ InFlight = {}
        /\ approved = (settled = "APPROVED")
        /\ settled = "none" \/ \E i \in Threads : ReadsAs(i) = settled

\* A run that starts from there finds the approval right and a thread to keep.
CalmKnows ==
    \A r \in Runs : calm[r] =>
        /\ alone[r] /\ pc[r] \in {"list", "reply", "resolve", "readApproval"}
        /\ approved = Approves(r)
        /\ \/ want[r] = "none"
           \/ pc[r] = "list" /\ Wanted(r) # {}
           \/ pc[r] # "list" /\ kept[r] # 0

Rests == KeptIsThere /\ SettledStands /\ CalmKnows

\* Ending leaves nobody calm who was not, and the run that ended is not.
LEMMA EndingIsNotCalm ==
    ASSUME TypeOK, NEW r \in Runs, Forget(r)
    PROVE  ~calm'[r] /\ \A s \in Runs \ {r} : calm'[s] = calm[s]
BY DEF Forget, TypeOK

\* A run takes no thread away but by resolving it, and keeps one that is there.
LEMMA RunKeepsTheKept ==
    ASSUME TypeOK, Inv, KeptIsThere, NEW r \in Runs, RunStep(r) \/ Crash(r)
    PROVE  KeptIsThere'
<1>1. pc[r] # "idle" /\ \A s \in Runs \ {r} : alone'[s] = alone[s]
  BY Ending, EndingTypes DEF RunStep, Crash, List, Reply, Resolve, ReadApproval, SetApproval,
     Post, Settle, Refused, Unavailable, Lost, Goto, Approved, DoneWith, Repeat, ghosts
<1>2. \A s \in Runs \ {r} : ~alone'[s]
  BY <1>1 DEF Inv, AloneIsAlone
<1>3. SUFFICES ASSUME alone'[r], pc'[r] # "list", kept'[r] # 0 PROVE kept'[r] \in Threads'
  BY <1>2 DEF KeptIsThere
<1>4. ~Forget(r)
  BY <1>3, Ending
<1>5. ~Succeed(r) /\ ~Fail(r)
  BY <1>4 DEF Succeed, Fail
<1>6. CASE List(r)
  BY <1>3, <1>6 DEF List, Keeps, First, Wanted, Threads, hostVars, TypeOK
<1>7. CASE Post(r)
  <2>1. want[r] \in Kinds
    BY <1>7 DEF Post, Inv, Sound
  <2>2. kept'[r] = last + 1
    BY <1>5, <1>7 DEF Post, TypeOK
  <2> QED
    BY <1>7, <2>1, <2>2, PostingAddsOne DEF Post
<1>8. CASE ~List(r) /\ ~Post(r)
  <2>1. kept' = kept /\ alone' = alone
    BY <1>5, <1>8 DEF RunStep, Crash, Reply, Resolve, ReadApproval, SetApproval, Settle,
       Refused, Unavailable, Lost, Goto, Approved, DoneWith, Repeat, ghosts
  <2>2. pc[r] # "list"
    BY <1>3, <1>5, <1>8 DEF RunStep, Crash, Reply, Resolve, ReadApproval, SetApproval, Settle,
       Refused, Unavailable, Lost, Repeat
  <2>3. kept[r] \in Threads
    BY <1>3, <2>1, <2>2 DEF KeptIsThere
  <2>4. body' = body \/ (pc[r] = "post" /\ Posted(r))
    BY <1>5, <1>8 DEF RunStep, Crash, Reply, Resolve, ReadApproval, SetApproval, Settle,
       Refused, Unavailable, Lost, hostVars
  <2>5. Threads \subseteq Threads'
    <3>1. CASE body' = body
      BY <3>1 DEF Threads
    <3>2. CASE pc[r] = "post" /\ Posted(r)
      BY <3>2, PostingAddsOne DEF Inv, Sound
    <3> QED
      BY <2>4, <3>1, <3>2
  <2> QED
    BY <2>1, <2>3, <2>5
<1> QED
  BY <1>6, <1>7, <1>8

\* A run settles on what it then shows.
LEMMA RunSettlesOnWhatStands ==
    ASSUME TypeOK, Inv, Inv', KeptIsThere, SettledStands, NEW r \in Runs,
           RunStep(r) \/ Crash(r)
    PROVE  SettledStands'
<1>1. pc[r] # "idle" /\ settled = "unsettled"
  BY DEF RunStep, Crash, List, Reply, Resolve, ReadApproval, SetApproval, Post, Settle,
     Refused, Unavailable, Lost, SettledStands, InFlight
<1>2. SUFFICES ASSUME settled' # "unsettled" PROVE SettledStands'
  BY DEF SettledStands
<1>3. Succeed(r) /\ alone[r] /\ settled' = want[r] /\ pc'[r] = "idle"
  <2>1. ~Fail(r)
    BY <1>2 DEF Fail
  <2>2. Succeed(r)
    BY <1>1, <1>2, <2>1 DEF RunStep, Crash, List, Reply, Resolve, ReadApproval, SetApproval,
       Post, Settle, Refused, Unavailable, Lost, Goto, Approved, DoneWith, Repeat, ghosts
  <2> QED
    BY <1>2, <2>2, Ending DEF Succeed
<1>4. HasItsVerdict(r)
  BY <1>2, <1>3, RunSettles
<1>5. InFlight' = {}
  <2>1. \A s \in Runs \ {r} : pc'[s] = pc[s] /\ pc[s] = "idle"
    BY <1>3, Ending DEF Succeed, Inv, AloneIsAlone
  <2> QED
    BY <1>3, <2>1 DEF InFlight
<1>6. CASE want[r] = "CHANGES_REQUESTED"
  <2>1. PICK i \in open' : TRUE
    BY <1>4, <1>6 DEF HasItsVerdict
  <2>2. i \in Threads' /\ ReadsAs(i)' = "CHANGES_REQUESTED"
    BY <2>1 DEF Inv, Sound, ReadsAs
  <2> QED
    BY <1>3, <1>4, <1>5, <1>6, <2>2 DEF SettledStands, HasItsVerdict, Approves
<1>7. CASE want[r] = "APPROVED"
  <2>1. pc[r] # "list" /\ kept[r] # 0 /\ body' = body /\ kept[r] \notin open'
    <3>1. Knows(r)
      BY <1>3 DEF Inv
    <3>2. CASE ReadApproval(r) \/ SetApproval(r)
      <4>1. Approved(r) /\ pc[r] \in {"readApproval", "setApproval"} /\ open' = open /\ body' = body
        BY <1>3, <3>2, GoingOn DEF ReadApproval, SetApproval, Stages, hostVars
      <4>2. kept[r] # 0
        BY <1>3, <1>7, <4>1, GoingOn DEF Approved, Stages
      <4> QED
        BY <1>7, <3>1, <4>1, <4>2 DEF Knows, KeptReadsRight, ReadsAs
    <3>3. CASE Settle(r)
      BY <3>1, <3>3 DEF Settle, Resolved, Knows, Inv, Sound, Ids
    <3>4. ~Post(r)
      BY <1>3, <1>7, GoingOn DEF Post, Approves, Stages
    <3>5. ~Fail(r) /\ ~Repeat(r)
      BY <1>2, <1>1 DEF Fail, Repeat, ghosts
    <3>6. \A rest : Dismissing(rest) \in Stages \ {"idle"}
      BY DEF Dismissing, Stages
    <3>7. ~(List(r) \/ Reply(r) \/ Resolve(r))
      BY <1>3, <3>6, GoingOn DEF List, Reply, Resolve, DoneWith, Stages
    <3> QED
      BY <3>2, <3>3, <3>4, <3>5, <3>7 DEF RunStep, Crash, Refused, Unavailable, Lost
  <2>2. kept[r] \in Threads'
    BY <1>3, <2>1 DEF KeptIsThere, Threads
  <2> QED
    BY <1>3, <1>4, <1>5, <1>7, <2>1, <2>2 DEF SettledStands, HasItsVerdict, Approves, ReadsAs
<1>8. CASE want[r] = "none"
  BY <1>3, <1>4, <1>5, <1>8 DEF SettledStands, HasItsVerdict, Approves
<1> QED
  BY <1>6, <1>7, <1>8 DEF TypeOK, Kinds
\* A calm run finds what it wants to leave, and goes through the other threads.
LEMMA RunStaysCalm ==
    ASSUME TypeOK, Inv, KeptIsThere, CalmKnows, NEW r \in Runs, RunStep(r) \/ Crash(r)
    PROVE  CalmKnows'
<1>1. pc[r] # "idle" /\ \A s \in Runs \ {r} : calm'[s] = calm[s]
  BY EndingIsNotCalm, EndingTypes DEF RunStep, Crash, List, Reply, Resolve, ReadApproval,
     SetApproval, Post, Settle, Refused, Unavailable, Lost, Goto, Approved, DoneWith, Repeat,
     ghosts
<1>2. \A s \in Runs \ {r} : ~calm'[s]
  BY <1>1 DEF CalmKnows, Inv, AloneIsAlone
<1>3. SUFFICES ASSUME calm'[r]
               PROVE  /\ alone'[r] /\ pc'[r] \in {"list", "reply", "resolve", "readApproval"}
                      /\ approved' = Approves(r)'
                      /\ \/ want'[r] = "none"
                         \/ pc'[r] = "list" /\ Wanted(r)' # {}
                         \/ pc'[r] # "list" /\ kept'[r] # 0
  BY <1>2 DEF CalmKnows
<1>4. ~Succeed(r) /\ ~Fail(r)
  BY <1>3, EndingIsNotCalm DEF Succeed, Fail
<1>5. calm[r] /\ alone' = alone /\ want' = want
  BY <1>3, <1>4 DEF RunStep, Crash, List, Reply, Resolve, ReadApproval, SetApproval, Post,
     Settle, Refused, Unavailable, Lost, Goto, Approved, DoneWith, Repeat, ghosts
<1>6. /\ alone[r] /\ pc[r] \in {"list", "reply", "resolve", "readApproval"}
      /\ approved = Approves(r)
      /\ \/ want[r] = "none"
         \/ pc[r] = "list" /\ Wanted(r) # {}
         \/ pc[r] # "list" /\ kept[r] # 0
  BY <1>5 DEF CalmKnows
<1>7. \A rest : Dismissing(rest) \in {"reply", "readApproval"}
  BY DEF Dismissing
<1>8. CASE List(r)
  <2>1. PICK i \in {0} \cup Ids :
          /\ Keeps(r, i)
          /\ kept' = [kept EXCEPT ![r] = i]
          /\ Goto(r, Dismissing(Threads \ {i}))
    BY <1>8 DEF List
  <2>2. pc'[r] \in {"reply", "readApproval"} /\ kept'[r] = i
    BY <1>7, <2>1 DEF Goto, TypeOK
  <2>3. want[r] # "none" => i # 0
    BY <1>6, <1>8, <2>1 DEF List, Keeps, First, Wanted, Threads, Ids
  <2>4. approved' = approved
    BY <1>8 DEF List, hostVars
  <2> QED
    BY <1>5, <1>6, <2>2, <2>3, <2>4 DEF Approves
<1>9. CASE Reply(r) \/ Resolve(r)
  <2>1. pc'[r] \in {"reply", "resolve", "readApproval"}
    <3>1. \A stage : Goto(r, stage) => pc'[r] = stage
      BY DEF Goto, TypeOK
    <3> QED
      BY <1>7, <1>9, <3>1 DEF Reply, Resolve, DoneWith
  <2>2. kept' = kept /\ approved' = approved /\ pc[r] # "list"
    BY <1>9 DEF Reply, Resolve, hostVars
  <2> QED
    BY <1>5, <1>6, <2>1, <2>2 DEF Approves
<1>10. CASE Unavailable(r) \/ Lost(r)
  <2>1. UNCHANGED <<pc, kept>>
    BY <1>4, <1>10 DEF Unavailable, Lost, Repeat
  <2>2. approved' = approved
    BY <1>6, <1>10 DEF Unavailable, Lost, hostVars
  <2>3. pc[r] = "list" => Wanted(r)' = Wanted(r)
    BY <1>5, <1>10 DEF Unavailable, Lost, hostVars, Wanted, Threads, ReadsAs
  <2> QED
    BY <1>5, <1>6, <2>1, <2>2, <2>3 DEF Approves
<1>11. ~ReadApproval(r)
  BY <1>4, <1>6 DEF ReadApproval, Approved
<1> QED
  BY <1>4, <1>6, <1>8, <1>9, <1>10, <1>11 DEF RunStep, Crash, SetApproval, Post, Settle, Refused

LEMMA RestsStep ==
    ASSUME TypeOK, Inv, Rests, [Next]_vars
    PROVE  Rests'
<1>1. ASSUME NEW r \in Runs, RunStep(r) \/ Crash(r) PROVE Rests'
  <2>1. Inv'
    BY <1>1, RunKeeps
  <2> QED
    BY <1>1, <2>1, RunKeepsTheKept, RunSettlesOnWhatStands, RunStaysCalm DEF Rests
<1>2. ASSUME NEW r \in Runs, NEW w \in Kinds \cup {"none"}, Begin(r, w) PROVE Rests'
  <2>1. /\ UNCHANGED hostVars /\ kept' = kept /\ settled' = "unsettled"
        /\ pc'[r] = "list" /\ want'[r] = w
        /\ \A s \in Runs : alone'[s] => s = r /\ InFlight = {}
        /\ \A s \in Runs : calm'[s] => s = r /\ InFlight = {} /\ alone'[s] /\ settled = w
    BY <1>2 DEF Begin, TypeOK
  <2>2. KeptIsThere' /\ SettledStands'
    BY <2>1 DEF KeptIsThere, SettledStands
  <2>3. Threads' = Threads /\ \A i \in Threads : ReadsAs(i)' = ReadsAs(i)
    BY <2>1 DEF Threads, ReadsAs, hostVars
  <2>4. calm'[r] => approved = (w = "APPROVED") /\ (w = "none" \/ \E i \in Threads : ReadsAs(i) = w)
    BY <2>1 DEF Rests, SettledStands, Kinds
  <2>5. CalmKnows'
    BY <2>1, <2>3, <2>4 DEF CalmKnows, Wanted, Approves, hostVars
  <2> QED
    BY <2>2, <2>5 DEF Rests
<1>3. ASSUME NEW kind, Disturb(kind) PROVE Rests'
  BY <1>3 DEF Disturb, Rests, KeptIsThere, SettledStands, CalmKnows
<1>4. CASE UNCHANGED vars
  BY <1>4 DEF vars, hostVars, callVars, ghosts, Rests, KeptIsThere, SettledStands, CalmKnows,
     InFlight, Threads, ReadsAs, Wanted, Approves
<1> QED
  BY <1>1, <1>2, <1>3, <1>4 DEF Next, PersonResolves, PersonDeletes, Push

\* Where the verdict was reached before and nobody has done anything since, a run
\* leaves the approval alone and posts nothing, whatever of its calls fail.
THEOREM RerunsPostNothing == Spec => []RerunPostsNothing
<1>1. Init => Rests
  BY DEF Init, Rests, KeptIsThere, SettledStands, CalmKnows
<1>2. TypeOK /\ Inv /\ Rests /\ [Next]_vars => Rests'
  BY RestsStep
<1>3. Rests => RerunPostsNothing
  BY DEF Rests, CalmKnows, RerunPostsNothing
<1> QED
  BY <1>1, <1>2, <1>3, TypeCorrect, PTL DEF Spec

-----------------------------------------------------------------------------
(* A run gets on.                                                          *)

\* The threads a run has to dismiss can be counted; dismissing one leaves one
\* less.
LEMMA StaleIsCounted ==
    ASSUME NEW S \in SUBSET Ids
    PROVE  /\ Cardinality(S) \in 0..MaxThreads
           /\ \A i \in S : Cardinality(S \ {i}) = Cardinality(S) - 1
           /\ S # {} => Cardinality(S) > 0
<1>1. IsFiniteSet(Ids) /\ Cardinality(Ids) = MaxThreads
  BY GitLabAssumption, FS_Interval DEF Ids
<1>2. IsFiniteSet(S) /\ Cardinality(S) <= MaxThreads /\ Cardinality(S) \in Nat
  BY <1>1, FS_Subset, FS_CardinalityType
<1>3. \A i \in S : Cardinality(S \ {i}) = Cardinality(S) - 1
  BY <1>2, FS_RemoveElement
<1>4. S # {} => Cardinality(S) # 0
  BY <1>2, FS_EmptySet
<1> QED
  BY <1>2, <1>3, <1>4, GitLabAssumption

\* A run's own step makes a call fewer, or repeats the present one once more.
LEMMA StepsCount ==
    ASSUME TypeOK, NEW r \in Runs, RunStep(r) \/ Crash(r)
    PROVE  \/ CallsLeft(r)' < CallsLeft(r)
           \/ CallsLeft(r)' = CallsLeft(r) /\ tries'[r] > tries[r]
<1>0. /\ stale[r] \in SUBSET Ids /\ Threads \in SUBSET Ids
      /\ tries[r] \in Nat /\ MaxThreads \in Nat /\ pc[r] \in Stages
  BY GitLabAssumption DEF TypeOK, Threads
<1>1. pc[r] # "idle" /\ Cardinality(stale[r]) \in Nat
  BY <1>0, StaleIsCounted
  DEF RunStep, Crash, List, Reply, Resolve, ReadApproval, SetApproval, Post, Settle, Refused,
      Unavailable, Lost
<1>2. CallsLeft(r) \in Nat \ {0}
  BY <1>0, <1>1 DEF CallsLeft, Stages
<1>3. CASE pc'[r] = "idle"
  <2>1. CallsLeft(r)' = 0
    BY <1>3 DEF CallsLeft
  <2> QED
    BY <1>2, <1>3, <2>1
<1>4. ASSUME Succeed(r) \/ Fail(r) PROVE pc'[r] = "idle"
  BY <1>4, Ending, EndingTypes
<1>5. CASE List(r)
  <2>1. PICK i \in {0} \cup Ids :
          /\ stale' = [stale EXCEPT ![r] = Threads \ {i}]
          /\ Goto(r, Dismissing(Threads \ {i}))
    BY <1>5 DEF List
  <2>2. pc'[r] \in {"reply", "readApproval"} /\ stale'[r] = Threads \ {i}
    BY <2>1 DEF Goto, Dismissing, TypeOK
  <2>3. Cardinality(stale'[r]) <= MaxThreads /\ Cardinality(stale'[r]) \in Nat
    BY <1>0, <2>2, StaleIsCounted
  <2>4. CallsLeft(r) = 2 * MaxThreads + 5
    BY <1>5 DEF CallsLeft, List
  <2>5. CallsLeft(r)' = 2 * Cardinality(stale'[r]) + 4 \/ CallsLeft(r)' = 4
    BY <2>2 DEF CallsLeft
  <2> QED
    BY <1>0, <2>3, <2>4, <2>5
<1>6. ASSUME NEW i \in stale[r], DoneWith(r, i), pc[r] \in {"reply", "resolve"}
      PROVE  CallsLeft(r)' < CallsLeft(r)
  <2>1. stale'[r] = stale[r] \ {i} /\ pc'[r] = Dismissing(stale'[r])
    BY <1>6 DEF DoneWith, Goto, TypeOK
  <2>2. Cardinality(stale'[r]) = Cardinality(stale[r]) - 1 /\ Cardinality(stale[r]) > 0
    BY <1>0, <2>1, StaleIsCounted
  <2>3. CallsLeft(r) >= 2 * Cardinality(stale[r]) + 3
    BY <1>1, <1>6 DEF CallsLeft
  <2>4. CallsLeft(r)' = 2 * Cardinality(stale'[r]) + 4 \/ CallsLeft(r)' = 4
    BY <2>1 DEF CallsLeft, Dismissing
  <2> QED
    BY <1>1, <1>2, <2>2, <2>3, <2>4
<1>7. CASE Reply(r)
  <2>1. PICK i \in stale[r] :
          IF i \in Threads THEN Goto(r, "resolve") /\ UNCHANGED stale ELSE DoneWith(r, i)
    BY <1>7 DEF Reply
  <2>2. CASE i \in Threads
    <3>1. pc'[r] = "resolve" /\ stale' = stale
      BY <2>1, <2>2 DEF Goto, TypeOK
    <3> QED
      BY <1>1, <1>7, <3>1 DEF CallsLeft, Reply
  <2> QED
    BY <1>6, <1>7, <2>1, <2>2 DEF Reply
<1>8. CASE Resolve(r)
  BY <1>6, <1>8 DEF Resolve
<1>9. CASE ReadApproval(r) \/ SetApproval(r) \/ Post(r) \/ Settle(r)
  <2>1. \/ pc'[r] = "idle"
        \/ pc[r] = "readApproval" /\ pc'[r] \in {"setApproval", "post"}
        \/ pc[r] = "setApproval" /\ pc'[r] = "post"
        \/ pc[r] = "post" /\ pc'[r] = "settle"
    BY <1>4, <1>9 DEF ReadApproval, SetApproval, Post, Settle, Approved, Goto, TypeOK
  <2>2. /\ pc[r] = "readApproval" => CallsLeft(r) = 4
        /\ pc[r] = "setApproval" => CallsLeft(r) = 3
        /\ pc[r] = "post" => CallsLeft(r) = 2
    BY DEF CallsLeft
  <2>3. /\ pc'[r] = "setApproval" => CallsLeft(r)' = 3
        /\ pc'[r] = "post" => CallsLeft(r)' = 2
        /\ pc'[r] = "settle" => CallsLeft(r)' = 1
    BY DEF CallsLeft
  <2> QED
    BY <1>3, <2>1, <2>2, <2>3
<1>10. CASE UNCHANGED <<pc, stale>> /\ tries'[r] = tries[r] + 1
  BY <1>0, <1>10 DEF CallsLeft
<1>11. CASE Repeat(r)
  <2>1. CASE Fail(r)
    BY <1>3, <1>4, <2>1
  <2> QED
    BY <1>10, <1>11, <2>1 DEF Repeat, TypeOK
<1> QED
  BY <1>3, <1>4, <1>5, <1>7, <1>8, <1>9, <1>11 DEF RunStep, Crash, Refused, Unavailable, Lost

\* Every step of a run uses up one of finitely many calls or repetitions, and no
\* step of anybody else gives it more to do.
THEOREM RunsGetOn == Spec => RunGetsOn
<1> DEFINE On(r) ==
      pc[r] # "idle" =>
        \/ CallsLeft(r)' < CallsLeft(r)
        \/ CallsLeft(r)' = CallsLeft(r) /\ tries'[r] > tries[r]
        \/ UNCHANGED <<pc[r], stale[r], tries[r]>> /\ ~RunStep(r)
<1>1. ASSUME TypeOK, Next, NEW r \in Runs, pc[r] # "idle" PROVE On(r)
  <2>1. CASE RunStep(r) \/ Crash(r)
    BY <1>1, <2>1, StepsCount
  <2>2. ASSUME ~RunStep(r), ~Crash(r) PROVE UNCHANGED <<pc[r], stale[r], tries[r]>>
    <3>1. ASSUME NEW s \in Runs \ {r}, RunStep(s) \/ Crash(s)
          PROVE  UNCHANGED <<pc[r], stale[r], tries[r]>>
      <4>1. ASSUME NEW stage, Goto(s, stage) PROVE pc'[r] = pc[r] /\ tries'[r] = tries[r]
        BY <1>1, <3>1, <4>1 DEF Goto, TypeOK
      <4>2. ASSUME Forget(s) PROVE UNCHANGED <<pc[r], stale[r], tries[r]>>
        BY <1>1, <3>1, <4>2 DEF Forget, TypeOK
      <4>3. ASSUME NEW i, DoneWith(s, i) PROVE UNCHANGED <<pc[r], stale[r], tries[r]>>
        BY <1>1, <3>1, <4>1, <4>3 DEF DoneWith, TypeOK
      <4>4. ASSUME Repeat(s) PROVE UNCHANGED <<pc[r], stale[r], tries[r]>>
        BY <1>1, <3>1, <4>2, <4>4 DEF Repeat, Fail, TypeOK
      <4>5. ASSUME Approved(s) PROVE UNCHANGED <<pc[r], stale[r], tries[r]>>
        BY <1>1, <3>1, <4>1, <4>2, <4>5 DEF Approved, Succeed
      <4>6. CASE List(s)
        BY <1>1, <3>1, <4>1, <4>6 DEF List, TypeOK
      <4> QED
        BY <3>1, <4>1, <4>2, <4>3, <4>4, <4>5, <4>6 DEF RunStep, Crash, Reply, Resolve,
           ReadApproval, SetApproval, Post, Settle, Refused, Unavailable, Lost, Succeed, Fail
    <3>2. ASSUME NEW s \in Runs, NEW w \in Kinds \cup {"none"}, Begin(s, w)
          PROVE  UNCHANGED <<pc[r], stale[r], tries[r]>>
      BY <1>1, <3>2 DEF Begin, TypeOK
    <3>3. ASSUME NEW kind, Disturb(kind) PROVE UNCHANGED <<pc[r], stale[r], tries[r]>>
      BY <3>3 DEF Disturb
    <3> QED
      BY <1>1, <2>2, <3>1, <3>2, <3>3 DEF Next, PersonResolves, PersonDeletes, Push
  <2> QED
    BY <2>1, <2>2
<1>2. TypeOK /\ [Next]_vars => [\A r \in Runs : On(r)]_vars
  BY <1>1
<1> QED
  BY <1>2, TypeCorrect, PTL DEF Spec, RunGetsOn
=============================================================================

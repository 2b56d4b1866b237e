-------------------------- MODULE ReviewSyncProofs --------------------------
(***************************************************************************)
(* Proofs about ReviewSync, for any number of runs and reviews and any     *)
(* number of repetitions.                                                  *)
(***************************************************************************)
EXTENDS ReviewSync, FiniteSetTheorems, TLAPS

\* A run that is about to submit has a verdict to submit, which is what keeps
\* the reviews well typed, and a run in flight has not reported yet.
UnderWay ==
    \A r \in Runs :
        /\ pc[r] = "post" => want[r] \in Kinds
        /\ pc[r] # "idle" => outcome[r] = "none"

LEMMA StepKeepsTypes ==
    ASSUME TypeOK, UnderWay, [Next]_vars
    PROVE  TypeOK' /\ UnderWay'
<1> USE ReviewAssumption DEF TypeOK, UnderWay
<1>1. ASSUME NEW r \in Runs, RunStep(r) \/ Crash(r)
      PROVE  TypeOK' /\ UnderWay'
  <2>1. CASE List(r)
    BY <2>1 DEF List, Continue, Following, hostVars, Stages, Standing, ghosts
  <2>2. CASE Dismiss(r)
    BY <2>2 DEF Dismiss, Dismissed, Continue, Following, Stages, ghosts
  <2>3. CASE Post(r)
    BY <2>3 DEF Post, Submitted, Stages, Ids, ghosts
  <2>4. CASE Refused(r) \/ Crash(r)
    BY <2>4 DEF Refused, Crash, Fail, hostVars, Stages, ghosts
  <2>5. CASE Unavailable(r)
    BY <2>5 DEF Unavailable, Repeat, Fail, hostVars, Stages, ghosts
  <2>6. CASE Lost(r)
    <3>1. state' \in [Ids -> Kinds \cup {"unsubmitted", "DISMISSED"}] /\ last' \in 0..MaxReviews
      <4>1. CASE pc[r] = "dismiss"
        BY <2>6, <4>1 DEF Lost, Dismissed
      <4>2. CASE pc[r] = "post"
        BY <2>6, <4>2 DEF Lost, Submitted, Ids
      <4> QED
        BY <2>6, <4>1, <4>2 DEF Lost
    <3>2. Repeat(r)
      BY <2>6 DEF Lost
    <3> QED
      BY <3>1, <3>2 DEF Repeat, Fail, Stages, ghosts
  <2> QED
    BY <1>1, <2>1, <2>2, <2>3, <2>4, <2>5, <2>6 DEF RunStep
<1>2. ASSUME NEW r \in Runs, NEW w \in Kinds \cup {"none"}, Begin(r, w)
      PROVE  TypeOK' /\ UnderWay'
  BY <1>2 DEF Begin, hostVars, Stages
<1>3. ASSUME NEW i \in Ids, PersonDismisses(i) PROVE TypeOK' /\ UnderWay'
  BY <1>3 DEF PersonDismisses, Dismissed, callVars
<1>4. CASE UNCHANGED vars
  BY <1>4 DEF vars, hostVars, callVars, ghosts
<1> QED
  BY <1>1, <1>2, <1>3, <1>4 DEF Next

\* Every step keeps the types of the host's reviews and of the runs' locals.
THEOREM TypeCorrect == Spec => [](TypeOK /\ UnderWay)
<1>1. Init => TypeOK /\ UnderWay
  BY ReviewAssumption DEF Init, TypeOK, UnderWay, Stages
<1>2. TypeOK /\ UnderWay /\ [Next]_vars => TypeOK' /\ UnderWay'
  BY StepKeepsTypes
<1> QED
  BY <1>1, <1>2, PTL DEF Spec

-----------------------------------------------------------------------------
(* What a run may rely on while nobody else acts: because the workflow     *)
(* keeps runs apart, or because none happens to.                           *)

Apart(r) == Serial \/ alone[r]

ApartMeansApart ==
    \A r, s \in Runs : Apart(r) /\ pc[r] # "idle" /\ pc[s] # "idle" => r = s

\* The standing reviews are the one it kept and those it has yet to dismiss;
\* when it comes to submit, only its own verdict can be standing.
KnowsTheReviews ==
    \A r \in Runs : Apart(r) =>
        /\ pc[r] = "dismiss" =>
             /\ Standing \subseteq stale[r] \cup {kept[r]}
             /\ kept[r] \notin stale[r]
             /\ kept[r] = 0 => \A i \in Standing : state[i] # want[r]
        /\ pc[r] = "post" =>
             /\ want[r] \in Kinds
             /\ \A i \in Standing : state[i] = want[r]

\* If persons keep away too, the review it kept still says what it wants, and
\* what stands when it submits it has submitted itself.
KnowsItsOwn ==
    \A r \in Runs : alone[r] /\ pc[r] # "idle" =>
        /\ before[r] <= last
        /\ pc[r] = "dismiss" /\ kept[r] # 0 =>
             kept[r] \in Standing /\ state[kept[r]] = want[r]
        /\ pc[r] = "post" => \A i \in Standing : i > before[r]

\* No two standing reviews differ: one approving, another blocking.
NeverContradicts == \A i, j \in Standing : state[i] = state[j]

NoContradiction == Serial => NeverContradicts

Inv == ApartMeansApart /\ KnowsTheReviews /\ KnowsItsOwn /\ NoContradiction

\* A dismissal takes one review from the standing ones and changes no other.
LEMMA DismissalTakesOne ==
    ASSUME TypeOK, NEW i, Dismissed(i)
    PROVE  /\ Standing' = Standing \ {i}
           /\ \A j \in Standing' : state'[j] = state[j]
BY DEF Dismissed, Standing, TypeOK, Kinds

\* A submission adds one review, in the wanted state.
LEMMA SubmissionAddsOne ==
    ASSUME TypeOK, NEW r \in Runs, Submitted(r), want[r] \in Kinds
    PROVE  /\ last + 1 \in Ids
           /\ Standing' = Standing \cup {last + 1}
           /\ state'[last + 1] = want[r]
           /\ \A j \in Standing' : j # last + 1 => state'[j] = state[j]
<1>1. last + 1 \in Ids
  BY ReviewAssumption DEF Submitted, TypeOK, Ids
<1> QED
  BY <1>1 DEF Submitted, Standing, TypeOK

\* The step of a run leaves what the other runs know alone: either they are
\* not apart, or not in flight.
LEMMA OthersKeepTheirs ==
    ASSUME TypeOK, Inv, NEW r \in Runs, pc[r] # "idle",
           pc' = [pc EXCEPT ![r] = pc'[r]], UNCHANGED <<want, ghosts>>
    PROVE  /\ ApartMeansApart'
           /\ \A s \in Runs \ {r} : Apart(s)' => pc'[s] = "idle"
           /\ want' = want /\ alone' = alone /\ before' = before
<1>1. \A s \in Runs \ {r} : pc'[s] = pc[s]
  BY DEF TypeOK
<1>2. want' = want /\ alone' = alone /\ before' = before
  BY DEF ghosts
<1> QED
  BY <1>1, <1>2 DEF Inv, ApartMeansApart, Apart

LEMMA RunKeeps ==
    ASSUME TypeOK, Inv, NEW r \in Runs, RunStep(r) \/ Crash(r)
    PROVE  Inv'
<1> USE ReviewAssumption
<1>a. pc[r] # "idle"
  BY DEF RunStep, Crash, List, Dismiss, Post, Refused, Unavailable, Lost
<1>b. pc' = [pc EXCEPT ![r] = pc'[r]] /\ UNCHANGED <<want, ghosts>>
  BY DEF RunStep, Crash, List, Dismiss, Post, Refused, Unavailable, Lost, Continue,
     Repeat, Fail, ghosts, TypeOK
<1>c. /\ ApartMeansApart'
      /\ \A s \in Runs \ {r} : Apart(s)' => pc'[s] = "idle"
      /\ want' = want /\ alone' = alone /\ before' = before
  BY <1>a, <1>b, OthersKeepTheirs
<1>d. /\ alone[r] => before[r] <= last
      /\ Apart(r)' => Apart(r)
  BY <1>a, <1>c DEF Inv, KnowsItsOwn, Apart
<1>1. CASE List(r)
  <2>1. PICK i \in {0} \cup Ids : Keeps(r, i) /\ Continue(r, i, Standing \ {i})
    BY <1>1 DEF List
  <2>2. state' = state /\ last' = last /\ Standing' = Standing
    BY <1>1 DEF List, hostVars, Standing
  <2>3. /\ pc'[r] = Following(r, i, Standing \ {i})
        /\ kept'[r] = i /\ stale'[r] = Standing \ {i}
    BY <2>1 DEF Continue, TypeOK
  <2>4. i = 0 => \A j \in Standing : state[j] # want[r]
    BY <2>1 DEF Keeps, First, Wanted, Standing, Ids
  <2>5. i # 0 => i \in Standing /\ state[i] = want[r]
    BY <2>1 DEF Keeps, First, Wanted
  <2>6. pc'[r] = "post" => want[r] # "none" /\ Standing = {}
    BY <2>3, <2>5 DEF Following, Standing, Ids
  <2>7. KnowsTheReviews'
    BY <1>c, <2>2, <2>3, <2>4, <2>6 DEF KnowsTheReviews, TypeOK
  <2>8. KnowsItsOwn'
    BY <1>c, <1>d, <2>2, <2>3, <2>5, <2>6 DEF KnowsItsOwn, Apart
  <2> QED
    BY <1>c, <2>2, <2>7, <2>8 DEF Inv, NoContradiction, NeverContradicts
<1>2. CASE Dismiss(r)
  <2>1. PICK i \in stale[r] :
          Dismissed(i) /\ Continue(r, kept[r], stale[r] \ {i})
    BY <1>2 DEF Dismiss
  <2>2. /\ Standing' = Standing \ {i}
        /\ \A j \in Standing' : state'[j] = state[j]
    BY <2>1, DismissalTakesOne
  <2>3. /\ pc'[r] = Following(r, kept[r], stale[r] \ {i})
        /\ kept'[r] = kept[r] /\ stale'[r] = stale[r] \ {i}
        /\ last' = last
    BY <1>2, <2>1 DEF Continue, Dismiss, TypeOK
  <2>4. pc[r] = "dismiss"
    BY <1>2 DEF Dismiss
  <2>5. Apart(r) /\ pc'[r] = "post" => want[r] \in Kinds /\ Standing' = {}
    <3> SUFFICES ASSUME Apart(r), pc'[r] = "post"
                 PROVE  want[r] \in Kinds /\ Standing' = {}
      OBVIOUS
    <3>1. stale[r] \ {i} = {} /\ kept[r] = 0 /\ want[r] # "none"
      BY <2>3 DEF Following
    <3>2. Standing \subseteq stale[r] \cup {kept[r]} /\ 0 \notin Standing
      BY <2>4 DEF Inv, KnowsTheReviews, Standing, Ids
    <3> QED
      BY <2>2, <3>1, <3>2 DEF TypeOK
  <2>6. KnowsTheReviews'
    BY <1>c, <1>d, <2>2, <2>3, <2>4, <2>5 DEF Inv, KnowsTheReviews
  <2>7. KnowsItsOwn'
    BY <1>a, <1>c, <1>d, <2>2, <2>3, <2>4, <2>5 DEF Inv, KnowsTheReviews, KnowsItsOwn, Apart
  <2> QED
    BY <1>c, <2>2, <2>6, <2>7 DEF Inv, NoContradiction, NeverContradicts
<1>3. CASE pc'[r] = "idle" /\ UNCHANGED hostVars
  <2>1. state' = state /\ last' = last /\ Standing' = Standing
    BY <1>3 DEF hostVars, Standing
  <2>2. \A s \in Runs : Apart(s)' => pc'[s] = "idle"
    BY <1>3, <1>c
  <2> QED
    BY <1>c, <2>1, <2>2 DEF Inv, KnowsTheReviews, KnowsItsOwn, NoContradiction,
       NeverContradicts, Apart
<1>4. CASE pc' = pc /\ UNCHANGED <<hostVars, kept, stale>>
  <2>1. state' = state /\ last' = last /\ Standing' = Standing /\ kept' = kept /\ stale' = stale
    BY <1>4 DEF hostVars, Standing
  <2> QED
    BY <1>4, <1>c, <2>1 DEF Inv, KnowsTheReviews, KnowsItsOwn, NoContradiction,
       NeverContradicts, Apart
<1>5. ASSUME pc[r] = "dismiss", NEW i \in stale[r], Dismissed(i), UNCHANGED last,
             \/ pc' = pc /\ UNCHANGED <<kept, stale>>
             \/ pc'[r] = "idle"
      PROVE  Inv'
  <2>1. /\ Standing' = Standing \ {i}
        /\ \A j \in Standing' : state'[j] = state[j]
    BY <1>5, DismissalTakesOne
  <2>2. KnowsTheReviews'
    BY <1>5, <1>c, <1>d, <2>1 DEF Inv, KnowsTheReviews
  <2>3. KnowsItsOwn'
    BY <1>5, <1>a, <1>c, <1>d, <2>1 DEF Inv, KnowsTheReviews, KnowsItsOwn, Apart
  <2> QED
    BY <1>c, <2>1, <2>2, <2>3 DEF Inv, NoContradiction, NeverContradicts
<1>6. ASSUME pc[r] = "post", Submitted(r), pc'[r] \in {"idle", "post"}
      PROVE  Inv'
  <2>1. Apart(r) => want[r] \in Kinds /\ \A i \in Standing : state[i] = want[r]
    BY <1>6 DEF Inv, KnowsTheReviews
  <2>2. Apart(r) =>
          /\ last + 1 \in Ids
          /\ Standing' = Standing \cup {last + 1}
          /\ state'[last + 1] = want[r]
          /\ \A j \in Standing' : j # last + 1 => state'[j] = state[j]
    BY <1>6, <2>1, SubmissionAddsOne
  <2>3. Apart(r) => \A i \in Standing' : state'[i] = want[r]
    BY <2>1, <2>2
  <2>4. KnowsTheReviews'
    BY <1>6, <1>c, <1>d, <2>1, <2>3 DEF KnowsTheReviews
  <2>5. last' = last + 1 /\ last \in Nat /\ before[r] \in Nat
    BY <1>6 DEF Submitted, TypeOK
  <2>6. KnowsItsOwn'
    <3> SUFFICES ASSUME alone'[r], pc'[r] # "idle"
                 PROVE  /\ before'[r] <= last'
                        /\ \A i \in Standing' : i > before'[r]
      BY <1>6, <1>c DEF KnowsItsOwn, Apart
    <3>1. \A i \in Standing : i > before[r]
      BY <1>6, <1>c DEF Inv, KnowsItsOwn
    <3> QED
      BY <1>c, <1>d, <2>2, <2>5, <3>1 DEF Apart
  <2>7. NoContradiction'
    BY <2>3 DEF NoContradiction, NeverContradicts, Apart
  <2> QED
    BY <1>c, <2>4, <2>6, <2>7 DEF Inv
<1>7. CASE Post(r)
  BY <1>6, <1>7 DEF Post, TypeOK
<1>8. CASE Lost(r)
  <2>1. \/ pc' = pc /\ UNCHANGED <<kept, stale>>
        \/ pc'[r] = "idle"
    BY <1>8 DEF Lost, Repeat, Fail, TypeOK
  <2>2. CASE pc[r] = "post"
    BY <1>6, <1>8, <2>1, <2>2 DEF Lost
  <2>3. CASE pc[r] = "dismiss"
    BY <1>5, <1>8, <2>1, <2>3 DEF Lost
  <2> QED
    BY <1>8, <2>2, <2>3 DEF Lost
<1> QED
  BY <1>1, <1>2, <1>3, <1>4, <1>7, <1>8 DEF RunStep, Crash, Refused, Unavailable,
     Repeat, Fail, TypeOK

THEOREM ReviewsAreKnown == Spec => []Inv
<1>1. Init => Inv
  BY DEF Init, Inv, ApartMeansApart, KnowsTheReviews, KnowsItsOwn, NoContradiction,
     NeverContradicts, Standing, Kinds
<1>2. TypeOK /\ Inv /\ [Next]_vars => Inv'
  <2> SUFFICES ASSUME TypeOK, Inv, [Next]_vars PROVE Inv'
    OBVIOUS
  <2>1. ASSUME NEW r \in Runs, RunStep(r) \/ Crash(r) PROVE Inv'
    BY <2>1, RunKeeps
  <2>2. ASSUME NEW r \in Runs, NEW w \in Kinds \cup {"none"}, Begin(r, w) PROVE Inv'
    <3>1. state' = state /\ last' = last /\ Standing' = Standing
      BY <2>2 DEF Begin, hostVars, Standing
    <3>2. \A s \in Runs : pc'[s] = IF s = r THEN "list" ELSE pc[s]
      BY <2>2 DEF Begin, TypeOK
    <3>3. \A s \in Runs : Apart(s)' => s = r \/ pc[s] = "idle"
      BY <2>2 DEF Begin, Apart, InFlight
    <3>4. \A s \in Runs : Apart(r)' /\ s # r => pc[s] = "idle"
      BY <2>2 DEF Begin, Apart, InFlight
    <3>5. before'[r] <= last'
      BY <2>2 DEF Begin, TypeOK, hostVars
    <3>6. ApartMeansApart'
      BY <3>2, <3>3, <3>4 DEF ApartMeansApart
    <3>7. KnowsTheReviews' /\ KnowsItsOwn'
      BY <3>2, <3>3, <3>5 DEF KnowsTheReviews, KnowsItsOwn, Apart
    <3> QED
      BY <3>1, <3>6, <3>7 DEF Inv, NoContradiction, NeverContradicts
  <2>3. ASSUME NEW i \in Ids, PersonDismisses(i) PROVE Inv'
    <3>1. /\ Standing' = Standing \ {i}
          /\ \A j \in Standing' : state'[j] = state[j]
      BY <2>3, DismissalTakesOne DEF PersonDismisses
    <3>2. pc' = pc /\ want' = want /\ kept' = kept /\ stale' = stale
      BY <2>3 DEF PersonDismisses, callVars
    <3>3. \A s \in Runs : ~alone'[s]
      BY <2>3 DEF PersonDismisses
    <3> QED
      BY <3>1, <3>2, <3>3 DEF Inv, ApartMeansApart, KnowsTheReviews, KnowsItsOwn,
         NoContradiction, NeverContradicts, Apart
  <2>4. CASE UNCHANGED vars
    BY <2>4 DEF vars, hostVars, callVars, ghosts, Inv, ApartMeansApart, KnowsTheReviews,
       KnowsItsOwn, NoContradiction, NeverContradicts, Apart, Standing
  <2> QED
    BY <2>1, <2>2, <2>3, <2>4 DEF Next
<1> QED
  BY <1>1, <1>2, TypeCorrect, PTL DEF Spec
-----------------------------------------------------------------------------
\* What a step of a run does to the kinds of verdict that stand: nothing, or it
\* takes back the last review of one kind, or it issues one where no other
\* kind stands.
LEMMA VerdictChanges ==
    ASSUME TypeOK, Inv, Serial, NEW r \in Runs, RunStep(r) \/ Crash(r)
    PROVE  \/ Verdicts' = Verdicts
           \/ Verdicts # {} /\ Verdicts' = {}
           \/ Verdicts = {} /\ \E v \in Kinds : Verdicts' = {v}
<1>1. \A i, j \in Standing : state[i] = state[j]
  BY DEF Inv, NoContradiction, NeverContradicts
<1>2. CASE UNCHANGED state
  BY <1>2 DEF Verdicts, Standing
<1>3. ASSUME NEW i, Dismissed(i)
      PROVE  Verdicts' = Verdicts \/ (Verdicts # {} /\ Verdicts' = {})
  <2>1. /\ Standing' = Standing \ {i}
        /\ \A j \in Standing' : state'[j] = state[j]
    BY <1>3, DismissalTakesOne
  <2>2. CASE Standing' = {}
    BY <2>2 DEF Verdicts
  <2>3. CASE Standing' # {}
    <3>1. PICK j \in Standing' : TRUE
      BY <2>3
    <3>2. Verdicts = {state[j]} /\ Verdicts' = {state[j]}
      BY <1>1, <2>1, <3>1 DEF Verdicts
    <3> QED
      BY <3>2
  <2> QED
    BY <2>2, <2>3
<1>4. ASSUME pc[r] = "post", Submitted(r)
      PROVE  Verdicts' = Verdicts \/ (Verdicts = {} /\ \E v \in Kinds : Verdicts' = {v})
  <2>1. want[r] \in Kinds /\ \A i \in Standing : state[i] = want[r]
    BY <1>4 DEF Inv, KnowsTheReviews, Apart
  <2>2. /\ Standing' = Standing \cup {last + 1}
        /\ state'[last + 1] = want[r]
        /\ \A j \in Standing' : j # last + 1 => state'[j] = state[j]
    BY <1>4, <2>1, SubmissionAddsOne
  <2>3. Verdicts' = {want[r]}
    BY <2>1, <2>2 DEF Verdicts
  <2>4. Verdicts = {} \/ Verdicts = {want[r]}
    BY <2>1 DEF Verdicts
  <2> QED
    BY <2>1, <2>3, <2>4
<1> QED
  BY <1>2, <1>3, <1>4 DEF RunStep, Crash, List, Dismiss, Post, Refused, Unavailable,
     Lost, hostVars

\* Runs that the workflow keeps apart implement the verdict store: one kind of
\* verdict at a time, the old one taken back before the new one is issued,
\* through every failure, repetition and crash and whatever persons dismiss.
THEOREM SerialRunsImplementTheStore ==
    ASSUME Serial
    PROVE  Spec => OneVerdictAtATime
<1> USE DEF Store!Kinds, Kinds
<1>1. Init => Store!Init
  BY DEF Init, Store!Init, Verdicts, Standing
<1>2. TypeOK /\ Inv /\ [Next]_vars => [Store!Next]_Verdicts
  <2> SUFFICES ASSUME TypeOK, Inv, [Next]_vars
               PROVE  Store!Next \/ Verdicts' = Verdicts
    OBVIOUS
  <2>1. ASSUME NEW r \in Runs, RunStep(r) \/ Crash(r)
        PROVE  Store!Next \/ Verdicts' = Verdicts
    BY <2>1, VerdictChanges DEF Store!Next, Store!Issue, Store!Withdraw
  <2>2. ASSUME NEW i \in Ids, PersonDismisses(i)
        PROVE  Store!Next \/ Verdicts' = Verdicts
    <3>1. /\ Standing' = Standing \ {i}
          /\ \A j \in Standing' : state'[j] = state[j]
      BY <2>2, DismissalTakesOne DEF PersonDismisses
    <3>2. \A j, k \in Standing : state[j] = state[k]
      BY DEF Inv, NoContradiction, NeverContradicts
    <3>3. CASE Standing' = {}
      BY <3>3 DEF Verdicts, Store!Next, Store!Withdraw
    <3>4. CASE Standing' # {}
      <4>1. PICK j \in Standing' : TRUE
        BY <3>4
      <4>2. Verdicts = {state[j]} /\ Verdicts' = {state[j]}
        BY <3>1, <3>2, <4>1 DEF Verdicts
      <4> QED
        BY <4>2
    <3> QED
      BY <3>3, <3>4
  <2>3. CASE UNCHANGED state
    BY <2>3 DEF Verdicts, Standing
  <2> QED
    BY <2>1, <2>2, <2>3 DEF Next, Begin, hostVars, vars
<1> QED
  BY <1>1, <1>2, TypeCorrect, ReviewsAreKnown, PTL DEF Spec, OneVerdictAtATime, Store!Spec

\* Whoever else ran before or overlaps elsewhere: a run that was alone on the
\* pull request and reports success leaves its verdict, once, and no other.
THEOREM SuccessSettles == Spec => SettlesOnItsVerdict
<1> DEFINE Settled(r) ==
      pc[r] # "idle" /\ alone[r] /\ outcome'[r] = "done" =>
        /\ Verdicts' = {want[r]} \ {"none"}
        /\ \A i, j \in Standing' : i # j => i > before[r] /\ j > before[r]
<1>1. ASSUME TypeOK, UnderWay, Inv, Next, NEW r \in Runs PROVE Settled(r)
  <2> SUFFICES ASSUME pc[r] # "idle", alone[r], outcome'[r] = "done"
               PROVE  /\ Verdicts' = {want[r]} \ {"none"}
                      /\ \A i, j \in Standing' : i # j => i > before[r] /\ j > before[r]
    OBVIOUS
  <2>1. /\ \A s \in Runs : pc[s] # "idle" => s = r
        /\ outcome[r] = "none"
        /\ Apart(r)
    BY <1>1 DEF Inv, ApartMeansApart, Apart, UnderWay
  <2>2. RunStep(r)
    <3>1. ~\E s \in Runs \ {r} : RunStep(s) \/ Crash(s)
      BY <2>1 DEF RunStep, Crash, List, Dismiss, Post, Refused, Unavailable, Lost
    <3>2. ~\E s \in Runs, w \in Kinds \cup {"none"} : Begin(s, w)
      BY <1>1, <2>1 DEF Begin, TypeOK
    <3>3. ~(\E i \in Ids : PersonDismisses(i)) /\ ~Crash(r)
      BY <1>1, <2>1 DEF PersonDismisses, Crash, Fail, callVars, TypeOK
    <3> QED
      BY <1>1, <3>1, <3>2, <3>3 DEF Next
  <2>3. CASE List(r)
    <3>1. PICK i \in {0} \cup Ids : Keeps(r, i) /\ Continue(r, i, Standing \ {i})
      BY <2>3 DEF List
    <3>2. Following(r, i, Standing \ {i}) = "idle"
      BY <1>1, <3>1 DEF Continue, TypeOK
    <3>3. Standing \subseteq {i} /\ (i = 0 => want[r] = "none")
      BY <3>2 DEF Following
    <3>4. i # 0 => i \in Standing /\ state[i] = want[r]
      BY <3>1 DEF Keeps, First, Wanted
    <3>5. 0 \notin Standing /\ state' = state
      BY <2>3 DEF Standing, Ids, List, hostVars
    <3>6. Standing' = Standing
      BY <3>5 DEF Standing
    <3> QED
      BY <3>3, <3>4, <3>5, <3>6 DEF Verdicts, Standing, Kinds
  <2>4. CASE Dismiss(r)
    <3>1. PICK i \in stale[r] :
            Dismissed(i) /\ Continue(r, kept[r], stale[r] \ {i})
      BY <2>4 DEF Dismiss
    <3>2. /\ Standing' = Standing \ {i}
          /\ \A j \in Standing' : state'[j] = state[j]
      BY <1>1, <3>1, DismissalTakesOne
    <3>3. Following(r, kept[r], stale[r] \ {i}) = "idle"
      BY <1>1, <3>1 DEF Continue, TypeOK
    <3>4. stale[r] \ {i} = {} /\ (kept[r] = 0 => want[r] = "none")
      BY <3>3 DEF Following
    <3>5. /\ Standing \subseteq stale[r] \cup {kept[r]}
          /\ kept[r] \notin stale[r]
          /\ kept[r] # 0 => kept[r] \in Standing /\ state[kept[r]] = want[r]
      BY <1>1, <2>1, <2>4 DEF Inv, KnowsTheReviews, KnowsItsOwn, Dismiss
    <3>6. 0 \notin Standing /\ \A j \in Standing : state[j] \in Kinds
      BY DEF Standing, Ids
    <3> QED
      BY <3>1, <3>2, <3>4, <3>5, <3>6 DEF Verdicts, Kinds
  <2>5. CASE Post(r)
    <3>1. /\ want[r] \in Kinds
          /\ \A i \in Standing : state[i] = want[r]
          /\ \A i \in Standing : i > before[r]
      BY <1>1, <2>1, <2>5 DEF Inv, KnowsTheReviews, KnowsItsOwn, Post
    <3>2. /\ Standing' = Standing \cup {last + 1}
          /\ state'[last + 1] = want[r]
          /\ \A j \in Standing' : j # last + 1 => state'[j] = state[j]
      BY <1>1, <2>5, <3>1, SubmissionAddsOne DEF Post
    <3>3. before[r] < last + 1
      BY <1>1, ReviewAssumption DEF Inv, KnowsItsOwn, TypeOK
    <3>4. Verdicts' = {want[r]}
      BY <3>1, <3>2 DEF Verdicts
    <3> QED
      BY <3>1, <3>2, <3>3, <3>4 DEF Kinds
  <2>6. ~(Refused(r) \/ Unavailable(r) \/ Lost(r))
    BY <1>1, <2>1 DEF Refused, Unavailable, Lost, Repeat, Fail, TypeOK
  <2> QED
    BY <2>2, <2>3, <2>4, <2>5, <2>6 DEF RunStep
<1>2. TypeOK /\ UnderWay /\ Inv /\ [Next]_vars => [\A r \in Runs : Settled(r)]_vars
  BY <1>1
<1> QED
  BY <1>2, TypeCorrect, ReviewsAreKnown, PTL DEF Spec, SettlesOnItsVerdict

\* A run nobody interferes with never takes back the last review that says
\* what it wants to say itself, however many others it tidies away.
THEOREM VerdictHolds == Spec => HoldsItsVerdict
<1> DEFINE Held(r) ==
      pc[r] # "idle" /\ alone[r] /\ alone'[r] /\ want[r] \in Verdicts
        => want[r] \in Verdicts'
<1>1. ASSUME TypeOK, UnderWay, Inv, Next, NEW r \in Runs PROVE Held(r)
  <2> SUFFICES ASSUME pc[r] # "idle", alone[r], alone'[r], want[r] \in Verdicts
               PROVE  want[r] \in Verdicts'
    OBVIOUS
  <2>1. /\ \A s \in Runs : pc[s] # "idle" => s = r
        /\ Apart(r)
    BY <1>1 DEF Inv, ApartMeansApart, Apart
  <2>2. CASE UNCHANGED state
    BY <2>2 DEF Verdicts, Standing
  <2>3. ASSUME pc[r] = "dismiss", NEW i \in stale[r], Dismissed(i)
        PROVE  want[r] \in Verdicts'
    <3>1. kept[r] \in Standing /\ state[kept[r]] = want[r] /\ kept[r] # i
      BY <1>1, <2>1, <2>3 DEF Inv, KnowsTheReviews, KnowsItsOwn, Verdicts
    <3>2. /\ Standing' = Standing \ {i}
          /\ \A j \in Standing' : state'[j] = state[j]
      BY <1>1, <2>3, DismissalTakesOne
    <3> QED
      BY <3>1, <3>2 DEF Verdicts
  <2>4. ASSUME pc[r] = "post", Submitted(r) PROVE want[r] \in Verdicts'
    BY <1>1, <2>4, SubmissionAddsOne DEF UnderWay, Verdicts
  <2>5. \/ UNCHANGED state
        \/ pc[r] = "dismiss" /\ \E i \in stale[r] : Dismissed(i)
        \/ pc[r] = "post" /\ Submitted(r)
    <3>1. ASSUME NEW s \in Runs, RunStep(s) \/ Crash(s)
          PROVE  \/ UNCHANGED state
                 \/ pc[s] = "dismiss" /\ \E i \in stale[s] : Dismissed(i)
                 \/ pc[s] = "post" /\ Submitted(s)
      BY <3>1 DEF RunStep, Crash, List, Dismiss, Post, Refused, Unavailable, Lost, hostVars
    <3>2. ASSUME NEW i \in Ids, PersonDismisses(i) PROVE FALSE
      BY <3>2 DEF PersonDismisses
    <3> QED
      BY <1>1, <2>1, <3>1, <3>2 DEF Next, Begin, hostVars
  <2> QED
    BY <2>2, <2>3, <2>4, <2>5
<1>2. TypeOK /\ UnderWay /\ Inv /\ [Next]_vars => [\A r \in Runs : Held(r)]_vars
  BY <1>1
<1> QED
  BY <1>2, TypeCorrect, ReviewsAreKnown, PTL DEF Spec, HoldsItsVerdict
-----------------------------------------------------------------------------
\* A step of a run that has the pull request to itself takes verdicts back, or
\* leaves its own as the only one.
LEMMA RunTakesBackOrSettles ==
    ASSUME TypeOK, Inv, NEW r \in Runs, Apart(r), RunStep(r) \/ Crash(r)
    PROVE  Verdicts' \subseteq Verdicts \/ Verdicts' = {want[r]}
<1>1. CASE UNCHANGED state
  BY <1>1 DEF Verdicts, Standing
<1>2. ASSUME NEW i, Dismissed(i) PROVE Verdicts' \subseteq Verdicts
  BY <1>2, DismissalTakesOne DEF Verdicts
<1>3. ASSUME pc[r] = "post", Submitted(r) PROVE Verdicts' = {want[r]}
  <2>1. want[r] \in Kinds /\ \A i \in Standing : state[i] = want[r]
    BY <1>3 DEF Inv, KnowsTheReviews
  <2>2. /\ Standing' = Standing \cup {last + 1}
        /\ state'[last + 1] = want[r]
        /\ \A j \in Standing' : j # last + 1 => state'[j] = state[j]
    BY <1>3, <2>1, SubmissionAddsOne
  <2> QED
    BY <2>1, <2>2 DEF Verdicts
<1> QED
  BY <1>1, <1>2, <1>3 DEF RunStep, Crash, List, Dismiss, Post, Refused, Unavailable, Lost,
     hostVars

\* While a run has the pull request to itself, only it and persons take steps.
LEMMA OnlyRunsAndPersons ==
    ASSUME TypeOK, Inv, Next, NEW r \in Runs, pc[r] # "idle", Apart(r)
    PROVE  \/ RunStep(r) \/ Crash(r)
           \/ \E i \in Ids : PersonDismisses(i)
           \/ UNCHANGED <<hostVars, pc, stale, tries>>
           \/ \E s \in Runs \ {r}, w \in Kinds \cup {"none"} : Begin(s, w)
<1>1. \A s \in Runs \ {r} : pc[s] = "idle"
  BY DEF Inv, ApartMeansApart
<1>2. ASSUME NEW s \in Runs \ {r} PROVE ~RunStep(s) /\ ~Crash(s)
  BY <1>1, <1>2 DEF RunStep, Crash, List, Dismiss, Post, Refused, Unavailable, Lost
<1> QED
  BY <1>2 DEF Next, Begin

\* Wherever a run that has the pull request to itself ends, a part of the old
\* verdicts stands, or its own alone: Report's SyncReview step.
THEOREM ReportMayRely == Spec => TakesBackOrSettles
<1>1. ASSUME TypeOK, Inv, Next, NEW r \in Runs, pc[r] # "idle", Serial \/ alone[r]
      PROVE  Verdicts' \subseteq Verdicts \/ Verdicts' = {want[r]}
  <2>1. Apart(r)
    BY <1>1 DEF Apart
  <2>2. CASE RunStep(r) \/ Crash(r)
    BY <1>1, <2>1, <2>2, RunTakesBackOrSettles
  <2>3. ASSUME NEW i \in Ids, PersonDismisses(i) PROVE Verdicts' \subseteq Verdicts
    BY <1>1, <2>3, DismissalTakesOne DEF PersonDismisses, Verdicts
  <2>4. CASE UNCHANGED hostVars
    BY <2>4 DEF hostVars, Verdicts, Standing
  <2> QED
    BY <1>1, <2>1, <2>2, <2>3, <2>4, OnlyRunsAndPersons DEF Begin
<1>2. TypeOK /\ Inv /\ [Next]_vars =>
        [\A r \in Runs : pc[r] # "idle" /\ (Serial \/ alone[r])
           => Verdicts' \subseteq Verdicts \/ Verdicts' = {want[r]}]_vars
  BY <1>1
<1> QED
  BY <1>2, TypeCorrect, ReviewsAreKnown, PTL DEF Spec, TakesBackOrSettles

-----------------------------------------------------------------------------
\* What a run nobody interferes with has submitted, it has submitted in attempts
\* at the call it is at.
FewSubmitted ==
    \A r \in Runs : alone[r] /\ pc[r] # "idle" =>
        last <= before[r] + (IF pc[r] = "post" THEN tries[r] ELSE 0)

LEMMA FewSubmittedStep ==
    ASSUME TypeOK, Inv, FewSubmitted, Next
    PROVE  /\ FewSubmitted'
           /\ \A r \in Runs : pc[r] # "idle" /\ alone[r] => last' <= before[r] + tries[r] + 1
<1> DEFINE Few(r) == alone[r] /\ pc[r] # "idle" =>
                       last <= before[r] + (IF pc[r] = "post" THEN tries[r] ELSE 0)
<1>0. /\ last \in Nat /\ \A r \in Runs : before[r] \in Nat /\ tries[r] \in Nat
      /\ MaxRetries \in Nat
  BY ReviewAssumption DEF TypeOK
<1>1. ASSUME NEW r \in Runs, RunStep(r) \/ Crash(r)
      PROVE  Few(r)' /\ (alone[r] => last' <= before[r] + tries[r] + 1)
  <2>1. pc[r] # "idle" /\ alone' = alone /\ before' = before
    BY <1>1 DEF RunStep, Crash, List, Dismiss, Post, Refused, Unavailable, Lost, Continue,
       Repeat, Fail, ghosts
  <2>2. CASE List(r) \/ Dismiss(r)
    <3>1. last' = last /\ pc[r] # "post" /\ tries'[r] = 0
      BY <2>2 DEF List, Dismiss, Continue, hostVars, TypeOK
    <3> QED
      BY <1>0, <2>1, <3>1 DEF FewSubmitted
  <2>3. CASE Post(r)
    <3>1. last' = last + 1 /\ pc[r] = "post" /\ pc'[r] = "idle"
      BY <2>3 DEF Post, Submitted, TypeOK
    <3> QED
      BY <1>0, <2>1, <3>1 DEF FewSubmitted
  <2>4. CASE Refused(r) \/ Crash(r)
    <3>1. last' = last /\ pc'[r] = "idle"
      BY <2>4 DEF Refused, Crash, Fail, hostVars, TypeOK
    <3> QED
      BY <1>0, <2>1, <3>1 DEF FewSubmitted
  <2>5. CASE Unavailable(r) \/ Lost(r)
    <3>1. \/ last' = last
          \/ last' = last + 1 /\ pc[r] = "post"
      BY <2>5 DEF Unavailable, Lost, Submitted, hostVars
    <3>2. \/ pc'[r] = pc[r] /\ tries'[r] = tries[r] + 1
          \/ pc'[r] = "idle"
      BY <2>5 DEF Unavailable, Lost, Repeat, Fail, TypeOK
    <3> QED
      BY <1>0, <2>1, <3>1, <3>2 DEF FewSubmitted
  <2> QED
    BY <1>1, <2>2, <2>3, <2>4, <2>5 DEF RunStep
<1>2. ASSUME NEW r \in Runs, alone[r], pc[r] # "idle"
      PROVE  last' <= before[r] + tries[r] + 1
  <2>1. CASE UNCHANGED last
    BY <1>0, <1>2, <2>1 DEF FewSubmitted
  <2> QED
    BY <1>1, <1>2, <2>1, OnlyRunsAndPersons DEF Apart, PersonDismisses, Begin, hostVars
<1>3. ASSUME NEW r \in Runs, NEW w \in Kinds \cup {"none"}, Begin(r, w)
      PROVE  FewSubmitted'
  <2>1. last' = last /\ before'[r] = last /\ pc'[r] = "list" /\ \A s \in Runs \ {r} : ~alone'[s]
    BY <1>3 DEF Begin, hostVars, TypeOK
  <2> QED
    BY <1>0, <2>1 DEF FewSubmitted
<1>4. ASSUME NEW i \in Ids, PersonDismisses(i) PROVE FewSubmitted'
  BY <1>4 DEF PersonDismisses, FewSubmitted
<1>5. ASSUME NEW r \in Runs, RunStep(r) \/ Crash(r) PROVE FewSubmitted'
  <2>1. pc[r] # "idle" /\ \A s \in Runs \ {r} : pc'[s] = pc[s]
    BY <1>5 DEF RunStep, Crash, List, Dismiss, Post, Refused, Unavailable, Lost, Continue,
       Repeat, Fail, TypeOK
  <2>2. alone' = alone
    BY <1>5 DEF RunStep, Crash, List, Dismiss, Post, Refused, Unavailable, Lost, Continue,
       Repeat, Fail, ghosts
  <2>3. \A s \in Runs \ {r} : alone'[s] => pc'[s] = "idle"
    BY <2>1, <2>2 DEF Inv, ApartMeansApart, Apart
  <2>4. Few(r)'
    BY <1>1, <1>5
  <2> QED
    BY <2>3, <2>4 DEF FewSubmitted
<1> QED
  BY <1>2, <1>3, <1>4, <1>5 DEF Next

\* A run nobody interferes with leaves no more reviews than it has made attempts
\* at submitting one.
THEOREM SubmissionsAreAttempts == Spec => NoMoreThanAttempts
<1>1. Init => FewSubmitted
  BY DEF Init, FewSubmitted
<1>2. TypeOK /\ Inv /\ FewSubmitted /\ [Next]_vars => FewSubmitted'
  BY FewSubmittedStep DEF vars, hostVars, callVars, ghosts, FewSubmitted
<1>3. TypeOK /\ Inv /\ FewSubmitted /\ [Next]_vars =>
        [\A r \in Runs : pc[r] # "idle" /\ alone[r] => last' <= before[r] + tries[r] + 1]_vars
  BY FewSubmittedStep
<1> QED
  BY <1>1, <1>2, <1>3, TypeCorrect, ReviewsAreKnown, PTL DEF Spec, NoMoreThanAttempts
-----------------------------------------------------------------------------
(* The safety half of RunEnds.                                             *)

\* The reviews a run has to dismiss can be counted, and there are no more than
\* there are reviews; dismissing one leaves one less.
LEMMA StaleIsCounted ==
    ASSUME NEW S \in SUBSET Ids
    PROVE  /\ Cardinality(S) \in 0..MaxReviews
           /\ \A i \in S : Cardinality(S \ {i}) = Cardinality(S) - 1
           /\ S # {} => Cardinality(S) > 0
<1>1. IsFiniteSet(Ids) /\ Cardinality(Ids) = MaxReviews
  BY ReviewAssumption, FS_Interval DEF Ids
<1>2. IsFiniteSet(S) /\ Cardinality(S) <= MaxReviews /\ Cardinality(S) \in Nat
  BY <1>1, FS_Subset, FS_CardinalityType
<1>3. \A i \in S : Cardinality(S \ {i}) = Cardinality(S) - 1
  BY <1>2, FS_RemoveElement
<1>4. S # {} => Cardinality(S) # 0
  BY <1>2, FS_EmptySet
<1> QED
  BY <1>2, <1>3, <1>4, ReviewAssumption

\* A run's own step makes a call fewer, or repeats the present one once more.
LEMMA StepsCount ==
    ASSUME TypeOK, NEW r \in Runs, RunStep(r) \/ Crash(r)
    PROVE  \/ CallsLeft(r)' < CallsLeft(r)
           \/ CallsLeft(r)' = CallsLeft(r) /\ tries'[r] > tries[r]
<1>0. /\ stale[r] \in SUBSET Ids /\ Standing \in SUBSET Ids
      /\ tries[r] \in Nat /\ MaxReviews \in Nat /\ pc[r] \in Stages
  BY ReviewAssumption DEF TypeOK, Standing
<1>1. pc[r] # "idle" /\ Cardinality(stale[r]) \in Nat
  BY <1>0, StaleIsCounted
  DEF RunStep, Crash, List, Dismiss, Post, Refused, Unavailable, Lost
<1>2. CallsLeft(r) \in Nat \ {0}
  BY <1>0, <1>1 DEF CallsLeft, Stages
<1>3. CASE pc'[r] = "idle"
  <2>1. CallsLeft(r)' = 0
    BY <1>3 DEF CallsLeft
  <2> QED
    BY <1>2, <1>3, <2>1
<1>4. CASE List(r) /\ pc'[r] # "idle"
  <2>1. PICK i \in {0} \cup Ids : Continue(r, i, Standing \ {i})
    BY <1>4 DEF List
  <2>2. pc'[r] \in {"dismiss", "post"} /\ stale'[r] = Standing \ {i}
    BY <1>4, <2>1 DEF Continue, Following, TypeOK
  <2>3. Cardinality(stale'[r]) <= MaxReviews /\ Cardinality(stale'[r]) \in Nat
    BY <1>0, <2>2, StaleIsCounted
  <2> QED
    BY <1>0, <1>4, <2>2, <2>3 DEF CallsLeft, List
<1>5. CASE Dismiss(r) /\ pc'[r] # "idle"
  <2>1. PICK i \in stale[r] : Continue(r, kept[r], stale[r] \ {i})
    BY <1>5 DEF Dismiss
  <2>2. pc'[r] \in {"dismiss", "post"} /\ stale'[r] = stale[r] \ {i}
    BY <1>5, <2>1 DEF Continue, Following, TypeOK
  <2>3. Cardinality(stale'[r]) = Cardinality(stale[r]) - 1 /\ Cardinality(stale[r]) > 0
    BY <1>0, <2>1, <2>2, StaleIsCounted
  <2> QED
    BY <1>1, <1>5, <2>2, <2>3 DEF CallsLeft, Dismiss
<1>6. CASE UNCHANGED <<pc, stale>> /\ tries'[r] = tries[r] + 1
  BY <1>0, <1>6 DEF CallsLeft
<1>7. CASE Repeat(r)
  <2>1. CASE Fail(r)
    BY <1>3, <2>1 DEF Fail, TypeOK
  <2> QED
    BY <1>6, <1>7, <2>1 DEF Repeat, TypeOK
<1> QED
  BY <1>3, <1>4, <1>5, <1>7 DEF RunStep, Crash, Post, Refused, Unavailable, Lost, Fail, TypeOK,
     List, Dismiss

\* Every step of a run uses up one of finitely many calls or repetitions, and no
\* step of anybody else gives it more to do.  What is left of RunEnds is that a
\* run that has started takes its next step.
THEOREM RunsGetOn == Spec => RunGetsOn
<1> DEFINE On(r) ==
      pc[r] # "idle" =>
        \/ CallsLeft(r)' < CallsLeft(r)
        \/ CallsLeft(r)' = CallsLeft(r) /\ tries'[r] > tries[r]
        \/ UNCHANGED <<pc[r], stale[r], tries[r]>> /\ ~RunStep(r)
<1>1. ASSUME TypeOK, Next, NEW r \in Runs, pc[r] # "idle" PROVE On(r)
  <2>1. CASE RunStep(r) \/ Crash(r)
    BY <1>1, <2>1, StepsCount
  <2>2. ASSUME ~RunStep(r), ~Crash(r) PROVE UNCHANGED <<pc[r], stale[r], tries[r]>>
    <3>1. ASSUME NEW s \in Runs \ {r}, RunStep(s) \/ Crash(s)
          PROVE  UNCHANGED <<pc[r], stale[r], tries[r]>>
      BY <1>1, <3>1 DEF RunStep, Crash, List, Dismiss, Post, Refused, Unavailable, Lost,
         Continue, Repeat, Fail, TypeOK
    <3>2. ASSUME NEW s \in Runs, NEW w \in Kinds \cup {"none"}, Begin(s, w)
          PROVE  UNCHANGED <<pc[r], stale[r], tries[r]>>
      BY <1>1, <3>2 DEF Begin, TypeOK
    <3>3. ASSUME NEW i \in Ids, PersonDismisses(i)
          PROVE  UNCHANGED <<pc[r], stale[r], tries[r]>>
      BY <3>3 DEF PersonDismisses, callVars
    <3> QED
      BY <1>1, <2>2, <3>1, <3>2, <3>3 DEF Next
  <2> QED
    BY <2>1, <2>2
<1>2. TypeOK /\ [Next]_vars => [\A r \in Runs : On(r)]_vars
  BY <1>1
<1> QED
  BY <1>2, TypeCorrect, PTL DEF Spec, RunGetsOn
=============================================================================

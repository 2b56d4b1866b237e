--------------------------- MODULE HostClientProofs ---------------------------
(***************************************************************************)
(* What holds of the client for any number of retries, pages and polls and *)
(* any delays a host may ask for: a call is what HostCall says of it, a    *)
(* rate-limited host is left alone for the seconds it has asked for, lists *)
(* are whole, and patience is bounded; every step brings the operation     *)
(* nearer its end.                                                         *)
(***************************************************************************)
EXTENDS HostClient, TLAPS

USE HostClientAssumption

-----------------------------------------------------------------------------
(* Arithmetic.                                                             *)

\* How long an operation may have slept after c answered calls and t failed
\* attempts of the present one.
Budget(t, c) == MaxWait * (t + c * (MaxRetries + 1))

LEMMA Distributes ==
  ASSUME NEW a \in Nat, NEW b \in Nat, NEW c \in Nat
  PROVE  a * (b + c) = a * b + a * c /\ a * b \in Nat
  OBVIOUS

LEMMA BudgetGrows ==
  ASSUME NEW t \in Nat, NEW c \in Nat
  PROVE  /\ Budget(t, c) \in Nat
         /\ Budget(t + 1, c) = Budget(t, c) + MaxWait
         /\ t <= MaxRetries => Budget(t, c) + MaxWait <= Budget(0, c + 1)
         /\ Budget(t, c) + MaxWait <= Budget(t, c + 1)
<1> DEFINE x == c * (MaxRetries + 1)
<1>1. x \in Nat
  BY Distributes
<1>2. (c + 1) * (MaxRetries + 1) = x + MaxRetries + 1
  OBVIOUS
<1> HIDE DEF x
<1>3. \A y \in Nat : MaxWait * y \in Nat /\ MaxWait * (y + 1) = MaxWait * y + MaxWait
  OBVIOUS
<1>4. \A y, z \in Nat : y <= z => MaxWait * y <= MaxWait * z
  <2>1. ASSUME NEW y \in Nat, NEW z \in Nat, y <= z PROVE MaxWait * y <= MaxWait * z
    <3>1. z - y \in Nat /\ z = y + (z - y)
      BY <2>1
    <3>2. MaxWait * z = MaxWait * y + MaxWait * (z - y)
      BY <3>1, Distributes
    <3>3. MaxWait * (z - y) \in Nat /\ MaxWait * y \in Nat
      BY <3>1, <1>3
    <3>4. QED
      BY <3>2, <3>3
  <2>2. QED
    BY <2>1
<1>5. Budget(t, c) = MaxWait * (t + x) /\ Budget(t + 1, c) = MaxWait * (t + 1 + x)
  BY DEF Budget, x
<1>6. /\ Budget(t, c + 1) = MaxWait * (t + (x + MaxRetries + 1))
      /\ Budget(0, c + 1) = MaxWait * (0 + (x + MaxRetries + 1))
  BY <1>2 DEF Budget
<1>7. Budget(t, c) \in Nat /\ Budget(t, c) + MaxWait = MaxWait * (t + x + 1)
  BY <1>1, <1>3, <1>5
<1>8. t + 1 + x = t + x + 1
  BY <1>1
<1>9. t + x + 1 <= t + (x + MaxRetries + 1) /\ (t <= MaxRetries => t + x + 1 <= 0 + (x + MaxRetries + 1))
  BY <1>1
<1>10. t + x + 1 \in Nat /\ t + (x + MaxRetries + 1) \in Nat /\ 0 + (x + MaxRetries + 1) \in Nat
  BY <1>1
<1>11. QED
  BY <1>4, <1>5, <1>6, <1>7, <1>8, <1>9, <1>10

-----------------------------------------------------------------------------
(* The inductive invariant.                                                *)

\* How many answers and attempts an operation can have seen at each point.
Counts ==
    /\ pc \in {"send", "sleep"} =>
         /\ works <= tries
         /\ op = "call" => count = 0
         /\ op = "list" => count < MaxPages
         /\ op = "poll" => count <= MaxPolls
    /\ pc \in {"answered", "pause"} => count > 0
    /\ pc = "pause" => op = "poll" /\ count <= MaxPolls

Patient ==
    /\ pc = "answered" => waited + wait <= Budget(tries, count - 1)
    /\ pc = "pause" => waited + wait <= Budget(tries, count - 1) + MaxWait
    /\ pc \notin {"answered", "pause"} => waited + wait <= Budget(tries, count)

Obedient ==
    /\ pc = "sleep" => wait >= 1
    /\ heard =>
         /\ pc \in {"send", "answered", "pause"} => waited >= notBefore
         /\ pc = "sleep" => waited + wait >= notBefore

Inv == TypeOK /\ Counts /\ Patient /\ Obedient /\ WholeLists

LEMMA BackoffType ==
  ASSUME NEW n \in 0..(MaxRetries + MaxPolls)
  PROVE  Backoff(n) \in 1..MaxWait
  BY DEF Backoff

LEMMA AfterType ==
  ASSUME NEW after \in After, after # <<>>
  PROVE  after[2] \in Nat
  BY DEF After

\* What is asked for in a form the client reads is what it waits for.
LEMMA LimitType ==
  ASSUME NEW l \in Limits
  PROVE  /\ Asked(l) \in Nat /\ RateLimitWait(l) \in Nat \ {0}
         /\ l.after = <<>> \/ Legible(l.after) => RateLimitWait(l) >= Asked(l)
<1>1. l.after \in After /\ l.reset \in Reset
  BY DEF Limits
<1>2. l.after # <<>> => l.after[2] \in Nat
  BY <1>1, AfterType
<1>3. l.reset # <<>> => l.reset[1] \in Nat
  BY <1>1 DEF Reset
<1>4. Asked(l) \in Nat /\ Heeded(l) \in Nat
  BY <1>2, <1>3 DEF Asked, Heeded, Legible
<1>5. l.after = <<>> \/ Legible(l.after) => Heeded(l) = Asked(l)
  BY DEF Asked, Heeded, Legible
<1>6. QED
  BY <1>4, <1>5 DEF RateLimitWait

LEMMA InitInv == Init => Inv
<1>1. SUFFICES ASSUME Init PROVE Inv
  OBVIOUS
<1>2. TypeOK
  <2>1. 0 \in 0..MaxRetries /\ 0 \in 0..MaxWait /\ 0 \in 0..MaxCalls /\ 0 \in 0..(MaxRetries + 1)
    BY DEF MaxCalls
  <2>2. QED
    BY <1>1, <2>1 DEF Init, TypeOK, Ops, Resting
<1>3. Counts /\ Obedient /\ WholeLists
  BY <1>1 DEF Init, Counts, Obedient, WholeLists
<1>4. Patient
  BY <1>1, BudgetGrows DEF Init, Patient
<1>5. QED
  BY <1>2, <1>3, <1>4 DEF Inv

LEMMA BudgetIsANumber ==
  ASSUME Inv
  PROVE  /\ tries \in Nat /\ count \in Nat /\ waited \in Nat /\ wait \in 0..MaxWait
         /\ Budget(tries, count) \in Nat
<1>1. tries \in 0..MaxRetries /\ count \in 0..MaxCalls /\ waited \in Nat /\ wait \in 0..MaxWait
  BY DEF Inv, TypeOK
<1>2. tries \in Nat /\ count \in Nat
  BY <1>1 DEF MaxCalls
<1>3. QED
  BY <1>1, <1>2, BudgetGrows

-----------------------------------------------------------------------------
(* Steps.                                                                  *)

\* However a call fails, what was counted stays.
LEMMA FailKeeps ==
  ASSUME Inv, pc \in {"send", "sleep"}, Fail, works' \in {works, works + 1},
         UNCHANGED waited, notBefore' \in Nat, heard' \in BOOLEAN
  PROVE  Inv'
<1>t. TypeOK /\ works <= tries
  BY DEF Inv, Counts
<1>1. TypeOK'
  BY <1>t DEF Fail, TypeOK, Resting
<1>2. Counts' /\ Obedient' /\ WholeLists'
  BY DEF Fail, Counts, Obedient, WholeLists
<1>3. Patient'
  BY DEF Fail, Inv, Patient, Budget
<1>4. QED
  BY <1>1, <1>2, <1>3 DEF Inv

LEMMA SleepKeeps ==
  ASSUME Inv, pc = "send", NEW secs \in 1..MaxWait, tries < MaxRetries, Sleep(secs),
         works' \in {works, works + 1}, UNCHANGED waited,
         notBefore' \in Nat, heard' \in BOOLEAN, heard' => waited + secs >= notBefore'
  PROVE  Inv'
<1>t. TypeOK /\ Counts
  BY DEF Inv
<1>1. TypeOK'
  BY <1>t DEF Sleep, TypeOK, Busy, Counts
<1>2. Counts' /\ Obedient' /\ WholeLists'
  BY <1>t DEF Sleep, TypeOK, Counts, Obedient, WholeLists
<1>3. Patient'
  <2>1. waited + wait <= Budget(tries, count)
    BY DEF Inv, Patient
  <2>2. Budget(tries, count) \in Nat /\ Budget(tries + 1, count) = Budget(tries, count) + MaxWait
    BY BudgetIsANumber, BudgetGrows
  <2>3. waited + secs <= Budget(tries + 1, count)
    BY <2>1, <2>2, BudgetIsANumber
  <2>4. QED
    BY <2>3 DEF Sleep, Patient
<1>4. QED
  BY <1>1, <1>2, <1>3 DEF Inv

LEMMA RepeatKeeps ==
  ASSUME Inv, pc = "send", NEW secs \in 1..MaxWait, Repeat(secs),
         works' \in {works, works + 1}, UNCHANGED waited,
         notBefore' \in Nat, heard' \in BOOLEAN, heard' => waited + secs >= notBefore'
  PROVE  Inv'
  BY FailKeeps, SleepKeeps DEF Repeat

LEMMA RestKeeps ==
  ASSUME Inv, pc = "answered", NEW how \in {"done", "abandoned"}, Rest(how),
         how = "done" /\ op = "list" => answer = "end"
  PROVE  Inv'
<1>t. TypeOK
  BY DEF Inv
<1>1. TypeOK'
  BY <1>t DEF Rest, TypeOK, Resting, ghosts
<1>2. Counts' /\ Obedient' /\ WholeLists'
  BY DEF Rest, Counts, Obedient, WholeLists
<1>3. Patient'
  <2>1. waited + wait <= Budget(tries, count - 1) /\ count - 1 \in Nat
    BY <1>t DEF Inv, Patient, Counts, TypeOK
  <2>2. Budget(tries, count - 1) \in Nat /\ Budget(tries, count - 1) + MaxWait <= Budget(tries, count - 1 + 1)
    BY <2>1, BudgetGrows, BudgetIsANumber
  <2>3. waited + wait <= Budget(tries, count) /\ count - 1 + 1 = count
    BY <2>1, <2>2, BudgetIsANumber
  <2>4. QED
    BY <2>3 DEF Rest, Patient, ghosts, Budget
<1>4. QED
  BY <1>1, <1>2, <1>3 DEF Inv

LEMMA SucceedKeeps ==
  ASSUME Inv, NEW next \in {"end", "next", "foreign"}, Succeed(next)
  PROVE  Inv'
<1>t. TypeOK /\ Counts /\ pc = "send"
  BY DEF Inv, Succeed
<1>c. count \in Nat /\ count + 1 \in 0..MaxCalls
  BY <1>t DEF TypeOK, Counts, Ops, MaxCalls
<1>1. TypeOK'
  BY <1>t, <1>c DEF Succeed, TypeOK, Busy, Counts
<1>2. Counts' /\ Obedient' /\ WholeLists'
  BY <1>c DEF Succeed, Inv, Counts, Obedient, WholeLists
<1>3. Patient'
  <2>1. waited + wait <= Budget(tries, count)
    BY <1>t DEF Inv, Patient
  <2>2. pc' = "answered" /\ tries' = tries /\ count' - 1 = count /\ waited' = waited /\ wait' = wait
    BY <1>c DEF Succeed
  <2>3. Budget(tries', count' - 1) = Budget(tries, count)
    BY <2>2
  <2>4. QED
    BY <2>1, <2>2, <2>3 DEF Patient
<1>4. QED
  BY <1>1, <1>2, <1>3 DEF Inv

LEMMA AttemptKeeps ==
  ASSUME Inv
  PROVE  /\ Garbled \/ Unavailable \/ Refused => Inv'
         /\ \A l \in Limits : Limited(l) => Inv'
<1>t. /\ tries \in 0..MaxRetries /\ notBefore \in Nat /\ waited \in Nat /\ wait \in Nat
      /\ heard \in BOOLEAN
      /\ (pc = "send" /\ heard => waited >= notBefore)
  BY DEF Inv, TypeOK, Obedient
<1>1. ASSUME Garbled \/ Refused PROVE Inv'
  BY <1>1, <1>t, FailKeeps DEF Garbled, Refused, ghosts
<1>2. ASSUME Unavailable PROVE Inv'
  <2>1. Backoff(tries) \in 1..MaxWait
    BY <1>t, BackoffType
  <2>2. \/ notBefore' = notBefore /\ heard' = heard
        \/ notBefore' \in Nat /\ heard' = FALSE
    <3>1. PICK after \in After :
            IF after = <<>> THEN UNCHANGED <<notBefore, heard>>
            ELSE notBefore' = waited + after[2] /\ heard' = FALSE
      BY <1>2 DEF Unavailable
    <3>2. QED
      BY <1>t, <3>1, AfterType
  <2>3. heard' => waited + Backoff(tries) >= notBefore'
    <3>1. waited >= notBefore => waited + Backoff(tries) >= notBefore
      BY <1>t, <2>1
    <3>2. heard => waited >= notBefore
      BY <1>2, <1>t DEF Unavailable
    <3>3. QED
      BY <2>2, <3>1, <3>2, Zenon
  <2>4. /\ pc = "send" /\ Repeat(Backoff(tries)) /\ works' \in {works, works + 1} /\ UNCHANGED waited
        /\ notBefore' \in Nat /\ heard' \in BOOLEAN
    BY <1>2, <1>t, <2>2 DEF Unavailable
  <2>5. QED
    BY <2>1, <2>3, <2>4, RepeatKeeps
<1>3. ASSUME NEW l \in Limits, Limited(l) PROVE Inv'
  <2>1. /\ Asked(l) \in Nat /\ RateLimitWait(l) \in Nat \ {0}
        /\ l.after = <<>> \/ Legible(l.after) => RateLimitWait(l) >= Asked(l)
    BY LimitType
  <2>2. CASE /\ RateLimitWait(l) <= MaxWait /\ Repeat(RateLimitWait(l))
             /\ notBefore' = waited + Asked(l) /\ heard' = (l.after = <<>> \/ Legible(l.after))
    <3>1. RateLimitWait(l) \in 1..MaxWait /\ notBefore' \in Nat
      BY <1>t, <2>1, <2>2
    <3>2. heard' \in BOOLEAN
      BY <2>2 DEF Legible
    <3>3. heard' => waited + RateLimitWait(l) >= notBefore'
      <4>1. RateLimitWait(l) >= Asked(l) => waited + RateLimitWait(l) >= notBefore'
        BY <1>t, <2>1, <2>2
      <4>2. QED
        BY <2>1, <2>2, <4>1, Zenon
    <3>4. QED
      BY <1>3, <2>2, <3>1, <3>2, <3>3, RepeatKeeps DEF Limited
  <2>3. CASE Fail /\ UNCHANGED <<notBefore, heard>>
    BY <1>3, <1>t, <2>3, FailKeeps DEF Limited
  <2>4. QED
    BY <1>3, <2>2, <2>3 DEF Limited
<1>4. QED
  BY <1>1, <1>2, <1>3

LEMMA WakeKeeps ==
  ASSUME Inv, Wake
  PROVE  Inv'
<1>t. TypeOK /\ Counts /\ Obedient /\ Patient
  BY DEF Inv
<1>n. tries \in Nat /\ count \in Nat /\ waited \in Nat /\ wait \in 0..MaxWait
  BY BudgetIsANumber
<1>1. CASE pc = "sleep"
  <2>1. TypeOK'
    BY <1>1, <1>t, <1>n DEF Wake, TypeOK, Busy
  <2>2. Counts' /\ Obedient' /\ WholeLists'
    BY <1>1, <1>t, <1>n DEF Wake, TypeOK, Counts, Obedient, WholeLists
  <2>3. Patient'
    BY <1>1, <1>t, <1>n DEF Wake, Patient, Budget
  <2>4. QED
    BY <2>1, <2>2, <2>3 DEF Inv
<1>2. CASE pc = "pause"
  <2>1. TypeOK'
    BY <1>2, <1>t, <1>n DEF Wake, TypeOK, Busy
  <2>2. Counts' /\ Obedient' /\ WholeLists'
    BY <1>2, <1>t, <1>n DEF Wake, Inv, TypeOK, Counts, Obedient, WholeLists
  <2>3. Patient'
    <3>1. waited + wait <= Budget(tries, count - 1) + MaxWait /\ count - 1 \in Nat /\ tries <= MaxRetries
      BY <1>2, <1>t, <1>n DEF Patient, Counts, TypeOK
    <3>2. /\ Budget(tries, count - 1) \in Nat /\ Budget(0, count) \in Nat /\ count - 1 + 1 = count
          /\ Budget(tries, count - 1) + MaxWait <= Budget(0, count - 1 + 1)
      BY <1>n, <3>1, BudgetGrows
    <3>3. waited + wait <= Budget(0, count)
      BY <1>n, <3>1, <3>2
    <3>4. QED
      BY <1>2, <1>n, <3>3 DEF Wake, Patient, Budget
  <2>4. QED
    BY <2>1, <2>2, <2>3 DEF Inv
<1>3. QED
  BY <1>1, <1>2 DEF Wake

LEMMA TurnKeeps ==
  ASSUME Inv, Turn
  PROVE  Inv'
<1>t. TypeOK /\ Counts /\ Obedient /\ Patient /\ pc = "answered"
  BY DEF Inv, Turn
<1>n. tries \in Nat /\ tries <= MaxRetries /\ count \in Nat /\ count > 0 /\ count - 1 \in Nat
      /\ waited \in Nat /\ wait \in 0..MaxWait
  BY <1>t, BudgetIsANumber DEF Counts, TypeOK
<1>b. /\ waited + wait <= Budget(tries, count - 1) /\ Budget(tries, count - 1) \in Nat
      /\ Budget(tries, count - 1) + MaxWait <= Budget(0, count)
      /\ Budget(0, count) \in Nat
  <2>1. count - 1 + 1 = count
    BY <1>n
  <2>2. Budget(0, count) \in Nat
    BY <1>n, BudgetGrows
  <2>3. QED
    BY <1>t, <1>n, <2>1, <2>2, BudgetGrows DEF Patient
<1>1. CASE answer = "end" /\ Rest("done")
  BY <1>t, <1>1, RestKeeps
<1>2. CASE NextPage
  <2>1. CASE Rest(Unlisted)
    BY <1>t, <2>1, RestKeeps DEF Unlisted
  <2>2. ASSUME pc' = "send", tries' = 0, works' = 0, count < MaxPages, op = "list",
               UNCHANGED <<host, op, wait, count, answer, cancelled, waited, notBefore, heard>>
        PROVE  Inv'
    <3>1. TypeOK'
      BY <1>t, <2>2 DEF TypeOK, Busy
    <3>2. Counts' /\ Obedient' /\ WholeLists'
      BY <1>t, <2>2 DEF Counts, Obedient, WholeLists
    <3>3. waited + wait <= Budget(0, count)
      BY <1>n, <1>b
    <3>4. Patient'
      BY <2>2, <3>3 DEF Patient, Budget
    <3>5. QED
      BY <3>1, <3>2, <3>4 DEF Inv
  <2>3. QED
    BY <1>2, <2>1, <2>2 DEF NextPage
<1>3. CASE NextPoll
  <2>1. CASE Rest("done")
    BY <1>t, <1>3, <2>1, RestKeeps DEF NextPoll
  <2>2. CASE count <= MaxPolls /\ Pause
    <3>1. Backoff(count - 1) \in 1..MaxWait
      <4>1. count - 1 \in 0..(MaxRetries + MaxPolls)
        BY <1>n, <2>2
      <4>2. QED
        BY <4>1, BackoffType
    <3>2. TypeOK'
      BY <1>t, <2>2, <3>1 DEF Pause, TypeOK, Busy, ghosts
    <3>3. Counts' /\ Obedient' /\ WholeLists'
      BY <1>3, <1>t, <2>2 DEF NextPoll, Pause, Counts, Obedient, WholeLists, ghosts
    <3>4. waited + Backoff(count - 1) <= Budget(tries, count - 1) + MaxWait
      BY <1>n, <1>b, <3>1
    <3>5. Patient'
      BY <2>2, <3>4 DEF Pause, Patient, Budget, ghosts
    <3>6. QED
      BY <3>2, <3>3, <3>5 DEF Inv
  <2>3. QED
    BY <1>3, <2>1, <2>2 DEF NextPoll
<1>4. QED
  BY <1>1, <1>2, <1>3 DEF Turn

LEMMA EndsKeep ==
  ASSUME Inv, Cancel \/ Restart \/ GiveUp \/ (\E o \in Ops : Begin(o))
  PROVE  Inv'
<1>t. TypeOK /\ Counts /\ Obedient /\ Patient /\ WholeLists
  BY DEF Inv
<1>n. tries \in Nat /\ count \in Nat /\ waited \in Nat /\ wait \in 0..MaxWait
  BY BudgetIsANumber
<1>1. CASE Cancel \/ Restart
  <2>1. TypeOK'
    BY <1>1, <1>t DEF Cancel, Restart, TypeOK, ghosts
  <2>2. Counts' /\ Obedient' /\ WholeLists' /\ Patient'
    BY <1>1, <1>t DEF Cancel, Restart, Counts, Obedient, WholeLists, Patient, Budget, ghosts
  <2>3. QED
    BY <2>1, <2>2 DEF Inv
<1>2. CASE GiveUp
  <2>1. TypeOK'
    BY <1>2, <1>t DEF GiveUp, TypeOK, Resting, Counts
  <2>2. Counts' /\ Obedient' /\ WholeLists'
    BY <1>2 DEF GiveUp, Counts, Obedient, WholeLists
  <2>3. waited + wait <= Budget(tries, count)
    <3>1. CASE pc = "pause"
      <4>1. count - 1 \in Nat /\ count - 1 + 1 = count
        BY <1>t, <1>n, <3>1 DEF Counts
      <4>2. Budget(tries, count - 1) \in Nat /\ Budget(tries, count - 1) + MaxWait <= Budget(tries, count)
        BY <1>n, <4>1, BudgetGrows
      <4>3. QED
        BY <1>t, <1>n, <3>1, <4>2, BudgetIsANumber DEF Patient
    <3>2. CASE pc # "pause"
      BY <1>2, <1>t, <3>2 DEF GiveUp, Patient
    <3>3. QED
      BY <3>1, <3>2
  <2>4. Patient'
    BY <1>2, <2>3 DEF GiveUp, Patient, Budget
  <2>5. QED
    BY <2>1, <2>2, <2>4 DEF Inv
<1>3. ASSUME NEW o \in Ops, Begin(o) PROVE Inv'
  <2>1. 0 \in 0..MaxRetries /\ 0 \in 0..MaxWait /\ 0 \in 0..MaxCalls /\ 0 \in 0..(MaxRetries + 1)
    BY DEF MaxCalls
  <2>2. TypeOK'
    BY <1>3, <1>t, <2>1 DEF Begin, TypeOK, Busy
  <2>3. Counts' /\ Obedient' /\ WholeLists'
    BY <1>3 DEF Begin, Counts, Obedient, WholeLists
  <2>4. 0 + 0 <= Budget(0, 0)
    BY BudgetGrows
  <2>5. Patient'
    BY <1>3, <2>4 DEF Begin, Patient, Budget
  <2>6. QED
    BY <2>2, <2>3, <2>5 DEF Inv
<1>4. QED
  BY <1>1, <1>2, <1>3

LEMMA NextInv == Inv /\ [Next]_vars => Inv'
<1>1. ASSUME Inv, Next PROVE Inv'
  BY <1>1, SucceedKeeps, AttemptKeeps, WakeKeeps, TurnKeeps, EndsKeep DEF Next, ClientStep
<1>2. ASSUME Inv, UNCHANGED vars PROVE Inv'
  BY <1>2 DEF vars, clientVars, ghosts, Inv, TypeOK, Counts, Patient, Obedient, WholeLists, Budget
<1>3. QED
  BY <1>1, <1>2

LEMMA InvHolds == Spec => []Inv
  BY InitInv, NextInv, PTL DEF Spec

\* The types of the client's state.
THEOREM TypeCorrect == Spec => []TypeOK
<1>1. Inv => TypeOK
  BY DEF Inv
<1>2. QED
  BY <1>1, InvHolds, PTL

\* No attempt is repeated within a second, nor, after a rate limit, before the
\* time the host has asked for in seconds or by its reset.
THEOREM HostIsLeftAlone == Spec => []NotBeforeAsked
<1>1. Inv => NotBeforeAsked
  BY DEF Inv, Obedient, NotBeforeAsked
<1>2. QED
  BY <1>1, InvHolds, PTL

\* What is returned as a list is all of it.
THEOREM ListsAreWhole == Spec => []WholeLists
<1>1. Inv => WholeLists
  BY DEF Inv
<1>2. QED
  BY <1>1, InvHolds, PTL

\* The time an operation sleeps is bounded by the calls it has made.
THEOREM PatienceEnds == Spec => []PatienceIsBounded
<1>1. ASSUME Inv PROVE PatienceIsBounded
  <2>1. tries \in Nat /\ count \in Nat /\ waited \in Nat /\ wait \in Nat /\ Budget(tries, count) \in Nat
    BY <1>1, BudgetIsANumber
  <2>2. waited + wait <= Budget(tries, count)
    <3>1. CASE pc \in {"answered", "pause"}
      <4>1. count - 1 \in Nat /\ count - 1 + 1 = count
        BY <1>1, <2>1, <3>1 DEF Inv, Counts
      <4>2. Budget(tries, count - 1) \in Nat /\ Budget(tries, count - 1) + MaxWait <= Budget(tries, count)
        BY <2>1, <4>1, BudgetGrows
      <4>3. waited + wait <= Budget(tries, count - 1) + MaxWait
        BY <1>1, <2>1, <3>1, <4>2 DEF Inv, Patient
      <4>4. QED
        BY <2>1, <4>2, <4>3
    <3>2. CASE pc \notin {"answered", "pause"}
      BY <1>1, <3>2 DEF Inv, Patient
    <3>3. QED
      BY <3>1, <3>2
  <2>3. QED
    BY <2>2 DEF PatienceIsBounded, Budget
<1>2. QED
  BY <1>1, InvHolds, PTL

-----------------------------------------------------------------------------
(* Refinement.                                                             *)

\* What a step of the client is in terms of HostCall.
LEMMA CallSteps ==
  ASSUME Inv, [Next]_vars
  PROVE  Abstract!Next \/ UNCHANGED Abstract!callVars
<1>t. /\ pc \in {"send", "sleep"} => works <= tries
      /\ works \in Nat /\ tries \in 0..MaxRetries
  BY DEF Inv, TypeOK, Counts
<1>a. ASSUME pc = "send", works' \in {works, works + 1}, pc' \in {"sleep", "failed"}
      PROVE  Abstract!Next
  BY <1>a, <1>t DEF Abstract!Next, Abstract!Attempt, Phase
<1>s. ASSUME works' = works, Phase' = Phase PROVE UNCHANGED Abstract!callVars
  BY <1>s DEF Abstract!callVars
<1>1. ASSUME NEW next \in {"end", "next", "foreign"}, Succeed(next) PROVE Abstract!Next
  BY <1>1, <1>t DEF Succeed, Abstract!Next, Abstract!Attempt, Phase
<1>2. ASSUME NEW l \in Limits, Limited(l) PROVE Abstract!Next
  BY <1>2, <1>a DEF Limited, Repeat, Sleep, Fail
<1>3. ASSUME Garbled \/ Unavailable \/ Refused PROVE Abstract!Next
  BY <1>3, <1>a DEF Garbled, Unavailable, Refused, Repeat, Sleep, Fail, ghosts
<1>4. ASSUME Wake PROVE Abstract!Next \/ UNCHANGED Abstract!callVars
  <2>1. CASE pc = "sleep"
    BY <1>4, <2>1, <1>s DEF Wake, Phase
  <2>2. CASE pc = "pause"
    BY <1>4, <2>2 DEF Wake, Abstract!Next, Abstract!Call, Phase
  <2>3. QED
    BY <1>4, <2>1, <2>2 DEF Wake
<1>5. ASSUME Turn PROVE Abstract!Next \/ UNCHANGED Abstract!callVars
  <2>1. CASE pc' \in {"done", "abandoned", "pause"} /\ works' = works
    BY <1>5, <2>1, <1>s DEF Turn, Phase
  <2>2. CASE pc' = "send" /\ works' = 0
    BY <1>5, <2>2 DEF Turn, Abstract!Next, Abstract!Call, Phase
  <2>3. QED
    BY <1>5, <2>1, <2>2 DEF Turn, Rest, NextPage, NextPoll, Pause, Unlisted, ghosts
<1>6. ASSUME GiveUp PROVE Abstract!Next \/ UNCHANGED Abstract!callVars
  <2>1. CASE pc = "send"
    BY <1>6, <2>1, <1>a DEF GiveUp
  <2>2. CASE pc = "sleep"
    BY <1>6, <2>2, <1>t DEF GiveUp, Abstract!Next, Abstract!Attempt, Phase
  <2>3. CASE pc = "pause"
    BY <1>6, <2>3, <1>s DEF GiveUp, Phase
  <2>4. QED
    BY <1>6, <2>1, <2>2, <2>3 DEF GiveUp
<1>7. ASSUME Cancel \/ Restart \/ UNCHANGED vars PROVE UNCHANGED Abstract!callVars
  BY <1>7, <1>s DEF Cancel, Restart, vars, clientVars, ghosts, Phase
<1>8. ASSUME NEW o \in Ops, Begin(o) PROVE Abstract!Next
  BY <1>8 DEF Begin, Resting, Abstract!Next, Abstract!Call, Phase
<1>9. QED
  BY <1>1, <1>2, <1>3, <1>4, <1>5, <1>6, <1>7, <1>8 DEF Next, ClientStep

\* A call of the client is the call that the other modules assume.
THEOREM ClientImplementsCalls == Spec => EveryCallIsAHostCall
<1>1. Init => Abstract!Init
  BY DEF Init, Abstract!Init, Phase
<1>2. Inv /\ [Next]_vars => [Abstract!Next]_(Abstract!callVars)
  BY CallSteps
<1>3. QED
  BY <1>1, <1>2, InvHolds, PTL DEF Spec, EveryCallIsAHostCall, Abstract!Spec
-----------------------------------------------------------------------------
(* The safety half of OperationEnds.                                       *)

\* What a step of the client leaves of an operation.
LEMMA ClientGetsOn ==
  ASSUME Inv, Inv', pc \in Busy, ClientStep
  PROVE  \/ StagesLeft' < StagesLeft
         \/ (StagesLeft' = StagesLeft /\ Attempted' > Attempted)
<1>0. /\ tries \in Nat /\ count \in 0..MaxCalls /\ MaxCalls \in Nat
      /\ tries' \in Nat /\ count' \in 0..MaxCalls
  BY DEF Inv, TypeOK, MaxCalls
<1>1. StagesLeft \in Nat \ {0}
  BY <1>0 DEF StagesLeft, Busy, Resting
<1>2. CASE pc' \in Resting
  <2>1. StagesLeft' = 0
    BY <1>2 DEF StagesLeft
  <2>2. QED
    BY <1>1, <2>1
<1>3. ASSUME NEW next, Succeed(next) PROVE StagesLeft' < StagesLeft
  BY <1>0, <1>3 DEF Succeed, StagesLeft, Resting
<1>4. ASSUME NEW secs, pc = "send", Repeat(secs)
      PROVE  pc' \in Resting \/ (StagesLeft' = StagesLeft /\ Attempted' > Attempted)
  <2>1. CASE Fail
    BY <2>1 DEF Fail, Resting
  <2>2. CASE Sleep(secs)
    BY <1>0, <1>4, <2>2 DEF Sleep, StagesLeft, Attempted, Resting
  <2>3. QED
    BY <1>4, <2>1, <2>2 DEF Repeat
<1>5. CASE Wake
  BY <1>0, <1>5 DEF Wake, StagesLeft, Attempted, Resting
<1>6. CASE Turn
  <2>1. CASE \E how \in {"done", "abandoned"} : Rest(how)
    BY <1>2, <2>1 DEF Rest, Resting
  <2>2. CASE NextPage
    <3>1. CASE answer = "next" /\ count < MaxPages
      <4>1. pc = "answered" /\ pc' = "send" /\ count' = count
        BY <1>0, <1>6, <2>2, <3>1, HostClientAssumption DEF NextPage, Turn
      <4>2. /\ StagesLeft = 3 * (MaxCalls - count) + 3
            /\ StagesLeft' = 3 * (MaxCalls - count) + 1
        BY <4>1 DEF StagesLeft, Resting
      <4>3. QED
        BY <1>0, <4>2
    <3>2. CASE ~(answer = "next" /\ count < MaxPages)
      BY <2>1, <2>2, <3>2 DEF NextPage, Unlisted
    <3>3. QED
      BY <3>1, <3>2
  <2>3. CASE Pause
    BY <1>0, <1>6, <2>3 DEF Pause, Turn, StagesLeft, Resting
  <2>4. QED
    BY <1>6, <2>1, <2>2, <2>3 DEF Turn, NextPoll
<1>7. CASE Garbled \/ Refused \/ GiveUp
  BY <1>2, <1>7 DEF Garbled, Refused, GiveUp, Fail, Resting
<1>8. CASE Unavailable
  BY <1>2, <1>4, <1>8 DEF Unavailable
<1>9. ASSUME NEW l \in Limits, Limited(l)
      PROVE  \/ StagesLeft' < StagesLeft
             \/ (StagesLeft' = StagesLeft /\ Attempted' > Attempted)
  BY <1>2, <1>4, <1>9 DEF Limited, Fail, Resting
<1>10. QED
  BY <1>3, <1>5, <1>6, <1>7, <1>8, <1>9 DEF ClientStep

\* Every step of the client uses up one of finitely many calls, pauses and
\* repetitions.  What is left of OperationEnds is that attempts and sleeps end.
THEOREM OperationsGetOn == Spec => OperationGetsOn
<1>1. ASSUME Inv, Inv', Next, pc \in Busy
      PROVE  \/ StagesLeft' < StagesLeft
             \/ (StagesLeft' = StagesLeft /\ Attempted' > Attempted)
             \/ (UNCHANGED <<pc, count, tries>> /\ ~ClientStep)
  <2>1. \A o \in Ops : ~Begin(o)
    BY <1>1 DEF Begin, Busy, Resting
  <2>2. ASSUME ~ClientStep PROVE UNCHANGED <<pc, count, tries>>
    BY <1>1, <2>1, <2>2 DEF Next, Cancel, Restart
  <2>3. QED
    BY <1>1, <2>2, ClientGetsOn
<1>2. Inv /\ Inv' /\ [Next]_vars =>
        [(pc \in Busy =>
           \/ StagesLeft' < StagesLeft
           \/ (StagesLeft' = StagesLeft /\ Attempted' > Attempted)
           \/ (UNCHANGED <<pc, count, tries>> /\ ~ClientStep))]_vars
  BY <1>1
<1>3. QED
  BY <1>2, InvHolds, PTL DEF Spec, OperationGetsOn
=============================================================================

----------------------------- MODULE StickyProofs -----------------------------
(***************************************************************************)
(* What holds of the things written in place for any number of runs, pages *)
(* and batches, any retries and all faults: a run nobody interferes with   *)
(* finds what is shown, leaves its report there and adds no second thing,  *)
(* and what anybody rewrites carries the marker.                           *)
(***************************************************************************)
EXTENDS Sticky, TLAPS, FiniteSetTheorems, WellFoundedInduction

USE StickyAssumption

-----------------------------------------------------------------------------
(* Types.                                                                  *)

HostTypes ==
    /\ kind \in Kinds
    /\ says \in [Ids -> Texts \cup {"none", "plain"}]
    /\ keyed \subseteq Ids
    /\ noted \subseteq Ids \X Batches
    /\ last \in 0..MaxThings

CallTypes ==
    /\ pc \in [Runs -> Resting \cup Calls]
    /\ mode \in [Runs -> Modes]
    /\ want \in [Runs -> Texts \cup {"none"}]
    /\ parts \in [Runs -> 0..MaxBatches]
    /\ page \in [Runs -> 1..MaxPages]
    /\ found \in [Runs -> 0..MaxThings]
    /\ batch \in [Runs -> 1..(MaxBatches + 1)]
    /\ tries \in [Runs -> 0..MaxRetries]

GhostTypes == alone \in [Runs -> BOOLEAN] /\ had \in [Runs -> BOOLEAN]

Types == HostTypes /\ CallTypes /\ GhostTypes

LEMMA TypesSuffice == Types => TypeOK
  BY DEF Types, TypeOK, HostTypes, CallTypes, GhostTypes

-----------------------------------------------------------------------------
(* The inductive invariant.                                                *)

\* What carries the marker is there, and ids are given in order.
HostInv ==
    /\ keyed \subseteq Live
    /\ kind # "status" => \A i \in Live : i <= last
    /\ kind = "status" => keyed \subseteq {1}

\* What a run in flight can be at, whoever interferes.
Course(r) ==
    pc[r] \in Calls =>
        /\ mode[r] \in {"upsert", "editOnly"} => want[r] \in Texts
        /\ pc[r] \in {"edit", "annotate"} => found[r] \in Ids /\ mode[r] \in {"upsert", "editOnly"}
        /\ pc[r] = "list" => mode[r] # "create"
        /\ pc[r] = "post" => mode[r] \in {"upsert", "create"}
        /\ pc[r] # "annotate" => batch[r] = 1
        /\ kind # "checkRun" => parts[r] = 0 /\ pc[r] # "annotate"
        /\ kind = "checkRun" /\ pc[r] = "list" => found[r] = 0
        /\ kind = "status" => pc[r] = "post"
        /\ kind \notin Comments => mode[r] = "upsert"

\* Of what it looks for, a run has seen all that is not on a later page.
Sought(r) ==
    /\ found[r] # 0 => found[r] \in keyed
    /\ kind \in Comments =>
         \A i \in keyed : \/ Rank(i) > (page[r] - 1) * PageSize
                          \/ found[r] # 0 /\ found[r] <= i

\* What it writes to is what is shown, and holds what it has written so far.
Held(r) ==
    /\ found[r] \in keyed /\ Shown(found[r])
    /\ pc[r] = "annotate" =>
         /\ says[found[r]] = want[r]
         /\ \A b \in 1..(batch[r] - 1) : <<found[r], b>> \in noted

\* It adds a comment where there is none but those that it has just added.
Fresh(r) == kind \in Comments => \A i \in keyed : says[i] = want[r]

\* What a run knows as long as nobody interferes.
Knows(r) ==
    alone[r] /\ pc[r] \in Calls =>
        /\ pc[r] = "list" => Sought(r)
        /\ pc[r] \in {"edit", "annotate"} => Held(r)
        /\ pc[r] = "post" /\ mode[r] = "upsert" => Fresh(r)
        /\ had[r] /\ mode[r] # "create" /\ kind # "status" => keyed # {} /\ pc[r] # "post"

Inv == Types /\ HostInv /\ \A r \in Runs : Course(r) /\ Knows(r)

LEMMA Bounds == /\ 1 \in 1..MaxPages /\ 1 \in 1..(MaxBatches + 1) /\ 0 \in 0..MaxBatches
                /\ 0 \in 0..MaxRetries /\ 0 \in 0..MaxThings
  OBVIOUS

LEMMA InitInv == Init => Inv
<1>1. SUFFICES ASSUME Init PROVE Inv
  OBVIOUS
<1>2. HostTypes
  BY <1>1, Bounds DEF Init, HostTypes
<1>3. CallTypes
  BY <1>1, Bounds DEF Init, CallTypes, Resting, Modes
<1>4. GhostTypes
  BY <1>1 DEF Init, GhostTypes
<1>5. HostInv
  BY <1>1 DEF Init, HostInv, Live
<1>6. \A r \in Runs : Course(r) /\ Knows(r)
  BY <1>1 DEF Init, Course, Knows, Calls
<1>7. QED
  BY <1>2, <1>3, <1>4, <1>5, <1>6 DEF Types, Inv

\* How a run goes on.
LEMMA ReturnTypes ==
  ASSUME CallTypes, NEW r \in Runs, NEW how \in Resting, NEW i \in 0..MaxThings,
         Return(r, how, i)
  PROVE  CallTypes'
  BY Bounds DEF CallTypes, Return, Modes

LEMMA GotoTypes ==
  ASSUME CallTypes, NEW r \in Runs, NEW next \in Calls, Goto(r, next),
         page' \in [Runs -> 1..MaxPages], found' \in [Runs -> 0..MaxThings],
         batch' \in [Runs -> 1..(MaxBatches + 1)]
  PROVE  CallTypes'
  BY Bounds DEF CallTypes, Goto

LEMMA RepeatTypes ==
  ASSUME CallTypes, NEW r \in Runs, Repeat(r)
  PROVE  CallTypes'
<1>1. ASSUME Fail(r) PROVE CallTypes'
  BY <1>1, Bounds, ReturnTypes DEF Fail, Resting
<1>2. ASSUME tries[r] < MaxRetries, tries' = [tries EXCEPT ![r] = @ + 1],
             UNCHANGED <<pc, mode, want, parts, page, found, batch>>
      PROVE  CallTypes'
  <2>1. tries[r] + 1 \in 0..MaxRetries
    BY <1>2 DEF CallTypes
  <2>2. QED
    BY <1>2, <2>1 DEF CallTypes
<1>3. QED
  BY <1>1, <1>2 DEF Repeat

LEMMA AloneTypes ==
  ASSUME NEW r \in Runs, NEW changed, GhostTypes, Alone(r, changed)
  PROVE  GhostTypes'
  BY DEF Alone, GhostTypes

LEMMA WrittenTypes ==
  ASSUME CallTypes, NEW r \in Runs, NEW i \in 0..MaxThings, NEW b \in 1..(MaxBatches + 1),
         Written(r, i, b)
  PROVE  CallTypes'
<1>1. CASE Return(r, "done", 0)
  BY <1>1, Bounds, ReturnTypes DEF Resting
<1>2. CASE b < parts[r] /\ Goto(r, "annotate") /\ found' = [found EXCEPT ![r] = i]
           /\ batch' = [batch EXCEPT ![r] = b + 1] /\ UNCHANGED page
  <2>1. b + 1 \in 1..(MaxBatches + 1)
    BY <1>2 DEF CallTypes
  <2>2. QED
    BY <1>2, <2>1, GotoTypes DEF CallTypes, Calls
<1>3. QED
  BY <1>1, <1>2 DEF Written

LEMMA ListTypes ==
  ASSUME CallTypes, NEW r \in Runs, List(r)
  PROVE  CallTypes'
<1>1. PICK i \in 0..MaxThings :
         \/ Finds(r, i)
         \/ /\ ~LastPage(r) /\ Goto(r, "list")
            /\ found' = [found EXCEPT ![r] = i]
            /\ page' = [page EXCEPT ![r] = @ + 1]
            /\ UNCHANGED batch
         \/ Fail(r)
  BY DEF List
<1>2. CASE Finds(r, i)
  BY <1>2, ReturnTypes, GotoTypes DEF Finds, CallTypes, Resting, Calls
<1>3. CASE ~LastPage(r) /\ Goto(r, "list") /\ found' = [found EXCEPT ![r] = i]
           /\ page' = [page EXCEPT ![r] = @ + 1] /\ UNCHANGED batch
  <2>1. page[r] + 1 \in 1..MaxPages
    BY <1>3 DEF CallTypes, LastPage
  <2>2. QED
    BY <1>3, <2>1, GotoTypes DEF CallTypes, Calls
<1>4. CASE Fail(r)
  BY <1>4, Bounds, ReturnTypes DEF Fail, Resting
<1>5. QED
  BY <1>1, <1>2, <1>3, <1>4

LEMMA EditedTypes ==
  ASSUME HostTypes, CallTypes, NEW r \in Runs, found[r] \in Ids, Edited(r)
  PROVE  HostTypes'
<1>1. says' \in [Ids -> Texts \cup {"none", "plain"}]
  BY DEF Edited, HostTypes, CallTypes
<1>2. noted' \subseteq Ids \X Batches
  BY DEF Edited, Note, HostTypes, CallTypes, Batches
<1>3. QED
  BY <1>1, <1>2 DEF Edited, HostTypes

LEMMA PostedTypes ==
  ASSUME HostTypes, CallTypes, NEW r \in Runs, Posted(r)
  PROVE  HostTypes'
<1>1. says' \in [Ids -> Texts \cup {"none", "plain"}]
  BY DEF Posted, HostTypes, CallTypes
<1>2. noted' \subseteq Ids \X Batches
  BY DEF Posted, Note, HostTypes, CallTypes, Batches
<1>3. QED
  BY <1>1, <1>2 DEF Posted, HostTypes, Ids

\* A run's steps keep the types.
LEMMA StepTypes ==
  ASSUME Inv, NEW r \in Runs, RunStep(r) \/ Crash(r)
  PROVE  Types'
<1>t. HostTypes /\ CallTypes /\ GhostTypes /\ Course(r)
  BY DEF Inv, Types
<1>h. UNCHANGED hostVars => HostTypes'
  BY <1>t DEF hostVars, HostTypes
<1>f. ASSUME Fail(r) PROVE CallTypes'
  BY <1>f, <1>t, Bounds, ReturnTypes DEF Fail, Resting
<1>e. pc[r] \in {"edit", "annotate"} => found[r] \in Ids
  BY <1>t DEF Course, Calls
<1>b. batch[r] \in 1..(MaxBatches + 1) /\ 1 \in 1..(MaxBatches + 1) /\ found[r] \in 0..MaxThings
  BY <1>t, Bounds DEF CallTypes
<1>1. ASSUME List(r) PROVE Types'
  BY <1>1, <1>t, <1>h, ListTypes, AloneTypes DEF Types, List
<1>2. ASSUME Edit(r) PROVE Types'
  BY <1>2, <1>t, <1>e, <1>b, EditedTypes, WrittenTypes, AloneTypes DEF Types, Edit
<1>3. ASSUME Post(r) PROVE Types'
  <2>1. NewId \in 0..MaxThings
    BY <1>3 DEF Post, Posted, Ids
  <2>2. QED
    BY <1>3, <1>t, <1>b, <2>1, PostedTypes, WrittenTypes, AloneTypes DEF Types, Post
<1>4. ASSUME Refused(r) PROVE Types'
  <2>1. CASE Goto(r, "post") /\ UNCHANGED <<page, found, batch>>
    <3>1. CallTypes'
      BY <1>t, <2>1, GotoTypes DEF CallTypes, Calls
    <3>2. QED
      BY <1>4, <1>t, <1>h, <3>1, AloneTypes DEF Types, Refused
  <2>2. CASE Fail(r)
    BY <1>4, <1>t, <1>h, <1>f, <2>2, AloneTypes DEF Types, Refused
  <2>3. QED
    BY <1>4, <2>1, <2>2 DEF Refused
<1>5. ASSUME Unavailable(r) PROVE Types'
  BY <1>5, <1>t, <1>h, RepeatTypes, AloneTypes DEF Types, Unavailable
<1>6. ASSUME Lost(r) PROVE Types'
  <2>1. HostTypes'
    BY <1>6, <1>t, <1>e, EditedTypes, PostedTypes DEF Lost
  <2>2. QED
    BY <1>6, <1>t, <2>1, RepeatTypes, AloneTypes DEF Types, Lost
<1>7. ASSUME Crash(r) PROVE Types'
  BY <1>7, <1>t, <1>h, <1>f, AloneTypes DEF Types, Crash
<1>8. QED
  BY <1>1, <1>2, <1>3, <1>4, <1>5, <1>6, <1>7 DEF RunStep

\* So do calls and persons.
LEMMA OtherTypes ==
  ASSUME Inv
  PROVE  /\ \A r \in Runs, m \in Modes, t \in Texts \cup {"none"}, n \in 0..MaxBatches :
              Begin(r, m, t, n) => Types'
         /\ \A quoting \in BOOLEAN : PersonWrites(quoting) => Types'
         /\ \A i \in Ids : PersonDeletes(i) => Types'
<1>t. HostTypes /\ CallTypes /\ GhostTypes
  BY DEF Inv, Types
<1>1. ASSUME NEW r \in Runs, NEW m \in Modes, NEW t \in Texts \cup {"none"},
             NEW n \in 0..MaxBatches, Begin(r, m, t, n)
      PROVE  Types'
  <2>1. HostTypes' /\ GhostTypes'
    BY <1>1, <1>t DEF Begin, hostVars, HostTypes, GhostTypes
  <2>2. CallTypes'
    BY <1>1, <1>t, Bounds DEF Begin, Start, CallTypes, Calls
  <2>3. QED
    BY <2>1, <2>2 DEF Types
<1>2. ASSUME NEW quoting \in BOOLEAN, PersonWrites(quoting) PROVE Types'
  <2>1. last + 1 \in 0..MaxThings /\ last + 1 \in Ids
    <3>1. IsFiniteSet(Writers)
      BY FS_Subset DEF Writers, InFlight
    <3>2. Cardinality(Writers) \in Nat
      BY <3>1, FS_CardinalityType
    <3>3. (MaxRetries + 1) * Cardinality(Writers) \in Nat
      BY <3>2
    <3>4. last < MaxThings
      BY <1>2, <1>t, <3>3 DEF PersonWrites, HostTypes
    <3>5. QED
      BY <1>t, <3>4 DEF HostTypes, Ids
  <2>2. HostTypes' /\ GhostTypes'
    BY <1>2, <1>t, <2>1 DEF PersonWrites, HostTypes, GhostTypes
  <2>3. CallTypes'
    BY <1>2, <1>t DEF PersonWrites, callVars, CallTypes
  <2>4. QED
    BY <2>2, <2>3 DEF Types
<1>3. ASSUME NEW i \in Ids, PersonDeletes(i) PROVE Types'
  <2>1. HostTypes' /\ GhostTypes'
    BY <1>3, <1>t DEF PersonDeletes, HostTypes, GhostTypes
  <2>2. CallTypes'
    BY <1>3, <1>t DEF PersonDeletes, callVars, CallTypes
  <2>3. QED
    BY <2>1, <2>2 DEF Types
<1>4. QED
  BY <1>1, <1>2, <1>3

-----------------------------------------------------------------------------
(* What others do to a run.                                                *)

Locals(s) == <<pc[s], mode[s], want[s], parts[s], page[s], found[s], batch[s]>>

LEMMA RankType ==
  ASSUME HostTypes, NEW i \in Ids
  PROVE  Rank(i) \in Nat /\ (i \in Live => Rank(i) > 0)
<1> DEFINE S == IF kind = "note" THEN {j \in Live : j >= i} ELSE {j \in Live : j <= i}
<1>1. IsFiniteSet(S)
  <2>1. IsFiniteSet(1..MaxThings)
    BY FS_Interval
  <2>2. S \subseteq 1..MaxThings
    BY DEF Live, Ids
  <2>3. QED
    BY <2>1, <2>2, FS_Subset
<1>2. Rank(i) = Cardinality(S)
  BY DEF Rank
<1>3. i \in Live => i \in S
  BY DEF Ids
<1> HIDE DEF S
<1>4. Cardinality(S) \in Nat /\ (S # {} => Cardinality(S) # 0)
  BY <1>1, FS_CardinalityType, FS_EmptySet
<1>5. QED
  BY <1>2, <1>3, <1>4

\* A new comment moves others to later pages, if anywhere.
LEMMA RankGrows ==
  ASSUME HostTypes, kind' = kind, Live \subseteq Live', Live' \subseteq Ids, NEW i \in Ids
  PROVE  Rank(i)' \in Nat /\ Rank(i) <= Rank(i)'
<1> DEFINE S == IF kind = "note" THEN {j \in Live : j >= i} ELSE {j \in Live : j <= i}
           T == IF kind = "note" THEN {j \in Live' : j >= i} ELSE {j \in Live' : j <= i}
<1>1. IsFiniteSet(T) /\ S \subseteq T
  <2>1. IsFiniteSet(1..MaxThings)
    BY FS_Interval
  <2>2. T \subseteq 1..MaxThings
    BY DEF Ids
  <2>3. S \subseteq T
    OBVIOUS
  <2>4. QED
    BY <2>1, <2>2, <2>3, FS_Subset
<1>2. Rank(i) = Cardinality(S) /\ Rank(i)' = Cardinality(T)
  BY DEF Rank
<1> HIDE DEF S, T
<1>3. Cardinality(T) \in Nat /\ Cardinality(S) <= Cardinality(T)
  BY <1>1, FS_Subset, FS_CardinalityType
<1>4. QED
  BY <1>2, <1>3

\* A run does not mind what leaves the things it looks for alone.
LEMMA Stands ==
  ASSUME Inv, NEW s \in Runs, kind' = kind, keyed' = keyed, Live \subseteq Live',
         Live' \subseteq Ids, \A i \in keyed : says'[i] = says[i], noted \subseteq noted',
         UNCHANGED Locals(s), alone'[s] => alone[s], had'[s] => had[s]
  PROVE  Course(s)' /\ Knows(s)'
<1>t. HostTypes /\ CallTypes /\ HostInv /\ Course(s) /\ Knows(s) /\ keyed \subseteq Ids
  BY DEF Inv, Types, HostTypes
<1>l. /\ pc'[s] = pc[s] /\ mode'[s] = mode[s] /\ want'[s] = want[s] /\ parts'[s] = parts[s]
      /\ page'[s] = page[s] /\ found'[s] = found[s] /\ batch'[s] = batch[s]
  BY DEF Locals
<1>1. Course(s)'
  BY <1>t, <1>l DEF Course
<1>2. ASSUME Sought(s) PROVE Sought(s)'
  <2> DEFINE x == (page[s] - 1) * PageSize
  <2>1. x \in Int /\ x = (page'[s] - 1) * PageSize
    BY <1>t, <1>l DEF CallTypes
  <2> HIDE DEF x
  <2>2. ASSUME NEW i \in keyed, Rank(i) > x PROVE Rank(i)' > x
    BY <1>t, <2>1, <2>2, RankType, RankGrows
  <2>3. ASSUME kind \in Comments, NEW i \in keyed
        PROVE  Rank(i)' > x \/ (found[s] # 0 /\ found[s] <= i)
    BY <1>2, <2>2, <2>3 DEF Sought, x
  <2>4. found[s] # 0 => found[s] \in keyed
    BY <1>2 DEF Sought
  <2>5. QED
    BY <1>l, <2>1, <2>3, <2>4 DEF Sought
<1>3. ASSUME Held(s) PROVE Held(s)'
  <2>1. Shown(found[s]) => Shown(found[s])'
    BY <1>l DEF Shown, Least, Greatest
  <2>2. QED
    BY <1>3, <1>l, <2>1 DEF Held
<1>4. ASSUME Fresh(s) PROVE Fresh(s)'
  BY <1>4, <1>l DEF Fresh
<1>5. Knows(s)'
  BY <1>t, <1>l, <1>2, <1>3, <1>4 DEF Knows
<1>6. QED
  BY <1>1, <1>5

\* One that is interfered with knows nothing.
LEMMA Disturbed ==
  ASSUME Inv, NEW s \in Runs, kind' = kind, UNCHANGED Locals(s), ~alone'[s]
  PROVE  Course(s)' /\ Knows(s)'
<1>l. /\ pc'[s] = pc[s] /\ mode'[s] = mode[s] /\ want'[s] = want[s] /\ parts'[s] = parts[s]
      /\ page'[s] = page[s] /\ found'[s] = found[s] /\ batch'[s] = batch[s]
  BY DEF Locals
<1>1. Course(s)'
  BY <1>l DEF Inv, Course
<1>2. Knows(s)'
  BY DEF Knows
<1>3. QED
  BY <1>1, <1>2

-----------------------------------------------------------------------------
(* What a run does to the host and to itself.                              *)

LEMMA EditedHost ==
  ASSUME Inv, NEW r \in Runs, pc[r] \in {"edit", "annotate"}, ~Gone(r), Edited(r)
  PROVE  /\ HostInv' /\ Live' = Live /\ kind' = kind /\ keyed' = keyed /\ noted \subseteq noted'
         /\ says'[found[r]] = want[r]
         /\ \A i \in Ids : i # found[r] => says'[i] = says[i]
         /\ \A n \in {batch[r]} \cap 1..parts[r] : <<found[r], n>> \in noted'
<1>t. HostTypes /\ HostInv /\ found[r] \in Ids /\ want[r] \in Texts
  BY DEF Inv, Types, Course, Calls
<1>1. says' = [says EXCEPT ![found[r]] = want[r]] /\ UNCHANGED <<kind, keyed, last>>
  BY DEF Edited
<1>2. says'[found[r]] = want[r] /\ \A i \in Ids : i # found[r] => says'[i] = says[i]
  BY <1>t, <1>1 DEF HostTypes
<1>3. says[found[r]] # "none" /\ want[r] # "none"
  BY <1>t DEF Gone
<1>4. Live' = Live
  BY <1>t, <1>1, <1>2, <1>3 DEF Live
<1>5. noted \subseteq noted' /\ \A n \in {batch[r]} \cap 1..parts[r] : <<found[r], n>> \in noted'
  BY DEF Edited, Note
<1>6. HostInv'
  BY <1>t, <1>1, <1>4 DEF HostInv
<1>7. QED
  BY <1>1, <1>2, <1>4, <1>5, <1>6

LEMMA PostedHost ==
  ASSUME Inv, NEW r \in Runs, pc[r] = "post", Posted(r)
  PROVE  /\ HostInv' /\ Live \subseteq Live' /\ kind' = kind /\ noted \subseteq noted'
         /\ NewId \in Ids
         /\ mode[r] = "upsert" => keyed' = keyed \cup {NewId} /\ says'[NewId] = want[r]
         /\ mode[r] = "create" => keyed' = keyed
         /\ kind # "status" => \A i \in Live : i < NewId /\ says'[i] = says[i]
         /\ \A n \in {1} \cap 1..parts[r] : <<NewId, n>> \in noted'
<1>t. HostTypes /\ HostInv /\ mode[r] \in {"upsert", "create"} /\ (mode[r] = "upsert" => want[r] \in Texts)
  BY DEF Inv, Types, Course, Calls
<1>1. /\ NewId \in Ids /\ last' = NewId /\ kind' = kind
      /\ says' = [says EXCEPT ![NewId] = IF mode[r] = "create" THEN "plain" ELSE want[r]]
      /\ keyed' = IF mode[r] = "create" THEN keyed ELSE keyed \cup {NewId}
  BY DEF Posted
<1>2. /\ says'[NewId] = IF mode[r] = "create" THEN "plain" ELSE want[r]
      /\ \A i \in Ids : i # NewId => says'[i] = says[i]
  BY <1>t, <1>1 DEF HostTypes
<1>3. says'[NewId] # "none"
  BY <1>t, <1>2
<1>4. Live' = Live \cup {NewId}
  BY <1>1, <1>2, <1>3 DEF Live
<1>5. kind # "status" => \A i \in Live : i < NewId /\ says'[i] = says[i]
  BY <1>t, <1>2 DEF HostInv, NewId, HostTypes, Live, Ids
<1>6. noted \subseteq noted' /\ \A n \in {1} \cap 1..parts[r] : <<NewId, n>> \in noted'
  BY DEF Posted, Note
<1>7. HostInv'
  <2>1. keyed' \subseteq Live'
    BY <1>t, <1>1, <1>4 DEF HostInv
  <2>2. kind # "status" => \A i \in Live' : i <= last'
    BY <1>1, <1>4, <1>5 DEF Live, Ids
  <2>3. kind = "status" => keyed' \subseteq {1}
    BY <1>t, <1>1 DEF HostInv, NewId
  <2>4. QED
    BY <1>1, <2>1, <2>2, <2>3 DEF HostInv
<1>8. QED
  BY <1>1, <1>2, <1>4, <1>5, <1>6, <1>7, <1>t

LEMMA NothingHost ==
  ASSUME Inv, UNCHANGED hostVars
  PROVE  HostInv' /\ Live' = Live /\ Live' \subseteq Ids /\ UNCHANGED <<kind, says, keyed, noted, last>>
  BY DEF Inv, hostVars, HostInv, Live

\* The other runs' locals are left alone.
LEMMA OneAtATime ==
  ASSUME CallTypes, NEW r \in Runs, NEW s \in Runs, r # s
  PROVE  /\ \A how, i : Return(r, how, i) => UNCHANGED Locals(s)
         /\ Repeat(r) => UNCHANGED Locals(s)
         /\ \A i, b : Written(r, i, b) => UNCHANGED Locals(s)
         /\ List(r) => UNCHANGED Locals(s)
         /\ \A next : Goto(r, next) /\ UNCHANGED <<page, found, batch>> => UNCHANGED Locals(s)
<1>1. ASSUME NEW how, NEW i, Return(r, how, i) PROVE UNCHANGED Locals(s)
  BY <1>1 DEF Return, CallTypes, Locals
<1>2. ASSUME Repeat(r) PROVE UNCHANGED Locals(s)
  BY <1>1, <1>2 DEF Repeat, Fail, Locals
<1>3. ASSUME NEW i, NEW b, Written(r, i, b) PROVE UNCHANGED Locals(s)
  BY <1>1, <1>3 DEF Written, Goto, CallTypes, Locals
<1>4. ASSUME List(r) PROVE UNCHANGED Locals(s)
  <2>1. PICK i \in 0..MaxThings :
           \/ Finds(r, i)
           \/ /\ Goto(r, "list") /\ found' = [found EXCEPT ![r] = i]
              /\ page' = [page EXCEPT ![r] = @ + 1] /\ UNCHANGED batch
           \/ Fail(r)
    BY <1>4 DEF List
  <2>2. CASE Finds(r, i)
    <3>1. CASE Return(r, "done", i)
      BY <1>1, <3>1
    <3>2. CASE Goto(r, IF i = 0 THEN "post" ELSE "edit") /\ found' = [found EXCEPT ![r] = i]
               /\ UNCHANGED <<page, batch>>
      BY <3>2 DEF Goto, CallTypes, Locals
    <3>3. QED
      BY <2>2, <3>1, <3>2 DEF Finds
  <2>3. CASE Fail(r)
    BY <1>1, <2>3 DEF Fail
  <2>4. CASE Goto(r, "list") /\ found' = [found EXCEPT ![r] = i]
              /\ page' = [page EXCEPT ![r] = @ + 1] /\ UNCHANGED batch
    BY <2>4 DEF Goto, CallTypes, Locals
  <2>5. QED
    BY <2>1, <2>2, <2>3, <2>4
<1>5. ASSUME NEW next, Goto(r, next), UNCHANGED <<page, found, batch>> PROVE UNCHANGED Locals(s)
  BY <1>5 DEF Goto, CallTypes, Locals
<1>6. QED
  BY <1>1, <1>2, <1>3, <1>4, <1>5

\* What a run's step is to another run.
LEMMA OtherStands ==
  ASSUME Inv, Types', NEW r \in Runs, NEW s \in Runs, r # s, RunStep(r) \/ Crash(r)
  PROVE  Course(s)' /\ Knows(s)'
<1>t. CallTypes /\ HostTypes /\ HostTypes' /\ Live' \subseteq Ids /\ HostInv /\ Course(r)
  BY DEF Inv, Types, Live
<1>g. ASSUME NEW changed \in BOOLEAN, Alone(r, changed)
      PROVE  /\ alone'[s] => alone[s] /\ ~changed
             /\ had'[s] => had[s]
  BY <1>g DEF Alone
<1>u. ASSUME UNCHANGED hostVars, UNCHANGED Locals(s), Alone(r, FALSE) PROVE Course(s)' /\ Knows(s)'
  BY <1>t, <1>u, <1>g, NothingHost, Stands
<1>p. ASSUME pc[r] = "post", Posted(r), UNCHANGED Locals(s), Alone(r, mode[r] # "create")
      PROVE  Course(s)' /\ Knows(s)'
  <2>1. kind' = kind
    BY <1>p, PostedHost
  <2>2. CASE mode[r] = "create"
    <3>1. kind # "status"
      BY <1>p, <1>t, <2>2 DEF Course, Calls, Comments
    <3>2. \A i \in keyed : says'[i] = says[i]
      BY <1>p, <1>t, <3>1, PostedHost DEF HostInv
    <3>3. Live \subseteq Live' /\ keyed' = keyed /\ noted \subseteq noted'
      BY <1>p, <2>2, PostedHost
    <3>4. (alone'[s] => alone[s]) /\ (had'[s] => had[s])
      BY <1>p, <1>g
    <3>5. QED
      BY <1>p, <1>t, <2>1, <3>2, <3>3, <3>4, Stands
  <2>3. CASE mode[r] # "create"
    BY <1>p, <1>g, <2>1, <2>3, Disturbed
  <2>4. QED
    BY <2>2, <2>3
<1>e. ASSUME pc[r] \in {"edit", "annotate"}, ~Gone(r), Edited(r), UNCHANGED Locals(s), ~alone'[s]
      PROVE  Course(s)' /\ Knows(s)'
  BY <1>e, EditedHost, Disturbed
<1>1. CASE List(r)
  BY <1>1, <1>t, <1>u, OneAtATime DEF List
<1>2. CASE Edit(r)
  <2>1. ~alone'[s] /\ UNCHANGED Locals(s)
    BY <1>2, <1>t, <1>g, OneAtATime DEF Edit
  <2>2. QED
    BY <1>2, <1>e, <2>1 DEF Edit
<1>3. CASE Post(r)
  BY <1>3, <1>t, <1>p, OneAtATime DEF Post
<1>4. CASE Refused(r)
  BY <1>4, <1>t, <1>u, OneAtATime DEF Refused, Fail
<1>5. CASE Unavailable(r)
  BY <1>5, <1>t, <1>u, OneAtATime DEF Unavailable
<1>6. CASE Lost(r)
  <2>1. UNCHANGED Locals(s) /\ Alone(r, mode[r] # "create")
    BY <1>6, <1>t, OneAtATime DEF Lost
  <2>2. CASE pc[r] = "post" /\ Posted(r)
    BY <1>p, <2>1, <2>2
  <2>3. CASE pc[r] \in {"edit", "annotate"} /\ ~Gone(r) /\ Edited(r)
    <3>1. mode[r] # "create"
      BY <1>t, <2>3 DEF Course, Calls
    <3>2. ~alone'[s]
      BY <1>g, <2>1, <3>1
    <3>3. QED
      BY <1>e, <2>1, <2>3, <3>2
  <2>4. QED
    BY <1>6, <2>2, <2>3 DEF Lost
<1>7. CASE Crash(r)
  BY <1>7, <1>t, <1>u, OneAtATime DEF Crash, Fail
<1>8. QED
  BY <1>1, <1>2, <1>3, <1>4, <1>5, <1>6, <1>7 DEF RunStep

-----------------------------------------------------------------------------
(* What a run does by itself.                                              *)

\* What is picked on a page, for a run that has missed nothing before.
LEMMA ListPicks ==
  ASSUME Inv, NEW r \in Runs, pc[r] = "list", alone[r], NEW i \in 0..MaxThings,
         Pick(i, (keyed \cap OnPage(page[r])) \cup ({found[r]} \ {0}))
  PROVE  /\ i # 0 => i \in keyed
         /\ kind \in Comments => \A k \in keyed : Rank(k) > page[r] * PageSize \/ (i # 0 /\ i <= k)
         /\ ~More(page[r]) => Shown(i)
<1>t. HostTypes /\ CallTypes /\ HostInv /\ Course(r) /\ Sought(r) /\ keyed \subseteq Ids
  BY DEF Inv, Types, HostTypes, Knows, Calls
<1> DEFINE S == (keyed \cap OnPage(page[r])) \cup ({found[r]} \ {0})
<1>1. S \subseteq keyed
  BY <1>t DEF Sought
<1>2. 0 \notin keyed
  BY <1>t DEF Ids
<1>3. (i \in S \/ (S = {} /\ i = 0)) /\ (i # 0 => i \in keyed)
  BY <1>1 DEF Pick, Least, Greatest
<1>4. ASSUME kind \in Comments, NEW k \in keyed PROVE Rank(k) > page[r] * PageSize \/ (i # 0 /\ i <= k)
  <2>1. \A j \in S : i # 0 /\ i <= j
    BY <1>2, <1>1, <1>4 DEF Pick, Least, Greatest
  <2>2. CASE found[r] # 0 /\ found[r] <= k
    <3>1. found[r] \in S /\ found[r] \in Nat /\ k \in Nat /\ i \in Nat
      BY <1>t, <1>4, <2>2 DEF CallTypes, Ids
    <3>2. QED
      BY <2>1, <2>2, <3>1
  <2>3. CASE Rank(k) > (page[r] - 1) * PageSize /\ Rank(k) <= page[r] * PageSize
    <3>1. k \in Live
      BY <1>4, <1>t DEF HostInv
    <3>2. k \in OnPage(page[r])
      BY <2>3, <3>1 DEF OnPage
    <3>3. QED
      BY <1>4, <2>1, <3>2
  <2>4. page[r] * PageSize \in Int /\ Rank(k) \in Int
    BY <1>t, <1>4, RankType DEF CallTypes
  <2>5. QED
    BY <1>t, <1>4, <2>2, <2>3, <2>4 DEF Sought
<1>5. ASSUME ~More(page[r]) PROVE Shown(i)
  <2>1. CASE kind = "checkRun"
    <3>1. S = keyed
      BY <1>t, <2>1 DEF OnPage, Course, Calls, HostInv
    <3>2. QED
      BY <2>1, <3>1 DEF Pick, Shown, Comments
  <2>2. CASE kind \in Comments
    <3>1. ASSUME NEW k \in keyed PROVE i # 0 /\ i <= k
      <4>1. ~(Rank(k) > page[r] * PageSize)
        BY <1>t, <1>5, <2>2, <3>1 DEF More, Comments, HostInv
      <4>2. QED
        BY <1>4, <2>2, <3>1, <4>1
    <3>2. CASE i = 0
      BY <3>1, <3>2 DEF Shown
    <3>3. CASE i # 0
      BY <1>3, <2>2, <3>1, <3>3 DEF Shown, Least
    <3>4. QED
      BY <3>2, <3>3
  <2>3. QED
    BY <1>t, <2>1, <2>2 DEF HostTypes, Course, Calls, Comments, AllKinds
<1>6. QED
  BY <1>3, <1>4, <1>5

LEMMA Ended ==
  ASSUME NEW r \in Runs, pc'[r] \notin Calls
  PROVE  Course(r)' /\ Knows(r)'
  BY DEF Course, Knows

LEMMA ReturnEnds ==
  ASSUME CallTypes, NEW r \in Runs, NEW how \in Resting, NEW i, Return(r, how, i)
  PROVE  pc'[r] = how /\ Course(r)' /\ Knows(r)'
<1>1. pc'[r] = how /\ how \notin Calls
  BY DEF Return, CallTypes, Resting, Calls
<1>2. QED
  BY <1>1, Ended

LEMMA ListOwn ==
  ASSUME Inv, NEW r \in Runs, List(r)
  PROVE  Course(r)' /\ Knows(r)'
<1>t. HostTypes /\ CallTypes /\ HostInv /\ Course(r) /\ Knows(r) /\ pc[r] = "list"
  BY DEF Inv, Types, List
<1>h. UNCHANGED <<kind, says, keyed, noted, last>> /\ Live' = Live
  BY NothingHost DEF List
<1>g. (alone'[r] => alone[r]) /\ (had'[r] => had[r])
  BY DEF List, Alone
<1>1. PICK i \in 0..MaxThings :
         /\ Pick(i, (keyed \cap OnPage(page[r])) \cup ({found[r]} \ {0}))
         /\ \/ /\ ~More(page[r])
               /\ Finds(r, i)
            \/ /\ More(page[r]) /\ ~LastPage(r)
               /\ Goto(r, "list")
               /\ found' = [found EXCEPT ![r] = i]
               /\ page' = [page EXCEPT ![r] = @ + 1]
               /\ UNCHANGED batch
            \/ /\ More(page[r]) /\ LastPage(r)
               /\ Fail(r)
  BY DEF List
<1>k. i # 0 => i \in Ids
  BY DEF Ids
<1>2. CASE Return(r, "done", i) \/ Fail(r)
  BY <1>t, <1>2, ReturnEnds DEF Fail, Resting
<1>3. CASE More(page[r]) /\ Goto(r, "list") /\ found' = [found EXCEPT ![r] = i]
           /\ page' = [page EXCEPT ![r] = @ + 1] /\ UNCHANGED batch
  <2>1. /\ pc'[r] = "list" /\ found'[r] = i /\ page'[r] = page[r] + 1 /\ batch'[r] = batch[r]
        /\ mode'[r] = mode[r] /\ want'[r] = want[r] /\ parts'[r] = parts[r]
    BY <1>t, <1>3 DEF Goto, CallTypes
  <2>2. kind # "checkRun"
    BY <1>3 DEF More
  <2>3. Course(r)'
    BY <1>t, <1>h, <2>1, <2>2 DEF Course, Calls
  <2>4. ASSUME alone[r] PROVE Sought(r)'
    <3>1. (page'[r] - 1) * PageSize = page[r] * PageSize
      <4>1. page'[r] - 1 = page[r]
        BY <1>t, <2>1 DEF CallTypes
      <4>2. QED
        BY <4>1
    <3>2. \A k \in keyed : Rank(k)' = Rank(k)
      BY <1>h DEF Rank
    <3>3. kind \in Comments => \A k \in keyed : Rank(k) > page[r] * PageSize \/ (i # 0 /\ i <= k)
      BY <1>t, <1>1, <2>4, ListPicks
    <3>4. i # 0 => i \in keyed
      BY <1>t, <1>1, <2>4, ListPicks
    <3>5. QED
      BY <1>h, <2>1, <3>1, <3>2, <3>3, <3>4 DEF Sought
  <2>5. Knows(r)'
    BY <1>t, <1>h, <1>g, <2>1, <2>4 DEF Knows, Calls
  <2>6. QED
    BY <2>3, <2>5
<1>4. CASE /\ ~More(page[r]) /\ mode[r] # "read" /\ (i = 0 => mode[r] # "editOnly")
           /\ Goto(r, IF i = 0 THEN "post" ELSE "edit")
           /\ found' = [found EXCEPT ![r] = i] /\ UNCHANGED <<page, batch>>
  <2>1. /\ pc'[r] = (IF i = 0 THEN "post" ELSE "edit") /\ found'[r] = i /\ batch'[r] = batch[r]
        /\ mode'[r] = mode[r] /\ want'[r] = want[r] /\ parts'[r] = parts[r]
    BY <1>t, <1>4 DEF Goto, CallTypes
  <2>2. mode[r] \in Modes /\ kind # "status"
    BY <1>t DEF CallTypes, Course, Calls
  <2>3. Course(r)'
    BY <1>t, <1>h, <1>k, <1>4, <2>1, <2>2 DEF Course, Calls, Modes
  <2>4. ASSUME alone[r] PROVE Shown(i) /\ (i # 0 => i \in keyed)
    BY <1>t, <1>1, <1>4, <2>4, ListPicks
  <2>5. ASSUME alone[r], i # 0 PROVE Held(r)'
    BY <1>h, <2>1, <2>4, <2>5 DEF Held, Shown, Least, Greatest
  <2>6. ASSUME alone[r], i = 0 PROVE keyed = {}
    BY <1>t, <2>4, <2>6 DEF Shown, Least, Greatest, HostTypes, Ids
  <2>7. Knows(r)'
    BY <1>t, <1>h, <1>g, <2>1, <2>5, <2>6 DEF Knows, Calls, Fresh
  <2>8. QED
    BY <2>3, <2>7
<1>5. QED
  BY <1>1, <1>2, <1>3, <1>4 DEF Finds

\* A run repeats its call, or gives up.
LEMMA RepeatOwn ==
  ASSUME CallTypes, NEW r \in Runs, Repeat(r)
  PROVE  UNCHANGED Locals(r) \/ (pc'[r] = "failed" /\ Course(r)' /\ Knows(r)')
<1>1. Fail(r) => pc'[r] = "failed" /\ Course(r)' /\ Knows(r)'
  BY ReturnEnds DEF Fail, Resting
<1>2. QED
  BY <1>1 DEF Repeat, Locals

LEMMA EditOwn ==
  ASSUME Inv, NEW r \in Runs, pc[r] \in {"edit", "annotate"}, ~Gone(r), Edited(r), Alone(r, TRUE),
         Written(r, found[r], batch[r]) \/ UNCHANGED Locals(r)
  PROVE  Course(r)' /\ Knows(r)'
<1>t. HostTypes /\ CallTypes /\ Course(r) /\ Knows(r) /\ found[r] \in Ids
  BY DEF Inv, Types, Course, Calls
<1>h. /\ kind' = kind /\ keyed' = keyed /\ noted \subseteq noted' /\ says'[found[r]] = want[r]
      /\ \A n \in {batch[r]} \cap 1..parts[r] : <<found[r], n>> \in noted'
  BY EditedHost
<1>g. (alone'[r] => alone[r]) /\ (had'[r] => had[r])
  BY DEF Alone
<1>f. PICK f \in Ids : f = found[r]
  BY <1>t
<1>s. ASSUME alone[r] PROVE f \in keyed /\ Shown(f)'
  <2>1. f \in keyed /\ Shown(f)
    BY <1>t, <1>f, <1>s DEF Knows, Calls, Held
  <2>2. QED
    BY <1>h, <2>1 DEF Shown, Least, Greatest
<1>1. CASE UNCHANGED Locals(r)
  <2>1. /\ pc'[r] = pc[r] /\ mode'[r] = mode[r] /\ want'[r] = want[r] /\ parts'[r] = parts[r]
        /\ page'[r] = page[r] /\ found'[r] = found[r] /\ batch'[r] = batch[r]
    BY <1>1 DEF Locals
  <2>2. Course(r)'
    BY <1>t, <1>h, <2>1 DEF Course
  <2>3. ASSUME alone[r] PROVE Held(r)'
    <3>1. Held(r)
      BY <1>t, <2>3 DEF Knows, Calls
    <3>2. Shown(f)' /\ found'[r] = f
      BY <2>1, <2>3, <1>f, <1>s
    <3>3. Shown(found[r])'
      BY <3>2 DEF Shown, Least, Greatest
    <3>4. QED
      BY <1>h, <2>1, <3>1, <3>3 DEF Held
  <2>4. Knows(r)'
    BY <1>t, <1>h, <1>g, <2>1, <2>3 DEF Knows, Calls
  <2>5. QED
    BY <2>2, <2>4
<1>2. CASE Return(r, "done", 0)
  BY <1>t, <1>2, ReturnEnds DEF Resting
<1>3. CASE batch[r] < parts[r] /\ Goto(r, "annotate") /\ found' = [found EXCEPT ![r] = found[r]]
           /\ batch' = [batch EXCEPT ![r] = batch[r] + 1] /\ UNCHANGED page
  <2>1. /\ pc'[r] = "annotate" /\ mode'[r] = mode[r] /\ want'[r] = want[r] /\ parts'[r] = parts[r]
        /\ found'[r] = found[r] /\ batch'[r] = batch[r] + 1
    BY <1>t, <1>3 DEF Goto, CallTypes
  <2>2. batch[r] \in 1..parts[r]
    BY <1>t, <1>3 DEF CallTypes
  <2>3. Course(r)'
    BY <1>t, <1>h, <2>1, <2>2 DEF Course, Calls
  <2>4. ASSUME alone[r] PROVE Held(r)'
    <3>1. ASSUME NEW b \in 1..(batch'[r] - 1) PROVE <<found[r], b>> \in noted'
      <4>1. CASE b = batch[r]
        BY <1>h, <2>2, <4>1
      <4>2. CASE b # batch[r]
        <5>1. b \in 1..(batch[r] - 1)
          BY <2>1, <2>2, <3>1, <4>2
        <5>2. pc[r] = "annotate"
          BY <1>t, <5>1 DEF Course, Calls
        <5>3. <<found[r], b>> \in noted
          BY <1>t, <2>4, <5>1, <5>2 DEF Knows, Calls, Held
        <5>4. QED
          BY <1>h, <5>3
      <4>3. QED
        BY <4>1, <4>2
    <3>2. Shown(f)' /\ found'[r] = f /\ f \in keyed
      BY <2>1, <2>4, <1>f, <1>s
    <3>3. Shown(found[r])'
      BY <3>2 DEF Shown, Least, Greatest
    <3>4. QED
      BY <1>h, <1>f, <2>1, <3>1, <3>2, <3>3 DEF Held
  <2>5. Knows(r)'
    BY <1>t, <1>h, <1>g, <2>1, <2>4 DEF Knows, Calls
  <2>6. QED
    BY <2>3, <2>5
<1>4. QED
  BY <1>1, <1>2, <1>3 DEF Written

LEMMA PostOwn ==
  ASSUME Inv, NEW r \in Runs, pc[r] = "post", Posted(r), Alone(r, mode[r] # "create"),
         Written(r, NewId, 1) \/ UNCHANGED Locals(r)
  PROVE  Course(r)' /\ Knows(r)'
<1>t. HostTypes /\ CallTypes /\ HostInv /\ Course(r) /\ Knows(r) /\ mode[r] \in {"upsert", "create"}
  BY DEF Inv, Types, Course, Calls
<1>h. /\ kind' = kind /\ noted \subseteq noted' /\ NewId \in Ids
      /\ mode[r] = "upsert" => keyed' = keyed \cup {NewId} /\ says'[NewId] = want[r]
      /\ kind # "status" => \A i \in Live : i < NewId /\ says'[i] = says[i]
      /\ \A n \in {1} \cap 1..parts[r] : <<NewId, n>> \in noted'
  BY PostedHost
<1>g. (alone'[r] => alone[r]) /\ (had'[r] => had[r])
  BY DEF Alone
<1>1. CASE UNCHANGED Locals(r)
  <2>1. /\ pc'[r] = pc[r] /\ mode'[r] = mode[r] /\ want'[r] = want[r] /\ parts'[r] = parts[r]
        /\ page'[r] = page[r] /\ found'[r] = found[r] /\ batch'[r] = batch[r]
    BY <1>1 DEF Locals
  <2>2. Course(r)'
    BY <1>t, <1>h, <2>1 DEF Course
  <2>3. ASSUME alone[r], mode[r] = "upsert" PROVE Fresh(r)'
    <3>1. Fresh(r)
      BY <1>t, <2>3 DEF Knows, Calls
    <3>2. kind \in Comments => \A i \in keyed : says'[i] = says[i]
      BY <1>t, <1>h DEF HostInv, Comments
    <3>3. QED
      BY <1>h, <2>1, <2>3, <3>1, <3>2 DEF Fresh
  <2>4. Knows(r)'
    BY <1>t, <1>h, <1>g, <2>1, <2>3 DEF Knows, Calls
  <2>5. QED
    BY <2>2, <2>4
<1>2. CASE Return(r, "done", 0)
  BY <1>t, <1>2, ReturnEnds DEF Resting
<1>3. CASE 1 < parts[r] /\ Goto(r, "annotate") /\ found' = [found EXCEPT ![r] = NewId]
           /\ batch' = [batch EXCEPT ![r] = 1 + 1] /\ UNCHANGED page
  <2>1. /\ pc'[r] = "annotate" /\ mode'[r] = mode[r] /\ want'[r] = want[r] /\ parts'[r] = parts[r]
        /\ found'[r] = NewId /\ batch'[r] = 2
    BY <1>t, <1>3 DEF Goto, CallTypes
  <2>2. kind = "checkRun" /\ mode[r] = "upsert" /\ 1 \in 1..parts[r]
    BY <1>t, <1>3 DEF Course, Calls, Comments, CallTypes
  <2>3. Course(r)'
    BY <1>t, <1>h, <2>1, <2>2 DEF Course, Calls
  <2>4. Held(r)'
    <3>1. PICK n \in Ids : n = NewId
      BY <1>h
    <3>2. \A i \in keyed : i <= n
      BY <1>t, <1>h, <2>2, <3>1 DEF HostInv, Ids, Live
    <3>3. keyed' = keyed \cup {n} /\ kind' \notin Comments /\ found'[r] = n
      BY <1>h, <2>1, <2>2, <3>1 DEF Comments
    <3>4. Shown(found[r])'
      BY <3>2, <3>3 DEF Shown, Greatest, Ids
    <3>5. \A b \in 1..(batch'[r] - 1) : <<found'[r], b>> \in noted'
      BY <1>h, <2>1, <2>2
    <3>6. QED
      BY <1>h, <2>1, <2>2, <3>3, <3>4, <3>5 DEF Held
  <2>5. Knows(r)'
    BY <1>t, <1>h, <2>1, <2>4, <2>2 DEF Knows, Calls
  <2>6. QED
    BY <2>3, <2>5
<1>4. QED
  BY <1>1, <1>2, <1>3 DEF Written

\* Where the host is as it was, a repeated call finds what it knew.
LEMMA QuietOwn ==
  ASSUME Inv, NEW r \in Runs, UNCHANGED hostVars, Alone(r, FALSE), UNCHANGED Locals(r)
  PROVE  Course(r)' /\ Knows(r)'
<1>1. (alone'[r] => alone[r]) /\ (had'[r] => had[r])
  BY DEF Alone
<1>2. QED
  BY <1>1, NothingHost, Stands

LEMMA OwnStands ==
  ASSUME Inv, NEW r \in Runs, RunStep(r) \/ Crash(r)
  PROVE  HostInv' /\ Course(r)' /\ Knows(r)'
<1>t. HostTypes /\ CallTypes /\ HostInv /\ Course(r) /\ Knows(r)
  BY DEF Inv, Types
<1>f. ASSUME Fail(r) PROVE Course(r)' /\ Knows(r)'
  BY <1>t, <1>f, ReturnEnds DEF Fail, Resting
<1>1. CASE List(r)
  BY <1>1, NothingHost, ListOwn DEF List
<1>2. CASE Edit(r)
  BY <1>2, EditedHost, EditOwn DEF Edit
<1>3. CASE Post(r)
  BY <1>3, PostedHost, PostOwn DEF Post
<1>4. CASE Refused(r)
  <2>1. HostInv' /\ UNCHANGED <<kind, says, keyed, noted, last>>
    BY <1>4, NothingHost DEF Refused
  <2>2. CASE pc[r] = "edit" /\ PostsInstead(r) /\ Goto(r, "post") /\ UNCHANGED <<page, found, batch>>
    <3>1. /\ pc'[r] = "post" /\ mode'[r] = mode[r] /\ want'[r] = want[r] /\ parts'[r] = parts[r]
          /\ found'[r] = found[r] /\ batch'[r] = batch[r]
      BY <1>t, <2>2 DEF Goto, CallTypes
    <3>2. Course(r)'
      BY <1>t, <2>1, <2>2, <3>1 DEF Course, Calls, PostsInstead
    <3>3. ~alone[r]
      BY <1>t, <2>2 DEF Knows, Calls, Held, PostsInstead, Gone, HostInv, Live
    <3>4. Knows(r)'
      BY <1>4, <3>3 DEF Refused, Alone, Knows
    <3>5. QED
      BY <2>1, <3>2, <3>4
  <2>3. CASE Fail(r)
    BY <2>1, <2>3, <1>f
  <2>4. QED
    BY <1>4, <2>2, <2>3 DEF Refused
<1>5. CASE Unavailable(r)
  <2>1. HostInv'
    BY <1>5, NothingHost DEF Unavailable
  <2>2. QED
    BY <1>5, <1>t, <2>1, RepeatOwn, QuietOwn DEF Unavailable
<1>6. CASE Lost(r)
  <2>1. Alone(r, mode[r] # "create")
    BY <1>6 DEF Lost
  <2>2. UNCHANGED Locals(r) \/ (Course(r)' /\ Knows(r)')
    BY <1>6, <1>t, RepeatOwn DEF Lost
  <2>3. CASE pc[r] = "post" /\ Posted(r)
    BY <2>1, <2>2, <2>3, PostedHost, PostOwn
  <2>4. CASE pc[r] \in {"edit", "annotate"} /\ ~Gone(r) /\ Edited(r)
    <3>1. Alone(r, TRUE)
      BY <1>t, <2>1, <2>4 DEF Course, Calls
    <3>2. QED
      BY <2>2, <2>4, <3>1, EditedHost, EditOwn
  <2>5. QED
    BY <1>6, <2>3, <2>4 DEF Lost
<1>7. CASE Crash(r)
  BY <1>7, <1>f, NothingHost DEF Crash
<1>8. QED
  BY <1>1, <1>2, <1>3, <1>4, <1>5, <1>6, <1>7 DEF RunStep

LEMMA BeginStands ==
  ASSUME Inv, NEW r \in Runs, NEW m \in Modes, NEW t \in Texts \cup {"none"}, NEW n \in 0..MaxBatches,
         Begin(r, m, t, n)
  PROVE  HostInv' /\ \A s \in Runs : Course(s)' /\ Knows(s)'
<1>t. HostTypes /\ CallTypes /\ GhostTypes /\ HostInv /\ Course(r) /\ Knows(r)
  BY DEF Inv, Types
<1>h. HostInv' /\ Live' = Live /\ Live' \subseteq Ids /\ UNCHANGED <<kind, says, keyed, noted, last>>
  BY NothingHost DEF Begin
<1>1. ASSUME NEW s \in Runs, s # r PROVE Course(s)' /\ Knows(s)'
  <2>1. UNCHANGED Locals(s) /\ alone'[s] = alone[s] /\ had'[s] = had[s]
    BY <1>t, <1>1 DEF Begin, CallTypes, GhostTypes, Locals
  <2>2. QED
    BY <1>h, <2>1, Stands
<1>2. /\ pc'[r] = Start(m) /\ mode'[r] = m /\ want'[r] = t /\ parts'[r] = n /\ page'[r] = 1
      /\ found'[r] = 0 /\ batch'[r] = 1 /\ alone'[r] /\ had'[r] = (keyed # {})
  BY <1>t DEF Begin, CallTypes, GhostTypes
<1>b. /\ kind \notin Comments => m = "upsert"
      /\ kind # "checkRun" => n = 0
      /\ m \in {"upsert", "editOnly"} => t \in Texts
      /\ Start(m) \in {"post", "list"}
      /\ Start(m) = "post" => m \in {"upsert", "create"}
      /\ Start(m) = "list" => m # "create" /\ kind # "status"
      /\ kind = "status" => Start(m) = "post"
      /\ Start(m) = "post" => kind \in {"comment", "note", "status"}
      /\ Start(m) = "post" /\ m = "upsert" => kind = "status"
  BY <1>t DEF Begin, Start, Comments, Modes
<1>3. Course(r)'
  BY <1>h, <1>b, <1>2 DEF Course
<1>4. Sought(r)'
  <2>1. (page'[r] - 1) * PageSize = 0
    BY <1>2
  <2>2. ASSUME NEW i \in keyed PROVE Rank(i)' > 0
    <3>1. i \in Ids /\ i \in Live
      BY <1>t, <2>2 DEF HostTypes, HostInv
    <3>2. Rank(i)' = Rank(i)
      BY <1>h DEF Rank
    <3>3. QED
      BY <1>t, <3>1, <3>2, RankType
  <2>3. QED
    BY <1>h, <1>2, <2>1, <2>2 DEF Sought
<1>5. Knows(r)'
  BY <1>h, <1>b, <1>2, <1>4 DEF Knows, Fresh, Comments
<1>6. QED
  BY <1>h, <1>1, <1>3, <1>5

LEMMA PersonStands ==
  ASSUME Inv, Types'
  PROVE  /\ \A quoting \in BOOLEAN : PersonWrites(quoting) =>
              HostInv' /\ \A s \in Runs : Course(s)' /\ Knows(s)'
         /\ \A i \in Ids : PersonDeletes(i) => HostInv' /\ \A s \in Runs : Course(s)' /\ Knows(s)'
<1>t. HostTypes /\ HostTypes' /\ GhostTypes /\ HostInv /\ Live' \subseteq Ids
  BY DEF Inv, Types, Live
<1>1. ASSUME NEW quoting \in BOOLEAN, PersonWrites(quoting)
      PROVE  HostInv' /\ \A s \in Runs : Course(s)' /\ Knows(s)'
  <2>1. last + 1 \in Ids /\ kind # "status" /\ kind' = kind
    BY <1>1, <1>t DEF PersonWrites, HostTypes, Comments, Ids
  <2>2. says'[last + 1] = "plain" /\ \A i \in Ids : i # last + 1 => says'[i] = says[i]
    BY <1>1, <1>t, <2>1 DEF PersonWrites, HostTypes
  <2>3. Live' = Live \cup {last + 1}
    BY <2>1, <2>2 DEF Live
  <2>4. \A i \in Live : says'[i] = says[i] /\ i <= last'
    BY <1>1, <1>t, <2>1, <2>2 DEF PersonWrites, HostInv, Live, HostTypes, Ids
  <2>5. HostInv'
    BY <1>1, <1>t, <2>1, <2>3, <2>4 DEF PersonWrites, HostInv, HostTypes, Ids
  <2>6. ASSUME NEW s \in Runs PROVE Course(s)' /\ Knows(s)'
    <3>1. UNCHANGED Locals(s)
      BY <1>1 DEF PersonWrites, callVars, Locals
    <3>2. CASE quoting
      BY <1>1, <2>1, <3>1, <3>2, Disturbed DEF PersonWrites
    <3>3. CASE ~quoting
      <4>1. keyed' = keyed /\ noted' = noted /\ (alone'[s] => alone[s]) /\ (had'[s] => had[s])
        BY <1>1, <3>3 DEF PersonWrites
      <4>2. \A i \in keyed : says'[i] = says[i]
        BY <1>t, <2>4 DEF HostInv
      <4>3. QED
        BY <1>t, <2>1, <2>3, <3>1, <4>1, <4>2, Stands
    <3>4. QED
      BY <3>2, <3>3
  <2>7. QED
    BY <2>5, <2>6
<1>2. ASSUME NEW i \in Ids, PersonDeletes(i)
      PROVE  HostInv' /\ \A s \in Runs : Course(s)' /\ Knows(s)'
  <2>1. Live' = Live \ {i}
    BY <1>2, <1>t DEF PersonDeletes, Live, HostTypes
  <2>2. HostInv'
    BY <1>2, <1>t, <2>1 DEF PersonDeletes, HostInv
  <2>3. ASSUME NEW s \in Runs PROVE Course(s)' /\ Knows(s)'
    <3>1. UNCHANGED Locals(s) /\ ~alone'[s] /\ kind' = kind
      BY <1>2 DEF PersonDeletes, callVars, Locals
    <3>2. QED
      BY <3>1, Disturbed
  <2>4. QED
    BY <2>2, <2>3
<1>3. QED
  BY <1>1, <1>2

LEMMA NextInv == Inv /\ [Next]_vars => Inv'
<1>1. ASSUME Inv, NEW r \in Runs, RunStep(r) \/ Crash(r) PROVE Inv'
  <2>1. Types'
    BY <1>1, StepTypes
  <2>2. \A s \in Runs : s # r => Course(s)' /\ Knows(s)'
    BY <1>1, <2>1, OtherStands
  <2>3. HostInv' /\ Course(r)' /\ Knows(r)'
    BY <1>1, OwnStands
  <2>4. QED
    BY <2>1, <2>2, <2>3 DEF Inv
<1>2. ASSUME Inv, NEW r \in Runs, NEW m \in Modes, NEW t \in Texts \cup {"none"},
             NEW n \in 0..MaxBatches, Begin(r, m, t, n)
      PROVE  Inv'
  BY <1>2, OtherTypes, BeginStands DEF Inv
<1>3. ASSUME Inv, NEW quoting \in BOOLEAN, PersonWrites(quoting) PROVE Inv'
  BY <1>3, OtherTypes, PersonStands DEF Inv
<1>4. ASSUME Inv, NEW i \in Ids, PersonDeletes(i) PROVE Inv'
  BY <1>4, OtherTypes, PersonStands DEF Inv
<1>5. ASSUME Inv, UNCHANGED vars PROVE Inv'
  <2>1. UNCHANGED hostVars /\ UNCHANGED callVars /\ UNCHANGED ghosts
    BY <1>5 DEF vars
  <2>2. Types'
    BY <1>5, <2>1 DEF Inv, Types, HostTypes, CallTypes, GhostTypes, hostVars, callVars, ghosts
  <2>3. HostInv'
    BY <1>5, <2>1, NothingHost
  <2>4. ASSUME NEW s \in Runs PROVE Course(s)' /\ Knows(s)'
    <3>1. UNCHANGED Locals(s) /\ alone' = alone /\ had' = had
      BY <2>1 DEF callVars, ghosts, Locals
    <3>2. QED
      BY <1>5, <2>1, <3>1, NothingHost, Stands
  <2>5. QED
    BY <2>2, <2>3, <2>4 DEF Inv
<1>6. QED
  BY <1>1, <1>2, <1>3, <1>4, <1>5 DEF Next

LEMMA InvHolds == Spec => []Inv
  BY InitInv, NextInv, PTL DEF Spec

\* The types of what the host holds and of the runs' locals.
THEOREM TypeCorrect == Spec => []TypeOK
<1>1. Inv => TypeOK
  BY TypesSuffice DEF Inv
<1>2. QED
  BY <1>1, InvHolds, PTL

-----------------------------------------------------------------------------
(* What a run achieves.                                                    *)

\* Some number of a set is the least.
LEMMA FirstOf ==
  ASSUME NEW S \in SUBSET Nat, S # {}
  PROVE  \E m \in S : \A x \in S : m <= x
<1> DEFINE R == OpToRel(<, Nat)
<1>1. IsWellFoundedOn(R, Nat)
  BY NatLessThanWellFounded, Zenon
<1>2. PICK m \in S : \A y \in S : <<y, m>> \notin R
  <2> HIDE DEF R
  <2> QED
    BY <1>1, WFMin
<1>3. \A y \in S : ~(y < m)
  BY <1>2, Zenon DEF OpToRel
<1>4. QED
  BY <1>3

\* The step of another run, or of a person, is none of this one.
LEMMA StepsApart ==
  ASSUME Inv, NEW r \in Runs, NEW s \in Runs, r # s, RunStep(s) \/ Crash(s)
  PROVE  pc'[r] = pc[r] /\ tries'[r] = tries[r]
<1>t. CallTypes
  BY DEF Inv, Types
<1>1. \A how, i : Return(s, how, i) => pc'[r] = pc[r] /\ tries'[r] = tries[r]
  BY <1>t DEF Return, CallTypes
<1>2. \A next : Goto(s, next) => pc'[r] = pc[r] /\ tries'[r] = tries[r]
  BY <1>t DEF Goto, CallTypes
<1>3. Repeat(s) => pc'[r] = pc[r] /\ tries'[r] = tries[r]
  BY <1>t, <1>1 DEF Repeat, Fail, CallTypes
<1>4. \A i, b : Written(s, i, b) => pc'[r] = pc[r] /\ tries'[r] = tries[r]
  BY <1>1, <1>2 DEF Written
<1>5. List(s) => pc'[r] = pc[r] /\ tries'[r] = tries[r]
  BY <1>1, <1>2 DEF List, Finds, Fail
<1>6. QED
  BY <1>1, <1>2, <1>3, <1>4, <1>5 DEF RunStep, Edit, Post, Refused, Unavailable, Lost, Crash, Fail

LEMMA OthersApart ==
  ASSUME Inv, NEW r \in Runs, pc[r] \in Calls
  PROVE  /\ \A s \in Runs, m \in Modes, t \in Texts \cup {"none"}, n \in 0..MaxBatches :
              Begin(s, m, t, n) => pc'[r] = pc[r] /\ tries'[r] = tries[r]
         /\ \A quoting \in BOOLEAN : PersonWrites(quoting) => pc'[r] = pc[r] /\ tries'[r] = tries[r]
         /\ \A i \in Ids : PersonDeletes(i) => pc'[r] = pc[r] /\ tries'[r] = tries[r]
         /\ UNCHANGED vars => pc'[r] = pc[r] /\ tries'[r] = tries[r]
<1>1. pc \in [Runs -> Resting \cup Calls] /\ pc[r] \notin Resting
  BY DEF Inv, Types, CallTypes, Resting, Calls
<1>2. ASSUME NEW s \in Runs, NEW m \in Modes, NEW t \in Texts \cup {"none"}, NEW n \in 0..MaxBatches,
             Begin(s, m, t, n)
      PROVE  pc'[r] = pc[r] /\ tries'[r] = tries[r]
  BY <1>1, <1>2 DEF Begin
<1>3. QED
  BY <1>2 DEF PersonWrites, PersonDeletes, callVars, vars

\* How a run ends well.
LEMMA WellEnded ==
  ASSUME Inv, NEW r \in Runs, pc[r] \in Calls, RunStep(r) \/ Crash(r), pc'[r] \notin {pc[r], "failed"}
  PROVE  List(r) \/ Edit(r) \/ Post(r) \/ (Refused(r) /\ pc[r] = "edit" /\ pc'[r] = "post")
<1>t. CallTypes
  BY DEF Inv, Types
<1>1. Fail(r) => pc'[r] = "failed"
  BY <1>t, ReturnEnds DEF Fail, Resting
<1>2. Repeat(r) => pc'[r] \in {pc[r], "failed"}
  BY <1>1 DEF Repeat
<1>3. ASSUME Refused(r) PROVE pc[r] = "edit" /\ pc'[r] = "post"
  BY <1>t, <1>1, <1>3 DEF Refused, Goto, CallTypes
<1>4. QED
  BY <1>1, <1>2, <1>3 DEF RunStep, Unavailable, Lost, Crash

\* A search ends with what is shown.
THEOREM SearchesFind == Spec => FindsTheShown
<1>1. ASSUME Inv, NEW r \in Runs, pc[r] = "list", alone[r], RunStep(r) \/ Crash(r),
             pc'[r] \notin {"list", "failed"}
      PROVE  Shown(found'[r])
  <2>1. List(r) /\ CallTypes
    BY <1>1, WellEnded DEF Inv, Types, Calls, Edit, Post
  <2>2. PICK i \in 0..MaxThings :
           /\ Pick(i, (keyed \cap OnPage(page[r])) \cup ({found[r]} \ {0}))
           /\ \/ ~More(page[r]) /\ Finds(r, i)
              \/ Goto(r, "list") \/ Fail(r)
    BY <2>1 DEF List
  <2>3. (Goto(r, "list") => pc'[r] = "list") /\ (Fail(r) => pc'[r] = "failed")
    BY <2>1, ReturnEnds DEF Goto, Fail, CallTypes, Resting
  <2>4. Shown(i) /\ found'[r] = i
    BY <1>1, <2>1, <2>2, <2>3, ListPicks DEF Finds, Return, CallTypes
  <2>5. QED
    BY <2>4
<1>2. ASSUME Inv, [Next]_vars
      PROVE  \A r \in Runs :
               pc[r] = "list" /\ alone[r] /\ pc'[r] \notin {"list", "failed"} => Shown(found'[r])
  <2>1. SUFFICES ASSUME NEW r \in Runs, pc[r] = "list", alone[r], pc'[r] \notin {"list", "failed"}
                 PROVE  Shown(found'[r])
    OBVIOUS
  <2>2. pc[r] \in Calls /\ pc'[r] # pc[r]
    BY <2>1 DEF Calls
  <2>3. RunStep(r) \/ Crash(r)
    BY <1>2, <2>2, StepsApart, OthersApart DEF Next
  <2>4. QED
    BY <1>1, <1>2, <2>1, <2>3
<1>3. QED
  BY <1>2, InvHolds, PTL DEF Spec, FindsTheShown

\* Where there is something to write to, nothing is added.
THEOREM NoneIsAdded == Spec => AddsNoSecond
<1>1. ASSUME Inv, [Next]_vars, NEW r \in Runs, kind # "status", pc[r] \in Calls,
             mode[r] \in {"upsert", "editOnly"}, (alone[r] /\ had[r]) \/ mode[r] = "editOnly",
             pc'[r] # pc[r] \/ tries'[r] # tries[r]
      PROVE  last' = last
  <2>1. RunStep(r) \/ Crash(r)
    BY <1>1, StepsApart, OthersApart DEF Next
  <2>2. pc[r] # "post"
    BY <1>1 DEF Inv, Course, Knows
  <2>3. Edited(r) => last' = last
    BY DEF Edited
  <2>4. QED
    BY <2>1, <2>2, <2>3 DEF RunStep, List, Edit, Post, Refused, Unavailable, Lost, Crash, hostVars
<1>2. ASSUME Inv, [Next]_vars
      PROVE  \A r \in Runs :
               /\ kind # "status"
               /\ pc[r] \in Calls /\ mode[r] \in {"upsert", "editOnly"}
               /\ (alone[r] /\ had[r]) \/ mode[r] = "editOnly"
               /\ pc'[r] # pc[r] \/ tries'[r] # tries[r]
               => last' = last
  BY <1>1, <1>2
<1>3. QED
  BY <1>2, InvHolds, PTL DEF Spec, AddsNoSecond

\* What a run by itself has written last is what is shown, and complete.
LEMMA EditShows ==
  ASSUME Inv, NEW r \in Runs, alone[r], Edit(r), pc'[r] = "done"
  PROVE  Reports(r)
<1>t. CallTypes /\ Course(r) /\ Held(r) /\ found[r] \in Ids
  BY DEF Inv, Types, Edit, Course, Knows, Calls
<1>h. /\ kind' = kind /\ keyed' = keyed /\ noted \subseteq noted' /\ says'[found[r]] = want[r]
      /\ \A n \in {batch[r]} \cap 1..parts[r] : <<found[r], n>> \in noted'
  BY EditedHost DEF Edit
<1>1. PICK f \in keyed : f = found[r] /\ Shown(f)
  BY <1>t DEF Held
<1>2. Shown(f)'
  BY <1>h, <1>1 DEF Shown, Least, Greatest
<1>3. parts[r] <= batch[r] /\ parts[r] \in Nat /\ batch[r] \in Nat
  BY <1>t DEF Edit, Written, Goto, CallTypes
<1>4. ASSUME NEW b \in 1..parts[r] PROVE <<f, b>> \in noted'
  <2>1. CASE b = batch[r]
    BY <1>h, <1>1, <1>4, <2>1
  <2>2. CASE b # batch[r]
    <3>1. b \in 1..(batch[r] - 1) /\ batch[r] # 1
      BY <1>3, <1>4, <2>2
    <3>2. pc[r] = "annotate"
      BY <1>t, <3>1 DEF Course, Edit, Calls
    <3>3. QED
      BY <1>t, <1>h, <1>1, <3>1, <3>2 DEF Held
  <2>3. QED
    BY <2>1, <2>2
<1>5. QED
  BY <1>h, <1>1, <1>2, <1>4 DEF Reports

LEMMA PostShows ==
  ASSUME Inv, NEW r \in Runs, alone[r], Post(r), mode[r] = "upsert", pc'[r] = "done"
  PROVE  Reports(r)
<1>t. HostTypes /\ CallTypes /\ HostInv /\ Course(r) /\ Fresh(r) /\ pc[r] = "post"
  BY DEF Inv, Types, Post, Knows, Calls
<1>h. /\ kind' = kind /\ NewId \in Ids /\ keyed' = keyed \cup {NewId} /\ says'[NewId] = want[r]
      /\ kind # "status" => \A i \in Live : i < NewId /\ says'[i] = says[i]
      /\ \A n \in {1} \cap 1..parts[r] : <<NewId, n>> \in noted'
  BY PostedHost DEF Post
<1>n. PICK n \in Ids : n = NewId
  BY <1>h
<1>1. CASE kind \in Comments
  <2>1. keyed' \in SUBSET Nat /\ keyed' # {}
    BY <1>t, <1>h DEF HostTypes, Ids
  <2>2. PICK m \in keyed' : \A x \in keyed' : m <= x
    BY <2>1, FirstOf
  <2>3. Shown(m)'
    BY <1>1, <1>h, <2>2 DEF Shown, Least
  <2>4. says'[m] = want[r]
    BY <1>1, <1>t, <1>h, <2>2 DEF Fresh, HostInv, Comments
  <2>5. parts[r] = 0
    BY <1>1, <1>t DEF Course, Calls, Comments
  <2>6. QED
    BY <2>2, <2>3, <2>4, <2>5 DEF Reports
<1>2. CASE kind \notin Comments
  <2>1. \A i \in keyed : i <= n
    BY <1>t, <1>h, <1>n DEF HostInv, HostTypes, NewId, Ids
  <2>2. Shown(n)'
    BY <1>2, <1>h, <1>n, <2>1 DEF Shown, Greatest, Ids
  <2>3. parts[r] <= 1 /\ parts[r] \in Nat
    BY <1>t DEF Post, Written, Goto, CallTypes
  <2>4. \A b \in 1..parts[r] : <<n, b>> \in noted'
    BY <1>h, <1>n, <2>3
  <2>5. QED
    BY <1>h, <1>n, <2>2, <2>4 DEF Reports
<1>3. QED
  BY <1>1, <1>2

\* A run by itself leaves its report where it is shown.
THEOREM ReportsAreShown == Spec => ShowsItsReport
<1>1. ASSUME Inv, [Next]_vars, NEW r \in Runs, pc[r] \in Calls, alone[r], pc'[r] = "done",
             mode[r] \in {"upsert", "editOnly"}
      PROVE  \/ mode[r] = "editOnly" /\ keyed = {}
             \/ Reports(r)
  <2>t. CallTypes /\ HostTypes /\ Course(r) /\ pc'[r] # pc[r]
    BY <1>1 DEF Inv, Types, Calls
  <2>1. RunStep(r) \/ Crash(r)
    BY <1>1, <2>t, StepsApart, OthersApart DEF Next
  <2>2. List(r) \/ Edit(r) \/ Post(r)
    BY <1>1, <2>1, <2>t, WellEnded
  <2>3. CASE List(r)
    <3>1. Shown(found'[r])
      <4>1. PICK i \in 0..MaxThings :
               /\ Pick(i, (keyed \cap OnPage(page[r])) \cup ({found[r]} \ {0}))
               /\ \/ ~More(page[r]) /\ Finds(r, i)
                  \/ Goto(r, "list") \/ Fail(r)
        BY <2>3 DEF List
      <4>2. (Goto(r, "list") => pc'[r] = "list") /\ (Fail(r) => pc'[r] = "failed")
        BY <2>t, ReturnEnds DEF Goto, Fail, CallTypes, Resting
      <4>3. Shown(i) /\ found'[r] = i
        BY <1>1, <2>3, <2>t, <4>1, <4>2, ListPicks DEF List, Finds, Return, CallTypes
      <4>4. QED
        BY <4>3
    <3>2. mode[r] = "editOnly" /\ found'[r] = 0
      BY <1>1, <2>3, <2>t, ReturnEnds DEF List, Finds, Goto, Return, Fail, CallTypes, Resting
    <3>3. QED
      BY <2>t, <3>1, <3>2 DEF Shown, Least, Greatest, HostTypes, Ids
  <2>4. CASE Edit(r)
    BY <1>1, <2>4, EditShows
  <2>5. CASE Post(r)
    BY <1>1, <2>5, <2>t, PostShows DEF Course, Post
  <2>6. QED
    BY <2>2, <2>3, <2>4, <2>5
<1>2. ASSUME Inv, [Next]_vars
      PROVE  \A r \in Runs :
               /\ pc[r] \in Calls /\ alone[r] /\ pc'[r] = "done"
               /\ mode[r] \in {"upsert", "editOnly"}
               => \/ mode[r] = "editOnly" /\ keyed = {}
                  \/ Reports(r)
  BY <1>1, <1>2
<1>3. QED
  BY <1>2, InvHolds, PTL DEF Spec, ShowsItsReport
-----------------------------------------------------------------------------
(* What a run never touches.                                               *)

\* What a run's step does to the host.
LEMMA RunHost ==
  ASSUME NEW r \in Runs, RunStep(r) \/ Crash(r)
  PROVE  \/ UNCHANGED hostVars
         \/ pc[r] \in {"edit", "annotate"} /\ ~Gone(r) /\ Edited(r)
         \/ pc[r] = "post" /\ Posted(r)
  BY DEF RunStep, List, Edit, Post, Refused, Unavailable, Lost, Crash

\* The thing a run holds the id of carries the marker or is gone for good,
\* whoever interferes.
Owned(r) ==
    pc[r] \in Calls /\ kind # "status" /\ found[r] # 0 =>
        found[r] \in keyed \/ (found[r] <= last /\ says[found[r]] = "none")

\* A status carries its name.
StatusMarked == kind = "status" => Live \subseteq keyed

AllOwned == StatusMarked /\ \A r \in Runs : Owned(r)

\* Of the things there have been, the marked stay marked or go, the gone stay away.
Lasting ==
    /\ kind' = kind /\ last <= last'
    /\ \A i \in keyed : i \in keyed' \/ says'[i] = "none"
    /\ \A i \in Ids : i <= last /\ says[i] = "none" => says'[i] = "none"

LEMMA HostLasts ==
  ASSUME Inv, \A s \in Runs : Owned(s), Next, kind # "status"
  PROVE  Lasting
<1>t. HostTypes /\ HostInv /\ keyed \subseteq Ids /\ Live \subseteq Ids
  BY DEF Inv, Types, HostTypes, Live
<1>1. ASSUME UNCHANGED hostVars PROVE Lasting
  BY <1>1, <1>t DEF hostVars, Lasting, HostTypes
<1>2. ASSUME NEW r \in Runs, pc[r] \in {"edit", "annotate"}, ~Gone(r), Edited(r) PROVE Lasting
  <2>1. /\ kind' = kind /\ keyed' = keyed /\ last' = last
        /\ \A i \in Ids : i # found[r] => says'[i] = says[i]
    BY <1>2, EditedHost DEF Edited
  <2>2. \A i \in Ids : says[i] = "none" => says'[i] = "none"
    BY <1>2, <2>1 DEF Gone
  <2>3. QED
    BY <1>t, <2>1, <2>2 DEF Lasting, HostTypes
<1>3. ASSUME NEW r \in Runs, pc[r] = "post", Posted(r) PROVE Lasting
  <2>1. NewId \in Ids /\ NewId = last + 1 /\ last' = last + 1 /\ kind' = kind /\ keyed \subseteq keyed'
    BY <1>3 DEF Posted, NewId
  <2>2. \A i \in Ids : i # NewId => says'[i] = says[i]
    BY <1>3, <1>t DEF Posted, HostTypes
  <2>3. \A i \in Ids : i <= last => i # NewId
    BY <1>t, <2>1 DEF HostTypes, Ids
  <2>4. QED
    BY <1>t, <2>1, <2>2, <2>3 DEF Lasting, HostTypes
<1>4. ASSUME NEW quoting \in BOOLEAN, PersonWrites(quoting) PROVE Lasting
  <2>1. last' = last + 1 /\ kind' = kind /\ keyed \subseteq keyed'
    BY <1>4 DEF PersonWrites
  <2>2. \A i \in Ids : i <= last => says'[i] = says[i]
    BY <1>4, <1>t DEF PersonWrites, HostTypes, Ids
  <2>3. QED
    BY <1>t, <2>1, <2>2 DEF Lasting, HostTypes
<1>5. ASSUME NEW i \in Ids, PersonDeletes(i) PROVE Lasting
  <2>1. last' = last /\ kind' = kind /\ keyed' = keyed \ {i}
    BY <1>5 DEF PersonDeletes
  <2>2. says'[i] = "none" /\ \A j \in Ids : j # i => says'[j] = says[j]
    BY <1>5, <1>t DEF PersonDeletes, HostTypes
  <2>3. QED
    BY <1>t, <2>1, <2>2 DEF Lasting, HostTypes
<1>6. ASSUME NEW r \in Runs, NEW m, NEW t, NEW n, Begin(r, m, t, n) PROVE UNCHANGED hostVars
  BY <1>6 DEF Begin
<1>7. QED
  BY <1>1, <1>2, <1>3, <1>4, <1>5, <1>6, RunHost DEF Next

\* A run that keeps what it knows keeps its own.
LEMMA OwnedLasts ==
  ASSUME Inv, Types', NEW s \in Runs, Owned(s), kind # "status" => Lasting, kind' = kind,
         pc'[s] \in Calls => pc[s] \in Calls /\ found'[s] = found[s]
  PROVE  Owned(s)'
<1>1. SUFFICES ASSUME pc'[s] \in Calls, kind # "status", found[s] # 0
               PROVE  found[s] \in keyed' \/ (found[s] <= last' /\ says'[found[s]] = "none")
  BY DEF Owned
<1>2. found[s] \in Ids /\ HostInv
  BY <1>1 DEF Inv, Types, CallTypes, Ids
<1>n. last \in Nat /\ last' \in Nat
  BY DEF Inv, Types, HostTypes
<1>3. CASE found[s] \in keyed
  <2>1. found[s] <= last
    BY <1>1, <1>2, <1>3 DEF HostInv
  <2>2. found[s] <= last'
    BY <1>1, <1>2, <1>n, <2>1 DEF Lasting, Ids
  <2>3. QED
    BY <1>1, <1>3, <2>2 DEF Lasting
<1>4. CASE found[s] <= last /\ says[found[s]] = "none"
  BY <1>1, <1>2, <1>4, <1>n DEF Lasting, Ids
<1>5. QED
  BY <1>1, <1>3, <1>4 DEF Owned

\* A run's own step.
LEMMA OwnedOwn ==
  ASSUME Inv, Types', \A s \in Runs : Owned(s), NEW r \in Runs, RunStep(r) \/ Crash(r)
  PROVE  Owned(r)'
<1>t. CallTypes /\ HostTypes /\ Course(r) /\ Owned(r)
  BY DEF Inv, Types
<1>l. kind # "status" => Lasting
  BY HostLasts DEF Next
<1>r. ASSUME NEW how \in Resting, NEW i, Return(r, how, i) PROVE Owned(r)'
  <2>1. pc'[r] \notin Calls
    BY <1>r, <1>t DEF Return, CallTypes, Resting, Calls
  <2>2. QED
    BY <2>1 DEF Owned
<1>f. ASSUME Fail(r) PROVE Owned(r)'
  BY <1>f, <1>r DEF Fail, Resting
<1>k. ASSUME kind' = kind, Repeat(r), pc[r] \in Calls PROVE Owned(r)'
  <2>1. CASE UNCHANGED <<pc, found>>
    BY <1>t, <1>l, <1>k, <2>1, OwnedLasts
  <2>2. QED
    BY <1>f, <1>k, <2>1 DEF Repeat
<1>h. kind' = kind
  BY RunHost DEF hostVars, Edited, Posted
<1>1. CASE List(r)
  <2>1. PICK i \in 0..MaxThings :
           /\ Pick(i, (keyed \cap OnPage(page[r])) \cup ({found[r]} \ {0}))
           /\ Finds(r, i) \/ (Goto(r, "list") /\ found' = [found EXCEPT ![r] = i]) \/ Fail(r)
    BY <1>1 DEF List
  <2>2. i = 0 \/ i \in keyed \/ (i = found[r] /\ found[r] # 0)
    BY <2>1 DEF Pick, Least, Greatest
  <2>3. ASSUME found' = [found EXCEPT ![r] = i] PROVE Owned(r)'
    BY <1>1, <1>t, <2>2, <2>3 DEF List, hostVars, Owned, Calls, CallTypes
  <2>4. QED
    BY <1>f, <1>r, <2>1, <2>3 DEF Finds, Resting
<1>2. CASE Edit(r)
  <2>1. CASE Return(r, "done", 0)
    BY <1>r, <2>1 DEF Resting
  <2>2. CASE found' = [found EXCEPT ![r] = found[r]]
    BY <1>2, <1>t, <1>l, <1>h, <2>2, OwnedLasts DEF Edit, Calls, CallTypes
  <2>3. QED
    BY <1>2, <2>1, <2>2 DEF Edit, Written
<1>3. CASE Post(r)
  <2>1. CASE Return(r, "done", 0)
    BY <1>r, <2>1 DEF Resting
  <2>2. CASE 1 < parts[r] /\ found' = [found EXCEPT ![r] = NewId]
    <3>1. mode[r] = "upsert"
      BY <1>3, <1>t, <2>2 DEF Post, Course, Calls, Comments
    <3>2. NewId \in keyed'
      BY <1>3, <3>1, PostedHost DEF Post
    <3>3. found'[r] \in keyed'
      BY <1>t, <2>2, <3>2 DEF CallTypes
    <3>4. QED
      BY <3>3 DEF Owned
  <2>3. QED
    BY <1>3, <2>1, <2>2 DEF Post, Written
<1>4. CASE Refused(r)
  <2>1. CASE Goto(r, "post") /\ UNCHANGED <<page, found, batch>>
    BY <1>4, <1>t, <1>l, <1>h, <2>1, OwnedLasts DEF Refused
  <2>2. QED
    BY <1>4, <1>f, <2>1 DEF Refused
<1>5. CASE Unavailable(r) \/ Lost(r)
  BY <1>5, <1>h, <1>k DEF Unavailable, Lost, Calls
<1>6. CASE Crash(r)
  BY <1>6, <1>f DEF Crash
<1>7. QED
  BY <1>1, <1>2, <1>3, <1>4, <1>5, <1>6 DEF RunStep

LEMMA OwnedHolds == Spec => []AllOwned
<1>1. Init => AllOwned
  BY DEF Init, AllOwned, StatusMarked, Live, Owned, Calls
<1>2. ASSUME Inv, Inv', \A s \in Runs : Owned(s), Next, NEW r \in Runs PROVE Owned(r)'
  <2>t. CallTypes /\ Types' /\ Owned(r) /\ (kind # "status" => Lasting)
    BY <1>2, HostLasts DEF Inv, Types
  <2>1. CASE RunStep(r) \/ Crash(r)
    BY <1>2, <2>1, <2>t, OwnedOwn
  <2>2. ASSUME NEW s \in Runs, s # r, RunStep(s) \/ Crash(s) PROVE Owned(r)'
    <3>1. UNCHANGED Locals(r)
      BY <2>2, <2>t, OneAtATime
         DEF RunStep, Edit, Post, Refused, Unavailable, Lost, Crash, Fail
    <3>2. kind' = kind
      BY <2>2, RunHost DEF hostVars, Edited, Posted
    <3>3. QED
      BY <1>2, <2>t, <3>1, <3>2, OwnedLasts DEF Locals
  <2>3. ASSUME NEW s \in Runs, NEW m, NEW t, NEW n, Begin(s, m, t, n) PROVE Owned(r)'
    <3>1. CASE s = r
      BY <2>3, <2>t, <3>1 DEF Begin, Owned, CallTypes
    <3>2. CASE s # r
      <4>1. pc'[r] = pc[r] /\ found'[r] = found[r] /\ kind' = kind
        BY <2>3, <2>t, <3>2 DEF Begin, hostVars, CallTypes
      <4>2. QED
        BY <1>2, <2>t, <4>1, OwnedLasts
    <3>3. QED
      BY <3>1, <3>2
  <2>4. ASSUME UNCHANGED callVars, kind' = kind PROVE Owned(r)'
    BY <1>2, <2>t, <2>4, OwnedLasts DEF callVars
  <2>5. QED
    BY <1>2, <2>1, <2>2, <2>3, <2>4 DEF Next, PersonWrites, PersonDeletes
<1>3. ASSUME Inv, AllOwned, Next PROVE StatusMarked'
  <2>1. ASSUME UNCHANGED hostVars PROVE StatusMarked'
    BY <1>3, <2>1 DEF hostVars, AllOwned, StatusMarked, Live
  <2>2. ASSUME NEW r \in Runs, pc[r] \in {"edit", "annotate"}, ~Gone(r), Edited(r) PROVE StatusMarked'
    BY <1>3, <2>2, EditedHost DEF AllOwned, StatusMarked
  <2>3. ASSUME NEW r \in Runs, pc[r] = "post", Posted(r), kind = "status" PROVE StatusMarked'
    <3>1. mode[r] = "upsert" /\ says \in [Ids -> Texts \cup {"none", "plain"}]
      BY <1>3, <2>3 DEF Inv, Course, Calls, Comments, Types, HostTypes
    <3>2. keyed' = keyed \cup {NewId} /\ says' = [says EXCEPT ![NewId] = want[r]]
      BY <2>3, <3>1 DEF Posted
    <3>3. PICK n : n = NewId
      OBVIOUS
    <3>4. \A i \in Ids : i # n => says'[i] = says[i]
      BY <3>1, <3>2, <3>3
    <3>5. Live' \subseteq Live \cup {n}
      BY <3>4 DEF Live
    <3>6. QED
      BY <1>3, <2>3, <3>2, <3>3, <3>5 DEF AllOwned, StatusMarked
  <2>4. ASSUME kind \in Comments, kind' = kind PROVE StatusMarked'
    BY <2>4 DEF StatusMarked, Comments
  <2>5. QED
    BY <1>3, <2>1, <2>2, <2>3, <2>4, RunHost
       DEF Next, Begin, PersonWrites, PersonDeletes, Posted, StatusMarked
<1>4. ASSUME AllOwned, UNCHANGED vars PROVE AllOwned'
  <2>1. UNCHANGED hostVars /\ UNCHANGED callVars
    BY <1>4 DEF vars
  <2>2. QED
    BY <1>4, <2>1 DEF hostVars, callVars, AllOwned, StatusMarked, Live, Owned
<1>5. Inv /\ Inv' /\ AllOwned /\ [Next]_vars => AllOwned'
  <2>1. ASSUME Inv, Inv', AllOwned, Next PROVE AllOwned'
    BY <1>2, <1>3, <2>1 DEF AllOwned
  <2>2. QED
    BY <1>4, <2>1
<1>6. QED
  BY <1>1, <1>5, InvHolds, PTL DEF Spec

\* Nobody's words are replaced but under the marker.
THEOREM OnlyMarkedIsRewritten == Spec => RewritesOnlyMarked
<1>1. ASSUME Inv, AllOwned, Next, NEW i \in Live, says'[i] \notin {says[i], "none"}
      PROVE  i \in keyed
  <2>t. HostTypes /\ HostInv /\ CallTypes /\ i \in Ids
    BY <1>1 DEF Inv, Types, Live
  <2>1. ~UNCHANGED hostVars
    BY <1>1 DEF hostVars
  <2>2. ASSUME NEW r \in Runs, pc[r] \in {"edit", "annotate"}, ~Gone(r), Edited(r) PROVE i \in keyed
    <3>1. i = found[r]
      BY <1>1, <2>2, <2>t, EditedHost
    <3>2. kind # "status" /\ found[r] # 0 /\ pc[r] \in Calls
      BY <1>1, <2>2, <2>t, <3>1 DEF Inv, Course, Calls, Ids
    <3>3. QED
      BY <1>1, <2>2, <3>1, <3>2 DEF AllOwned, Owned, Gone
  <2>3. ASSUME NEW r \in Runs, pc[r] = "post", Posted(r) PROVE i \in keyed
    <3>1. CASE kind = "status"
      BY <1>1, <3>1 DEF AllOwned, StatusMarked
    <3>2. CASE kind # "status"
      BY <1>1, <2>3, <3>2, PostedHost
    <3>3. QED
      BY <3>1, <3>2
  <2>4. ASSUME NEW quoting \in BOOLEAN, PersonWrites(quoting) PROVE says'[i] = says[i]
    BY <1>1, <2>4, <2>t DEF PersonWrites, HostInv, HostTypes, Comments, Ids
  <2>5. ASSUME NEW j \in Ids, PersonDeletes(j) PROVE says'[i] \in {says[i], "none"}
    BY <2>5, <2>t DEF PersonDeletes, HostTypes
  <2>6. QED
    BY <1>1, <2>1, <2>2, <2>3, <2>4, <2>5, RunHost DEF Next, Begin
<1>2. Inv /\ AllOwned /\ [Next]_vars =>
        [\A i \in Live : says'[i] \notin {says[i], "none"} => i \in keyed]_vars
  BY <1>1
<1>3. QED
  BY <1>2, InvHolds, OwnedHolds, PTL DEF Spec, RewritesOnlyMarked

\* Step by step, what is shown is what was shown or the run's own report.
THEOREM ShownIsNeverElse == Spec => ShowsItOrWhatWas
<1>1. ASSUME Inv, NEW r \in Runs, alone[r], RunStep(r), NEW i \in keyed', Shown(i)'
      PROVE  says'[i] = want[r] \/ (i \in keyed /\ Shown(i) /\ says'[i] = says[i])
  <2>t. HostTypes /\ HostInv /\ CallTypes /\ Course(r) /\ Knows(r)
    BY <1>1 DEF Inv, Types
  <2>1. CASE UNCHANGED hostVars
    BY <1>1, <2>1 DEF hostVars, Shown, Least, Greatest
  <2>2. CASE pc[r] \in {"edit", "annotate"} /\ ~Gone(r) /\ Edited(r)
    <3>1. keyed' = keyed /\ kind' = kind /\ says'[found[r]] = want[r]
      BY <1>1, <2>2, EditedHost
    <3>2. Shown(found[r]) /\ found[r] \in keyed
      BY <1>1, <2>2, <2>t DEF Knows, Held, Calls
    <3>3. \A a, b \in keyed : Shown(a) /\ Shown(b) => a = b
      BY <2>t DEF Shown, Least, Greatest, HostTypes, Ids
    <3>4. Shown(i) /\ i \in keyed
      BY <1>1, <3>1 DEF Shown, Least, Greatest
    <3>5. i = found[r]
      BY <3>2, <3>3, <3>4
    <3>6. QED
      BY <3>1, <3>5
  <2>3. CASE pc[r] = "post" /\ Posted(r) /\ mode[r] = "upsert"
    <3>1. /\ kind' = kind /\ NewId \in Ids /\ keyed' = keyed \cup {NewId} /\ says'[NewId] = want[r]
          /\ kind # "status" => \A j \in Live : j < NewId /\ says'[j] = says[j]
      BY <1>1, <2>3, PostedHost
    <3>2. CASE kind \in Comments
      BY <1>1, <2>3, <2>t, <3>1, <3>2 DEF Knows, Fresh, HostInv, Comments, Calls
    <3>3. CASE kind \notin Comments
      <4>1. \A j \in keyed : j <= NewId
        BY <2>t, <3>1 DEF HostInv, HostTypes, NewId, Ids
      <4>2. i = NewId
        BY <1>1, <2>t, <3>1, <3>3, <4>1 DEF Shown, Greatest, HostTypes, Ids
      <4>3. QED
        BY <3>1, <4>2
    <3>4. QED
      BY <3>2, <3>3
  <2>4. CASE pc[r] = "post" /\ Posted(r) /\ mode[r] = "create"
    <3>1. keyed' = keyed /\ kind' = kind /\ kind # "status"
      BY <1>1, <2>4, <2>t, PostedHost DEF Course, Calls, Comments
    <3>2. \A j \in keyed : says'[j] = says[j]
      BY <1>1, <2>4, <2>t, <3>1, PostedHost DEF HostInv
    <3>3. QED
      BY <1>1, <3>1, <3>2 DEF Shown, Least, Greatest
  <2>5. pc[r] = "post" => mode[r] \in {"upsert", "create"}
    BY <2>t DEF Course, Calls
  <2>6. QED
    BY <1>1, <2>1, <2>2, <2>3, <2>4, <2>5, RunHost
<1>2. Inv /\ [Next]_vars =>
        [\A r \in Runs : alone[r] /\ RunStep(r) =>
           \A i \in keyed' : Shown(i)' =>
             says'[i] = want[r] \/ (i \in keyed /\ Shown(i) /\ says'[i] = says[i])]_vars
  BY <1>1
<1>3. QED
  BY <1>2, InvHolds, PTL DEF Spec, ShowsItOrWhatWas
=============================================================================

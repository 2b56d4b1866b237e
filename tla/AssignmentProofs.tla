-------------------------- MODULE AssignmentProofs --------------------------
(***************************************************************************)
(* What holds of the assignment ledger for every set of names, every       *)
(* number of overlapping runs and every combination of failures.           *)
(***************************************************************************)
EXTENDS Assignment, TLAPS

\* What a run removes is among what it owns, and what it adds or removes is
\* among the names of the call (ToAdd and ToDrop of Syncer.Sync).
LEMMA ToDropIsOwned ==
    ASSUME NEW r \in Runs, TypeOK
    PROVE  /\ ToDrop(r) \subseteq owned[r]
           /\ ToAdd(r) \subseteq Names
           /\ ToDrop(r) \subseteq Names
           /\ Part(r) \subseteq Names
           /\ ToAdd(r) \subseteq Part(r)
           /\ Todo(r) \subseteq Names
           /\ Takes(r) \subseteq SUBSET Todo(r)
BY DEF ToDrop, ToAdd, Todo, Takes, Part, TypeOK, Names, Reviewers

\* What the host stores is a set of names: the list a call ends with stays
\* within the names of the call.
LEMMA ResultIsNames ==
    ASSUME NEW r \in Runs, TypeOK, NEW taken \in SUBSET Names, Listed(r),
           roster[r] # NoRoster => roster[r] \subseteq Names
    PROVE  Result(r, taken) \subseteq Names
BY ToDropIsOwned DEF Result, Base, Listed, TypeOK, Part, Names, Reviewers

\* Every state the assignment model reaches is well typed: in particular what
\* persons put there is part of what stands, and no ledger lists a stranger.
THEOREM TypeCorrect == Spec => []TypeOK
<1>1. Init => TypeOK
  BY DEF Init, TypeOK, Stages
<1>2. TypeOK /\ [Next]_vars => TypeOK'
  <2> SUFFICES ASSUME TypeOK, [Next]_vars PROVE TypeOK'
    OBVIOUS
  <2>1. ASSUME NEW r \in Runs, ReadLedger(r) PROVE TypeOK'
    BY <2>1 DEF TypeOK, ReadLedger, Advance, After, Stages, Claimed, hostVars
  <2>2. ASSUME NEW r \in Runs, Skip(r) PROVE TypeOK'
    BY <2>2 DEF TypeOK, Skip, Advance, After, Stages, hostVars, Adding, Dropping
  <2>3. ASSUME NEW r \in Runs, Fetch(r) PROVE TypeOK'
    BY <2>3 DEF TypeOK, Fetch, hostVars
  <2>4. ASSUME NEW r \in Runs, Add(r) PROVE TypeOK'
    <3>1. PICK taken \in Takes(r) :
            /\ HostStores(r, Result(r, taken)) /\ PassesOver({})
            /\ seen' = [seen EXCEPT ![r] = (@ \ Part(r)) \cup Result(r, taken)]
            /\ owned' = [owned EXCEPT ![r] = OwnedAfterAdd(r, Result(r, taken))]
            /\ failed' = [failed EXCEPT ![r] = @ \/ Ignored(r, Result(r, taken))]
      BY <2>4 DEF Add
    <3>2. taken \in SUBSET Names
      BY <3>1, ToDropIsOwned
    <3>3. Result(r, taken) \subseteq Names
      BY <2>4, <3>2, ResultIsNames DEF Add, Calling, TypeOK
    <3>4. /\ standing' \in SUBSET Names /\ manual' \in SUBSET standing'
          /\ skipped' \in SUBSET standing' /\ comment' = comment
      BY <3>1, <3>3 DEF HostStores, PassesOver, TypeOK
    <3>5. seen' \in [Runs -> SUBSET Names] /\ owned' \in [Runs -> SUBSET Names]
      BY <3>1, <3>3, ToDropIsOwned DEF TypeOK, OwnedAfterAdd
    <3>6. failed' \in [Runs -> BOOLEAN]
      BY <3>1 DEF TypeOK, Ignored
    <3>7. pc' \in [Runs -> Stages] /\ roster' \in [Runs -> (SUBSET Names) \cup {NoRoster}]
      BY <2>4 DEF Add, Adding, Advance, After, TypeOK, Stages
    <3> QED
      BY <2>4, <3>4, <3>5, <3>6, <3>7 DEF Add, TypeOK
  <2>5. ASSUME NEW r \in Runs, Drop(r) PROVE TypeOK'
    <3>0. PICK taken \in Takes(r) :
            /\ HostStores(r, Result(r, taken)) /\ PassesOver(ToDrop(r) \cap Result(r, taken))
            /\ seen' = [seen EXCEPT ![r] = (@ \ Part(r)) \cup Result(r, taken)]
      BY <2>5 DEF Drop
    <3>1. Result(r, taken) \subseteq Names
      BY <2>5, <3>0, ResultIsNames, ToDropIsOwned DEF Drop, Calling, TypeOK
    <3>2. /\ standing' \in SUBSET Names /\ manual' \in SUBSET standing'
          /\ skipped' \in SUBSET standing' /\ comment' = comment
      BY <3>0, <3>1 DEF HostStores, PassesOver, TypeOK
    <3>3. seen' \in [Runs -> SUBSET Names] /\ owned' \in [Runs -> SUBSET Names]
      BY <2>5, <3>0, <3>1 DEF Drop, TypeOK
    <3>4. pc' \in [Runs -> Stages] /\ roster' \in [Runs -> (SUBSET Names) \cup {NoRoster}]
      BY <2>5 DEF Drop, Dropping, Advance, After, TypeOK, Stages
    <3> QED
      BY <2>5, <3>2, <3>3, <3>4 DEF Drop, TypeOK
  <2>6. ASSUME NEW r \in Runs, CallFails(r) PROVE TypeOK'
    <3>1. /\ standing' \in SUBSET Names /\ manual' \in SUBSET standing'
          /\ skipped' \in SUBSET standing' /\ comment' = comment
      <4>1. CASE UNCHANGED hostVars
        BY <4>1 DEF hostVars, TypeOK
      <4>2. CASE /\ Calling(r)
                 /\ \E taken \in Takes(r) : HostStores(r, Result(r, taken)) /\ PassesOver({})
        <5>1. PICK taken \in Takes(r) : HostStores(r, Result(r, taken)) /\ PassesOver({})
          BY <4>2
        <5>2. taken \in SUBSET Names
          BY ToDropIsOwned
        <5>3. Result(r, taken) \subseteq Names
          BY <4>2, <5>2, ResultIsNames DEF Calling, TypeOK
        <5> QED
          BY <5>1, <5>3 DEF HostStores, PassesOver, TypeOK
      <4> QED
        BY <2>6, <4>1, <4>2 DEF CallFails
    <3> QED
      BY <2>6, <3>1 DEF CallFails, TypeOK, Advance, After, Stages, Adding, Dropping
  <2>7. ASSUME NEW r \in Runs, FindLedger(r) PROVE TypeOK'
    <3>1. CASE Reset(r)
      BY <2>7, <3>1 DEF FindLedger, Reset, TypeOK, hostVars, Stages
    <3>2. CASE /\ found' = [found EXCEPT ![r] = IF comment = NoComment THEN "no" ELSE "yes"]
               /\ Advance(r)
               /\ UNCHANGED <<want, seen, prev, owned, failed>>
      BY <2>7, <3>2 DEF FindLedger, Advance, After, TypeOK, hostVars, Stages
    <3> QED
      BY <2>7, <3>1, <3>2 DEF FindLedger
  <2>8. ASSUME NEW r \in Runs, PutLedger(r) PROVE TypeOK'
    <3>1. NextLedger(r) \in SUBSET Names
      BY DEF NextLedger, TypeOK
    <3>2. comment' \in (SUBSET Names) \cup {NoComment}
      BY <2>8, <3>1 DEF PutLedger, Written, Posted, TypeOK
    <3> QED
      BY <2>8, <3>2 DEF PutLedger, Reset, TypeOK, Stages
  <2>9. ASSUME NEW r \in Runs, LedgerFails(r) \/ Crash(r) PROVE TypeOK'
    BY <2>9 DEF LedgerFails, Crash, Reset, TypeOK, hostVars, Stages
  <2>10. ASSUME NEW r \in Runs, NEW w \in SUBSET Names, Begin(r, w) PROVE TypeOK'
    BY <2>10 DEF Begin, TypeOK, hostVars, Stages
  <2>11. ASSUME NEW n \in Names, PersonAdds(n) \/ PersonRemoves(n) PROVE TypeOK'
    BY <2>11 DEF PersonAdds, PersonRemoves, PassesOver, TypeOK, runVars
  <2>12. CASE PersonDeletesLedger
    BY <2>12 DEF PersonDeletesLedger, TypeOK
  <2>13. CASE UNCHANGED vars
    BY <2>13 DEF vars, hostVars, runVars, TypeOK
  <2> QED
    BY <2>1, <2>2, <2>3, <2>4, <2>5, <2>6, <2>7, <2>8, <2>9, <2>10, <2>11, <2>12, <2>13
       DEF Next, RunStep
<1> QED
  BY <1>1, <1>2, PTL DEF Spec

-----------------------------------------------------------------------------
(***************************************************************************)
(* A person's entry is safe because three views of the pull request agree  *)
(* about it: no ledger claims it, no run in flight owns it, and every run  *)
(* in flight, the list a GitLab write starts from included, has seen it.   *)
(* The last is why a person must not add a name during a run, the first    *)
(* why not a name the ledger still lists: with neither race the invariant  *)
(* is inductive, whatever fails.                                           *)
(***************************************************************************)
LedgerClaimsNobodysEntry == Claimed \cap manual = {}

OwnsNobodysEntry == \A r \in Runs : owned[r] \cap manual = {}

IdleOwnsNothing == \A r \in Runs : pc[r] = "idle" => owned[r] = {}

HasSeenEveryEntry == \A r \in Runs : pc[r] # "idle" => manual \subseteq seen[r]

RosterHasEveryEntry ==
    \A r \in Runs : roster[r] # NoRoster =>
        (Adding(r) \/ Dropping(r)) /\ manual \cap Part(r) \subseteq roster[r]

EntriesAreSafe ==
    /\ LedgerClaimsNobodysEntry
    /\ OwnsNobodysEntry
    /\ IdleOwnsNothing
    /\ HasSeenEveryEntry
    /\ RosterHasEveryEntry

\* The list the host is left with by a call keeps every entry of a person.
LEMMA CallKeepsEntries ==
    ASSUME NEW r \in Runs, TypeOK, EntriesAreSafe, Calling(r), NEW taken \in Takes(r),
           Adding(r) \/ Dropping(r)
    PROVE  /\ manual \subseteq (standing \ Part(r)) \cup Result(r, taken)
           /\ HostStores(r, Result(r, taken)) => manual' = manual
<1>1. manual \cap Part(r) \subseteq Base(r)
  BY DEF EntriesAreSafe, RosterHasEveryEntry, Base, Calling, Listed, TypeOK
<1>2. ToDrop(r) \cap manual = {}
  BY DEF EntriesAreSafe, OwnsNobodysEntry, ToDrop
<1>3. manual \cap Part(r) \subseteq Result(r, taken)
  BY <1>1, <1>2, ToDropIsOwned DEF Result, Todo
<1>4. manual \subseteq (standing \ Part(r)) \cup Result(r, taken)
  BY <1>3 DEF TypeOK
<1> QED
  BY <1>4 DEF HostStores

\* A step of a run takes no entry of a person away.
LEMMA RunStepKeepsEntries ==
    ASSUME NEW r \in Runs, TypeOK, EntriesAreSafe, RunStep(r) \/ Crash(r)
    PROVE  manual' = manual /\ manual \subseteq standing'
<1>1. CASE Add(r)
  <2>1. PICK taken \in Takes(r) : HostStores(r, Result(r, taken))
    BY <1>1 DEF Add
  <2> QED
    BY <1>1, <2>1, CallKeepsEntries DEF Add, HostStores
<1>2. CASE Drop(r)
  <2>1. PICK taken \in Takes(r) : HostStores(r, Result(r, taken))
    BY <1>2 DEF Drop
  <2> QED
    BY <1>2, <2>1, CallKeepsEntries DEF Drop, HostStores
<1>3. CASE CallFails(r)
  <2>1. CASE UNCHANGED hostVars
    BY <2>1 DEF hostVars, TypeOK
  <2>2. CASE Calling(r) /\ \E taken \in Takes(r) : HostStores(r, Result(r, taken))
    <3>1. PICK taken \in Takes(r) : HostStores(r, Result(r, taken))
      BY <2>2
    <3> QED
      BY <1>3, <2>2, <3>1, CallKeepsEntries DEF CallFails, HostStores
  <2> QED
    BY <1>3, <2>1, <2>2 DEF CallFails
<1>4. CASE ReadLedger(r) \/ Skip(r) \/ Fetch(r) \/ FindLedger(r) \/ LedgerFails(r) \/ Crash(r)
  BY <1>4 DEF ReadLedger, Skip, Fetch, FindLedger, LedgerFails, Crash, hostVars, TypeOK
<1>5. CASE PutLedger(r)
  BY <1>5 DEF PutLedger, TypeOK
<1> QED
  BY <1>1, <1>2, <1>3, <1>4, <1>5 DEF RunStep

\* EntriesAreSafe is inductive as long as persons stay out of runs in flight
\* and leave the names of the ledger alone.
LEMMA EntriesStaySafe ==
    ASSUME Races \subseteq {"takeBack"}, TypeOK, EntriesAreSafe, [Next]_vars
    PROVE  EntriesAreSafe'
<1> USE DEF EntriesAreSafe
<1>1. ASSUME NEW r \in Runs, RunStep(r) \/ Crash(r) PROVE EntriesAreSafe'
  <2>1. manual' = manual
    BY <1>1, RunStepKeepsEntries
  <2>2. ASSUME NEW s \in Runs, s # r
        PROVE  /\ owned'[s] = owned[s] /\ pc'[s] = pc[s]
               /\ seen'[s] = seen[s] /\ roster'[s] = roster[s]
    BY <1>1, <2>2 DEF RunStep, ReadLedger, Skip, Fetch, Add, Drop, CallFails, FindLedger,
       PutLedger, LedgerFails, Crash, Reset, Advance, TypeOK
  <2>3. LedgerClaimsNobodysEntry'
    <3>1. comment' = comment \/ comment' = NextLedger(r)
      BY <1>1 DEF RunStep, ReadLedger, Skip, Fetch, Add, Drop, CallFails, FindLedger,
         PutLedger, LedgerFails, Crash, HostStores, hostVars, Written, Posted
    <3>2. NextLedger(r) \cap manual = {}
      BY DEF NextLedger, OwnsNobodysEntry
    <3> QED
      BY <2>1, <3>1, <3>2 DEF LedgerClaimsNobodysEntry, Claimed
  <2>4. owned'[r] \cap manual = {}
    <3>1. CASE ReadLedger(r)
      BY <3>1 DEF ReadLedger, LedgerClaimsNobodysEntry, TypeOK
    <3>2. CASE Add(r)
      <4>1. PICK taken \in Takes(r) :
              owned' = [owned EXCEPT ![r] = OwnedAfterAdd(r, Result(r, taken))]
        BY <3>2 DEF Add
      <4>2. pc[r] # "idle"
        BY <3>2 DEF Add, Adding
      <4>3. ToAdd(r) \cap manual = {}
        BY <4>2 DEF ToAdd, HasSeenEveryEntry
      <4> QED
        BY <4>1, <4>3 DEF OwnedAfterAdd, OwnsNobodysEntry, TypeOK
    <3>3. CASE Drop(r)
      BY <3>3 DEF Drop, OwnsNobodysEntry, TypeOK
    <3>4. CASE owned' = owned \/ Reset(r)
      BY <3>4 DEF Reset, OwnsNobodysEntry, TypeOK
    <3> QED
      BY <1>1, <3>1, <3>2, <3>3, <3>4 DEF RunStep, Skip, Fetch, CallFails, FindLedger,
         PutLedger, LedgerFails, Crash
  <2>5. pc'[r] # "idle" => manual \subseteq seen'[r]
    <3>1. CASE Add(r)
      <4>1. PICK taken \in Takes(r) :
              seen' = [seen EXCEPT ![r] = (@ \ Part(r)) \cup Result(r, taken)]
        BY <3>1 DEF Add
      <4>3. manual \cap Part(r) \subseteq Result(r, taken)
        BY <3>1, <4>1, CallKeepsEntries DEF Add
      <4>4. manual \subseteq seen[r]
        BY <3>1 DEF Add, Adding, HasSeenEveryEntry
      <4> QED
        BY <4>1, <4>3, <4>4 DEF TypeOK
    <3>2. CASE Drop(r)
      <4>1. PICK taken \in Takes(r) :
              seen' = [seen EXCEPT ![r] = (@ \ Part(r)) \cup Result(r, taken)]
        BY <3>2 DEF Drop
      <4>2. manual \cap Part(r) \subseteq Result(r, taken)
        BY <3>2, <4>1, CallKeepsEntries DEF Drop
      <4>3. manual \subseteq seen[r]
        BY <3>2 DEF Drop, Dropping, HasSeenEveryEntry
      <4> QED
        BY <4>1, <4>2, <4>3 DEF TypeOK
    <3>3. CASE seen' = seen /\ pc[r] # "idle"
      BY <3>3 DEF HasSeenEveryEntry
    <3>4. CASE Reset(r)
      BY <3>4 DEF Reset, TypeOK
    <3> QED
      BY <1>1, <3>1, <3>2, <3>3, <3>4 DEF RunStep, ReadLedger, Skip, Fetch, CallFails,
         FindLedger, PutLedger, LedgerFails, Crash, Adding, Dropping
  <2>6. roster'[r] # NoRoster =>
          (Adding(r) \/ Dropping(r))' /\ manual \cap Part(r)' \subseteq roster'[r]
    <3>1. CASE Fetch(r)
      <4>1. pc' = pc
        BY <3>1 DEF Fetch
      <4> QED
        BY <3>1, <4>1 DEF Fetch, Adding, Dropping, Part, TypeOK
    <3>2. CASE roster'[r] = NoRoster
      BY <3>2
    <3> QED
      BY <1>1, <3>1, <3>2 DEF RunStep, ReadLedger, Skip, Add, Drop, CallFails, FindLedger,
         PutLedger, LedgerFails, Crash, Reset, Advance, TypeOK
  <2>7. pc'[r] = "idle" => owned'[r] = {}
    BY <1>1 DEF RunStep, ReadLedger, Skip, Fetch, Add, Drop, CallFails, FindLedger,
       PutLedger, LedgerFails, Crash, Reset, Advance, After, Adding, Dropping, TypeOK
  <2> QED
    BY <2>1, <2>2, <2>3, <2>4, <2>5, <2>6, <2>7
       DEF OwnsNobodysEntry, IdleOwnsNothing, HasSeenEveryEntry, RosterHasEveryEntry, Adding, Dropping, Part
<1>2. ASSUME NEW r \in Runs, NEW w \in SUBSET Names, Begin(r, w) PROVE EntriesAreSafe'
  BY <1>2 DEF Begin, hostVars, TypeOK, LedgerClaimsNobodysEntry, Claimed, OwnsNobodysEntry, IdleOwnsNothing,
     HasSeenEveryEntry, RosterHasEveryEntry, Adding, Dropping, Part
<1>3. ASSUME NEW n \in Names, PersonAdds(n) PROVE EntriesAreSafe'
  <2>1. \A r \in Runs : pc[r] = "idle"
    BY <1>3 DEF PersonAdds, InFlight
  <2>2. n \notin Claimed
    BY <1>3 DEF PersonAdds
  <2>3. UNCHANGED <<comment, pc, want, seen, prev, owned, failed, roster, found>>
    BY <1>3 DEF PersonAdds, runVars
  <2>4. manual' = manual \cup {n}
    BY <1>3 DEF PersonAdds
  <2>5. LedgerClaimsNobodysEntry'
    BY <2>2, <2>3, <2>4 DEF LedgerClaimsNobodysEntry, Claimed
  <2>6. OwnsNobodysEntry'
    BY <2>1, <2>3, <2>4 DEF IdleOwnsNothing, OwnsNobodysEntry
  <2>7. IdleOwnsNothing' /\ HasSeenEveryEntry' /\ RosterHasEveryEntry'
    BY <2>1, <2>3 DEF IdleOwnsNothing, HasSeenEveryEntry, RosterHasEveryEntry, Adding, Dropping
  <2> QED
    BY <2>5, <2>6, <2>7
<1>4. ASSUME NEW n \in Names, PersonRemoves(n) PROVE EntriesAreSafe'
  BY <1>4 DEF PersonRemoves, runVars, LedgerClaimsNobodysEntry, Claimed, OwnsNobodysEntry, IdleOwnsNothing,
     HasSeenEveryEntry, RosterHasEveryEntry, Adding, Dropping, Part
<1>5. CASE PersonDeletesLedger
  BY <1>5 DEF PersonDeletesLedger, LedgerClaimsNobodysEntry, Claimed, OwnsNobodysEntry, IdleOwnsNothing,
     HasSeenEveryEntry, RosterHasEveryEntry, Adding, Dropping, Part
<1>6. CASE UNCHANGED vars
  BY <1>6 DEF vars, hostVars, runVars, LedgerClaimsNobodysEntry, Claimed, OwnsNobodysEntry, IdleOwnsNothing,
     HasSeenEveryEntry, RosterHasEveryEntry, Adding, Dropping, Part
<1> QED
  BY <1>1, <1>2, <1>3, <1>4, <1>5, <1>6 DEF Next

\* Talooner never takes away what a person put on the pull request, on either
\* host, for any number of overlapping runs and any combination of refused,
\* lost, crashed and misread calls, as long as persons neither add names
\* during a run nor add names the ledger lists.
THEOREM NothingOfAPersonsIsTaken ==
    ASSUME Races \subseteq {"takeBack"}
    PROVE  Spec => NeverTakenFromItsPerson
<1>1. Init => EntriesAreSafe
  BY DEF Init, EntriesAreSafe, LedgerClaimsNobodysEntry, Claimed, OwnsNobodysEntry,
     IdleOwnsNothing, HasSeenEveryEntry, RosterHasEveryEntry
<1>2. TypeOK /\ EntriesAreSafe /\ [Next]_vars => EntriesAreSafe'
  BY EntriesStaySafe
<1>3. TypeOK /\ EntriesAreSafe /\ [Next]_vars =>
        [pc' # pc => manual \subseteq standing']_vars
  <2> SUFFICES ASSUME TypeOK, EntriesAreSafe, Next, pc' # pc
               PROVE  manual \subseteq standing'
    OBVIOUS
  <2>1. CASE \E r \in Runs : RunStep(r) \/ Crash(r)
    BY <2>1, RunStepKeepsEntries
  <2>2. CASE \E r \in Runs, w \in SUBSET Names : Begin(r, w)
    BY <2>2 DEF Begin, hostVars, TypeOK
  <2>3. CASE (\E n \in Names : PersonAdds(n) \/ PersonRemoves(n)) \/ PersonDeletesLedger
    BY <2>3 DEF PersonAdds, PersonRemoves, PersonDeletesLedger, runVars
  <2> QED
    BY <2>1, <2>2, <2>3 DEF Next
<1> QED
  BY <1>1, <1>2, <1>3, TypeCorrect, PTL DEF Spec, NeverTakenFromItsPerson

-----------------------------------------------------------------------------
\* A run that starts from an empty ledger, because there is none or because it
\* could not be read, never comes to own a name it does not want, so it has
\* nothing to remove.  Nothing is assumed of persons or of failures.
THEOREM UnreadableIsHarmless == Spec => []UnreadableRemovesNothing
<1> DEFINE Inv == UnreadableRemovesNothing /\ IdleOwnsNothing
                  /\ \A r \in Runs : pc[r] = "ledger" => owned[r] = {}
<1>1. Init => Inv
  BY DEF Init, UnreadableRemovesNothing, IdleOwnsNothing
<1>2. TypeOK /\ Inv /\ [Next]_vars => Inv'
  <2> SUFFICES ASSUME TypeOK, Inv, [Next]_vars PROVE Inv'
    OBVIOUS
  <2> USE DEF UnreadableRemovesNothing, IdleOwnsNothing
  <2>1. ASSUME NEW r \in Runs, RunStep(r) \/ Crash(r) PROVE Inv'
    <3>1. ASSUME NEW s \in Runs, s # r
          PROVE  /\ owned'[s] = owned[s] /\ pc'[s] = pc[s]
                 /\ want'[s] = want[s] /\ prev'[s] = prev[s]
      BY <2>1, <3>1 DEF RunStep, ReadLedger, Skip, Fetch, Add, Drop, CallFails,
         FindLedger, PutLedger, LedgerFails, Crash, Reset, Advance, TypeOK
    <3>2. pc'[r] = "idle" \/ pc'[r] = "ledger" => owned'[r] = {}
      BY <2>1 DEF RunStep, ReadLedger, Skip, Fetch, Add, Drop, CallFails, FindLedger,
         PutLedger, LedgerFails, Crash, Reset, Advance, After, Adding, Dropping, TypeOK
    <3>3. pc'[r] # "idle" /\ prev'[r] = {} => owned'[r] \subseteq want'[r]
      <4>1. CASE Add(r)
        <5>1. PICK taken \in Takes(r) :
                owned' = [owned EXCEPT ![r] = OwnedAfterAdd(r, Result(r, taken))]
          BY <4>1 DEF Add
        <5> QED
          BY <4>1, <5>1 DEF Add, Adding, OwnedAfterAdd, ToAdd, TypeOK
      <4>2. CASE Drop(r)
        BY <4>2 DEF Drop, Dropping, TypeOK
      <4>3. CASE Reset(r)
        BY <4>3 DEF Reset, TypeOK
      <4>4. CASE ReadLedger(r)
        BY <4>4 DEF ReadLedger, TypeOK
      <4>5. CASE pc[r] # "idle" /\ UNCHANGED <<owned, want, prev>>
        BY <4>5
      <4> QED
        BY <2>1, <4>1, <4>2, <4>3, <4>4, <4>5 DEF RunStep, Skip, Fetch, CallFails,
           FindLedger, PutLedger, LedgerFails, Crash, Adding, Dropping
    <3> QED
      BY <3>1, <3>2, <3>3
  <2>2. ASSUME NEW r \in Runs, NEW w \in SUBSET Names, Begin(r, w) PROVE Inv'
    BY <2>2 DEF Begin, TypeOK
  <2>3. CASE UNCHANGED <<pc, owned, want, prev>>
    BY <2>3
  <2> QED
    BY <2>1, <2>2, <2>3 DEF Next, PersonAdds, PersonRemoves, PersonDeletesLedger,
       vars, runVars
<1> QED
  BY <1>1, <1>2, TypeCorrect, PTL DEF Spec

\* On GitHub a run that notes no problem got everything it asked for: an
\* ignored assignee is noted, and review requests are taken all or none.
THEOREM GitHubTellsWhatItIgnores ==
    ASSUME Host = "github"
    PROVE  Spec => AskedForOrFailed
<1> DEFINE Asked(r) == Adding(r) /\ pc'[r] = After[pc[r]] /\ ~failed'[r]
                         => ToAdd(r) \subseteq standing'
<1>1. ASSUME TypeOK, Next, NEW r \in Runs PROVE Asked(r)
  <2> SUFFICES ASSUME Adding(r), pc'[r] = After[pc[r]], ~failed'[r]
               PROVE  ToAdd(r) \subseteq standing'
    OBVIOUS
  <2>1. pc'[r] # pc[r] /\ pc'[r] # "idle"
    BY <1>1 DEF Adding, After, TypeOK
  <2>2. RunStep(r) /\ ~ReadLedger(r)
    <3>1. ASSUME NEW s \in Runs, s # r, RunStep(s) \/ Crash(s) PROVE FALSE
      BY <1>1, <2>1, <3>1 DEF RunStep, ReadLedger, Skip, Fetch, Add, Drop, CallFails,
         FindLedger, PutLedger, LedgerFails, Crash, Reset, Advance, TypeOK
    <3>2. ASSUME NEW s \in Runs, NEW w \in SUBSET Names, Begin(s, w) PROVE FALSE
      BY <1>1, <2>1, <3>2 DEF Begin, TypeOK, Adding
    <3>3. ~Crash(r)
      BY <1>1, <2>1 DEF Crash, Reset, TypeOK
    <3>4. ~(\E n \in Names : PersonAdds(n) \/ PersonRemoves(n)) /\ ~PersonDeletesLedger
      BY <2>1 DEF PersonAdds, PersonRemoves, PersonDeletesLedger, runVars
    <3> QED
      BY <1>1, <3>1, <3>2, <3>3, <3>4 DEF Next, ReadLedger, Adding
  <2>3. CASE Skip(r)
    BY <2>3 DEF Skip, Todo
  <2>4. CASE Add(r)
    <3>1. PICK taken \in Takes(r) :
            /\ HostStores(r, Result(r, taken))
            /\ failed' = [failed EXCEPT ![r] = @ \/ Ignored(r, Result(r, taken))]
      BY <2>4 DEF Add
    <3>2. CASE pc[r] = "addAssignees"
      <4>1. ~Ignored(r, Result(r, taken))
        BY <1>1, <3>1 DEF TypeOK
      <4>2. ToAdd(r) \subseteq Result(r, taken)
        BY <3>2, <4>1 DEF Ignored
      <4> QED
        BY <3>1, <4>2 DEF HostStores
    <3>3. CASE pc[r] = "requestReviewers"
      BY <3>1, <3>3 DEF Takes, Todo, Adding, Result, HostStores
    <3> QED
      BY <3>2, <3>3 DEF Adding
  <2>5. CASE CallFails(r)
    BY <1>1, <2>5 DEF CallFails, TypeOK
  <2>6. CASE Fetch(r) \/ Drop(r) \/ FindLedger(r) \/ PutLedger(r) \/ LedgerFails(r)
    BY <2>1, <2>6 DEF Fetch, Drop, FindLedger, PutLedger, LedgerFails, Adding, Dropping
  <2> QED
    BY <2>2, <2>3, <2>4, <2>5, <2>6 DEF RunStep
<1>2. TypeOK /\ [Next]_vars => [\A r \in Runs : Asked(r)]_vars
  BY <1>1
<1> QED
  BY <1>2, TypeCorrect, PTL DEF Spec, AskedForOrFailed

\* On either host a run that notes no problem takes an assignee it was asked for
\* to be there only when the host has shown it: before the run, in its snapshot,
\* or in the answer to the call.
THEOREM AssigneesAreNotLost == Spec => AssigneesAreToldOf
<1> DEFINE Told(r) ==
      pc[r] = "addAssignees" /\ pc'[r] = "removeAssignees" /\ ~failed'[r]
        => ToAdd(r) \subseteq standing' /\ want[r] \cap Assignees \subseteq seen[r] \cup seen'[r]
<1>1. ASSUME TypeOK, Next, NEW r \in Runs PROVE Told(r)
  <2> SUFFICES ASSUME pc[r] = "addAssignees", pc'[r] = "removeAssignees", ~failed'[r]
               PROVE  ToAdd(r) \subseteq standing' /\ want[r] \cap Assignees \subseteq seen[r] \cup seen'[r]
    OBVIOUS
  <2>0. /\ Adding(r) /\ ~Dropping(r) /\ Part(r) = Assignees
        /\ ToAdd(r) = (want[r] \ seen[r]) \cap Assignees
    BY DEF Adding, Dropping, Part, ToAdd
  <2>1. Skip(r) \/ Add(r) \/ CallFails(r)
    <3>1. ASSUME NEW s \in Runs, s # r, RunStep(s) \/ Crash(s) PROVE FALSE
      BY <1>1, <3>1 DEF RunStep, ReadLedger, Skip, Fetch, Add, Drop, CallFails,
         FindLedger, PutLedger, LedgerFails, Crash, Reset, Advance, TypeOK
    <3>2. ASSUME NEW s \in Runs, NEW w \in SUBSET Names, Begin(s, w) PROVE FALSE
      BY <1>1, <3>2 DEF Begin, TypeOK
    <3>3. ~Crash(r)
      BY <1>1 DEF Crash, Reset, TypeOK
    <3>4. ~(\E n \in Names : PersonAdds(n) \/ PersonRemoves(n)) /\ ~PersonDeletesLedger
      BY DEF PersonAdds, PersonRemoves, PersonDeletesLedger, runVars
    <3>5. RunStep(r)
      BY <1>1, <3>1, <3>2, <3>3, <3>4 DEF Next
    <3> QED
      BY <2>0, <3>5 DEF RunStep, ReadLedger, Fetch, Drop, FindLedger, PutLedger, LedgerFails
  <2>2. CASE Skip(r)
    BY <2>0, <2>2 DEF Skip, Todo
  <2>3. CASE Add(r)
    <3>1. PICK taken \in Takes(r) :
            /\ HostStores(r, Result(r, taken))
            /\ seen' = [seen EXCEPT ![r] = (@ \ Part(r)) \cup Result(r, taken)]
            /\ failed' = [failed EXCEPT ![r] = @ \/ Ignored(r, Result(r, taken))]
      BY <2>3 DEF Add
    <3>2. ToAdd(r) \subseteq Result(r, taken)
      BY <1>1, <3>1 DEF TypeOK, Ignored
    <3>3. ToAdd(r) \subseteq standing'
      BY <3>1, <3>2 DEF HostStores
    <3>4. ToAdd(r) \subseteq seen'[r]
      BY <1>1, <3>1, <3>2 DEF TypeOK
    <3> QED
      BY <2>0, <3>3, <3>4
  <2>4. CASE CallFails(r)
    BY <1>1, <2>4 DEF CallFails, TypeOK
  <2> QED
    BY <2>1, <2>2, <2>3, <2>4
<1>2. TypeOK /\ [Next]_vars => [\A r \in Runs : Told(r)]_vars
  BY <1>1
<1> QED
  BY <1>2, TypeCorrect, PTL DEF Spec, AssigneesAreToldOf

-----------------------------------------------------------------------------
(***************************************************************************)
(* Runs that come one after the other, and calls that are refused but      *)
(* neither lost nor cut off: then a run knows and owns all of Talooner's   *)
(* that stands, and the ledger hands it on to the next one.  Persons may   *)
(* do what they like, but for a name removed between GitLab's fetch of a   *)
(* list and its replacement: the write brings it back as nobody's.         *)
(***************************************************************************)
OneAtATime == \E r \in Runs : Runs = {r}

Orderly ==
    /\ OneAtATime
    /\ Faults \subseteq {"refused"}
    /\ Host = "github" \/ "takeBack" \notin Races

\* From one run to the next the ledger lists what is Talooner's; while a run is
\* in flight, the run does.
HandedOn ==
    \A r \in Runs :
        /\ pc[r] \in {"idle", "ledger"} => Own \subseteq Claimed
        /\ pc[r] = "ledger" => Own \subseteq seen[r]
        /\ pc[r] \notin {"idle", "ledger"} =>
             Own \subseteq owned[r] \cap seen[r] /\ prev[r] = Claimed

\* What was found is what is there, and what was fetched still stands.
Current ==
    \A r \in Runs :
        /\ pc[r] = "put" => found[r] = (IF comment = NoComment THEN "no" ELSE "yes")
        /\ roster[r] # NoRoster =>
             (Adding(r) \/ Dropping(r)) /\ Host = "gitlab" /\ roster[r] \subseteq standing \cap Part(r)

\* A run without a problem has taken back what it is past.
TakenBack ==
    \A r \in Runs : ~failed[r] =>
        /\ pc[r] \in {"requestReviewers", "removeReviewRequests", "find", "put"} =>
             Own \cap Assignees \subseteq want[r]
        /\ pc[r] \in {"find", "put"} => Own \cap Reviewers \subseteq want[r]

Accounted == HandedOn /\ Current /\ TakenBack

\* In the list a call leaves behind, nothing is of Talooner's but what the run
\* already owned, or has just added.
LEMMA CallLeavesOwn ==
    ASSUME Orderly, TypeOK, Accounted, NEW r \in Runs, Calling(r), Adding(r) \/ Dropping(r),
           NEW taken \in Takes(r), HostStores(r, Result(r, taken)),
           PassesOver(IF Adding(r) THEN {} ELSE ToDrop(r) \cap Result(r, taken))
    PROVE  /\ Adding(r) => Own' \subseteq Own \cup (ToAdd(r) \cap Result(r, taken))
           /\ Dropping(r) => Own' \subseteq Own /\ Own' \cap ToDrop(r) = {}
           /\ Own' \ Part(r) = Own \ Part(r)
           /\ standing' \cap Part(r) \subseteq Result(r, taken)
<1>1. Base(r) \subseteq standing \cap Part(r)
  BY AssignmentAssumption DEF Base, Calling, Listed, Accounted, Current
<1>2. ToAdd(r) \subseteq Part(r) /\ ToDrop(r) \subseteq Part(r)
  BY DEF ToAdd, ToDrop
<1>3. /\ standing' = (standing \ Part(r)) \cup Result(r, taken) /\ manual' = manual \cap standing'
      /\ Adding(r) => skipped' = skipped \cap standing'
      /\ Dropping(r) => skipped' = (skipped \cup (ToDrop(r) \cap Result(r, taken))) \cap standing'
  BY DEF HostStores, PassesOver, Adding, Dropping
<1>4. Adding(r) => taken \subseteq ToAdd(r) /\ Result(r, taken) = Base(r) \cup taken
  BY ToDropIsOwned DEF Result, Todo
<1>5. Dropping(r) => taken \subseteq ToDrop(r) /\ Result(r, taken) = Base(r) \ taken
  BY ToDropIsOwned DEF Result, Todo, Adding, Dropping
<1>6. Result(r, taken) \subseteq Part(r)
  BY <1>1, <1>2, <1>4, <1>5
<1>7. CASE Adding(r)
  BY <1>1, <1>3, <1>4, <1>6, <1>7 DEF Own, Adding, Dropping
<1>8. CASE Dropping(r)
  BY <1>1, <1>2, <1>3, <1>5, <1>6, <1>8 DEF Own, Adding, Dropping
<1> QED
  BY <1>7, <1>8

\* Every step of a run passes on what is Talooner's: from the ledger to the run
\* when it is read, back when it is written.
LEMMA RunStepAccounts ==
    ASSUME Orderly, TypeOK, Accounted, NEW r \in Runs, RunStep(r) \/ Crash(r)
    PROVE  Accounted'
<1>0. ~Crash(r) /\ ~LedgerFails(r) /\ \A s \in Runs : s = r
  BY DEF Orderly, OneAtATime, Crash, LedgerFails
<1>1. CASE ReadLedger(r)
  <2>1. owned'[r] = Claimed /\ prev'[r] = Claimed /\ pc'[r] = "addAssignees"
    BY <1>1 DEF ReadLedger, Orderly, Advance, After, TypeOK
  <2>2. UNCHANGED <<hostVars, seen>> /\ roster'[r] = NoRoster
    BY <1>1 DEF ReadLedger, Advance, TypeOK
  <2> QED
    BY <1>0, <1>1, <2>1, <2>2 DEF ReadLedger, Accounted, HandedOn, Current, TakenBack, Own,
       Claimed, hostVars
<1>2. CASE Skip(r)
  <2>1. pc'[r] = After[pc[r]] /\ roster'[r] = NoRoster
        /\ UNCHANGED <<hostVars, want, seen, prev, owned, failed, found>>
    BY <1>2 DEF Skip, Advance, TypeOK
  <2>2. pc'[r] \in {"removeAssignees", "requestReviewers", "removeReviewRequests", "find"}
    BY <1>2, <2>1 DEF Skip, Adding, Dropping, After
  <2>3. HandedOn' /\ Current'
    BY <1>0, <1>2, <2>1, <2>2 DEF Skip, Adding, Dropping, Accounted, HandedOn, Current, Own, Claimed,
       hostVars
  <2>4. Dropping(r) => Own \cap Part(r) \subseteq want[r]
    BY <1>2 DEF Skip, Todo, Adding, Dropping, ToDrop, Accounted, HandedOn
  <2>5. TakenBack'
    BY <1>0, <1>2, <2>1, <2>4
       DEF Skip, Adding, Dropping, After, Part, Accounted, TakenBack, Own, hostVars
  <2> QED
    BY <2>3, <2>5 DEF Accounted
<1>3. CASE Fetch(r)
  <2>1. roster'[r] = standing \cap Part(r) /\ pc' = pc
    BY <1>3 DEF Fetch, TypeOK
  <2> QED
    BY <1>0, <1>3, <2>1 DEF Fetch, hostVars, Adding, Dropping, Accounted, HandedOn, Current,
       TakenBack, Own, Claimed, Part
<1>4. CASE Add(r)
  <2>1. PICK taken \in Takes(r) :
          /\ HostStores(r, Result(r, taken)) /\ PassesOver({})
          /\ seen' = [seen EXCEPT ![r] = (@ \ Part(r)) \cup Result(r, taken)]
          /\ owned' = [owned EXCEPT ![r] = OwnedAfterAdd(r, Result(r, taken))]
          /\ failed' = [failed EXCEPT ![r] = @ \/ Ignored(r, Result(r, taken))]
    BY <1>4 DEF Add
  <2>3. /\ Own' \subseteq Own \cup (ToAdd(r) \cap Result(r, taken))
        /\ Own' \ Part(r) = Own \ Part(r)
        /\ standing' \cap Part(r) \subseteq Result(r, taken)
    BY <1>4, <2>1, CallLeavesOwn DEF Add
  <2>4. pc'[r] = After[pc[r]] /\ roster'[r] = NoRoster /\ UNCHANGED <<comment, want, prev, found>>
    BY <1>4, <2>1 DEF Add, Advance, HostStores, TypeOK
  <2>5. pc'[r] \in {"removeAssignees", "removeReviewRequests"}
        /\ pc[r] \in {"addAssignees", "requestReviewers"}
    BY <1>4, <2>4 DEF Add, Adding, After
  <2>6. Own' \subseteq owned'[r]
    BY <2>1, <2>3, <2>5 DEF OwnedAfterAdd, Accounted, HandedOn, TypeOK
  <2>7. Own' \subseteq seen'[r]
    <3>1. Own' \subseteq standing'
      BY DEF Own
    <3>2. Own \subseteq seen[r]
      BY <2>5 DEF Accounted, HandedOn
    <3>3. seen'[r] = (seen[r] \ Part(r)) \cup Result(r, taken)
      BY <2>1 DEF TypeOK
    <3> QED
      BY <2>3, <3>1, <3>2, <3>3
  <2>8. HandedOn' /\ Current'
    BY <1>0, <2>4, <2>5, <2>6, <2>7 DEF Accounted, HandedOn, Current, Claimed
  <2>9. TakenBack'
    <3>1. failed[r] => failed'[r]
      BY <2>1 DEF TypeOK
    <3>2. CASE pc[r] = "addAssignees"
      BY <1>0, <2>4, <3>2 DEF After, TakenBack
    <3>3. CASE pc[r] = "requestReviewers"
      <4>1. Own' \cap Assignees = Own \cap Assignees
        BY <2>3, <3>3, AssignmentAssumption DEF Part
      <4> QED
        BY <1>0, <2>4, <3>1, <3>3, <4>1 DEF After, TakenBack, Accounted
    <3> QED
      BY <2>5, <3>2, <3>3
  <2> QED
    BY <2>8, <2>9 DEF Accounted
<1>5. CASE Drop(r)
  <2>1. PICK taken \in Takes(r) :
          /\ HostStores(r, Result(r, taken)) /\ PassesOver(ToDrop(r) \cap Result(r, taken))
          /\ seen' = [seen EXCEPT ![r] = (@ \ Part(r)) \cup Result(r, taken)]
    BY <1>5 DEF Drop
  <2>2. /\ seen'[r] = (seen[r] \ Part(r)) \cup Result(r, taken)
        /\ owned'[r] = owned[r] \ ToDrop(r)
    BY <1>5, <2>1 DEF Drop, TypeOK
  <2>3. /\ Own' \subseteq Own /\ Own' \cap ToDrop(r) = {}
        /\ Own' \ Part(r) = Own \ Part(r)
        /\ standing' \cap Part(r) \subseteq Result(r, taken)
    BY <1>5, <2>1, CallLeavesOwn DEF Drop, Adding, Dropping
  <2>4. pc'[r] = After[pc[r]] /\ roster'[r] = NoRoster
        /\ UNCHANGED <<comment, want, prev, found, failed>>
    BY <1>5, <2>1 DEF Drop, Advance, HostStores, TypeOK
  <2>5. pc'[r] \in {"requestReviewers", "find"}
        /\ pc[r] \in {"removeAssignees", "removeReviewRequests"}
    BY <1>5, <2>4 DEF Drop, Dropping, After
  <2>6. Own \subseteq owned[r] \cap seen[r]
    BY <2>5 DEF Accounted, HandedOn
  <2>7. Own' \subseteq owned'[r] \cap seen'[r]
    <3>1. Own' \subseteq standing'
      BY DEF Own
    <3> QED
      BY <2>2, <2>3, <2>6, <3>1
  <2>8. HandedOn' /\ Current'
    BY <1>0, <2>4, <2>5, <2>7 DEF Accounted, HandedOn, Current, Claimed
  <2>9. Own' \cap Part(r) \subseteq want[r]
    BY <2>3, <2>6 DEF ToDrop
  <2>10. TakenBack'
    BY <1>0, <2>3, <2>4, <2>5, <2>9 DEF After, Part, TakenBack, Accounted
  <2> QED
    BY <2>8, <2>10 DEF Accounted
<1>6. CASE CallFails(r)
  <2>1. UNCHANGED hostVars /\ failed'[r]
    BY <1>6 DEF CallFails, Orderly, TypeOK
  <2>2. pc'[r] = After[pc[r]] /\ roster'[r] = NoRoster /\ UNCHANGED <<want, seen, prev, owned, found>>
    BY <1>6 DEF CallFails, Advance, TypeOK
  <2>3. pc'[r] \in {"removeAssignees", "requestReviewers", "removeReviewRequests", "find"}
        /\ pc[r] \notin {"idle", "ledger"}
    BY <1>6, <2>2 DEF CallFails, Adding, Dropping, After
  <2> QED
    BY <1>0, <2>1, <2>2, <2>3 DEF hostVars, Accounted, HandedOn, Current, TakenBack, Own, Claimed
<1>7. CASE FindLedger(r)
  <2>1. /\ pc[r] = "find" /\ UNCHANGED hostVars
        /\ Own \subseteq NextLedger(r) /\ prev[r] = Claimed
    BY <1>7 DEF FindLedger, Accounted, HandedOn, NextLedger
  <2>2. CASE Reset(r)
    <3>1. pc'[r] = "idle" /\ roster'[r] = NoRoster
      BY <2>2 DEF Reset, TypeOK
    <3>2. Own \subseteq Claimed
      <4>1. ~Advance(r)
        BY <2>1, <3>1 DEF Advance, After, TypeOK
      <4>2. NextLedger(r) = prev[r] \/ (comment = NoComment /\ NextLedger(r) = {})
        BY <1>7, <4>1 DEF FindLedger
      <4> QED
        BY <2>1, <4>2
    <3> QED
      BY <1>0, <2>1, <3>1, <3>2 DEF hostVars, Accounted, HandedOn, Current, TakenBack, Own, Claimed
  <2>3. CASE /\ found' = [found EXCEPT ![r] = IF comment = NoComment THEN "no" ELSE "yes"]
             /\ Advance(r)
             /\ UNCHANGED <<want, seen, prev, owned, failed>>
    <3>1. pc'[r] = "put" /\ roster'[r] = NoRoster
          /\ found'[r] = IF comment = NoComment THEN "no" ELSE "yes"
      BY <2>1, <2>3 DEF Advance, After, TypeOK
    <3> QED
      BY <1>0, <2>1, <2>3, <3>1 DEF hostVars, Accounted, HandedOn, Current, TakenBack, Own, Claimed
  <2> QED
    BY <1>7, <2>2, <2>3 DEF FindLedger
<1>8. CASE PutLedger(r)
  <2>1. Own \subseteq NextLedger(r) /\ Own' = Own
    BY <1>8 DEF PutLedger, Accounted, HandedOn, NextLedger, Own
  <2>2. comment' = NextLedger(r)
    BY <1>8 DEF PutLedger, Written, Posted, Accounted, Current
  <2>3. pc'[r] = "idle" /\ roster'[r] = NoRoster
    BY <1>8 DEF PutLedger, Reset, TypeOK
  <2>4. comment' # NoComment
    BY <2>2, AssignmentAssumption DEF NextLedger, TypeOK
  <2> QED
    BY <1>0, <2>1, <2>2, <2>3, <2>4 DEF Accounted, HandedOn, Current, TakenBack, Claimed
<1> QED
  BY <1>0, <1>1, <1>2, <1>3, <1>4, <1>5, <1>6, <1>7, <1>8 DEF RunStep

\* Neither a run's beginning nor what persons do disturbs the account.
LEMMA AccountStays ==
    ASSUME Orderly, TypeOK, Accounted, [Next]_vars
    PROVE  Accounted'
<1>1. ASSUME NEW r \in Runs, NEW w \in SUBSET Names, Begin(r, w) PROVE Accounted'
  <2>1. /\ pc'[r] = "ledger" /\ seen'[r] = standing /\ pc[r] = "idle"
        /\ UNCHANGED <<standing, manual, skipped, comment, roster>>
        /\ \A s \in Runs : s = r
    BY <1>1 DEF Begin, hostVars, TypeOK, Orderly, OneAtATime
  <2> QED
    BY <2>1 DEF Accounted, HandedOn, Current, TakenBack, Own, Claimed, Adding, Dropping
<1>2. ASSUME NEW n \in Names, PersonAdds(n) PROVE Accounted'
  <2>1. Own' = Own /\ standing \subseteq standing' /\ UNCHANGED <<comment, runVars>>
    BY <1>2 DEF PersonAdds, Own, TypeOK
  <2> QED
    BY <2>1 DEF runVars, Accounted, HandedOn, Current, TakenBack, Claimed, Adding, Dropping, Part
<1>3. ASSUME NEW n \in Names, PersonRemoves(n) PROVE Accounted'
  <2>1. Own' \subseteq Own /\ UNCHANGED <<comment, runVars>>
    BY <1>3 DEF PersonRemoves, PassesOver, Own
  <2>2. \A r \in Runs : roster[r] = NoRoster
    BY <1>3 DEF PersonRemoves, InFlight, Orderly, Accounted, Current, Adding, Dropping
  <2>3. HandedOn' /\ TakenBack'
    BY <2>1 DEF runVars, Accounted, HandedOn, TakenBack, Claimed
  <2>4. Current'
    BY <2>1, <2>2 DEF runVars, Accounted, Current
  <2> QED
    BY <2>3, <2>4 DEF Accounted
<1>4. CASE PersonDeletesLedger
  BY <1>4 DEF PersonDeletesLedger, Orderly
<1>5. CASE UNCHANGED vars
  BY <1>5 DEF vars, hostVars, runVars, Accounted, HandedOn, Current, TakenBack, Own, Claimed,
     Adding, Dropping, Part
<1> QED
  BY <1>1, <1>2, <1>3, <1>4, <1>5, RunStepAccounts DEF Next

LEMMA AccountHolds == Orderly => (Spec => []Accounted)
<1> SUFFICES ASSUME Orderly PROVE Spec => []Accounted
  OBVIOUS
<1>1. Init => Accounted
  BY DEF Init, Accounted, HandedOn, Current, TakenBack, Own, Claimed
<1>2. TypeOK /\ Accounted /\ [Next]_vars => Accounted'
  BY AccountStays
<1> QED
  BY <1>1, <1>2, TypeCorrect, PTL DEF Spec

\* Between runs that come one after the other the ledger lists all that
\* Talooner has put on the pull request, however many of their calls are
\* refused: on GitLab all but the names it passed over when it was asked to
\* take them off.
THEOREM LedgerIsComplete ==
    ASSUME Orderly
    PROVE  Spec => []LedgerAccountsForAll
<1>1. TypeOK /\ Accounted => LedgerAccountsForAll
  BY DEF Orderly, OneAtATime, Accounted, HandedOn, Own, LedgerAccountsForAll, InFlight
<1> QED
  BY <1>1, AccountHolds, TypeCorrect, PTL

\* Such a run, if it met no problem, leaves nothing of Talooner's that the
\* rules no longer ask for, the names passed over excepted.
THEOREM NothingIsLeftBehind ==
    ASSUME Orderly
    PROVE  Spec => []KeepsNothingUnwanted
<1>1. TypeOK /\ Accounted => KeepsNothingUnwanted
  BY DEF TypeOK, Names, Accounted, TakenBack, Own, KeepsNothingUnwanted
<1> QED
  BY <1>1, AccountHolds, TypeCorrect, PTL

NothingPassedOver == skipped = {}

\* On GitHub nothing is ever passed over, so there the ledger is what its text
\* says it is: whatever it does not list, a person put there.
THEOREM UnlistedIsAPersonsOnGitHub ==
    ASSUME Orderly, Host = "github"
    PROVE  Spec => []UnlistedIsAPersons
<1>1. Init => NothingPassedOver
  BY DEF Init, NothingPassedOver
<1>2. TypeOK /\ NothingPassedOver /\ [Next]_vars => NothingPassedOver'
  <2> SUFFICES ASSUME TypeOK, skipped = {}, [Next]_vars PROVE skipped' = {}
    BY DEF NothingPassedOver
  <2>1. ASSUME NEW r \in Runs, Drop(r) PROVE skipped' = {}
    <3>1. PICK taken \in Takes(r) : PassesOver(ToDrop(r) \cap Result(r, taken))
      BY <2>1 DEF Drop
    <3>2. taken = ToDrop(r) /\ Result(r, taken) = Base(r) \ taken
      BY <2>1, AssignmentAssumption DEF Drop, Takes, Todo, Result, Adding, Dropping
    <3> QED
      BY <3>1, <3>2 DEF PassesOver
  <2>2. ASSUME NEW r \in Runs, RunStep(r) \/ Crash(r), ~Drop(r) PROVE skipped' = {}
    BY <2>2 DEF RunStep, ReadLedger, Skip, Fetch, Add, CallFails, FindLedger, PutLedger,
       LedgerFails, Crash, PassesOver, hostVars
  <2>3. ASSUME ~\E r \in Runs : RunStep(r) \/ Crash(r) PROVE skipped' = {}
    BY <2>3 DEF Next, Begin, PersonAdds, PersonRemoves, PersonDeletesLedger, PassesOver,
       hostVars, vars
  <2> QED
    BY <2>1, <2>2, <2>3
<1>3. LedgerAccountsForAll /\ NothingPassedOver => UnlistedIsAPersons
  BY DEF NothingPassedOver, LedgerAccountsForAll, UnlistedIsAPersons, Own
<1>4. Spec => []LedgerAccountsForAll
  BY LedgerIsComplete
<1> QED
  BY <1>1, <1>2, <1>3, <1>4, TypeCorrect, PTL DEF Spec
=============================================================================

----------------------------- MODULE FactsProofs -----------------------------
(***************************************************************************)
(* What holds of the facts for any number of people, files, checks, rules, *)
(* pushes and reviews, on both hosts.                                      *)
(***************************************************************************)
EXTENDS Facts, TLAPS, SequenceTheorems, WellFoundedInduction

USE FactsAssumption

-----------------------------------------------------------------------------
(* Types.                                                                  *)

HostTypes ==
    /\ host \in Hosts
    /\ head \in Heads
    /\ change \in Changes
    /\ reviews \in Seq(Reviews)
    /\ checks \in [Heads -> [Names -> CheckStates]]
    /\ events \in 0..MaxEvents

ReadTypes ==
    /\ pc \in Resting \cup Stages
    /\ read \subseteq {"files", "pull"}
    /\ sha \in Heads
    /\ ci \in [Names -> CheckStates]
    /\ diff \subseteq Files
    /\ cut \in BOOLEAN
    /\ stamp \in Heads

StatsTypes == \E s \in SUBSET Files : stats \in [s -> BOOLEAN]

FactTypes == pc = "done" => facts \in FactSets

GhostTypes ==
    /\ calm \in BOOLEAN
    /\ steady \subseteq Names \X Heads \X CheckStates
    /\ objectors \subseteq People
    /\ approvals \subseteq People \X Heads

Types == HostTypes /\ ReadTypes /\ StatsTypes /\ FactTypes /\ GhostTypes

LEMMA TypesSuffice == Types => TypeOK
  BY DEF Types, HostTypes, ReadTypes, StatsTypes, FactTypes, GhostTypes, TypeOK

LEMMA HeadOne == 1 \in Heads
  BY DEF Heads

LEMMA NoChecksType == NoChecks \in [Names -> CheckStates]
  BY DEF NoChecks, CheckStates

LEMMA NoStatsType == \E s \in SUBSET Files : <<>> \in [s -> BOOLEAN]
<1>1. <<>> \in Seq(BOOLEAN) /\ Len(<<>>) = 0
  OBVIOUS
<1>2. <<>> \in [1..Len(<<>>) -> BOOLEAN]
  BY <1>1, LenProperties
<1>3. <<>> \in [{} -> BOOLEAN]
  BY <1>1, <1>2
<1>4. QED
  BY <1>3

\* A bounded set of numbers has a last one.
LEMMA LastOf ==
  ASSUME NEW S \in SUBSET Nat, S # {}, NEW n \in Nat, \A x \in S : x <= n
  PROVE  \E m \in S : \A x \in S : x <= m
<1> DEFINE T == {n - x : x \in S}
           R == OpToRel(<, Nat)
<1>1. T \in SUBSET Nat /\ T # {}
  <2>1. \A x \in S : n - x \in Nat
    OBVIOUS
  <2>2. PICK x \in S : TRUE
    OBVIOUS
  <2>3. n - x \in T
    BY <2>2
  <2>4. QED
    BY <2>1, <2>3
<1>2. IsWellFoundedOn(R, Nat)
  BY NatLessThanWellFounded, Zenon
<1>3. PICK t \in T : \A y \in T : <<y, t>> \notin R
  <2> HIDE DEF T, R
  <2> QED
    BY <1>1, <1>2, WFMin
<1>4. \A y \in T : ~(y < t)
  BY <1>1, <1>3, Zenon DEF OpToRel
<1>5. PICK m \in S : t = n - m
  BY <1>3
<1>6. ASSUME NEW x \in S PROVE x <= m
  <2>1. ~(n - x < n - m)
    BY <1>4, <1>5
  <2>2. QED
    BY <2>1
<1>7. QED
  BY <1>6

\* Others write nothing of the job's.
LEMMA EventTypes ==
  ASSUME Types, Event, head' \in Heads, change' \in Changes, reviews' \in Seq(Reviews),
         checks' \in [Heads -> [Names -> CheckStates]]
  PROVE  Types'
<1>1. HostTypes'
  BY DEF Types, HostTypes, Event
<1>2. ReadTypes' /\ StatsTypes' /\ FactTypes'
  BY DEF Types, ReadTypes, StatsTypes, FactTypes, Event, jobVars
<1>3. GhostTypes'
  <2>1. calm' \in BOOLEAN /\ steady' \subseteq Names \X Heads \X CheckStates /\ objectors' \subseteq People
    BY DEF Types, GhostTypes, Event
  <2>2. Approvals' \subseteq People \X Heads
    BY DEF Approvals
  <2>3. QED
    BY <2>1, <2>2 DEF Types, GhostTypes, Event
<1>4. QED
  BY <1>1, <1>2, <1>3 DEF Types

LEMMA OthersKeepTypes ==
  ASSUME Types
  PROVE  /\ Push => Types'
         /\ \A p \in People : Submit(p) \/ Note(p) => Types'
         /\ \A i \in DOMAIN reviews : Dismiss(i) \/ Resolve(i) => Types'
         /\ \A h \in Heads, n \in Names, s \in CheckStates : CheckReports(h, n, s) => Types'
<1>t. head \in Heads /\ change \in Changes /\ reviews \in Seq(Reviews)
      /\ checks \in [Heads -> [Names -> CheckStates]]
  BY DEF Types, HostTypes
<1>1. ASSUME Push PROVE Types'
  <2>1. head' \in Heads
    BY <1>1, <1>t DEF Push, Heads
  <2>2. QED
    BY <1>1, <1>t, <2>1, EventTypes DEF Push
<1>2. ASSUME NEW p \in People, NEW s \in ReviewStates \cup NoteStates, Adds(p, s) PROVE Types'
  <2>1. [who |-> p, state |-> s, commit |-> head] \in Reviews
    BY <1>2, <1>t DEF Reviews
  <2>2. reviews' \in Seq(Reviews)
    BY <1>2, <1>t, <2>1 DEF Adds
  <2>3. QED
    BY <1>2, <1>t, <2>2, EventTypes DEF Adds
<1>3. ASSUME NEW i \in DOMAIN reviews, NEW s \in ReviewStates \cup NoteStates, Turns(i, s) PROVE Types'
  <2>1. reviews[i] \in Reviews
    BY <1>t
  <2>2. [reviews[i] EXCEPT !.state = s] \in Reviews
    BY <2>1 DEF Reviews
  <2>3. reviews' \in Seq(Reviews)
    BY <1>3, <1>t, <2>1, <2>2, ExceptSeq DEF Turns
  <2>4. QED
    BY <1>3, <1>t, <2>3, EventTypes DEF Turns
<1>4. ASSUME NEW h \in Heads, NEW n \in Names, NEW s \in CheckStates, CheckReports(h, n, s) PROVE Types'
  <2>1. checks' \in [Heads -> [Names -> CheckStates]]
    BY <1>4, <1>t DEF CheckReports
  <2>2. QED
    BY <1>4, <1>t, <2>1, EventTypes DEF CheckReports
<1>5. QED
  BY <1>1, <1>2, <1>3, <1>4 DEF Submit, Note, Dismiss, Resolve, ReviewStates, NoteStates, Decisive

LEMMA DerivedType ==
  ASSUME NEW list, ReadTypes
  PROVE  Derived(list) \in FactSets
<1>1. \A matched : Passing(matched) \in {<<>>, <<TRUE>>, <<FALSE>>}
  BY DEF Passing
<1>2. sha \in Heads /\ cut \in BOOLEAN
  BY DEF ReadTypes
<1>3. Objected(list) \in BOOLEAN
  BY DEF Objected
<1>4. QED
  BY <1>1, <1>2, <1>3 DEF Derived, FactSets

LEMMA StatsType ==
  ASSUME HostTypes
  PROVE  \E s \in SUBSET Files : [f \in DOMAIN change |-> Lines(f)] \in [s -> BOOLEAN]
<1>1. PICK s \in SUBSET Files : change \in [s -> Showings]
  BY DEF HostTypes
<1>2. \A f : Lines(f) \in BOOLEAN
  BY DEF Lines
<1>3. QED
  BY <1>1, <1>2

LEMMA CiType ==
  ASSUME HostTypes, ReadTypes, NEW names, OfTheSha(names)
  PROVE  ci' \in [Names -> CheckStates]
  BY DEF HostTypes, ReadTypes, OfTheSha

\* The job writes nothing of others'.
LEMMA JobKeepsTypes ==
  ASSUME Types
  PROVE  /\ Begin \/ ReadFiles \/ ReadPull \/ ReadRuns \/ ReadStatuses => Types'
         /\ ReadDiff \/ ReadStamp \/ ReadReviews \/ Return => Types'
<1>t. HostTypes /\ ReadTypes /\ StatsTypes /\ FactTypes /\ GhostTypes
  BY DEF Types
<1>h. ASSUME UNCHANGED hostVars PROVE HostTypes'
  BY <1>h, <1>t DEF hostVars, HostTypes
<1>g. ASSUME UNCHANGED ghosts PROVE GhostTypes'
  BY <1>g, <1>t DEF ghosts, GhostTypes
<1>1. ASSUME Begin PROVE Types'
  <2>1. Standing \subseteq Names \X Heads \X CheckStates
    BY <1>t DEF Standing, HostTypes
  <2>2. Objectors \subseteq People /\ Approvals \subseteq People \X Heads
    BY DEF Objectors, Approvals
  <2>3. GhostTypes'
    BY <1>1, <2>1, <2>2 DEF Begin, GhostTypes
  <2>4. ReadTypes' /\ StatsTypes' /\ FactTypes'
    BY <1>1, <1>t DEF Begin, Goto, ReadTypes, StatsTypes, FactTypes, Stages
  <2>5. QED
    BY <1>1, <1>h, <2>3, <2>4 DEF Begin, Types
<1>2. ASSUME ReadFiles PROVE Types'
  <2>1. StatsTypes'
    BY <1>2, <1>t, StatsType DEF ReadFiles, StatsTypes
  <2>2. ReadTypes' /\ FactTypes'
    BY <1>2, <1>t DEF ReadFiles, Answered, Goto, ReadTypes, FactTypes, Stages
  <2>3. QED
    BY <1>2, <1>h, <1>g, <2>1, <2>2 DEF ReadFiles, Types
<1>3. ASSUME ReadPull PROVE Types'
  <2>1. StatsTypes'
    BY <1>3, <1>t DEF ReadPull, StatsTypes
  <2>2. ReadTypes' /\ FactTypes'
    BY <1>3, <1>t DEF ReadPull, HeadSHA, Answered, Goto, ReadTypes, HostTypes, FactTypes, Stages
  <2>3. QED
    BY <1>3, <1>h, <1>g, <2>1, <2>2 DEF ReadPull, Types
<1>4. ASSUME ReadRuns PROVE Types'
  <2>1. StatsTypes' /\ FactTypes'
    BY <1>4, <1>t DEF ReadRuns, StatsTypes, FactTypes, Goto
  <2>2. ReadTypes'
    BY <1>4, <1>t, CiType DEF ReadRuns, Goto, ReadTypes, Stages
  <2>3. QED
    BY <1>4, <1>h, <1>g, <2>1, <2>2 DEF ReadRuns, Types
<1>5. ASSUME ReadStatuses PROVE Types'
  <2>1. StatsTypes' /\ FactTypes'
    BY <1>5, <1>t DEF ReadStatuses, StatsTypes, FactTypes, Goto
  <2>2. ReadTypes'
    BY <1>5, <1>t, CiType DEF ReadStatuses, Goto, ReadTypes, Stages
  <2>3. QED
    BY <1>5, <1>h, <1>g, <2>1, <2>2 DEF ReadStatuses, Types
<1>6. ASSUME ReadDiff PROVE Types'
  <2>1. StatsTypes' /\ FactTypes'
    BY <1>6, <1>t DEF ReadDiff, StatsTypes, FactTypes, Goto
  <2>1a. PICK s \in SUBSET Files : change \in [s -> Showings]
    BY <1>t DEF HostTypes
  <2>2. Shown \subseteq Files
    BY <2>1a DEF Shown
  <2>3. diff' \subseteq Files /\ cut' \in BOOLEAN
    BY <1>6, <2>2 DEF ReadDiff
  <2>4. ReadTypes'
    BY <1>6, <1>t, <2>3 DEF ReadDiff, Goto, ReadTypes, Stages
  <2>5. QED
    BY <1>6, <1>h, <1>g, <2>1, <2>4 DEF ReadDiff, Types
<1>7. ASSUME ReadStamp PROVE Types'
  <2>1. StatsTypes' /\ FactTypes'
    BY <1>7, <1>t DEF ReadStamp, StatsTypes, FactTypes, Goto
  <2>2. ReadTypes'
    BY <1>7, <1>t DEF ReadStamp, Goto, ReadTypes, HostTypes, Stages
  <2>3. QED
    BY <1>7, <1>h, <1>g, <2>1, <2>2 DEF ReadStamp, Types
<1>8. ASSUME ReadReviews PROVE Types'
  <2>1. FactTypes'
    BY <1>8, <1>t, DerivedType DEF ReadReviews, FactTypes, Goto
  <2>2. StatsTypes'
    BY <1>8, <1>t DEF ReadReviews, StatsTypes
  <2>3. ReadTypes'
    BY <1>8, <1>t, NoChecksType, HeadOne DEF ReadReviews, Goto, ReadTypes, Resting
  <2>4. QED
    BY <1>8, <1>h, <1>g, <2>1, <2>2, <2>3 DEF ReadReviews, Types
<1>9. ASSUME Return PROVE Types'
  <2>1. StatsTypes' /\ FactTypes'
    BY <1>9, NoStatsType DEF Return, StatsTypes, FactTypes, Goto
  <2>2. ReadTypes'
    BY <1>9, NoChecksType, HeadOne DEF Return, Goto, ReadTypes, Resting
  <2>3. GhostTypes'
    BY <1>9 DEF Return, GhostTypes
  <2>4. QED
    BY <1>9, <1>h, <2>1, <2>2, <2>3 DEF Return, Types
<1>10. QED
  BY <1>1, <1>2, <1>3, <1>4, <1>5, <1>6, <1>7, <1>8, <1>9

LEMMA InitTypes == Init => Types
<1>1. SUFFICES ASSUME Init PROVE Types
  OBVIOUS
<1>2. HostTypes
  BY <1>1, HeadOne, NoChecksType DEF Init, HostTypes
<1>3. ReadTypes
  BY <1>1, HeadOne, NoChecksType DEF Init, ReadTypes, Resting
<1>4. StatsTypes /\ FactTypes /\ GhostTypes
  BY <1>1, NoStatsType DEF Init, StatsTypes, FactTypes, GhostTypes
<1>5. QED
  BY <1>2, <1>3, <1>4 DEF Types

LEMMA NextTypes == Types /\ [Next]_vars => Types'
<1>1. ASSUME Types, Next PROVE Types'
  BY <1>1, OthersKeepTypes, JobKeepsTypes DEF Next
<1>2. ASSUME Types, UNCHANGED vars PROVE Types'
  BY <1>2 DEF vars, hostVars, jobVars, ghosts, Types, HostTypes, ReadTypes, StatsTypes,
              FactTypes, GhostTypes
<1>3. QED
  BY <1>1, <1>2

\* The types of what the host shows, what was read and what is derived.
THEOREM TypeCorrect == Spec => []TypeOK
<1>1. Spec => []Types
  BY InitTypes, NextTypes, PTL DEF Spec
<1>2. QED
  BY <1>1, TypesSuffice, PTL

-----------------------------------------------------------------------------
(* The inductive invariant.                                                *)

\* GitHub has reviews and no notes.
OwnStates == host = "github" => \A i \in DOMAIN reviews : reviews[i].state \in ReviewStates

\* What the ghosts hold while facts are gathered is what the host shows.
SoFar ==
    pc \in Stages =>
        objectors \subseteq Objectors /\ steady \subseteq Standing /\ Approvals \subseteq approvals

ReadWell(names) == \A n \in names, s \in CheckStates : <<n, sha, s>> \in steady => ci[n] = s

ChecksRead ==
    /\ pc \in {"statuses", "diff", "stamp", "reviews"} => ReadWell(RunNames)
    /\ pc \in {"diff", "stamp", "reviews"} => ReadWell(StatusNames)

FilesRead == pc \in (Stages \ {"side"}) \cup {"done"} \/ "files" \in read

StatsRead ==
    /\ pc \in Resting => read = {}
    /\ calm /\ FilesRead => stats = [f \in DOMAIN change |-> Lines(f)]

Reading == Types /\ OwnStates /\ SoFar /\ ChecksRead /\ StatsRead

Inv ==
    /\ Reading
    /\ ObjectionsAreReported
    /\ ApprovalsAreOfTheSha
    /\ TeamsAreOwners
    /\ ChecksAreNotGuessed
    /\ CountsNothingUnseen

LEMMA InitInv == Init => Inv
<1>1. SUFFICES ASSUME Init PROVE Inv
  OBVIOUS
<1>2. OwnStates
  BY <1>1 DEF Init, OwnStates
<1>3. SoFar /\ ChecksRead /\ StatsRead
  BY <1>1 DEF Init, SoFar, Stages, ChecksRead, StatsRead, FilesRead
<1>4. pc # "done"
  BY <1>1 DEF Init
<1>5. QED
  BY <1>1, <1>2, <1>3, <1>4, InitTypes DEF Inv, Reading, ObjectionsAreReported,
     ApprovalsAreOfTheSha, TeamsAreOwners, ChecksAreNotGuessed, CountsNothingUnseen

-----------------------------------------------------------------------------
(* Others' steps.                                                          *)

LEMMA EventReads ==
  ASSUME Reading, Event, change' = change \/ head' # head
  PROVE  SoFar' /\ ChecksRead' /\ StatsRead'
<1>j. UNCHANGED <<host, pc, read, sha, stats, ci>>
  BY DEF Event, jobVars
<1>1. SoFar'
  <2>1. ASSUME pc \in Stages PROVE Approvals' \subseteq approvals'
    BY <2>1 DEF Event, Stages, Resting
  <2>2. QED
    BY <1>j, <2>1 DEF Event, SoFar
<1>2. ChecksRead'
  <2>1. steady' \subseteq steady
    BY DEF Event
  <2>2. QED
    BY <1>j, <2>1 DEF Reading, ChecksRead, ReadWell
<1>3. StatsRead'
  <2>1. ASSUME calm' PROVE calm /\ change' = change
    BY <2>1 DEF Event
  <2>2. calm' => [f \in DOMAIN change |-> Lines(f)]' = [f \in DOMAIN change |-> Lines(f)]
    BY <2>1, <1>j DEF Lines
  <2>3. QED
    BY <2>1, <2>2, <1>j DEF Reading, StatsRead, FilesRead
<1>4. QED
  BY <1>1, <1>2, <1>3

LEMMA EventFacts ==
  ASSUME Inv, Event, change' = change \/ head' # head
  PROVE  /\ ObjectionsAreReported'
         /\ ApprovalsAreOfTheSha'
         /\ TeamsAreOwners'
         /\ ChecksAreNotGuessed'
         /\ CountsNothingUnseen'
<1>j. UNCHANGED <<host, pc, stats, facts>>
  BY DEF Event, jobVars
<1>g. objectors' \subseteq objectors /\ steady' \subseteq steady
  BY DEF Event
<1>a. pc = "done" => approvals' = approvals
  BY DEF Event, Resting
<1>c. calm' => calm /\ change' = change
  BY DEF Event
<1>1. ObjectionsAreReported'
  BY <1>j, <1>g DEF Inv, ObjectionsAreReported
<1>2. ApprovalsAreOfTheSha'
  BY <1>j, <1>a DEF Inv, ApprovalsAreOfTheSha
<1>3. TeamsAreOwners'
  BY <1>j, <1>a DEF Inv, TeamsAreOwners
<1>4. ChecksAreNotGuessed'
  BY <1>j, <1>g DEF Inv, ChecksAreNotGuessed
<1>5. CountsNothingUnseen'
  BY <1>j, <1>c DEF Inv, CountsNothingUnseen
<1>6. QED
  BY <1>1, <1>2, <1>3, <1>4, <1>5

LEMMA OthersKeepInv ==
  ASSUME Inv
  PROVE  /\ Push => Inv'
         /\ \A p \in People : Submit(p) \/ Note(p) => Inv'
         /\ \A i \in DOMAIN reviews : Dismiss(i) \/ Resolve(i) => Inv'
         /\ \A h \in Heads, n \in Names, s \in CheckStates : CheckReports(h, n, s) => Inv'
<1>t. Types /\ Reading /\ reviews \in Seq(Reviews) /\ head \in Nat
  BY DEF Inv, Reading, Types, HostTypes, Heads
<1>e. ASSUME Event, Types', OwnStates', change' = change \/ head' # head PROVE Inv'
  BY <1>e, <1>t, EventReads, EventFacts DEF Inv, Reading
<1>1. ASSUME Push PROVE Inv'
  <2>1. Event /\ head' # head
    BY <1>1, <1>t DEF Push
  <2>2. OwnStates'
    BY <1>1, <1>t DEF Push, Event, Reading, OwnStates
  <2>3. QED
    BY <1>1, <1>e, <1>t, <2>1, <2>2, OthersKeepTypes
<1>2. ASSUME NEW p \in People, Submit(p) PROVE Inv'
  <2>1. Event /\ change' = change
    BY <1>2 DEF Submit, Adds
  <2>2. PICK s \in ReviewStates : reviews' = Append(reviews, [who |-> p, state |-> s, commit |-> head])
    BY <1>2 DEF Submit, Adds, ReviewStates, Decisive
  <2>3. \A i \in DOMAIN reviews' :
           \/ i \in DOMAIN reviews /\ reviews'[i] = reviews[i]
           \/ reviews'[i].state = s
    BY <1>t, <2>2
  <2>4. OwnStates'
    BY <1>2, <1>t, <2>3 DEF Submit, Adds, Event, Reading, OwnStates
  <2>5. QED
    BY <1>2, <1>e, <1>t, <2>1, <2>4, OthersKeepTypes
<1>3. ASSUME NEW p \in People, Note(p) PROVE Inv'
  <2>1. Event /\ change' = change
    BY <1>3 DEF Note, Adds
  <2>2. OwnStates'
    BY <1>3, <2>1 DEF Note, Event, OwnStates
  <2>3. QED
    BY <1>3, <1>e, <1>t, <2>1, <2>2, OthersKeepTypes
<1>4. ASSUME NEW i \in DOMAIN reviews, Dismiss(i) PROVE Inv'
  <2>1. Event /\ change' = change
    BY <1>4 DEF Dismiss, Turns
  <2>2. reviews' = [reviews EXCEPT ![i].state = "DISMISSED"] /\ host' = host
    BY <1>4, <2>1 DEF Dismiss, Turns, Event
  <2>3. \A j \in DOMAIN reviews' : j \in DOMAIN reviews /\ reviews'[j].state \in {reviews[j].state, "DISMISSED"}
    BY <1>t, <2>2 DEF Reviews
  <2>4. OwnStates'
    BY <1>t, <2>2, <2>3 DEF Reading, OwnStates, ReviewStates, Decisive
  <2>5. QED
    BY <1>4, <1>e, <1>t, <2>1, <2>4, OthersKeepTypes
<1>5. ASSUME NEW i \in DOMAIN reviews, Resolve(i) PROVE Inv'
  <2>1. Event /\ change' = change
    BY <1>5 DEF Resolve, Turns
  <2>2. host # "github" /\ host' = host
    BY <1>5, <1>t, <2>1 DEF Resolve, Event, Reading, OwnStates, ReviewStates, Decisive
  <2>3. OwnStates'
    BY <2>2 DEF OwnStates
  <2>4. QED
    BY <1>5, <1>e, <1>t, <2>1, <2>3, OthersKeepTypes
<1>6. ASSUME NEW h \in Heads, NEW n \in Names, NEW s \in CheckStates, CheckReports(h, n, s) PROVE Inv'
  <2>1. Event /\ change' = change
    BY <1>6 DEF CheckReports
  <2>2. OwnStates'
    BY <1>6, <1>t, <2>1 DEF CheckReports, Event, Reading, OwnStates
  <2>3. QED
    BY <1>6, <1>e, <1>t, <2>1, <2>2, OthersKeepTypes
<1>7. QED
  BY <1>1, <1>2, <1>3, <1>4, <1>5, <1>6

-----------------------------------------------------------------------------
(* What is derived.                                                        *)

\* Each note or review is reported in its place, as its author's.
LEMMA ReportedKeeps ==
  ASSUME Reading, NEW c \in Heads
  PROVE  /\ DOMAIN Reported(c) = DOMAIN reviews
         /\ \A i \in DOMAIN reviews : /\ Reported(c)[i] = Report(reviews[i], c)
                                      /\ Reported(c)[i].who = reviews[i].who
<1>1. DOMAIN Reported(c) = DOMAIN reviews
      /\ \A i \in DOMAIN reviews : Reported(c)[i] = Report(reviews[i], c)
  BY DEF Reported
<1>2. ASSUME NEW i \in DOMAIN reviews PROVE Report(reviews[i], c).who = reviews[i].who
  BY DEF Report, Reviews, Reading, Types, HostTypes
<1>3. QED
  BY <1>1, <1>2

\* A decision of an approval of commit h is a standing approval of the host.
LEMMA ApprovingApproves ==
  ASSUME Reading, NEW h \in Heads, NEW c \in Heads, NEW p \in Approving(Reported(c), h)
  PROVE  \E g \in Heads : Approves(p, g) /\ p \in People /\ (host = "github" => g = h)
<1>r. reviews \in Seq(Reviews)
  BY DEF Reading, Types, HostTypes
<1> DEFINE list == Reported(c)
<1>l. /\ DOMAIN list = DOMAIN reviews
      /\ \A i \in DOMAIN reviews : list[i] = Report(reviews[i], c) /\ list[i].who = reviews[i].who
  BY ReportedKeeps
<1> HIDE DEF list
<1>1. PICK d \in Decisions(list) : d.state = "APPROVED" /\ d.commit = h /\ d.who = p
  BY DEF Approving, list
<1>2. PICK i \in DOMAIN list : Latest(list, i) /\ list[i] = d
  BY <1>1 DEF Decisions
<1>3. reviews[i] \in Reviews /\ i \in DOMAIN reviews
  BY <1>2, <1>r, <1>l
<1>4. /\ reviews[i].state \in {"APPROVED", "approved"}
      /\ reviews[i].state = "APPROVED" => reviews[i].commit = h
  BY <1>1, <1>2, <1>3, <1>l DEF Report, Reviews, ReviewStates, NoteStates, Decisive
<1>5. ASSUME NEW j \in DOMAIN reviews, j > i, reviews[j].who = p
      PROVE  reviews[j].state \notin Decisive \cup {"approved", "unapproved"}
  <2>1. list[j].state \notin Decisive
    BY <1>1, <1>2, <1>5, <1>l DEF Latest
  <2>2. reviews[j] \in Reviews
    BY <1>r
  <2>3. QED
    BY <2>1, <2>2, <1>l DEF Report, Reviews, ReviewStates, NoteStates, Decisive
<1>6. Approves(p, reviews[i].commit)
  BY <1>1, <1>2, <1>3, <1>4, <1>5, <1>l DEF Approves
<1>7. host = "github" => reviews[i].commit = h
  BY <1>3, <1>4 DEF Reading, OwnStates, ReviewStates, Decisive
<1>8. reviews[i].commit \in Heads /\ reviews[i].who \in People /\ reviews[i].who = p
  BY <1>1, <1>2, <1>3, <1>l DEF Reviews
<1>9. QED
  BY <1>6, <1>7, <1>8

\* Of an objector's reviews the last that objects is a decision.
LEMMA ObjectorsObject ==
  ASSUME Reading, NEW c \in Heads, Objectors # {}
  PROVE  Objected(Reported(c))
<1>r. reviews \in Seq(Reviews)
  BY DEF Reading, Types, HostTypes
<1>1. PICK p \in People, i \in DOMAIN reviews :
        /\ reviews[i].who = p
        /\ reviews[i].state \in {"CHANGES_REQUESTED", "thread"}
        /\ \A j \in DOMAIN reviews : j > i /\ reviews[j].who = p =>
             reviews[j].state \in {"COMMENTED", "CHANGES_REQUESTED", "thread", "resolved"}
  BY DEF Objectors
<1> DEFINE K == {j \in DOMAIN reviews : /\ j >= i /\ reviews[j].who = p
                                       /\ reviews[j].state \in {"CHANGES_REQUESTED", "thread"}}
<1>d. DOMAIN reviews \subseteq Nat /\ \A j \in DOMAIN reviews : j <= Len(reviews)
  BY <1>r
<1>2. K \in SUBSET Nat /\ i \in K /\ \A j \in K : j <= Len(reviews)
  BY <1>1, <1>d
<1>3. PICK m \in K : \A j \in K : j <= m
  <2>1. Len(reviews) \in Nat
    BY <1>r
  <2> HIDE DEF K
  <2>2. QED
    BY <1>2, <2>1, LastOf
<1>4. \A j \in DOMAIN reviews : j > m /\ reviews[j].who = p =>
         reviews[j].state \in {"COMMENTED", "resolved"}
  BY <1>1, <1>3, <1>d
<1> DEFINE list == Reported(c)
<1>l. /\ DOMAIN list = DOMAIN reviews
      /\ \A j \in DOMAIN reviews : list[j] = Report(reviews[j], c) /\ list[j].who = reviews[j].who
  BY ReportedKeeps
<1>5. list[m].state = "CHANGES_REQUESTED" /\ m \in DOMAIN list
  BY <1>3, <1>l DEF Report
<1>6. ASSUME NEW j \in DOMAIN list, j > m, list[j].who = list[m].who
      PROVE  list[j].state \notin Decisive
  BY <1>3, <1>4, <1>6, <1>l DEF Report, Decisive
<1> HIDE DEF list, K
<1>7. list[m] \in Decisions(list)
  BY <1>5, <1>6 DEF Decisions, Latest, Decisive
<1>8. QED
  BY <1>5, <1>7 DEF Objected, list

\* What is derived when the last call is answered.
LEMMA DerivedFacts ==
  ASSUME Inv, ReadReviews, pc' = "done"
  PROVE  /\ ObjectionsAreReported'
         /\ ApprovalsAreOfTheSha'
         /\ TeamsAreOwners'
         /\ ChecksAreNotGuessed'
         /\ CountsNothingUnseen'
<1>t. Reading /\ Types /\ sha \in Heads /\ stamp \in Heads /\ ci \in [Names -> CheckStates]
  BY DEF Inv, Reading, Types, ReadTypes
<1>u. /\ pc = "reviews" /\ Countable /\ facts' = Derived(Reported(stamp))
      /\ UNCHANGED <<host, change, stats, calm, steady, objectors, approvals>>
  BY DEF ReadReviews, Goto, hostVars, ghosts
<1>s. objectors \subseteq Objectors /\ steady \subseteq Standing /\ Approvals \subseteq approvals
  BY <1>t, <1>u DEF Reading, SoFar, Stages
<1>a. ASSUME NEW p \in Approving(Reported(stamp), sha)
      PROVE  \E h \in Heads : <<p, h>> \in approvals /\ (host = "github" => h = sha)
  <2>1. PICK h \in Heads : Approves(p, h) /\ p \in People /\ (host = "github" => h = sha)
    BY <1>a, <1>t, ApprovingApproves
  <2>2. <<p, h>> \in Approvals
    BY <2>1 DEF Approvals
  <2>3. QED
    BY <2>1, <2>2, <1>s
<1>p. Approving(Reported(stamp), sha) \subseteq People
  BY <1>t, ApprovingApproves
<1>1. ObjectionsAreReported'
  <2>1. ASSUME objectors # {} PROVE Objected(Reported(stamp))
    BY <2>1, <1>t, <1>s, ObjectorsObject
  <2>2. facts'.objected = Objected(Reported(stamp))
    BY <1>u DEF Derived
  <2>3. QED
    BY <1>u, <2>1, <2>2 DEF ObjectionsAreReported
<1>2. ApprovalsAreOfTheSha'
  <2>1. facts'.human = (Approving(Reported(stamp), sha) \ Bots # {}) /\ facts'.sha = sha
    BY <1>u DEF Derived
  <2>2. ASSUME facts'.human
        PROVE \E p \in People \ Bots, h \in Heads : <<p, h>> \in approvals /\ (host = "github" => h = sha)
    BY <2>1, <2>2, <1>a, <1>p
  <2>3. QED
    BY <1>u, <2>1, <2>2 DEF ApprovalsAreOfTheSha
<1>3. TeamsAreOwners'
  <2>1. /\ facts'.approved = {t \in Teams : Approving(Reported(stamp), sha) \cap Members(t, DOMAIN stats) # {}}
        /\ facts'.sha = sha
    BY <1>u DEF Derived
  <2>2. ASSUME NEW t \in facts'.approved
        PROVE \E f \in DOMAIN stats, i \in DOMAIN Rules, h \in Heads :
                 /\ f \in Rules[i].files /\ t \in Rules[i].teams
                 /\ \A j \in DOMAIN Rules : f \in Rules[j].files => j <= i
                 /\ \E p \in Rules[i].people : <<p, h>> \in approvals /\ (host = "github" => h = sha)
    <3>1. PICK p \in Approving(Reported(stamp), sha) : p \in Members(t, DOMAIN stats)
      BY <2>1, <2>2
    <3>2. PICK i \in DOMAIN Rules, f \in DOMAIN stats :
             p \in Rules[i].people /\ t \in Rules[i].teams /\ Owns(i, f)
      BY <3>1 DEF Members
    <3>3. DOMAIN Rules \subseteq Nat
      OBVIOUS
    <3>4. f \in Rules[i].files /\ \A j \in DOMAIN Rules : f \in Rules[j].files => j <= i
      BY <3>2, <3>3 DEF Owns
    <3>5. PICK h \in Heads : <<p, h>> \in approvals /\ (host = "github" => h = sha)
      BY <3>1, <1>a
    <3>6. QED
      BY <3>2, <3>4, <3>5
  <2>3. QED
    BY <1>u, <2>1, <2>2 DEF TeamsAreOwners
<1>4. ChecksAreNotGuessed'
  <2>1. /\ facts'.passing = Passing({ci[n] : n \in Patterns} \ {"none"})
        /\ facts'.pending = (\E n \in Names : ci[n] = "pending")
        /\ facts'.sha = sha
    BY <1>u DEF Derived
  <2>2. \A n \in Names, s \in CheckStates : <<n, sha, s>> \in steady => ci[n] = s
    BY <1>t, <1>u DEF Reading, ChecksRead, ReadWell, Names
  <2>3. ASSUME NEW matched PROVE /\ Passing(matched) # <<>> => "pending" \notin matched
                                 /\ Passing(matched) = <<TRUE>> => matched \cap {"pending", "failure", "other"} = {}
    BY DEF Passing
  <2>4. ASSUME NEW n \in Names, NEW s \in CheckStates, <<n, sha, s>> \in steady
        PROVE  /\ n \in Patterns /\ facts'.passing = <<TRUE>> => s \in {"success", "none"}
               /\ n \in Patterns /\ facts'.passing # <<>> => s # "pending"
               /\ s = "pending" => facts'.pending
    <3>1. ci[n] = s
      BY <2>2, <2>4
    <3>2. ASSUME n \in Patterns, s # "none" PROVE s \in {ci[m] : m \in Patterns} \ {"none"}
      BY <3>1, <3>2
    <3>3. QED
      BY <2>1, <2>3, <3>1, <3>2 DEF CheckStates
  <2>5. QED
    BY <1>u, <2>1, <2>4 DEF ChecksAreNotGuessed
<1>5. CountsNothingUnseen'
  <2>1. facts'.counted = Manifests \cap Readable
    BY <1>u DEF Derived
  <2>2. ASSUME calm, host = "github", NEW f \in Manifests \cap DOMAIN change, change[f] \in {"shown", "withheld"}
        PROVE  f \in Readable
    <3>1. stats = [g \in DOMAIN change |-> Lines(g)]
      BY <2>2, <1>t, <1>u DEF Reading, StatsRead, FilesRead, Stages
    <3>2. stats[f] /\ f \in DOMAIN stats
      BY <2>2, <3>1 DEF Lines
    <3>3. QED
      BY <2>2, <3>2, <1>u DEF Countable
  <2>3. QED
    BY <1>u, <2>1, <2>2 DEF CountsNothingUnseen
<1>6. QED
  BY <1>1, <1>2, <1>3, <1>4, <1>5

-----------------------------------------------------------------------------
(* The job's steps.                                                        *)

LEMMA HostStands ==
  ASSUME UNCHANGED hostVars
  PROVE  /\ Objectors' = Objectors /\ Standing' = Standing /\ Approvals' = Approvals
         /\ OwnStates => OwnStates'
         /\ [f \in DOMAIN change |-> Lines(f)]' = [f \in DOMAIN change |-> Lines(f)]
<1>1. UNCHANGED <<host, change, reviews, checks>>
  BY DEF hostVars
<1>2. Objectors' = Objectors
  BY <1>1 DEF Objectors
<1>3. Standing' = Standing
  BY <1>1 DEF Standing
<1>4. Approvals' = Approvals
  BY <1>1 DEF Approvals, Approves
<1>5. OwnStates => OwnStates'
  BY <1>1 DEF OwnStates
<1>6. [f \in DOMAIN change |-> Lines(f)]' = [f \in DOMAIN change |-> Lines(f)]
  BY <1>1 DEF Lines
<1>7. QED
  BY <1>2, <1>3, <1>4, <1>5, <1>6

\* Where nothing is derived, nothing is said.
LEMMA NothingSaid ==
  ASSUME pc' # "done"
  PROVE  /\ ObjectionsAreReported' /\ ApprovalsAreOfTheSha' /\ TeamsAreOwners'
         /\ ChecksAreNotGuessed' /\ CountsNothingUnseen'
  BY DEF ObjectionsAreReported, ApprovalsAreOfTheSha, TeamsAreOwners, ChecksAreNotGuessed,
         CountsNothingUnseen

LEMMA ChecksAreRead ==
  ASSUME Reading, pc \in Stages, UNCHANGED <<sha, steady>>, NEW names \in SUBSET Names,
         OfTheSha(names)
  PROVE  ReadWell(names)'
<1>1. ASSUME NEW n \in names, NEW s \in CheckStates, <<n, sha, s>> \in steady PROVE ci'[n] = s
  <2>1. <<n, sha, s>> \in Standing
    BY <1>1 DEF Reading, SoFar
  <2>2. s = checks[sha][n]
    BY <2>1 DEF Standing
  <2>3. QED
    BY <2>2 DEF OfTheSha
<1>2. QED
  BY <1>1 DEF ReadWell

LEMMA JobReads ==
  ASSUME Reading
  PROVE  /\ Begin \/ ReadFiles \/ ReadPull \/ ReadRuns \/ ReadStatuses =>
              SoFar' /\ ChecksRead' /\ StatsRead' /\ OwnStates'
         /\ ReadDiff \/ ReadStamp \/ ReadReviews \/ Return =>
              SoFar' /\ ChecksRead' /\ StatsRead' /\ OwnStates'
<1>t. OwnStates /\ SoFar /\ ChecksRead /\ StatsRead /\ read \subseteq {"files", "pull"}
      /\ pc \in Resting \cup Stages
  BY DEF Reading, Types, ReadTypes
<1>g. ASSUME UNCHANGED <<hostVars, ghosts>>, pc \in Stages PROVE SoFar' /\ OwnStates'
  BY <1>g, <1>t, HostStands DEF SoFar, ghosts
<1>s. ASSUME UNCHANGED <<hostVars, ghosts, read, stats>>, pc \in Stages \ {"side"},
             pc' \in Stages \ {"side"}
      PROVE  StatsRead'
  BY <1>s, <1>t, HostStands DEF StatsRead, FilesRead, Stages, Resting, ghosts
<1>1. ASSUME Begin PROVE SoFar' /\ ChecksRead' /\ StatsRead' /\ OwnStates'
  BY <1>1, <1>t, HostStands DEF Begin, Goto, SoFar, ChecksRead, StatsRead, FilesRead, Stages, Resting
<1>2. ASSUME ReadFiles PROVE SoFar' /\ ChecksRead' /\ StatsRead' /\ OwnStates'
  <2>1. ChecksRead' /\ pc \in Stages
    BY <1>2 DEF ReadFiles, Answered, Goto, ChecksRead, Stages
  <2>2. StatsRead'
    BY <1>2, HostStands DEF ReadFiles, Answered, Goto, StatsRead, Resting
  <2>3. QED
    BY <1>2, <1>g, <2>1, <2>2 DEF ReadFiles
<1>3. ASSUME ReadPull PROVE SoFar' /\ ChecksRead' /\ StatsRead' /\ OwnStates'
  <2>1. ChecksRead' /\ pc \in Stages
    BY <1>3 DEF ReadPull, Answered, Goto, ChecksRead, Stages
  <2>2. FilesRead' => FilesRead
    BY <1>3, <1>t DEF ReadPull, Answered, Goto, FilesRead, Stages
  <2>3. StatsRead'
    BY <1>3, <1>t, <2>2, HostStands DEF ReadPull, Answered, Goto, StatsRead, Resting, ghosts
  <2>4. QED
    BY <1>3, <1>g, <2>1, <2>3 DEF ReadPull
<1>4. ASSUME ReadRuns PROVE SoFar' /\ ChecksRead' /\ StatsRead' /\ OwnStates'
  <2>1. ReadWell(RunNames)'
    BY <1>4, ChecksAreRead DEF ReadRuns, ghosts, Stages, Names
  <2>2. ChecksRead' /\ pc \in Stages
    BY <1>4, <2>1 DEF ReadRuns, Goto, ChecksRead, Stages
  <2>3. QED
    BY <1>4, <1>g, <1>s, <2>2 DEF ReadRuns, Goto, Stages
<1>5. ASSUME ReadStatuses PROVE SoFar' /\ ChecksRead' /\ StatsRead' /\ OwnStates'
  <2>1. ReadWell(StatusNames)'
    BY <1>5, ChecksAreRead DEF ReadStatuses, ghosts, Stages, Names
  <2>2. ReadWell(RunNames)'
    <3>1. \A n \in RunNames : ci'[n] = ci[n]
      BY <1>5 DEF ReadStatuses, OfTheSha, Names
    <3>2. QED
      BY <1>5, <1>t, <3>1 DEF ReadStatuses, ChecksRead, ReadWell, ghosts
  <2>3. ChecksRead' /\ pc \in Stages
    BY <1>5, <2>1, <2>2 DEF ReadStatuses, Goto, ChecksRead, Stages
  <2>4. QED
    BY <1>5, <1>g, <1>s, <2>3 DEF ReadStatuses, Goto, Stages
<1>6. ASSUME ReadDiff PROVE SoFar' /\ ChecksRead' /\ StatsRead' /\ OwnStates'
  <2>1. ChecksRead' /\ pc \in Stages
    BY <1>6, <1>t DEF ReadDiff, Goto, ChecksRead, ReadWell, ghosts, Stages
  <2>2. QED
    BY <1>6, <1>g, <1>s, <2>1 DEF ReadDiff, Goto, Stages
<1>7. ASSUME ReadStamp PROVE SoFar' /\ ChecksRead' /\ StatsRead' /\ OwnStates'
  <2>1. ChecksRead' /\ pc \in Stages
    BY <1>7, <1>t DEF ReadStamp, Goto, ChecksRead, ReadWell, ghosts, Stages
  <2>2. QED
    BY <1>7, <1>g, <1>s, <2>1 DEF ReadStamp, Goto, Stages
<1>8. ASSUME ReadReviews PROVE SoFar' /\ ChecksRead' /\ StatsRead' /\ OwnStates'
  <2>1. ChecksRead' /\ SoFar'
    BY <1>8 DEF ReadReviews, Goto, ChecksRead, SoFar, Stages
  <2>2. StatsRead'
    BY <1>8, <1>t, HostStands DEF ReadReviews, Goto, StatsRead, FilesRead, Stages, Resting, ghosts
  <2>3. QED
    BY <1>8, <1>t, <2>1, <2>2, HostStands DEF ReadReviews
<1>9. ASSUME Return PROVE SoFar' /\ ChecksRead' /\ StatsRead' /\ OwnStates'
  BY <1>9, <1>t, HostStands DEF Return, Goto, SoFar, ChecksRead, StatsRead, Stages
<1>10. QED
  BY <1>1, <1>2, <1>3, <1>4, <1>5, <1>6, <1>7, <1>8, <1>9

LEMMA NextInv == Inv /\ [Next]_vars => Inv'
<1>1. ASSUME Inv, Begin \/ ReadFiles \/ ReadPull \/ ReadRuns \/ ReadStatuses PROVE Inv'
  <2>1. pc' # "done"
    BY <1>1 DEF Begin, ReadFiles, ReadPull, ReadRuns, ReadStatuses, Answered, Goto
  <2>2. QED
    BY <1>1, <2>1, JobKeepsTypes, JobReads, NothingSaid DEF Inv, Reading
<1>2. ASSUME Inv, ReadDiff \/ ReadStamp \/ Return PROVE Inv'
  <2>1. pc' # "done"
    BY <1>2 DEF ReadDiff, ReadStamp, Return, Goto
  <2>2. QED
    BY <1>2, <2>1, JobKeepsTypes, JobReads, NothingSaid DEF Inv, Reading
<1>3. ASSUME Inv, ReadReviews PROVE Inv'
  <2>1. Reading'
    BY <1>3, JobKeepsTypes, JobReads DEF Inv, Reading
  <2>2. CASE pc' = "done"
    BY <1>3, <2>1, <2>2, DerivedFacts DEF Inv
  <2>3. CASE pc' # "done"
    BY <1>3, <2>1, <2>3, NothingSaid DEF Inv
  <2>4. QED
    BY <2>2, <2>3
<1>4. ASSUME Inv, UNCHANGED vars PROVE Inv'
  <2>1. UNCHANGED hostVars /\ UNCHANGED jobVars /\ UNCHANGED ghosts
    BY <1>4 DEF vars
  <2>2. Types' /\ OwnStates'
    BY <1>4, <2>1, NextTypes, HostStands DEF Inv, Reading
  <2>3. SoFar' /\ ChecksRead' /\ StatsRead'
    BY <1>4, <2>1, HostStands DEF jobVars, ghosts, Inv, Reading, SoFar, ChecksRead, ReadWell,
       StatsRead, FilesRead
  <2>4. ObjectionsAreReported' /\ ApprovalsAreOfTheSha' /\ TeamsAreOwners'
    BY <1>4, <2>1 DEF hostVars, jobVars, ghosts, Inv, ObjectionsAreReported, ApprovalsAreOfTheSha, TeamsAreOwners
  <2>5. ChecksAreNotGuessed' /\ CountsNothingUnseen'
    BY <1>4, <2>1 DEF hostVars, jobVars, ghosts, Inv, ChecksAreNotGuessed, CountsNothingUnseen
  <2>6. QED
    BY <2>2, <2>3, <2>4, <2>5 DEF Inv, Reading
<1>5. QED
  BY <1>1, <1>2, <1>3, <1>4, OthersKeepInv DEF Next

LEMMA InvHolds == Spec => []Inv
  BY InitInv, NextInv, PTL DEF Spec

\* No comment, push or approval of others hides an objection that stands.
THEOREM ObjectionsReach == Spec => []ObjectionsAreReported
<1>1. Inv => ObjectionsAreReported
  BY DEF Inv
<1>2. QED
  BY <1>1, InvHolds, PTL

\* A reported human approval was given and stood, on GitHub for that commit.
THEOREM ApprovalsStand == Spec => []ApprovalsAreOfTheSha
<1>1. Inv => ApprovalsAreOfTheSha
  BY DEF Inv
<1>2. QED
  BY <1>1, InvHolds, PTL

\* A team's approval comes from someone who owns a changed file for the team.
THEOREM OwnersApprove == Spec => []TeamsAreOwners
<1>1. Inv => TeamsAreOwners
  BY DEF Inv
<1>2. QED
  BY <1>1, InvHolds, PTL

\* The tests' outcome is what the commit's checks have shown all along.
THEOREM ChecksTell == Spec => []ChecksAreNotGuessed
<1>1. Inv => ChecksAreNotGuessed
  BY DEF Inv
<1>2. QED
  BY <1>1, InvHolds, PTL

\* Dependencies are never counted past a manifest that was not read.
THEOREM ManifestsAreSeen == Spec => []CountsNothingUnseen
<1>1. Inv => CountsNothingUnseen
  BY DEF Inv
<1>2. QED
  BY <1>1, InvHolds, PTL
-----------------------------------------------------------------------------
(* How the separate calls fit together.                                    *)

\* GitLab has notes and no reviews.
OwnNotes == host = "gitlab" => \A i \in DOMAIN reviews : reviews[i].state \in NoteStates

PullRead == pc \in (Stages \ {"side"}) \cup {"done"} \/ "pull" \in read

\* While nothing is pushed every call answers for the head there is.
HeadRead ==
    /\ calm /\ PullRead => sha = head
    /\ calm /\ host = "gitlab" /\ pc = "reviews" => stamp = head
    /\ calm /\ pc \in {"stamp", "reviews", "done"} => (cut \/ diff = Shown)

\* What became of the facts follows from what was read.
Outcome ==
    /\ pc = "refused" => ~Countable
    /\ pc = "done" => /\ Countable
                      /\ facts.sha = sha /\ facts.truncated = cut
                      /\ facts.counted = Manifests \cap Readable

Fitting == OwnNotes /\ HeadRead /\ Outcome /\ StaleTeamsHaveApproved

\* The approval of a decision: whose it is and of which commit.
LEMMA DecidedApproval ==
  ASSUME Reading, OwnNotes, NEW c \in Heads, NEW d \in Decisions(Reported(c)), d.state = "APPROVED"
  PROVE  /\ d.who \in People
         /\ \E g \in Heads : Approves(d.who, g) /\ (host = "github" => g = d.commit)
         /\ host = "gitlab" => d.commit = c
<1>r. reviews \in Seq(Reviews)
  BY DEF Reading, Types, HostTypes
<1> DEFINE list == Reported(c)
<1>l. /\ DOMAIN list = DOMAIN reviews
      /\ \A i \in DOMAIN reviews : list[i] = Report(reviews[i], c) /\ list[i].who = reviews[i].who
  BY ReportedKeeps
<1>0. d \in Decisions(list)
  OBVIOUS
<1> HIDE DEF list
<1>1. PICK i \in DOMAIN list : Latest(list, i) /\ list[i] = d
  BY <1>0 DEF Decisions
<1>2. reviews[i] \in Reviews /\ i \in DOMAIN reviews
  BY <1>1, <1>r, <1>l
<1>3. /\ reviews[i].state \in {"APPROVED", "approved"}
      /\ reviews[i].state = "APPROVED" => d.commit = reviews[i].commit
      /\ reviews[i].state = "approved" => d.commit = c
  BY <1>1, <1>2, <1>l DEF Report, Reviews, ReviewStates, NoteStates, Decisive
<1>4. ASSUME NEW j \in DOMAIN reviews, j > i, reviews[j].who = d.who
      PROVE  reviews[j].state \notin Decisive \cup {"approved", "unapproved"}
  <2>1. list[j].state \notin Decisive
    BY <1>1, <1>4, <1>l DEF Latest
  <2>2. reviews[j] \in Reviews
    BY <1>r
  <2>3. QED
    BY <2>1, <2>2, <1>l DEF Report, Reviews, ReviewStates, NoteStates, Decisive
<1>5. Approves(d.who, reviews[i].commit)
  BY <1>1, <1>2, <1>3, <1>4, <1>l DEF Approves
<1>6. /\ host = "github" => reviews[i].state = "APPROVED"
      /\ host = "gitlab" => reviews[i].state = "approved"
  BY <1>2, <1>3 DEF Reading, OwnStates, OwnNotes, ReviewStates, NoteStates, Decisive
<1>7. reviews[i].commit \in Heads /\ d.who \in People
  BY <1>1, <1>2, <1>l DEF Reviews
<1>8. QED
  BY <1>3, <1>5, <1>6, <1>7

\* What the last call's answer makes stale.
LEMMA DerivedStale ==
  ASSUME Inv, Fitting, ReadReviews, pc' = "done"
  PROVE  StaleTeamsHaveApproved'
<1>t. Reading /\ sha \in Heads /\ stamp \in Heads
  BY DEF Inv, Reading, Types, ReadTypes
<1>u. /\ pc = "reviews" /\ facts' = Derived(Reported(stamp))
      /\ UNCHANGED <<host, stats, calm, approvals>>
  BY DEF ReadReviews, Goto, hostVars, ghosts
<1>s. Approvals \subseteq approvals
  BY <1>t, <1>u DEF Reading, SoFar, Stages
<1>1. /\ facts'.stale = {t \in Teams :
              /\ Superseded(Reported(stamp), sha) \cap Members(t, DOMAIN stats) # {}
              /\ Approving(Reported(stamp), sha) \cap Members(t, DOMAIN stats) = {}}
      /\ facts'.sha = sha
  BY <1>u DEF Derived
<1>2. ASSUME NEW t \in facts'.stale
      PROVE  /\ \E f \in DOMAIN stats, i \in DOMAIN Rules, h \in Heads :
                   /\ Owns(i, f) /\ t \in Rules[i].teams
                   /\ \E p \in Rules[i].people :
                        <<p, h>> \in approvals /\ (host = "github" => h # sha)
             /\ host = "gitlab" => ~calm
  <2>1. PICK p \in Superseded(Reported(stamp), sha) : p \in Members(t, DOMAIN stats)
    BY <1>1, <1>2
  <2>2. PICK d \in Decisions(Reported(stamp)) : d.state = "APPROVED" /\ d.commit # sha /\ d.who = p
    BY <2>1 DEF Superseded
  <2>3. /\ p \in People
        /\ \E g \in Heads : Approves(p, g) /\ (host = "github" => g = d.commit)
        /\ host = "gitlab" => d.commit = stamp
    BY <2>2, <1>t, DecidedApproval DEF Fitting
  <2>4. PICK h \in Heads : Approves(p, h) /\ (host = "github" => h # sha)
    BY <2>2, <2>3
  <2>5. <<p, h>> \in approvals
    BY <2>3, <2>4, <1>s DEF Approvals
  <2>6. PICK i \in DOMAIN Rules, f \in DOMAIN stats :
           p \in Rules[i].people /\ t \in Rules[i].teams /\ Owns(i, f)
    BY <2>1 DEF Members
  <2>7. host = "gitlab" => ~calm
    BY <2>2, <2>3, <1>u DEF Fitting, HeadRead, PullRead, Stages
  <2>8. QED
    BY <2>4, <2>5, <2>6, <2>7
<1>3. ASSUME NEW i \in DOMAIN Rules, NEW f PROVE Owns(i, f)' = Owns(i, f)
  BY DEF Owns
<1>4. facts'.sha = sha /\ UNCHANGED <<host, stats, calm, approvals>>
  BY <1>u, <1>1
<1>5. QED
  BY <1>2, <1>3, <1>4 DEF StaleTeamsHaveApproved

LEMMA InitFitting == Init => Fitting
<1>1. SUFFICES ASSUME Init PROVE Fitting
  OBVIOUS
<1>2. OwnNotes /\ HeadRead /\ Outcome /\ StaleTeamsHaveApproved
  BY <1>1 DEF Init, OwnNotes, HeadRead, Outcome, StaleTeamsHaveApproved
<1>3. QED
  BY <1>2 DEF Fitting

LEMMA SameStale ==
  ASSUME StaleTeamsHaveApproved, pc = "done", pc' = "done",
         UNCHANGED <<host, stats, facts, approvals>>, calm' => calm
  PROVE  StaleTeamsHaveApproved'
<1>1. ASSUME NEW i \in DOMAIN Rules, NEW f PROVE Owns(i, f)' = Owns(i, f)
  BY DEF Owns
<1>2. QED
  BY <1>1 DEF StaleTeamsHaveApproved

\* Others' steps: a push ends the calm, nothing else changes head or files.
LEMMA OthersFit ==
  ASSUME Inv, Fitting, Event, head' # head \/ UNCHANGED <<head, change>>
  PROVE  HeadRead' /\ Outcome' /\ StaleTeamsHaveApproved'
<1>1. UNCHANGED <<host, pc, read, sha, stats, diff, cut, stamp, facts>>
  BY DEF Event, jobVars
<1>2. ASSUME calm' PROVE calm /\ UNCHANGED <<head, change>>
  BY <1>2 DEF Event
<1>3. HeadRead'
  BY <1>1, <1>2 DEF Fitting, HeadRead, PullRead, Shown
<1>4. Outcome'
  BY <1>1 DEF Fitting, Outcome, Countable, Readable
<1>5. pc = "done" => approvals' = approvals
  BY DEF Event, Resting
<1>6. StaleTeamsHaveApproved'
  <2>1. ASSUME pc = "done" PROVE UNCHANGED <<host, stats, facts, approvals>> /\ (calm' => calm)
    BY <1>1, <1>2, <1>5, <2>1
  <2>2. QED
    BY <1>1, <2>1, SameStale DEF Fitting, StaleTeamsHaveApproved
<1>7. QED
  BY <1>3, <1>4, <1>6

LEMMA OthersKeepFitting ==
  ASSUME Inv, Fitting
  PROVE  /\ Push => Fitting'
         /\ \A p \in People : Submit(p) \/ Note(p) => Fitting'
         /\ \A i \in DOMAIN reviews : Dismiss(i) \/ Resolve(i) => Fitting'
         /\ \A h \in Heads, n \in Names, s \in CheckStates : CheckReports(h, n, s) => Fitting'
<1>t. reviews \in Seq(Reviews) /\ head \in Nat /\ OwnNotes
  BY DEF Inv, Reading, Types, HostTypes, Heads, Fitting
<1>1. ASSUME Push PROVE Fitting'
  <2>1. Event /\ head' # head /\ UNCHANGED <<host, reviews>>
    BY <1>1, <1>t DEF Push, Event
  <2>2. OwnNotes'
    BY <1>t, <2>1 DEF OwnNotes
  <2>3. QED
    BY <2>1, <2>2, OthersFit DEF Fitting
<1>2. ASSUME NEW p \in People, NEW s, Adds(p, s), host = "gitlab" => s \in NoteStates PROVE Fitting'
  <2>1. Event /\ UNCHANGED <<head, change, host>>
    BY <1>2 DEF Adds, Event
  <2>2. reviews' = Append(reviews, [who |-> p, state |-> s, commit |-> head])
    BY <1>2 DEF Adds
  <2>3. \A i \in DOMAIN reviews' :
           \/ i \in DOMAIN reviews /\ reviews'[i] = reviews[i]
           \/ reviews'[i].state = s
    BY <1>t, <2>2
  <2>4. OwnNotes'
    BY <1>2, <1>t, <2>1, <2>3 DEF OwnNotes
  <2>5. QED
    BY <2>1, <2>4, OthersFit DEF Fitting
<1>3. ASSUME NEW p \in People, Submit(p) \/ Note(p) PROVE Fitting'
  BY <1>2, <1>3 DEF Submit, Note, NoteStates
<1>4. ASSUME NEW i \in DOMAIN reviews, NEW s, Turns(i, s), host = "gitlab" => s \in NoteStates
      PROVE  Fitting'
  <2>1. Event /\ UNCHANGED <<head, change, host>> /\ reviews' = [reviews EXCEPT ![i].state = s]
    BY <1>4 DEF Turns, Event
  <2>2. \A j \in DOMAIN reviews' : j \in DOMAIN reviews /\ reviews'[j].state \in {reviews[j].state, s}
    BY <1>t, <2>1 DEF Reviews
  <2>3. OwnNotes'
    BY <1>4, <1>t, <2>1, <2>2 DEF OwnNotes
  <2>4. QED
    BY <2>1, <2>3, OthersFit DEF Fitting
<1>5. ASSUME NEW i \in DOMAIN reviews, Dismiss(i) \/ Resolve(i) PROVE Fitting'
  <2>1. CASE Dismiss(i)
    <3>2. host # "gitlab"
      BY <1>t, <2>1 DEF Dismiss, OwnNotes, NoteStates
    <3>3. QED
      BY <1>4, <2>1, <3>2 DEF Dismiss
  <2>2. CASE Resolve(i)
    BY <1>4, <2>2 DEF Resolve, NoteStates
  <2>3. QED
    BY <1>5, <2>1, <2>2
<1>6. ASSUME NEW h \in Heads, NEW n \in Names, NEW s \in CheckStates, CheckReports(h, n, s) PROVE Fitting'
  <2>1. Event /\ UNCHANGED <<head, change, host, reviews>>
    BY <1>6 DEF CheckReports, Event
  <2>2. OwnNotes'
    BY <1>t, <2>1 DEF OwnNotes
  <2>3. QED
    BY <2>1, <2>2, OthersFit DEF Fitting
<1>7. QED
  BY <1>1, <1>3, <1>5, <1>6

\* The job's steps.
LEMMA JobFits ==
  ASSUME Inv, Fitting
  PROVE  /\ Begin \/ ReadFiles \/ ReadPull \/ ReadRuns \/ ReadStatuses => Fitting'
         /\ ReadDiff \/ ReadStamp \/ ReadReviews \/ Return => Fitting'
<1>t. /\ OwnNotes /\ HeadRead /\ Outcome /\ read \subseteq {"files", "pull"}
      /\ pc \in Resting => read = {}
  BY DEF Fitting, Inv, Reading, StatsRead, Types, ReadTypes
<1>n. ASSUME UNCHANGED hostVars PROVE OwnNotes'
  BY <1>n, <1>t DEF hostVars, OwnNotes
<1>o. ASSUME pc' \notin {"done", "refused"} PROVE Outcome' /\ StaleTeamsHaveApproved'
  BY <1>o DEF Outcome, StaleTeamsHaveApproved
<1>1. ASSUME Begin PROVE Fitting'
  <2>1. HeadRead'
    BY <1>1, <1>t DEF Begin, Goto, HeadRead, PullRead, Stages, Resting
  <2>2. QED
    BY <1>1, <1>n, <1>o, <2>1 DEF Begin, Goto, Fitting
<1>2. ASSUME ReadFiles PROVE Fitting'
  <2>1. PullRead' => PullRead
    BY <1>2, <1>t DEF ReadFiles, Answered, Goto, PullRead, Stages
  <2>2. HeadRead'
    BY <1>2, <1>t, <2>1 DEF ReadFiles, Answered, Goto, HeadRead, hostVars, ghosts
  <2>3. QED
    BY <1>2, <1>n, <1>o, <2>2 DEF ReadFiles, Answered, Goto, Fitting
<1>3. ASSUME ReadPull PROVE Fitting'
  <2>1. HeadRead'
    BY <1>3, <1>t DEF ReadPull, HeadSHA, Answered, Goto, HeadRead, hostVars, ghosts
  <2>2. QED
    BY <1>3, <1>n, <1>o, <2>1 DEF ReadPull, Answered, Goto, Fitting
<1>4. ASSUME ReadRuns PROVE Fitting'
  <2>1. HeadRead'
    BY <1>4, <1>t DEF ReadRuns, Goto, HeadRead, PullRead, Stages, hostVars, ghosts
  <2>2. QED
    BY <1>4, <1>n, <1>o, <2>1 DEF ReadRuns, Goto, Fitting
<1>5. ASSUME ReadStatuses PROVE Fitting'
  <2>1. HeadRead'
    BY <1>5, <1>t DEF ReadStatuses, Goto, HeadRead, PullRead, Stages, hostVars, ghosts
  <2>2. QED
    BY <1>5, <1>n, <1>o, <2>1 DEF ReadStatuses, Goto, Fitting
<1>6. ASSUME ReadDiff PROVE Fitting'
  <2>1. cut' \/ diff' = Shown
    BY <1>6 DEF ReadDiff
  <2>2. UNCHANGED <<head, change, calm, sha, host>> /\ pc' \in {"stamp", "reviews"} /\ pc = "diff"
        /\ (host = "gitlab" => pc' = "stamp")
    BY <1>6 DEF ReadDiff, Goto, hostVars, ghosts
  <2>3. Shown' = Shown
    BY <2>2 DEF Shown
  <2>4. HeadRead'
    BY <1>t, <2>1, <2>2, <2>3 DEF HeadRead, PullRead, Stages
  <2>5. QED
    BY <1>6, <1>n, <1>o, <2>2, <2>4 DEF ReadDiff, Fitting
<1>7. ASSUME ReadStamp PROVE Fitting'
  <2>1. HeadRead'
    BY <1>7, <1>t DEF ReadStamp, Goto, HeadRead, PullRead, Stages, Shown, hostVars, ghosts
  <2>2. QED
    BY <1>7, <1>n, <1>o, <2>1 DEF ReadStamp, Goto, Fitting
<1>8. ASSUME ReadReviews PROVE Fitting'
  <2>1. /\ UNCHANGED <<head, change, calm, sha, host, stats, diff, cut>>
        /\ pc = "reviews" /\ pc' \in {"done", "refused"}
    BY <1>8 DEF ReadReviews, Goto, hostVars, ghosts
  <2>2. HeadRead'
    BY <1>8, <1>t, <2>1 DEF ReadReviews, HeadRead, PullRead, Stages, Shown
  <2>3. (Countable' <=> Countable) /\ Readable' = Readable
    BY <2>1 DEF Countable, Readable
  <2>4. Outcome'
    BY <1>8, <2>1, <2>3 DEF ReadReviews, Goto, Outcome, Derived
  <2>5. StaleTeamsHaveApproved'
    BY <1>8, DerivedStale DEF StaleTeamsHaveApproved
  <2>6. QED
    BY <1>8, <1>n, <2>2, <2>4, <2>5 DEF ReadReviews, Fitting
<1>9. ASSUME Return PROVE Fitting'
  <2>1. HeadRead'
    BY <1>9 DEF Return, Goto, HeadRead
  <2>2. QED
    BY <1>9, <1>n, <1>o, <2>1 DEF Return, Goto, Fitting
<1>10. QED
  BY <1>1, <1>2, <1>3, <1>4, <1>5, <1>6, <1>7, <1>8, <1>9

LEMMA FittingHolds == Spec => []Fitting
<1>1. ASSUME Inv, Fitting, Next PROVE Fitting'
  BY <1>1, OthersKeepFitting, JobFits DEF Next
<1>2. ASSUME Inv, Fitting, UNCHANGED vars PROVE Fitting'
  <2>1. UNCHANGED hostVars /\ UNCHANGED jobVars /\ UNCHANGED ghosts
    BY <1>2 DEF vars
  <2>2. OwnNotes' /\ HeadRead'
    BY <1>2, <2>1 DEF hostVars, jobVars, ghosts, Fitting, OwnNotes, HeadRead, PullRead, Shown
  <2>3. Outcome'
    BY <1>2, <2>1 DEF jobVars, Fitting, Outcome, Countable, Readable
  <2>4. StaleTeamsHaveApproved'
    BY <1>2, <2>1, SameStale DEF hostVars, jobVars, ghosts, Fitting, StaleTeamsHaveApproved
  <2>5. QED
    BY <2>2, <2>3, <2>4 DEF Fitting
<1>3. Inv /\ Fitting /\ [Next]_vars => Fitting'
  BY <1>1, <1>2
<1>4. QED
  BY <1>3, InitFitting, InvHolds, PTL DEF Spec

\* Without a push the separate calls describe one head, its files and its diff.
THEOREM CallsFitTogether == Spec => []FactsFitTogether
<1>1. Inv /\ Fitting => FactsFitTogether
  BY DEF Inv, Reading, StatsRead, FilesRead, Fitting, HeadRead, PullRead, Outcome, FactsFitTogether
<1>2. QED
  BY <1>1, InvHolds, FittingHolds, PTL

\* A stale approval was given and stood, on GitHub for another commit; GitLab
\* has one only after a push in between.
THEOREM StaleTeamsApproved == Spec => []StaleTeamsHaveApproved
<1>1. Fitting => StaleTeamsHaveApproved
  BY DEF Fitting
<1>2. QED
  BY <1>1, FittingHolds, PTL

\* Without headers, which no host sends, every manifest whose lines change ends
\* the gathering: what the finding on one instance says holds of all of them.
THEOREM WithoutHeadersNoneIsCounted ==
  ASSUME Headers = FALSE
  PROVE  Spec => []NoManifestIsCounted
<1>1. Fitting => NoManifestIsCounted
  BY DEF Fitting, Outcome, Countable, Readable, NoManifestIsCounted
<1>2. QED
  BY <1>1, FittingHolds, PTL

\* The missing header is all there is to it: with it, only a manifest that the
\* diff does not show is refused, as docs/facts.md says.
THEOREM HeadersWouldDo ==
  ASSUME Headers = TRUE
  PROVE  Spec => []RefusesOnlyTheUnseen
<1>1. Fitting => RefusesOnlyTheUnseen
  BY DEF Fitting, Outcome, Countable, Readable, RefusesOnlyTheUnseen
<1>2. QED
  BY <1>1, FittingHolds, PTL
=============================================================================

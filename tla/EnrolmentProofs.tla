--------------------------- MODULE EnrolmentProofs ---------------------------
(***************************************************************************)
(* The orphan guard is as good as BF71 says: whatever is saved and whoever *)
(* arrives, only a visitor whose creation overlapped a guard and its write *)
(* can be orphaned.                                                        *)
(*                                                                         *)
(* The argument needs more than Orphans \subseteq raced: an unraced        *)
(* visitor still being created holds the very split in force, no save is   *)
(* past its guard while they are, and a save past its guard defines every  *)
(* key an unraced visitor holds.                                           *)
(***************************************************************************)
EXTENDS Enrolment, TLAPS

Unraced(v) == v \notin raced

ArrivalsAreCurrent ==
    \A v \in DOMAIN arriving : Unraced(v) =>
        /\ arriving[v] \in {None, flag.split}
        /\ \A s \in Savers : saves[s].stage # "update"

HoldersAreDefined ==
    \A v \in DOMAIN assigned : Unraced(v) => assigned[v] \in DOMAIN flag.split \cup {Outside}

GuardedSavesDefine ==
    \A s \in Savers, v \in DOMAIN assigned :
        saves[s].stage = "update" /\ Unraced(v) => assigned[v] \in DOMAIN saves[s].split \cup {Outside}

NoOneArrivesTwice == DOMAIN arriving \cap DOMAIN assigned = {}

IInv == /\ TypeOK
        /\ NoOneArrivesTwice
        /\ ArrivalsAreCurrent
        /\ HoldersAreDefined
        /\ GuardedSavesDefine

-----------------------------------------------------------------------------
LEMMA IdleType == Idle \in Save
BY EnrolmentAssumption DEF Idle, Save

(* What a caller fetches, and what it sends.                               *)
LEMMA FetchedType ==
    ASSUME NEW token \in Nat
    PROVE  LET fetched == [Idle EXCEPT !.stage = "editing", !.token = token]
           IN  fetched \in Save /\ fetched.stage = "editing"
BY IdleType DEF Save

LEMMA SendStep ==
    ASSUME TypeOK, NEW s \in Savers, SendUpdate(s)
    PROVE  saves' \in [Savers -> Save] /\ saves'[s].stage # "update"
<1>1. PICK split \in Splits, isEnabled \in BOOLEAN :
        saves' = [saves EXCEPT ![s] = [saves[s] EXCEPT
                    !.stage = "guard", !.split = split, !.isEnabled = isEnabled]]
  BY DEF SendUpdate, SaveIs
<1> DEFINE sent == [saves[s] EXCEPT !.stage = "guard", !.split = split, !.isEnabled = isEnabled]
<1>2. sent \in Save /\ sent.stage = "guard"
  BY DEF Save, TypeOK
<1>3. saves' = [saves EXCEPT ![s] = sent]
  BY <1>1
<1> HIDE DEF sent
<1> QED BY <1>2, <1>3 DEF TypeOK

(* The guard decides on the save as sent.                                  *)
LEMMA GuardStep ==
    ASSUME TypeOK, NEW s \in Savers, OrphanGuard(s)
    PROVE  saves' \in [Savers -> Save] /\ saves'[s].split = saves[s].split
<1>1. DOMAIN flag.split \in SUBSET Keys
  BY EnrolmentAssumption DEF IsSplit, TypeOK
<1>2. saves[s] \in Save
  BY DEF TypeOK
<1> QED BY <1>1, <1>2 DEF Save, OrphanGuard, SaveIs, TypeOK

LEMMA TypeStep == TypeOK /\ [Next]_vars => TypeOK'
<1> SUFFICES ASSUME TypeOK, [Next]_vars PROVE TypeOK'
  OBVIOUS
<1> USE EnrolmentAssumption
<1>1. ASSUME NEW v \in Visitors, ReadSplits(v) PROVE TypeOK'
  <2>1. /\ DOMAIN arriving' = DOMAIN arriving \cup {v}
        /\ arriving' \in [DOMAIN arriving' -> Splits \cup {None}]
    BY <1>1 DEF ReadSplits, TypeOK
  <2>2. raced' \subseteq Visitors
    BY <1>1 DEF ReadSplits, Overlapping, TypeOK
  <2> QED BY <1>1, <2>1, <2>2 DEF ReadSplits, TypeOK
<1>2. ASSUME NEW v \in Visitors, InsertVisitor(v) PROVE TypeOK'
  <2>1. PICK k \in (IF arriving[v] = None THEN {Outside} ELSE assignable(arriving[v])) :
          assigned' = [u \in DOMAIN assigned \cup {v} |-> IF u = v THEN k ELSE assigned[u]]
    BY <1>2 DEF InsertVisitor
  <2>2. k \in Keys \cup {Outside}
    BY <1>2 DEF InsertVisitor, assignable, TypeOK, IsSplit
  <2> QED BY <1>2, <2>1, <2>2 DEF InsertVisitor, TypeOK
<1>3. ASSUME NEW s \in Savers, FetchFlag(s) PROVE TypeOK'
  <2>1. saves' \in [Savers -> Save]
    BY <1>3, FetchedType DEF FetchFlag, SaveIs, TypeOK
  <2> QED BY <1>3, <2>1 DEF FetchFlag, TypeOK
<1>4. ASSUME NEW s \in Savers, SendUpdate(s) PROVE TypeOK'
  BY <1>4, SendStep DEF SendUpdate, TypeOK
<1>5. ASSUME NEW s \in Savers, OrphanGuard(s) PROVE TypeOK'
  <2>1. raced' \subseteq Visitors
    BY <1>5 DEF OrphanGuard, Overlapping, TypeOK
  <2> QED BY <1>5, <2>1, GuardStep DEF OrphanGuard, TypeOK
<1>6. ASSUME NEW s \in Savers, UpdateFlag(s) PROVE TypeOK'
  BY <1>6 DEF UpdateFlag, SaveIs, TypeOK, Save
<1>7. ASSUME NEW s \in Savers, LockConflict(s) PROVE TypeOK'
  BY <1>7 DEF LockConflict, SaveIs, TypeOK, Save
<1>8. CASE UNCHANGED vars
  BY <1>8 DEF vars, TypeOK
<1> QED BY <1>1, <1>2, <1>3, <1>4, <1>5, <1>6, <1>7, <1>8 DEF Next, Create, Patch

(* Type correctness of the flag, its assignments and the open saves.       *)
THEOREM TypeCorrect == Spec => []TypeOK
<1>1. Init => TypeOK
  BY EnrolmentAssumption, IdleType DEF Init, TypeOK
<1> QED BY <1>1, TypeStep, PTL DEF Spec

-----------------------------------------------------------------------------
(* Creation: an unraced visitor reads the split in force, and no save that *)
(* could take a key of it away is past its guard until they are stored.    *)
LEMMA CreateStep ==
    ASSUME IInv, NEW v \in Visitors, Create(v)
    PROVE  (NoOneArrivesTwice /\ ArrivalsAreCurrent /\ HoldersAreDefined /\ GuardedSavesDefine)'
<1> USE EnrolmentAssumption DEF IInv, Unraced
<1>1. CASE ReadSplits(v)
  <2>1. /\ v \notin DOMAIN arriving \cup DOMAIN assigned
        /\ DOMAIN arriving' = DOMAIN arriving \cup {v}
        /\ \A u \in DOMAIN arriving : arriving'[u] = arriving[u]
        /\ arriving'[v] \in {None, flag.split}
        /\ raced' = raced \cup Overlapping({v}, saves)
        /\ flag' = flag /\ assigned' = assigned /\ saves' = saves
    BY <1>1 DEF ReadSplits
  <2>2. v \notin raced' => \A s \in Savers : saves[s].stage # "update"
    BY <2>1 DEF Overlapping
  <2>3. NoOneArrivesTwice'
    BY <2>1 DEF NoOneArrivesTwice
  <2>4. ArrivalsAreCurrent'
    BY <2>1, <2>2 DEF ArrivalsAreCurrent
  <2>5. HoldersAreDefined' /\ GuardedSavesDefine'
    BY <2>1 DEF HoldersAreDefined, GuardedSavesDefine
  <2> QED BY <2>3, <2>4, <2>5
<1>2. CASE InsertVisitor(v)
  <2>1. /\ v \in DOMAIN arriving
        /\ DOMAIN arriving' = DOMAIN arriving \ {v}
        /\ \A u \in DOMAIN arriving' : arriving'[u] = arriving[u]
        /\ DOMAIN assigned' = DOMAIN assigned \cup {v}
        /\ \A u \in DOMAIN assigned \ {v} : assigned'[u] = assigned[u]
        /\ flag' = flag /\ saves' = saves /\ raced' = raced
    BY <1>2 DEF InsertVisitor
  <2>2. v \notin raced => /\ assigned'[v] \in DOMAIN flag.split \cup {Outside}
                         /\ \A s \in Savers : saves[s].stage # "update"
    BY <1>2, <2>1 DEF InsertVisitor, assignable, ArrivalsAreCurrent
  <2>3. NoOneArrivesTwice'
    BY <2>1 DEF NoOneArrivesTwice
  <2>4. ArrivalsAreCurrent'
    BY <2>1 DEF ArrivalsAreCurrent
  <2>5. HoldersAreDefined'
    BY <2>1, <2>2 DEF HoldersAreDefined
  <2>6. GuardedSavesDefine'
    BY <2>1, <2>2 DEF GuardedSavesDefine
  <2> QED BY <2>3, <2>4, <2>5, <2>6
<1> QED BY <1>1, <1>2 DEF Create

(* Saving: the guard looks at everyone stored and races with everyone else.*)
LEMMA PatchStep ==
    ASSUME IInv, NEW s \in Savers, Patch(s)
    PROVE  (NoOneArrivesTwice /\ ArrivalsAreCurrent /\ HoldersAreDefined /\ GuardedSavesDefine)'
<1> USE EnrolmentAssumption DEF IInv, Unraced
<1>1. assigned' = assigned /\ arriving' = arriving
  BY DEF Patch, FetchFlag, SendUpdate, OrphanGuard, UpdateFlag, LockConflict
<1>2. \A p \in Savers : p # s => saves'[p] = saves[p]
  BY DEF Patch, FetchFlag, SendUpdate, OrphanGuard, UpdateFlag, LockConflict, SaveIs, TypeOK
<1>3. NoOneArrivesTwice'
  BY <1>1 DEF NoOneArrivesTwice
<1>4. CASE FetchFlag(s) \/ SendUpdate(s) \/ LockConflict(s)
  <2>1. saves'[s].stage # "update" /\ flag' = flag /\ raced' = raced
    <3>1. CASE FetchFlag(s)
      BY <3>1, FetchedType DEF FetchFlag, SaveIs, TypeOK
    <3>2. CASE SendUpdate(s)
      BY <3>2, SendStep DEF IInv, SendUpdate
    <3>3. CASE LockConflict(s)
      BY <3>3 DEF LockConflict, SaveIs, TypeOK, Save
    <3> QED BY <1>4, <3>1, <3>2, <3>3
  <2>2. \A p \in Savers : saves'[p].stage = "update" => saves'[p] = saves[p]
    BY <1>2, <2>1
  <2>3. ArrivalsAreCurrent'
    BY <1>1, <2>1, <2>2 DEF ArrivalsAreCurrent
  <2>4. HoldersAreDefined' /\ GuardedSavesDefine'
    BY <1>1, <2>1, <2>2 DEF HoldersAreDefined, GuardedSavesDefine
  <2> QED BY <1>3, <2>3, <2>4
<1>5. CASE OrphanGuard(s)
  <2>1. /\ flag' = flag
        /\ raced' = raced \cup Overlapping(DOMAIN arriving, saves')
        /\ saves'[s].split = saves[s].split
        /\ saves'[s].stage = "update" => orphaned_variant_keys(saves[s].split) = {}
    BY <1>5 DEF OrphanGuard, SaveIs, TypeOK, Save
  <2>2. saves'[s].stage = "update" => DOMAIN arriving \subseteq raced'
    BY <2>1 DEF Overlapping
  <2>3. ArrivalsAreCurrent'
    BY <1>1, <1>2, <2>1, <2>2 DEF ArrivalsAreCurrent
  <2>4. HoldersAreDefined'
    BY <1>1, <2>1 DEF HoldersAreDefined
  <2>5. saves'[s].stage = "update" =>
          \A v \in DOMAIN assigned : assigned[v] \in DOMAIN saves'[s].split \cup {Outside}
    BY <2>1 DEF orphaned_variant_keys, list_assigned_variant_keys
  <2>6. GuardedSavesDefine'
    BY <1>1, <1>2, <2>1, <2>5 DEF GuardedSavesDefine
  <2> QED BY <1>3, <2>3, <2>4, <2>6
<1>6. CASE UpdateFlag(s)
  <2>1. /\ saves[s].stage = "update" /\ saves'[s].stage = "saved"
        /\ flag'.split = saves[s].split /\ raced' = raced
    BY <1>6 DEF UpdateFlag, SaveIs, TypeOK, Save
  <2>2. \A v \in DOMAIN arriving : v \in raced
    BY <2>1 DEF ArrivalsAreCurrent
  <2>3. ArrivalsAreCurrent'
    BY <1>1, <2>1, <2>2 DEF ArrivalsAreCurrent
  <2>4. HoldersAreDefined'
    BY <1>1, <2>1 DEF HoldersAreDefined, GuardedSavesDefine
  <2>5. GuardedSavesDefine'
    BY <1>1, <1>2, <2>1 DEF GuardedSavesDefine
  <2> QED BY <1>3, <2>3, <2>4, <2>5
<1> QED BY <1>4, <1>5, <1>6 DEF Patch

LEMMA InvStep == IInv /\ [Next]_vars => IInv'
<1> SUFFICES ASSUME IInv, [Next]_vars PROVE IInv'
  OBVIOUS
<1>1. TypeOK'
  BY TypeStep DEF IInv
<1>2. CASE Next
  BY <1>1, <1>2, CreateStep, PatchStep DEF Next, IInv
<1>3. CASE UNCHANGED vars
  BY <1>1, <1>3 DEF vars, IInv, NoOneArrivesTwice, ArrivalsAreCurrent, HoldersAreDefined,
     GuardedSavesDefine, Unraced
<1> QED BY <1>2, <1>3

THEOREM Invariance == Spec => []IInv
<1>1. Init => IInv
  <2> SUFFICES ASSUME Init PROVE IInv
    OBVIOUS
  <2>1. TypeOK
    BY EnrolmentAssumption, IdleType DEF Init, TypeOK
  <2>2. DOMAIN arriving = {} /\ DOMAIN assigned = {}
    BY DEF Init
  <2> QED BY <2>1, <2>2 DEF IInv, NoOneArrivesTwice, ArrivalsAreCurrent, HoldersAreDefined,
             GuardedSavesDefine
<1> QED BY <1>1, InvStep, PTL DEF Spec

(* Only a visitor created across a guard and its write can hold a key the  *)
(* flag does not define, for any splits, savers and visitors.              *)
THEOREM OrphansAreRaced == Spec => []OrphansOnlyFromTheRace
<1>1. IInv => OrphansOnlyFromTheRace
  BY DEF IInv, HoldersAreDefined, Unraced, OrphansOnlyFromTheRace, Orphans
<1> QED BY <1>1, Invariance, PTL

LEMMA SteadyStep ==
    ASSUME IInv, Next
    PROVE  \A v \in DOMAIN assigned : v \in DOMAIN assigned' /\ assigned'[v] = assigned[v]
<1>1. ASSUME NEW u \in Visitors, InsertVisitor(u)
      PROVE  \A v \in DOMAIN assigned : v \in DOMAIN assigned' /\ assigned'[v] = assigned[v]
  BY <1>1 DEF InsertVisitor, IInv, NoOneArrivesTwice
<1>2. CASE ~ \E u \in Visitors : InsertVisitor(u)
  BY <1>2 DEF Next, Create, Patch, ReadSplits, FetchFlag, SendUpdate, OrphanGuard,
              UpdateFlag, LockConflict
<1> QED BY <1>1, <1>2

(* No step of any visitor or saver moves an assignment once it is stored.  *)
THEOREM AssignmentsStick == Spec => AssignmentsAreSticky
<1>1. IInv /\ [Next]_vars =>
        [\A v \in DOMAIN assigned : v \in DOMAIN assigned' /\ assigned'[v] = assigned[v]]_vars
  BY SteadyStep
<1> QED BY <1>1, Invariance, PTL DEF Spec, AssignmentsAreSticky

(* Whoever is not orphaned by the race is shown the same copy for ever:    *)
(* their key, or the lack of one, is defined before and after every save.  *)
THEOREM CopyIsSteady == Spec => SameCopyEveryVisit
<1>1. IInv /\ IInv' /\ [Next]_vars =>
        [\A v \in DOMAIN assigned : resolveResultCopy(v)' # resolveResultCopy(v) => v \in raced']_vars
  <2> SUFFICES ASSUME IInv, IInv', Next, NEW v \in DOMAIN assigned, v \notin raced'
               PROVE  resolveResultCopy(v)' = resolveResultCopy(v)
    OBVIOUS
  <2>1. v \in DOMAIN assigned' /\ assigned'[v] = assigned[v]
    BY SteadyStep
  <2>2. v \notin raced
    BY DEF Next, Create, Patch, ReadSplits, InsertVisitor, FetchFlag, SendUpdate, OrphanGuard,
           UpdateFlag, LockConflict
  <2>3. /\ assigned[v] \in DOMAIN flag.split \cup {Outside}
        /\ assigned'[v] \in DOMAIN flag'.split \cup {Outside}
    BY <2>1, <2>2 DEF IInv, HoldersAreDefined, Unraced
  <2>4. Outside \notin DOMAIN flag.split /\ Outside \notin DOMAIN flag'.split
    BY EnrolmentAssumption DEF IInv, TypeOK, IsSplit
  <2> QED BY <2>1, <2>3, <2>4 DEF resolveResultCopy
<1> QED BY <1>1, Invariance, PTL DEF Spec, SameCopyEveryVisit
=============================================================================

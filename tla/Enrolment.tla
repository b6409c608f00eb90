------------------------------ MODULE Enrolment ------------------------------
(***************************************************************************)
(* How visitors enter the experiment while its flag is being changed: the  *)
(* two transactions of visitor creation and PATCH /feature-flags/{key},    *)
(* statement by statement under READ COMMITTED, and what the experiment    *)
(* read and the result screen then make of the assignment.                 *)
(*                                                                         *)
(* FlagSaves looks at the same PATCH from the console, where it is one     *)
(* step; here its three statements interleave with everyone else's.        *)
(***************************************************************************)
EXTENDS Integers, FiniteSets, Functions

CONSTANTS Visitors,    \* the visitor ids that will be minted
          Savers,      \* callers of PATCH: the console or the API
          Keys,        \* variant keys
          Splits,      \* the splits callers may save, the stored ones included
          Seed,        \* the split the migration stores
          ControlKey,  \* the control arm of the hypothesis, fixed in code
          Outside,     \* no assignment: the flag was off
          None,        \* a split nobody read: the flag is off or not yet read
          MaxWrites    \* bound on stored saves

VARIABLES flag,      \* the feature_flag row: token, is_enabled, split
          assigned,  \* visitor_assignment: id |-> key, or Outside
          arriving,  \* create_visitor's open transactions: id |-> the split read
          saves,     \* each caller's PATCH
          raced      \* ghost: visitors whose creation overlapped a save

vars == <<flag, assigned, arriving, saves, raced>>

BUCKET_COUNT == 100

(* A split maps each key it defines to its share of the buckets; keys are  *)
(* distinct, and the shares cover every bucket.                            *)
weights_cover_every_bucket(split) == FoldFunction(+, 0, split) = BUCKET_COUNT

IsSplit(split) ==
    /\ DOMAIN split \subseteq Keys
    /\ split \in [DOMAIN split -> 0..BUCKET_COUNT]
    /\ weights_cover_every_bucket(split)

ASSUME EnrolmentAssumption ==
    /\ Seed \in Splits /\ \A split \in Splits : IsSplit(split)
    /\ Outside \notin Keys
    /\ None \notin Splits
    /\ MaxWrites \in Nat

(* Keys the split gives at least one bucket: assign_variant's range as the *)
(* id, hashed with the flag's key, runs over the buckets.                  *)
assignable(split) == {k \in DOMAIN split : split[k] > 0}

(* Keys visitors already hold that a split would stop defining.            *)
list_assigned_variant_keys == {assigned[v] : v \in DOMAIN assigned} \ {Outside}

(* Mutant: no orphan guard.                                                *)
nothing_orphaned(split) == {}

orphaned_variant_keys(split) == list_assigned_variant_keys \ DOMAIN split

Save == [stage : {"idle", "editing", "guard", "update", "saved", "conflict", "orphans"},
         token : Nat, isEnabled : BOOLEAN, split : Splits]

Idle == [stage |-> "idle", token |-> 0, isEnabled |-> FALSE, split |-> Seed]

Init ==
    /\ flag = [token |-> 0, isEnabled |-> TRUE, split |-> Seed]
    /\ assigned = [v \in {} |-> Outside]
    /\ arriving = [v \in {} |-> None]
    /\ saves = [s \in Savers |-> Idle]
    /\ raced = {}

-----------------------------------------------------------------------------
(* POST /visitors, for a browser the server has not seen.                  *)

(* Who is mid-creation while a save is between its guard and its write.    *)
Overlapping(inCreation, patches) ==
    IF \E s \in Savers : patches[s].stage = "update" THEN inCreation ELSE {}

(* Mutant: a known visitor is enrolled again.                              *)
ReadSplitsAgain(v) ==
    /\ v \notin DOMAIN arriving
    /\ arriving' = [u \in DOMAIN arriving \cup {v} |->
                      IF u # v THEN arriving[u]
                      ELSE IF flag.isEnabled THEN flag.split ELSE None]
    /\ raced' = raced \cup Overlapping({v}, saves)
    /\ UNCHANGED <<flag, assigned, saves>>

(* list_enabled_splits: the split of an enabled flag, or nothing.          *)
ReadSplits(v) ==
    /\ v \notin DOMAIN assigned \cup DOMAIN arriving
    /\ arriving' = [u \in DOMAIN arriving \cup {v} |->
                      IF u # v THEN arriving[u]
                      ELSE IF flag.isEnabled THEN flag.split ELSE None]
    /\ raced' = raced \cup Overlapping({v}, saves)
    /\ UNCHANGED <<flag, assigned, saves>>

(* assign_all, then visitor and assignment in one commit.                  *)
InsertVisitor(v) ==
    /\ v \in DOMAIN arriving
    /\ \E k \in (IF arriving[v] = None THEN {Outside} ELSE assignable(arriving[v])) :
         assigned' = [u \in DOMAIN assigned \cup {v} |-> IF u = v THEN k ELSE assigned[u]]
    /\ arriving' = [u \in DOMAIN arriving \ {v} |-> arriving[u]]
    /\ UNCHANGED <<flag, saves, raced>>

-----------------------------------------------------------------------------
(* PATCH /feature-flags/{key}.                                             *)

SaveIs(s, patch) == saves' = [saves EXCEPT ![s] = patch]

(* The caller reads the flag, and later sends the whole of it back; the    *)
(* schema has already refused a split that does not sum to 100.            *)
FetchFlag(s) ==
    /\ saves[s].stage \notin {"guard", "update"}
    /\ SaveIs(s, [Idle EXCEPT !.stage = "editing", !.token = flag.token])
    /\ UNCHANGED <<flag, assigned, arriving, raced>>

SendUpdate(s) ==
    /\ saves[s].stage = "editing"
    /\ \E split \in Splits, isEnabled \in BOOLEAN :
         SaveIs(s, [saves[s] EXCEPT !.stage = "guard", !.split = split, !.isEnabled = isEnabled])
    /\ UNCHANGED <<flag, assigned, arriving, raced>>

(* The first statement: would this split orphan an assignment?             *)
OrphanGuard(s) ==
    /\ saves[s].stage = "guard"
    /\ SaveIs(s, [saves[s] EXCEPT
                    !.stage = IF orphaned_variant_keys(saves[s].split) = {}
                              THEN "update" ELSE "orphans"])
    /\ raced' = raced \cup Overlapping(DOMAIN arriving, saves')
    /\ UNCHANGED <<flag, assigned, arriving>>

(* The second: write where the token still matches, and commit.            *)
UpdateFlag(s) ==
    /\ saves[s].stage = "update"
    /\ saves[s].token = flag.token
    /\ flag.token < MaxWrites
    /\ flag' = [token |-> flag.token + 1, isEnabled |-> saves[s].isEnabled,
                split |-> saves[s].split]
    /\ SaveIs(s, [saves[s] EXCEPT !.stage = "saved"])
    /\ UNCHANGED <<assigned, arriving, raced>>

(* The third, only when none matched: the flag exists, so this is a 409.   *)
LockConflict(s) ==
    /\ saves[s].stage = "update"
    /\ saves[s].token # flag.token
    /\ SaveIs(s, [saves[s] EXCEPT !.stage = "conflict"])
    /\ UNCHANGED <<flag, assigned, arriving, raced>>

Create(v) == ReadSplits(v) \/ InsertVisitor(v)

Patch(s) == FetchFlag(s) \/ SendUpdate(s) \/ OrphanGuard(s) \/ UpdateFlag(s) \/ LockConflict(s)

Next == (\E v \in Visitors : Create(v)) \/ (\E s \in Savers : Patch(s))

Spec == Init /\ [][Next]_vars

-----------------------------------------------------------------------------
(* What is made of an assignment.                                          *)

Orphans == {v \in DOMAIN assigned : assigned[v] \notin DOMAIN flag.split \cup {Outside}}

(* variantFor and resolveResultCopy: the assigned variant's copy if the    *)
(* flag defines it, the control copy otherwise.                            *)
resolveResultCopy(v) == IF assigned[v] \in DOMAIN flag.split THEN assigned[v] ELSE ControlKey

-----------------------------------------------------------------------------
TypeOK ==
    /\ flag \in [token : Nat, isEnabled : BOOLEAN, split : Splits]
    /\ DOMAIN assigned \subseteq Visitors
    /\ assigned \in [DOMAIN assigned -> Keys \cup {Outside}]
    /\ DOMAIN arriving \subseteq Visitors
    /\ arriving \in [DOMAIN arriving -> Splits \cup {None}]
    /\ saves \in [Savers -> Save]
    /\ raced \subseteq Visitors

(* The orphan guard works but for the race BF71 accepts: a visitor holds a *)
(* key the flag no longer defines only if their creation overlapped the    *)
(* guard and the write of a save (feature_flags/router.py:50-55).          *)
OrphansOnlyFromTheRace == Orphans \subseteq raced

(* An assignment is made once and never moves, whatever is saved: it is    *)
(* the stored row, not the weights of the day (ADR-0003).                  *)
AssignmentsAreSticky ==
    [][\A v \in DOMAIN assigned : v \in DOMAIN assigned' /\ assigned'[v] = assigned[v]]_vars

(* What a visitor is shown is the same on every visit, whatever is saved   *)
(* between them: weights, copy keys and the off switch move nobody, and a  *)
(* save that would take a key away from its holder is refused.  The one    *)
(* exception is again whoever the race orphaned; the read still counts     *)
(* them in the arm of their key while they are shown the control's copy.   *)
SameCopyEveryVisit ==
    [][\A v \in DOMAIN assigned : resolveResultCopy(v)' # resolveResultCopy(v) => v \in raced']_vars
=============================================================================

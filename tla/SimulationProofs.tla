-------------------------- MODULE SimulationProofs --------------------------
(***************************************************************************)
(* Theorems about Simulation, for any number of visitors, any arms and any *)
(* walks: whatever fails and however late a request is handled, the tables *)
(* are written as ExperimentRead assumes, each step of a visitor once,     *)
(* every funnel narrows, and half-funnels stay few.                        *)
(*                                                                         *)
(* None of this is inductive.  What carries it: at most one request is     *)
(* open, and it is the visit's next step; a visitor being created is       *)
(* nobody else's; and a request for a step, late or not, stands for a step *)
(* not stored yet whose predecessors are.                                  *)
(***************************************************************************)
EXTENDS Simulation, FiniteSetTheorems, TLAPS

Steps == 1..6

Kept(v, s) == copies[v][s] > 0

(* A run on the way can afford a failure; until its visitor is created, a   *)
(* visit has an empty jar.                                                 *)
RunInv ==
    /\ outcome = "running" => failed < MAX_FAILED_VISITS
    /\ visit # NoVisit => outcome = "running"
    /\ visit # NoVisit /\ visit.last = 0 => visit.jar = NoOne

(* The one open request is the visit's.                                    *)
OpenInv ==
    /\ \A r, q \in wire : r.open /\ q.open => r = q
    /\ \A r \in wire : r.open =>
         /\ visit # NoVisit
         /\ r.step = "create" => visit.last = 0
         /\ r.step # "create" => /\ visit.next <= visit.last
                                 /\ r.visitor = visit.jar
                                 /\ r.step = FUNNEL_IN_ORDER[visit.next]

(* A visitor being created is mentioned nowhere else.                      *)
CreateInv ==
    \A r \in wire : r.step = "create" =>
        /\ r.stage # "unknown"
        /\ r.stage = "sent" => r.visitor = NoOne
        /\ r.stage # "sent" =>
             /\ r.visitor \in Visitors
             /\ r.stage = "handled" <=> r.visitor \notin DOMAIN assigned
             /\ \A s \in FUNNEL : copies[r.visitor][s] = 0
             /\ \A q \in wire : q.visitor = r.visitor => q = r
             /\ visit # NoVisit => visit.jar # r.visitor

(* A step on its way is not stored yet, and those before it are.           *)
StepInv ==
    /\ \A r \in wire : r.step # "create" =>
         /\ r.visitor \in DOMAIN assigned
         /\ r.stage # "unknown"
         /\ r.stage # "committed" => ~ Kept(r.visitor, r.step)
         /\ r.stage = "committed" => Kept(r.visitor, r.step)
         /\ \A i, j \in Steps : FUNNEL_IN_ORDER[i] = r.step /\ j < i
                                  => Kept(r.visitor, FUNNEL_IN_ORDER[j])
    /\ \A r, q \in wire : r.step # "create" /\ r.visitor = q.visitor /\ r.step = q.step => r = q

(* The visit under way: what it has walked is stored, and of the rest only *)
(* the next step may be on its way.                                        *)
VisitInv ==
    visit # NoVisit /\ visit.last # 0 =>
        /\ visit.jar \in DOMAIN assigned
        /\ visit.next \in Steps /\ visit.last \in Steps /\ visit.next <= visit.last
        /\ \A i \in Steps : i < visit.next => Kept(visit.jar, FUNNEL_IN_ORDER[i])
        /\ \A i \in Steps : visit.next <= i =>
             \/ /\ ~ Kept(visit.jar, FUNNEL_IN_ORDER[i])
                /\ \A r \in wire : r.visitor = visit.jar => r.step # FUNNEL_IN_ORDER[i]
             \/ i = visit.next /\ \E r \in wire : r.open /\ r.step # "create"

(* Nobody unknown has steps stored.                                        *)
TableInv == \A v \in Visitors \ DOMAIN assigned, s \in FUNNEL : ~ Kept(v, s)

IInv == TypeOK /\ RunInv /\ OpenInv /\ CreateInv /\ StepInv /\ VisitInv /\ TableInv /\ FunnelsNarrow

-----------------------------------------------------------------------------
(* The six steps are six names, none of them "create".                     *)
LEMMA FunnelFacts ==
    /\ DOMAIN FUNNEL_IN_ORDER = Steps
    /\ \A i \in Steps : FUNNEL_IN_ORDER[i] \in FUNNEL /\ FUNNEL_IN_ORDER[i] # "create"
    /\ \A i, j \in Steps : FUNNEL_IN_ORDER[i] = FUNNEL_IN_ORDER[j] => i = j
    /\ \A s \in FUNNEL : \E i \in Steps : s = FUNNEL_IN_ORDER[i]
    /\ FUNNEL = {"landing_view", "scan_started", "scan_completed", "cta_click",
                 "signup_started", "activation"}
<1>1. DOMAIN FUNNEL_IN_ORDER = Steps
  BY DEF FUNNEL_IN_ORDER, Steps
<1>2. FUNNEL = {"landing_view", "scan_started", "scan_completed", "cta_click",
                "signup_started", "activation"}
  <2>1. FUNNEL = {FUNNEL_IN_ORDER[i] : i \in Steps}
    BY <1>1 DEF FUNNEL, Range
  <2>2. Steps = {1, 2, 3, 4, 5, 6}
    BY DEF Steps
  <2>3. /\ FUNNEL_IN_ORDER[1] = "landing_view" /\ FUNNEL_IN_ORDER[2] = "scan_started"
        /\ FUNNEL_IN_ORDER[3] = "scan_completed" /\ FUNNEL_IN_ORDER[4] = "cta_click"
        /\ FUNNEL_IN_ORDER[5] = "signup_started" /\ FUNNEL_IN_ORDER[6] = "activation"
    BY DEF FUNNEL_IN_ORDER
  <2> QED  BY <2>1, <2>2, <2>3
<1>3. \A i, j \in Steps : FUNNEL_IN_ORDER[i] = FUNNEL_IN_ORDER[j] => i = j
  BY DEF FUNNEL_IN_ORDER, Steps
<1>4. \A i \in Steps : FUNNEL_IN_ORDER[i] \in FUNNEL /\ FUNNEL_IN_ORDER[i] # "create"
  BY <1>1, <1>2 DEF FUNNEL, Range
<1>5. \A s \in FUNNEL : \E i \in Steps : s = FUNNEL_IN_ORDER[i]
  BY <1>1 DEF FUNNEL, Range
<1> QED  BY <1>1, <1>2, <1>3, <1>4, <1>5

LEMMA Initially == Init => IInv
<1> SUFFICES ASSUME Init PROVE IInv
  OBVIOUS
<1>1. TypeOK
  BY SimulationAssumption DEF Init, TypeOK, Request
<1>2. RunInv /\ OpenInv /\ CreateInv /\ StepInv /\ VisitInv
  BY SimulationAssumption DEF Init, RunInv, OpenInv, CreateInv, StepInv, VisitInv
<1>3. TableInv /\ FunnelsNarrow
  BY DEF Init, TableInv, FunnelsNarrow, Kept
<1> QED  BY <1>1, <1>2, <1>3 DEF IInv

(* A failed visit is what FailVisit says, with the run's invariant kept.   *)
LEMMA FailedVisit ==
    ASSUME TypeOK, RunInv, visit # NoVisit, FailVisit
    PROVE  /\ failed' \in 0..MAX_FAILED_VISITS
           /\ outcome' \in {"running", "completed", "gave up"}
           /\ visit' = NoVisit
           /\ RunInv'
           /\ UNCHANGED <<assigned, copies, ordinal, finished>>
<1>1. failed < MAX_FAILED_VISITS /\ failed \in Nat /\ MAX_FAILED_VISITS \in Nat
  BY SimulationAssumption DEF TypeOK, RunInv
<1>2. failed' = failed + 1 /\ visit' = NoVisit
  BY DEF FailVisit
<1>3. outcome' = IF failed' >= MAX_FAILED_VISITS THEN "gave up" ELSE outcome
  BY DEF FailVisit
<1>4. failed' \in 0..MAX_FAILED_VISITS
  BY <1>1, <1>2
<1>5. outcome' \in {"running", "completed", "gave up"}
  BY <1>3 DEF TypeOK
<1>6. RunInv'
  <2>1. outcome' = "running" => ~ (failed' >= MAX_FAILED_VISITS)
    BY <1>3
  <2>2. outcome' = "running" => failed' < MAX_FAILED_VISITS
    BY <1>1, <1>2, <2>1
  <2> QED  BY <1>2, <2>2 DEF RunInv
<1>7. UNCHANGED <<assigned, copies, ordinal, finished>>
  BY DEF FailVisit, tables
<1> QED  BY <1>2, <1>4, <1>5, <1>6, <1>7

(* A step that posts one request and stores nothing.                       *)
LEMMA Posted ==
    ASSUME TypeOK, NEW n \in Nat, NEW step \in FUNNEL \cup {"create"},
           NEW jar \in Visitors \cup {NoOne}, Post(n, step, jar)
    PROVE  \E a \in Request :
              /\ wire' = wire \cup {a}
              /\ a.step = step /\ a.visitor = jar /\ a.stage = "sent" /\ a.open
<1> DEFINE a == [of |-> n, step |-> step, visitor |-> jar, key |-> Outside,
                 stage |-> "sent", open |-> TRUE]
<1>1. a \in Request
  BY DEF Request
<1>2. wire' = wire \cup {a}
  BY DEF Post
<1> QED  BY <1>1, <1>2

(* When a visit ends and its request is forgotten, or will be nobody's,    *)
(* what is said of requests stays true of those that are left.             *)
LEMMA Forgotten ==
    ASSUME IInv, NEW r \in wire, r.open,
           UNCHANGED <<assigned, copies>>, visit' = NoVisit,
           \A q \in wire' : q \in wire \ {r} \/ q = [r EXCEPT !.open = FALSE]
    PROVE  OpenInv' /\ CreateInv' /\ StepInv' /\ VisitInv'
<1> DEFINE a == [r EXCEPT !.open = FALSE]
<1>1. /\ a.step = r.step /\ a.visitor = r.visitor /\ a.stage = r.stage /\ a.open = FALSE
  BY DEF IInv, TypeOK, Request
<1>2. \A q \in wire' : q \in wire \ {r} \/ q = a
  OBVIOUS
<1> HIDE DEF a
<1>3. OpenInv'
  BY <1>1, <1>2 DEF IInv, OpenInv
<1>4. CreateInv'
  BY <1>1, <1>2 DEF IInv, CreateInv
<1>5. StepInv'
  BY <1>1, <1>2 DEF IInv, StepInv, Kept
<1>6. VisitInv'
  BY DEF VisitInv
<1> QED  BY <1>3, <1>4, <1>5, <1>6

(* The same when requests are only taken off the wire.                     *)
LEMMA Shrunk ==
    ASSUME IInv, wire' \subseteq wire, UNCHANGED <<assigned, copies>>
    PROVE  /\ visit' \in {visit, NoVisit} => CreateInv'
           /\ StepInv'
<1>1. visit' \in {visit, NoVisit} => CreateInv'
  BY DEF IInv, CreateInv
<1>2. StepInv'
  BY DEF IInv, StepInv, Kept
<1> QED  BY <1>1, <1>2

-----------------------------------------------------------------------------
(* The simulator's steps.                                                  *)

LEMMA OpenBrowserStep == ASSUME IInv, open_browser PROVE IInv'
<1> USE DEF IInv
<1>0. /\ visit = NoVisit /\ outcome = "running" /\ ordinal' = ordinal + 1
      /\ visit' = [jar |-> NoOne, next |-> 1, last |-> 0]
      /\ UNCHANGED <<assigned, copies, failed, outcome, finished>>
  BY DEF open_browser, tables
<1>1. PICK a \in Request : /\ wire' = wire \cup {a}
                           /\ a.step = "create" /\ a.visitor = NoOne /\ a.stage = "sent" /\ a.open
  <2>0. ordinal \in Nat
    BY DEF TypeOK
  <2>1. ordinal + 1 \in Nat
    BY <2>0
  <2>2. Post(ordinal + 1, "create", NoOne)
    BY DEF open_browser
  <2> QED  BY <2>1, <2>2, Posted
<1>2. visit' \in Visit /\ visit' # NoVisit /\ visit'.last = 0 /\ visit'.jar = NoOne
  BY <1>0, SimulationAssumption DEF Visit
<1>3. TypeOK'
  <2>1. ordinal' \in Nat /\ wire' \subseteq Request
    BY <1>0, <1>1 DEF TypeOK
  <2> QED  BY <1>0, <1>2, <2>1 DEF TypeOK
<1>4. RunInv'
  BY <1>0 DEF RunInv
<1>5. OpenInv'
  BY <1>0, <1>1, <1>2 DEF OpenInv
<1>6. CreateInv'
  BY <1>0, <1>1, <1>2, SimulationAssumption DEF CreateInv
<1>7. StepInv'
  BY <1>0, <1>1 DEF StepInv, Kept
<1>8. VisitInv'
  BY <1>2 DEF VisitInv
<1>9. TableInv' /\ FunnelsNarrow'
  BY <1>0 DEF TableInv, FunnelsNarrow, Kept
<1> QED  BY <1>3, <1>4, <1>5, <1>6, <1>7, <1>8, <1>9

LEMMA RecordStep == ASSUME IInv, record_step PROVE IInv'
<1> USE DEF IInv
<1>0. /\ visit # NoVisit /\ visit.next <= visit.last
      /\ \A q \in wire : ~ q.open
      /\ UNCHANGED <<assigned, copies, ordinal, failed, outcome, visit, finished>>
  BY DEF record_step, tables, run
<1>1. /\ visit.last # 0 /\ visit.next \in Steps /\ visit.last \in Steps
      /\ visit.jar \in DOMAIN assigned /\ visit.jar \in Visitors
  <2>1. visit.next \in 1..6 /\ visit.last \in 0..6 /\ DOMAIN assigned \subseteq Visitors
    BY <1>0 DEF TypeOK, Visit
  <2>2. visit.last # 0
    BY <1>0, <2>1
  <2> QED  BY <1>0, <2>1, <2>2 DEF VisitInv
<1> DEFINE step == FUNNEL_IN_ORDER[visit.next]
<1>2. step \in FUNNEL /\ step # "create"
  BY <1>1, FunnelFacts
<1>3. /\ ~ Kept(visit.jar, step)
      /\ \A q \in wire : q.visitor = visit.jar => q.step # step
      /\ \A i, j \in Steps : FUNNEL_IN_ORDER[i] = step /\ j < i => Kept(visit.jar, FUNNEL_IN_ORDER[j])
  <2>1. \/ /\ ~ Kept(visit.jar, step)
           /\ \A q \in wire : q.visitor = visit.jar => q.step # step
        \/ \E q \in wire : q.open
    BY <1>0, <1>1 DEF VisitInv, Steps
  <2>2. \A i \in Steps : i < visit.next => Kept(visit.jar, FUNNEL_IN_ORDER[i])
    BY <1>0, <1>1 DEF VisitInv
  <2>3. \A i \in Steps : FUNNEL_IN_ORDER[i] = step => i = visit.next
    BY <1>1, FunnelFacts
  <2> QED  BY <1>0, <2>1, <2>2, <2>3
<1>4. PICK a \in Request : /\ wire' = wire \cup {a}
                           /\ a.step = step /\ a.visitor = visit.jar /\ a.stage = "sent" /\ a.open
  <2>1. Post(ordinal, step, visit.jar) /\ ordinal \in Nat
    BY DEF record_step, TypeOK
  <2> QED  BY <1>1, <1>2, <2>1, Posted
<1>5. TypeOK'
  BY <1>0, <1>4 DEF TypeOK
<1>6. RunInv'
  BY <1>0 DEF RunInv
<1>7. OpenInv'
  BY <1>0, <1>2, <1>4 DEF OpenInv
<1>8. CreateInv'
  BY <1>0, <1>2, <1>4 DEF CreateInv
<1> HIDE DEF step
<1>9. StepInv'
  BY <1>0, <1>1, <1>2, <1>3, <1>4 DEF StepInv, Kept
<1>10. VisitInv'
  BY <1>0, <1>1, <1>2, <1>4, FunnelFacts DEF VisitInv, Kept, step
<1>11. TableInv' /\ FunnelsNarrow'
  BY <1>0 DEF TableInv, FunnelsNarrow, Kept
<1> QED  BY <1>5, <1>6, <1>7, <1>8, <1>9, <1>10, <1>11

LEMMA CompleteStep == ASSUME IInv, Complete PROVE IInv'
<1> USE DEF IInv
<1>0. /\ visit = NoVisit /\ outcome' = "completed"
      /\ UNCHANGED <<assigned, copies, ordinal, failed, visit, wire, finished>>
  BY DEF Complete, tables
<1>1. TypeOK' /\ RunInv'
  BY <1>0 DEF TypeOK, RunInv
<1>2. OpenInv' /\ CreateInv' /\ StepInv' /\ VisitInv'
  BY <1>0 DEF OpenInv, CreateInv, StepInv, VisitInv, Kept
<1>3. TableInv' /\ FunnelsNarrow'
  BY <1>0 DEF TableInv, FunnelsNarrow, Kept
<1> QED  BY <1>1, <1>2, <1>3

(* A visit that fails, for whatever reason.                                *)
LEMMA FailedStep ==
    ASSUME IInv, NEW r \in wire, r.open, FailVisit,
           \A q \in wire' : q \in wire \ {r} \/ q = [r EXCEPT !.open = FALSE]
    PROVE  IInv'
<1> USE DEF IInv
<1>0. visit # NoVisit
  BY DEF OpenInv
<1>1. /\ failed' \in 0..MAX_FAILED_VISITS /\ outcome' \in {"running", "completed", "gave up"}
      /\ visit' = NoVisit /\ RunInv'
      /\ UNCHANGED <<assigned, copies, ordinal, finished>>
  BY <1>0, FailedVisit
<1>2. OpenInv' /\ CreateInv' /\ StepInv' /\ VisitInv'
  BY <1>1, Forgotten
<1>3. TypeOK'
  <2>1. [r EXCEPT !.open = FALSE] \in Request
    BY DEF TypeOK, Request
  <2>2. wire' \subseteq Request
    BY <2>1 DEF TypeOK
  <2> QED  BY <1>1, <2>2 DEF TypeOK
<1>4. TableInv' /\ FunnelsNarrow'
  BY <1>1 DEF TableInv, FunnelsNarrow, Kept
<1> QED  BY <1>1, <1>2, <1>3, <1>4

LEMMA WalkStep == ASSUME IInv, NEW r \in wire, walk(r) PROVE IInv'
<1> USE DEF IInv
<1>0. r.open /\ r.step = "create" /\ r.stage = "committed" /\ wire' = wire \ {r}
  BY DEF walk, Answered
<1>1. CASE r.key \notin Rates
  BY <1>0, <1>1, FailedStep DEF walk
<1>2. CASE r.key \in Rates
  <2>1. PICK n \in WalkLengths : visit' = [jar |-> r.visitor, next |-> 1, last |-> n]
    BY <1>2 DEF walk
  <2>2. UNCHANGED <<assigned, copies, ordinal, failed, outcome, finished>>
    BY <1>2 DEF walk, tables, run
  <2>3. n \in Steps
    BY <2>1, SimulationAssumption, FunnelFacts DEF FUNNEL_IN_ORDER, Steps
  <2>4. /\ visit # NoVisit
        /\ r.visitor \in Visitors /\ r.visitor \in DOMAIN assigned
        /\ \A s \in FUNNEL : copies[r.visitor][s] = 0
        /\ \A q \in wire : q.visitor = r.visitor => q = r
    BY <1>0 DEF OpenInv, CreateInv
  <2>5. \A q \in wire' : ~ q.open
    BY <1>0 DEF OpenInv
  <2>6. TypeOK'
    <3>1. visit' \in Visit
      BY <2>1, <2>3, <2>4 DEF Steps, Visit
    <3> QED  BY <1>0, <2>2, <3>1 DEF TypeOK
  <2>7. RunInv'
    BY <2>1, <2>2, <2>3, <2>4 DEF RunInv, Steps
  <2>8. OpenInv'
    BY <2>5 DEF OpenInv
  <2>9. CreateInv'
    BY <1>0, <2>1, <2>2, <2>4 DEF CreateInv
  <2>10. StepInv'
    BY <1>0, <2>2, Shrunk
  <2>11. VisitInv'
    BY <1>0, <2>1, <2>2, <2>3, <2>4, FunnelFacts DEF VisitInv, Kept, Steps
  <2>12. TableInv' /\ FunnelsNarrow'
    BY <2>2 DEF TableInv, FunnelsNarrow, Kept
  <2> QED  BY <2>6, <2>7, <2>8, <2>9, <2>10, <2>11, <2>12
<1> QED  BY <1>1, <1>2

LEMMA RecordedStep == ASSUME IInv, NEW r \in wire, Recorded(r) PROVE IInv'
<1> USE DEF IInv
<1>0. /\ r.open /\ r.step # "create" /\ r.stage = "committed" /\ wire' = wire \ {r}
      /\ UNCHANGED <<assigned, copies, ordinal, failed, outcome>>
  BY DEF Recorded, Answered, tables, run
<1>1. /\ visit # NoVisit /\ visit.next <= visit.last
      /\ r.visitor = visit.jar /\ r.step = FUNNEL_IN_ORDER[visit.next]
      /\ \A q \in wire' : ~ q.open
  BY <1>0 DEF OpenInv
<1>2. /\ visit \in Visit /\ visit.last # 0 /\ visit.next \in Steps /\ visit.last \in Steps
      /\ visit.jar \in DOMAIN assigned
  <2>1. visit \in Visit /\ visit.next \in 1..6 /\ visit.last \in 0..6
    BY <1>1 DEF TypeOK, Visit
  <2>2. visit.last # 0
    BY <1>1, <2>1
  <2> QED  BY <1>1, <2>1, <2>2 DEF VisitInv
<1>3. Kept(visit.jar, FUNNEL_IN_ORDER[visit.next])
  BY <1>0, <1>1 DEF StepInv
<1>4. /\ wire' \subseteq Request /\ assigned' = assigned /\ DOMAIN assigned \subseteq Visitors
  BY <1>0 DEF TypeOK
<1>5. OpenInv' /\ StepInv' /\ TableInv' /\ FunnelsNarrow'
  BY <1>0, <1>1, Shrunk DEF OpenInv, TableInv, FunnelsNarrow, Kept
<1>6. CASE visit.next = visit.last
  <2>1. visit' = NoVisit /\ finished' = finished \cup {visit.jar}
    BY <1>6 DEF Recorded
  <2>2. TypeOK'
    BY <1>0, <1>2, <1>4, <2>1 DEF TypeOK
  <2>3. RunInv' /\ CreateInv' /\ VisitInv'
    BY <1>0, <2>1, Shrunk DEF RunInv, VisitInv
  <2> QED  BY <1>5, <2>2, <2>3
<1>7. CASE visit.next # visit.last
  <2>1. visit' = [visit EXCEPT !.next = @ + 1] /\ finished' = finished
    BY <1>7 DEF Recorded
  <2>2. /\ visit' \in Visit /\ visit'.next = visit.next + 1
        /\ visit'.jar = visit.jar /\ visit'.last = visit.last
        /\ visit'.next \in Steps /\ visit'.next <= visit.last
    BY <1>1, <1>2, <1>7, <2>1 DEF Visit, Steps
  <2>3. TypeOK'
    BY <1>0, <1>4, <2>1, <2>2 DEF TypeOK
  <2>4. RunInv'
    BY <1>0, <1>1, <1>2, <2>2 DEF RunInv
  <2>5. CreateInv'
    BY <1>0, <1>1, <2>2 DEF CreateInv
  <2>6. VisitInv'
    <3>1. \A i \in Steps : i < visit'.next => Kept(visit.jar, FUNNEL_IN_ORDER[i])
      BY <1>1, <1>2, <1>3, <2>2 DEF VisitInv, Steps
    <3>2. \A i \in Steps : visit'.next <= i =>
             /\ ~ Kept(visit.jar, FUNNEL_IN_ORDER[i])
             /\ \A q \in wire : q.visitor = visit.jar => q.step # FUNNEL_IN_ORDER[i]
      BY <1>1, <1>2, <2>2 DEF VisitInv, Steps
    <3> QED  BY <1>0, <1>2, <2>2, <3>1, <3>2 DEF VisitInv, Kept
  <2> QED  BY <1>5, <2>3, <2>4, <2>5, <2>6
<1> QED  BY <1>6, <1>7

-----------------------------------------------------------------------------
(* The server's steps.                                                     *)

(* A handler that only moves its request along.                            *)
LEMMA Moved ==
    ASSUME IInv, NEW r \in wire, NEW a \in Request, wire' = (wire \ {r}) \cup {a},
           a.step = r.step, a.open = r.open, UNCHANGED <<ordinal, failed, outcome, visit, finished>>,
           a.step # "create" => a.visitor = r.visitor
    PROVE  /\ wire' \subseteq Request
           /\ RunInv' /\ OpenInv'
<1>1. wire' \subseteq Request
  BY DEF IInv, TypeOK
<1>2. RunInv' /\ OpenInv'
  BY DEF IInv, RunInv, OpenInv
<1> QED  BY <1>1, <1>2

LEMMA CreateVisitorStep == ASSUME IInv, NEW r \in wire, create_visitor(r) PROVE IInv'
<1> USE DEF IInv
<1>0. /\ r.step = "create" /\ r.stage = "sent" /\ r \in Request
      /\ UNCHANGED <<assigned, copies, ordinal, failed, outcome, visit, finished>>
  BY DEF create_visitor, tables, run, TypeOK
<1>1. PICK v \in Visitors \ Minted, key \in Keys \cup {Outside} :
        wire' = (wire \ {r}) \cup {[r EXCEPT !.visitor = v, !.key = key, !.stage = "handled"]}
  BY DEF create_visitor, Replace
<1> DEFINE a == [r EXCEPT !.visitor = v, !.key = key, !.stage = "handled"]
<1>2. /\ a \in Request /\ a.step = "create" /\ a.visitor = v /\ a.stage = "handled"
      /\ a.open = r.open /\ wire' = (wire \ {r}) \cup {a}
  BY <1>0, <1>1 DEF Request
<1>3. v \notin DOMAIN assigned /\ \A q \in wire : q.visitor # v
  BY <1>1 DEF Minted
<1> HIDE DEF a
<1>4. wire' \subseteq Request /\ RunInv' /\ OpenInv'
  BY <1>0, <1>2, Moved
<1>5. TypeOK'
  BY <1>0, <1>4 DEF TypeOK
<1>6. \A s \in FUNNEL : copies[v][s] = 0
  <2>1. \A s \in FUNNEL : copies[v][s] \in Nat
    BY <1>1 DEF TypeOK
  <2> QED  BY <1>1, <1>3, <2>1 DEF TableInv, Kept
<1>7. visit # NoVisit => visit.jar # v
  <2>1. CASE visit.last # 0
    BY <1>3, <2>1 DEF VisitInv
  <2>2. CASE visit.last = 0
    BY <2>2, <1>1, SimulationAssumption DEF RunInv
  <2> QED  BY <2>1, <2>2
<1>8. CreateInv'
  BY <1>0, <1>1, <1>2, <1>3, <1>6, <1>7 DEF CreateInv
<1>9. StepInv'
  BY <1>0, <1>2, <1>3 DEF StepInv, Kept
<1>10. VisitInv'
  BY <1>0, <1>2, <1>3, <1>7 DEF VisitInv, Kept
<1>11. TableInv' /\ FunnelsNarrow'
  BY <1>0 DEF TableInv, FunnelsNarrow, Kept
<1> QED  BY <1>4, <1>5, <1>8, <1>9, <1>10, <1>11

LEMMA CreateFunnelEventStep == ASSUME IInv, NEW r \in wire, create_funnel_event(r) PROVE IInv'
<1> USE DEF IInv
<1>0. /\ r.step # "create" /\ r.stage = "sent" /\ r \in Request
      /\ UNCHANGED <<assigned, copies, ordinal, failed, outcome, visit, finished>>
  BY DEF create_funnel_event, tables, run, TypeOK
<1>1. r.visitor \in DOMAIN assigned
  BY <1>0 DEF StepInv
<1> DEFINE a == [r EXCEPT !.stage = "handled"]
<1>2. /\ a \in Request /\ a.step = r.step /\ a.visitor = r.visitor /\ a.stage = "handled"
      /\ a.open = r.open
  BY <1>0 DEF Request
<1>3. wire' = (wire \ {r}) \cup {a}
  BY <1>1 DEF create_funnel_event, Replace
<1> HIDE DEF a
<1>4. wire' \subseteq Request /\ RunInv' /\ OpenInv'
  BY <1>0, <1>2, <1>3, Moved
<1>5. TypeOK'
  BY <1>0, <1>4 DEF TypeOK
<1>6. CreateInv'
  BY <1>0, <1>2, <1>3 DEF CreateInv
<1>7. StepInv'
  BY <1>0, <1>2, <1>3 DEF StepInv, Kept
<1>8. VisitInv'
  BY <1>0, <1>2, <1>3 DEF VisitInv, Kept
<1>9. TableInv' /\ FunnelsNarrow'
  BY <1>0 DEF TableInv, FunnelsNarrow, Kept
<1> QED  BY <1>4, <1>5, <1>6, <1>7, <1>8, <1>9

LEMMA CommitCreateStep ==
    ASSUME IInv, NEW r \in wire, Commit(r), r.step = "create"
    PROVE  IInv' /\ [Read!Next]_(Read!vars)
<1> USE DEF IInv
<1>0. /\ r.stage = "handled" /\ r \in Request /\ r.key \in Keys \cup {Outside}
      /\ UNCHANGED <<copies, ordinal, failed, outcome, visit, finished>>
      /\ assigned' = [v \in DOMAIN assigned \cup {r.visitor} |->
                        IF v = r.visitor THEN r.key ELSE assigned[v]]
  BY DEF Commit, run, TypeOK, Request
<1>1. /\ r.visitor \in Visitors /\ r.visitor \notin DOMAIN assigned
      /\ \A s \in FUNNEL : copies[r.visitor][s] = 0
      /\ \A q \in wire : q.visitor = r.visitor => q = r
      /\ visit # NoVisit => visit.jar # r.visitor
  BY <1>0 DEF CreateInv
<1> DEFINE a == [r EXCEPT !.stage = "committed"]
<1>2. /\ a \in Request /\ a.step = "create" /\ a.visitor = r.visitor /\ a.stage = "committed"
      /\ a.open = r.open
  BY <1>0 DEF Request
<1>3. wire' = (wire \ {r}) \cup {a}
  BY DEF Commit, Replace
<1> HIDE DEF a
<1>4. wire' \subseteq Request /\ RunInv' /\ OpenInv'
  BY <1>0, <1>2, <1>3, Moved
<1>5. DOMAIN assigned' = DOMAIN assigned \cup {r.visitor}
  BY <1>0
<1>6. TypeOK'
  <2>1. assigned' \in [DOMAIN assigned' -> Keys \cup {Outside}] /\ DOMAIN assigned' \subseteq Visitors
    BY <1>0, <1>1, <1>5 DEF TypeOK
  <2> QED  BY <1>0, <1>4, <2>1 DEF TypeOK
<1>7. CreateInv'
  BY <1>0, <1>1, <1>2, <1>3, <1>5 DEF CreateInv
<1>8. StepInv'
  BY <1>0, <1>1, <1>2, <1>3, <1>5 DEF StepInv, Kept
<1>9. VisitInv'
  BY <1>0, <1>1, <1>2, <1>3, <1>5 DEF VisitInv, Kept
<1>10. TableInv'
  BY <1>0, <1>5 DEF TableInv, Kept
<1>11. FunnelsNarrow'
  BY <1>0, <1>1, <1>5, FunnelFacts DEF FunnelsNarrow
<1>12. Read!insert_visitor(r.visitor, r.key)
  BY <1>0, <1>1 DEF Read!insert_visitor
<1>13. Read!Next
  BY <1>0, <1>1, <1>12 DEF Read!Next
<1> QED  BY <1>4, <1>6, <1>7, <1>8, <1>9, <1>10, <1>11, <1>13

LEMMA CommitEventStep ==
    ASSUME IInv, NEW r \in wire, Commit(r), r.step # "create"
    PROVE  IInv' /\ [Read!Next]_(Read!vars)
<1> USE DEF IInv
<1> DEFINE v == r.visitor
           s == r.step
<1>0. /\ r.stage = "handled" /\ r \in Request /\ s \in FUNNEL
      /\ UNCHANGED <<assigned, ordinal, failed, outcome, visit, finished>>
      /\ copies' = [copies EXCEPT ![v][s] = @ + 1]
  BY DEF Commit, run, TypeOK, Request
<1>1. /\ v \in DOMAIN assigned /\ v \in Visitors /\ ~ Kept(v, s)
      /\ \A i, j \in Steps : FUNNEL_IN_ORDER[i] = s /\ j < i => Kept(v, FUNNEL_IN_ORDER[j])
      /\ \A q \in wire : v = q.visitor /\ s = q.step => q = r
  BY <1>0 DEF StepInv, TypeOK
<1>2. copies[v][s] = 0
  <2>1. copies[v][s] \in Nat
    BY <1>0, <1>1 DEF TypeOK
  <2> QED  BY <1>1, <2>1 DEF Kept
<1>3. /\ copies' \in [Visitors -> [FUNNEL -> Nat]]
      /\ copies'[v][s] = 1
      /\ \A u \in Visitors, t \in FUNNEL : u # v \/ t # s => copies'[u][t] = copies[u][t]
  <2>1. copies \in [Visitors -> [FUNNEL -> Nat]]
    BY DEF TypeOK
  <2>2. copies' = [copies EXCEPT ![v] = [copies[v] EXCEPT ![s] = 1]]
    BY <1>0, <1>1, <1>2, <2>1
  <2> QED  BY <1>0, <1>1, <2>1, <2>2
<1> DEFINE a == [r EXCEPT !.stage = "committed"]
<1>4. /\ a \in Request /\ a.step = s /\ a.visitor = v /\ a.stage = "committed"
      /\ a.open = r.open
  BY <1>0 DEF Request
<1>5. wire' = (wire \ {r}) \cup {a}
  BY DEF Commit, Replace
<1>6. Read!insert_event(v, s)
  BY <1>0, <1>1, <1>2 DEF Read!insert_event
<1>7. Read!Next
  BY <1>0, <1>1, <1>6 DEF Read!Next
<1>8. s # "create"
  OBVIOUS
<1> HIDE DEF a, v, s
<1>9. wire' \subseteq Request /\ RunInv' /\ OpenInv'
  BY <1>0, <1>4, <1>5, Moved DEF s, v
<1>10. TypeOK'
  BY <1>0, <1>3, <1>9 DEF TypeOK
<1>11. CreateInv'
  <2>1. \A q \in wire : q.step = "create" /\ q.stage # "sent" => q.visitor # v
    BY <1>8 DEF CreateInv, v, s
  <2> QED  BY <1>0, <1>3, <1>4, <1>5, <1>8, <2>1 DEF CreateInv
<1>12. \A u \in Visitors, t \in FUNNEL : Kept(u, t)' <=> Kept(u, t) \/ (u = v /\ t = s)
  BY <1>0, <1>1, <1>3 DEF Kept
<1>13. StepInv'
  <2>1. \A q \in wire : q.step # "create" => q.step \in FUNNEL /\ q.visitor \in Visitors
    BY DEF StepInv, TypeOK, Request
  <2> QED  BY <1>0, <1>1, <1>4, <1>5, <1>8, <1>12, <2>1, FunnelFacts DEF StepInv
<1>14. VisitInv'
  <2> SUFFICES ASSUME visit # NoVisit, visit.last # 0 PROVE VisitInv'
    BY <1>0 DEF VisitInv
  <2>1. /\ visit.jar \in DOMAIN assigned /\ visit.jar \in Visitors
        /\ visit.next \in Steps /\ visit.last \in Steps /\ visit.next <= visit.last
    BY DEF VisitInv, TypeOK
  <2>2. \A i \in Steps : i < visit.next => Kept(visit.jar, FUNNEL_IN_ORDER[i])'
    BY <1>0, <1>12, <2>1, FunnelFacts DEF VisitInv
  <2>3. ASSUME NEW i \in Steps, visit.next <= i
        PROVE  \/ /\ ~ Kept(visit.jar, FUNNEL_IN_ORDER[i])'
                  /\ \A q \in wire' : q.visitor = visit.jar => q.step # FUNNEL_IN_ORDER[i]
               \/ i = visit.next /\ \E q \in wire' : q.open /\ q.step # "create"
    <3>1. CASE /\ ~ Kept(visit.jar, FUNNEL_IN_ORDER[i])
               /\ \A q \in wire : q.visitor = visit.jar => q.step # FUNNEL_IN_ORDER[i]
      <4>1. ~ (visit.jar = v /\ FUNNEL_IN_ORDER[i] = s)
        BY <3>1 DEF v, s
      <4>2. ~ Kept(visit.jar, FUNNEL_IN_ORDER[i])'
        BY <1>0, <1>12, <2>1, <3>1, <4>1, FunnelFacts
      <4>3. \A q \in wire' : q.visitor = visit.jar => q.step # FUNNEL_IN_ORDER[i]
        BY <1>4, <1>5, <3>1, <4>1
      <4> QED  BY <4>2, <4>3
    <3>2. CASE i = visit.next /\ \E q \in wire : q.open /\ q.step # "create"
      BY <1>4, <1>5, <1>8, <3>2 DEF s
    <3> QED  BY <2>3, <3>1, <3>2 DEF VisitInv
  <2> QED  BY <1>0, <2>1, <2>2, <2>3 DEF VisitInv, Kept
<1>15. TableInv'
  BY <1>0, <1>1, <1>12 DEF TableInv
<1>16. FunnelsNarrow'
  <2> SUFFICES ASSUME NEW u \in DOMAIN assigned, NEW i \in Steps, NEW j \in Steps, i < j,
                      Kept(u, FUNNEL_IN_ORDER[j])'
               PROVE  Kept(u, FUNNEL_IN_ORDER[i])'
    BY <1>0, FunnelFacts DEF FunnelsNarrow, Kept
  <2>1. u \in Visitors /\ FUNNEL_IN_ORDER[i] \in FUNNEL /\ FUNNEL_IN_ORDER[j] \in FUNNEL
    BY FunnelFacts DEF TypeOK
  <2>2. CASE u = v /\ FUNNEL_IN_ORDER[j] = s
    BY <1>1, <1>12, <2>1, <2>2
  <2>3. CASE Kept(u, FUNNEL_IN_ORDER[j])
    BY <1>12, <2>1, <2>3, FunnelFacts DEF FunnelsNarrow, Kept
  <2> QED  BY <1>12, <2>1, <2>2, <2>3
<1> QED  BY <1>7, <1>9, <1>10, <1>11, <1>13, <1>14, <1>15, <1>16

LEMMA RollbackStep == ASSUME IInv, NEW r \in wire, Rollback(r) PROVE IInv'
<1>1. CASE r.open
  BY <1>1, FailedStep DEF Rollback
<1>2. CASE ~ r.open
  <2> USE DEF IInv
  <2>1. wire' = wire \ {r} /\ UNCHANGED <<assigned, copies, ordinal, failed, outcome, visit, finished>>
    BY <1>2 DEF Rollback, tables, run
  <2>2. TypeOK' /\ RunInv' /\ TableInv' /\ FunnelsNarrow'
    BY <2>1 DEF TypeOK, RunInv, TableInv, FunnelsNarrow, Kept
  <2>3. OpenInv' /\ CreateInv' /\ StepInv'
    BY <2>1, Shrunk DEF OpenInv
  <2>4. VisitInv'
    BY <1>2, <2>1 DEF VisitInv, Kept
  <2> QED  BY <2>2, <2>3, <2>4
<1> QED  BY <1>1, <1>2

LEMMA DropStep == ASSUME IInv, NEW r \in wire, Drop(r) PROVE IInv'
<1> USE DEF IInv
<1>1. /\ ~ r.open /\ wire' = wire \ {r}
      /\ UNCHANGED <<assigned, copies, ordinal, failed, outcome, visit, finished>>
  BY DEF Drop, tables, run
<1>2. TypeOK' /\ RunInv' /\ TableInv' /\ FunnelsNarrow'
  BY <1>1 DEF TypeOK, RunInv, TableInv, FunnelsNarrow, Kept
<1>3. OpenInv' /\ CreateInv' /\ StepInv'
  BY <1>1, Shrunk DEF OpenInv
<1>4. VisitInv'
  BY <1>1 DEF VisitInv, Kept
<1> QED  BY <1>2, <1>3, <1>4

-----------------------------------------------------------------------------
(* Every step keeps the invariant, and is a write of ExperimentRead or     *)
(* leaves its tables alone.                                                *)
LEMMA EveryStep == IInv /\ [Next]_vars => IInv' /\ [Read!Next]_(Read!vars)
<1> SUFFICES ASSUME IInv, [Next]_vars PROVE IInv' /\ [Read!Next]_(Read!vars)
  OBVIOUS
<1>1. ASSUME open_browser \/ record_step \/ Complete
      PROVE  IInv' /\ UNCHANGED <<assigned, copies>>
  BY <1>1, OpenBrowserStep, RecordStep, CompleteStep DEF open_browser, record_step, Complete, tables
<1>2. ASSUME NEW r \in wire, walk(r)
      PROVE  IInv' /\ UNCHANGED <<assigned, copies>>
  BY <1>2, WalkStep DEF walk, FailVisit, tables
<1>3. ASSUME NEW r \in wire, Recorded(r) \/ Drop(r) \/ create_visitor(r) \/ create_funnel_event(r)
      PROVE  IInv' /\ UNCHANGED <<assigned, copies>>
  BY <1>3, RecordedStep, DropStep, CreateVisitorStep, CreateFunnelEventStep
     DEF Recorded, Drop, create_visitor, create_funnel_event, tables
<1>4. ASSUME NEW r \in wire, Refused(r) \/ Timeout(r)
      PROVE  IInv' /\ UNCHANGED <<assigned, copies>>
  BY <1>4, FailedStep DEF Refused, Timeout, FailVisit, tables
<1>5. ASSUME NEW r \in wire, Rollback(r)
      PROVE  IInv' /\ UNCHANGED <<assigned, copies>>
  BY <1>5, RollbackStep DEF Rollback, FailVisit, tables
<1>6. ASSUME NEW r \in wire, Commit(r)
      PROVE  IInv' /\ [Read!Next]_(Read!vars)
  BY <1>6, CommitCreateStep, CommitEventStep
<1>7. CASE UNCHANGED vars
  <2> USE <1>7 DEF vars, tables, run, IInv
  <2>1. TypeOK' /\ RunInv' /\ OpenInv'
    BY DEF TypeOK, RunInv, OpenInv
  <2>2. CreateInv' /\ StepInv'
    BY DEF CreateInv, StepInv, Kept
  <2>3. VisitInv'
    BY DEF VisitInv, Kept
  <2>4. TableInv' /\ FunnelsNarrow' /\ UNCHANGED Read!vars
    BY DEF TableInv, FunnelsNarrow, Kept, Read!vars
  <2> QED  BY <2>1, <2>2, <2>3, <2>4
<1>8. UNCHANGED <<assigned, copies>> => UNCHANGED Read!vars
  BY DEF Read!vars
<1>9. CASE simulate_traffic
  BY <1>1, <1>2, <1>3, <1>4, <1>8, <1>9 DEF simulate_traffic
<1>10. CASE \E r \in wire : Server(r)
  BY <1>3, <1>5, <1>6, <1>8, <1>10 DEF Server
<1> QED  BY <1>7, <1>9, <1>10 DEF Next

-----------------------------------------------------------------------------
(* Half funnels.  A visitor stored without the walk she set out on is paid *)
(* for by a failed visit: hers, or the one whose creation was given up on  *)
(* and may still commit.                                                   *)

Half == DOMAIN assigned \ (finished \cup UnderWay)

Late == {r \in wire : ~ r.open /\ r.step = "create" /\ r.stage # "committed"}

BudgetInv == IsFiniteSet(Late) /\ Cardinality(Half) + Cardinality(Late) <= failed

(* How a finite set's size follows what joins it and what leaves it.       *)
LEMMA Fewer ==
    ASSUME NEW S, IsFiniteSet(S), NEW T, T \subseteq S
    PROVE  /\ IsFiniteSet(T) /\ Cardinality(T) \in Nat /\ Cardinality(S) \in Nat
           /\ Cardinality(T) <= Cardinality(S)
BY FS_Subset, FS_CardinalityType

LEMMA OneMore ==
    ASSUME NEW S, IsFiniteSet(S), NEW x, NEW T, T \subseteq S \cup {x}
    PROVE  /\ IsFiniteSet(T) /\ Cardinality(T) \in Nat /\ Cardinality(S) \in Nat
           /\ Cardinality(T) <= Cardinality(S) + 1
<1>1. /\ IsFiniteSet(S \cup {x})
      /\ Cardinality(S \cup {x}) = IF x \in S THEN Cardinality(S) ELSE Cardinality(S) + 1
  BY FS_AddElement
<1>2. Cardinality(S) \in Nat
  BY FS_CardinalityType
<1> QED  BY <1>1, <1>2, Fewer

LEMMA OneLess ==
    ASSUME NEW S, IsFiniteSet(S), NEW x \in S, NEW T, T \subseteq S \ {x}
    PROVE  /\ IsFiniteSet(T) /\ Cardinality(T) \in Nat /\ Cardinality(S) \in Nat
           /\ Cardinality(T) + 1 <= Cardinality(S)
<1>1. IsFiniteSet(S \ {x}) /\ Cardinality(S \ {x}) = Cardinality(S) - 1
  BY FS_RemoveElement
<1>2. Cardinality(S) \in Nat
  BY FS_CardinalityType
<1> QED  BY <1>1, <1>2, Fewer

LEMMA OneForAnother ==
    ASSUME NEW S, IsFiniteSet(S), NEW x \in S, NEW y, NEW T, T \subseteq (S \ {x}) \cup {y}
    PROVE  /\ IsFiniteSet(T) /\ Cardinality(T) \in Nat /\ Cardinality(S) \in Nat
           /\ Cardinality(T) <= Cardinality(S)
<1>1. /\ IsFiniteSet(S \ {x}) /\ Cardinality(S \ {x}) \in Nat /\ Cardinality(S) \in Nat
      /\ Cardinality(S \ {x}) + 1 <= Cardinality(S)
  BY OneLess
<1>2. IsFiniteSet(T) /\ Cardinality(T) \in Nat /\ Cardinality(T) <= Cardinality(S \ {x}) + 1
  BY <1>1, OneMore
<1> QED  BY <1>1, <1>2

LEMMA HalfIsFinite == TypeOK => IsFiniteSet(Half)
<1> SUFFICES ASSUME TypeOK PROVE IsFiniteSet(Half)
  OBVIOUS
<1>1. Half \subseteq Visitors
  BY DEF TypeOK, Half
<1> QED  BY <1>1, SimulationAssumption, Fewer

LEMMA FailuresCount ==
    TypeOK => failed \in Nat /\ failed <= MAX_FAILED_VISITS /\ MAX_FAILED_VISITS \in Nat
<1> SUFFICES ASSUME TypeOK
             PROVE  failed \in Nat /\ failed <= MAX_FAILED_VISITS /\ MAX_FAILED_VISITS \in Nat
  OBVIOUS
<1>1. MAX_FAILED_VISITS \in Nat
  BY SimulationAssumption
<1>2. failed \in 0..MAX_FAILED_VISITS
  BY DEF TypeOK
<1> QED  BY <1>1, <1>2

(* Who is under way: the visitor of the open request, and the jar's.       *)
LEMMA IsUnderWay ==
    \A v : v \in UnderWay <=> \/ \E r \in wire : r.open /\ v = r.visitor
                              \/ visit # NoVisit /\ v = visit.jar
BY DEF UnderWay

(* A stored visitor becomes a half-funnel only by dropping out of the walk.*)
LEMMA NewHalf ==
    ASSUME assigned' = assigned, finished \subseteq finished', NEW W,
           \A v \in DOMAIN assigned : v \in UnderWay => v \in finished' \/ v \in UnderWay' \/ v \in W
    PROVE  Half' \subseteq Half \cup W
BY DEF Half

LEMMA Unspent ==
    ASSUME TypeOK, BudgetInv, failed' = failed, Half' \subseteq Half, Late' \subseteq Late
    PROVE  BudgetInv'
<1>1. /\ Cardinality(Half') \in Nat /\ Cardinality(Half) \in Nat
      /\ Cardinality(Half') <= Cardinality(Half)
  BY HalfIsFinite, Fewer
<1>2. /\ IsFiniteSet(Late') /\ Cardinality(Late') \in Nat /\ Cardinality(Late) \in Nat
      /\ Cardinality(Late') <= Cardinality(Late)
  BY Fewer DEF BudgetInv
<1> QED  BY <1>1, <1>2, FailuresCount DEF BudgetInv

(* A failed visit pays for one half-funnel, or for one late creation.      *)
LEMMA PaidByFailure ==
    ASSUME TypeOK, BudgetInv, failed' = failed + 1, NEW v, NEW a,
           \/ Half' \subseteq Half \cup {v} /\ Late' \subseteq Late
           \/ Half' \subseteq Half /\ Late' \subseteq Late \cup {a}
    PROVE  BudgetInv'
<1>0. IsFiniteSet(Half) /\ IsFiniteSet(Late) /\ failed \in Nat
  BY HalfIsFinite, FailuresCount DEF BudgetInv
<1>1. CASE Half' \subseteq Half \cup {v} /\ Late' \subseteq Late
  <2>1. /\ Cardinality(Half') \in Nat /\ Cardinality(Half) \in Nat
        /\ Cardinality(Half') <= Cardinality(Half) + 1
    BY <1>0, <1>1, OneMore
  <2>2. /\ IsFiniteSet(Late') /\ Cardinality(Late') \in Nat /\ Cardinality(Late) \in Nat
        /\ Cardinality(Late') <= Cardinality(Late)
    BY <1>0, <1>1, Fewer
  <2> QED  BY <1>0, <2>1, <2>2 DEF BudgetInv
<1>2. CASE Half' \subseteq Half /\ Late' \subseteq Late \cup {a}
  <2>1. /\ Cardinality(Half') \in Nat /\ Cardinality(Half) \in Nat
        /\ Cardinality(Half') <= Cardinality(Half)
    BY <1>0, <1>2, Fewer
  <2>2. /\ IsFiniteSet(Late') /\ Cardinality(Late') \in Nat /\ Cardinality(Late) \in Nat
        /\ Cardinality(Late') <= Cardinality(Late) + 1
    BY <1>0, <1>2, OneMore
  <2> QED  BY <1>0, <2>1, <2>2 DEF BudgetInv
<1> QED  BY <1>1, <1>2

LEMMA SwappedLate ==
    ASSUME TypeOK, BudgetInv, failed' = failed, Half' \subseteq Half,
           NEW r \in Late, NEW a, Late' \subseteq (Late \ {r}) \cup {a}
    PROVE  BudgetInv'
<1>1. /\ Cardinality(Half') \in Nat /\ Cardinality(Half) \in Nat
      /\ Cardinality(Half') <= Cardinality(Half)
  BY HalfIsFinite, Fewer
<1>2. /\ IsFiniteSet(Late') /\ Cardinality(Late') \in Nat /\ Cardinality(Late) \in Nat
      /\ Cardinality(Late') <= Cardinality(Late)
  BY OneForAnother DEF BudgetInv
<1> QED  BY <1>1, <1>2, FailuresCount DEF BudgetInv

LEMMA LateLands ==
    ASSUME TypeOK, BudgetInv, failed' = failed, NEW v, Half' \subseteq Half \cup {v},
           NEW r \in Late, Late' \subseteq Late \ {r}
    PROVE  BudgetInv'
<1>1. /\ Cardinality(Half') \in Nat /\ Cardinality(Half) \in Nat
      /\ Cardinality(Half') <= Cardinality(Half) + 1
  BY HalfIsFinite, OneMore
<1>2. /\ IsFiniteSet(Late') /\ Cardinality(Late') \in Nat /\ Cardinality(Late) \in Nat
      /\ Cardinality(Late') + 1 <= Cardinality(Late)
  BY OneLess DEF BudgetInv
<1> QED  BY <1>1, <1>2, FailuresCount DEF BudgetInv

LEMMA BudgetInitially == Init => BudgetInv
<1> SUFFICES ASSUME Init PROVE BudgetInv
  OBVIOUS
<1>1. Half = {} /\ Late = {}
  BY DEF Init, Half, Late
<1> QED  BY <1>1, FS_EmptySet DEF BudgetInv, Init

(* The steps of the run.                                                   *)
LEMMA OpenBrowserBudget == ASSUME IInv, BudgetInv, open_browser PROVE BudgetInv'
<1>0. /\ visit = NoVisit /\ assigned' = assigned /\ failed' = failed /\ finished' = finished
  BY DEF open_browser, tables
<1>1. \A v : v \notin UnderWay
  BY <1>0, IsUnderWay DEF IInv, OpenInv
<1>2. Half' \subseteq Half
  BY <1>0, <1>1 DEF Half
<1>3. Late' \subseteq Late
  BY DEF Late, open_browser, Post
<1> QED  BY <1>0, <1>2, <1>3, Unspent DEF IInv

LEMMA RecordBudget == ASSUME IInv, BudgetInv, record_step PROVE BudgetInv'
<1>0. /\ visit' = visit /\ assigned' = assigned /\ failed' = failed /\ finished' = finished
      /\ wire \subseteq wire'
  BY DEF record_step, tables, run, Post
<1>1. \A v \in UnderWay : v \in UnderWay'
  BY <1>0, IsUnderWay DEF UnderWay
<1>2. Half' \subseteq Half
  BY <1>0, <1>1 DEF Half
<1>3. Late' \subseteq Late
  BY DEF Late, record_step, Post
<1> QED  BY <1>0, <1>2, <1>3, Unspent DEF IInv

(* A visit fails: her request is off the wire, or is nobody's from now on. *)
LEMMA FailedBudget ==
    ASSUME IInv, BudgetInv, NEW r \in wire, r.open, FailVisit,
           \/ wire' = wire \ {r}
           \/ r.stage # "committed" /\ wire' = (wire \ {r}) \cup {[r EXCEPT !.open = FALSE]}
    PROVE  BudgetInv'
<1> USE DEF IInv
<1> DEFINE a == [r EXCEPT !.open = FALSE]
<1>0. /\ visit # NoVisit /\ visit' = NoVisit /\ failed' = failed + 1
      /\ assigned' = assigned /\ finished' = finished
      /\ r \in Request /\ a.open = FALSE /\ a.step = r.step
  BY DEF OpenInv, FailVisit, tables, TypeOK, Request
<1>1. \A q \in wire : q.open => q = r
  BY DEF OpenInv
<1>2. \A v \in UnderWay : v = r.visitor \/ v = visit.jar
  BY <1>1, IsUnderWay
<1>3. wire' \subseteq (wire \ {r}) \cup {a}
  OBVIOUS
<1> HIDE DEF a
<1>4. CASE r.step # "create"
  <2>1. r.visitor = visit.jar
    BY <1>4 DEF OpenInv
  <2>2. Half' \subseteq Half \cup {visit.jar}
    BY <1>0, <1>2, <2>1, NewHalf
  <2>3. Late' \subseteq Late
    BY <1>0, <1>3, <1>4 DEF Late
  <2> QED  BY <1>0, <2>2, <2>3, PaidByFailure
<1>5. CASE r.step = "create"
  <2>1. visit.jar \notin DOMAIN assigned
    <3>1. visit.last = 0
      BY <1>5 DEF OpenInv
    <3>2. visit.jar = NoOne
      BY <1>0, <3>1 DEF RunInv
    <3> QED  BY <3>2, SimulationAssumption DEF TypeOK
  <2>2. CASE wire' = wire \ {r}
    <3>1. Half' \subseteq Half \cup {r.visitor}
      BY <1>0, <1>2, <2>1, NewHalf
    <3>2. Late' \subseteq Late
      BY <2>2 DEF Late
    <3> QED  BY <1>0, <3>1, <3>2, PaidByFailure
  <2>3. CASE r.stage # "committed"
    <3>1. r.visitor \notin DOMAIN assigned
      <4>1. r.stage = "handled" \/ r.stage = "sent"
        BY <1>0, <1>5, <2>3 DEF CreateInv, Request
      <4>2. r.stage = "handled" => r.visitor \notin DOMAIN assigned
        BY <1>5 DEF CreateInv
      <4>3. r.stage = "sent" => r.visitor = NoOne
        BY <1>5 DEF CreateInv
      <4> QED  BY <4>1, <4>2, <4>3, SimulationAssumption DEF TypeOK
    <3>2. Half' \subseteq Half \cup {}
      BY <1>0, <1>2, <2>1, <3>1, NewHalf
    <3>3. Late' \subseteq Late \cup {a}
      BY <1>3 DEF Late
    <3> QED  BY <1>0, <3>2, <3>3, PaidByFailure
  <2> QED  BY <2>2, <2>3
<1> QED  BY <1>4, <1>5

LEMMA WalkBudget == ASSUME IInv, BudgetInv, NEW r \in wire, walk(r) PROVE BudgetInv'
<1>0. r.open /\ r.step = "create" /\ r.stage = "committed" /\ wire' = wire \ {r}
  BY DEF walk, Answered
<1>1. CASE r.key \notin Rates
  BY <1>0, <1>1, FailedBudget DEF walk
<1>2. CASE r.key \in Rates
  <2>1. PICK n \in WalkLengths : visit' = [jar |-> r.visitor, next |-> 1, last |-> n]
    BY <1>2 DEF walk
  <2>2. assigned' = assigned /\ failed' = failed /\ finished' = finished
    BY <1>2 DEF walk, tables, run
  <2>3. visit.jar \notin DOMAIN assigned /\ \A q \in wire : q.open => q = r
    <3>1. visit # NoVisit /\ visit.last = 0 /\ \A q \in wire : q.open => q = r
      BY <1>0 DEF IInv, OpenInv
    <3>2. visit.jar = NoOne
      BY <3>1 DEF IInv, RunInv
    <3> QED  BY <3>1, <3>2, SimulationAssumption DEF IInv, TypeOK
  <2>4. r.visitor \in UnderWay'
    <3>1. visit'.jar = r.visitor /\ visit' # NoVisit
      <4>1. r.visitor \in Visitors \cup {NoOne} /\ n \in 1..6
        BY <2>1, SimulationAssumption, FunnelFacts DEF IInv, TypeOK, Request, FUNNEL_IN_ORDER
      <4>2. visit' \in Visit
        BY <2>1, <4>1 DEF Visit
      <4> QED  BY <2>1, <4>2, SimulationAssumption
    <3> QED  BY <3>1 DEF UnderWay
  <2>5. Half' \subseteq Half \cup {}
    <3>1. \A v \in DOMAIN assigned : v \in UnderWay => v = r.visitor
      BY <2>3, IsUnderWay
    <3> QED  BY <2>2, <2>4, <3>1, NewHalf
  <2>6. Late' \subseteq Late
    BY <1>0 DEF Late
  <2> QED  BY <2>2, <2>5, <2>6, Unspent DEF IInv
<1> QED  BY <1>1, <1>2

LEMMA RecordedBudget == ASSUME IInv, BudgetInv, NEW r \in wire, Recorded(r) PROVE BudgetInv'
<1>0. /\ r.open /\ r.step # "create" /\ r.stage = "committed" /\ wire' = wire \ {r}
      /\ assigned' = assigned /\ failed' = failed
  BY DEF Recorded, Answered, tables, run
<1>1. /\ visit # NoVisit /\ r.visitor = visit.jar /\ \A q \in wire : q.open => q = r
  BY <1>0 DEF IInv, OpenInv
<1>2. \A v \in UnderWay : v = visit.jar
  BY <1>1, IsUnderWay
<1>3. finished \subseteq finished' /\ (visit.jar \in finished' \/ visit.jar \in UnderWay')
  <2>1. CASE visit.next = visit.last
    BY <2>1 DEF Recorded
  <2>2. CASE visit.next # visit.last
    <3>1. visit' = [visit EXCEPT !.next = @ + 1] /\ finished' = finished
      BY <2>2 DEF Recorded
    <3>2. visit \in Visit /\ visit.next <= visit.last
      BY <1>0, <1>1 DEF IInv, OpenInv, TypeOK
    <3>3. visit' \in Visit /\ visit'.jar = visit.jar
      BY <2>2, <3>1, <3>2 DEF Visit
    <3>4. visit' # NoVisit
      BY <3>3, SimulationAssumption
    <3> QED  BY <3>1, <3>3, <3>4 DEF UnderWay
  <2> QED  BY <2>1, <2>2
<1>4. Half' \subseteq Half \cup {}
  BY <1>0, <1>2, <1>3, NewHalf
<1>5. Late' \subseteq Late
  BY <1>0 DEF Late
<1> QED  BY <1>0, <1>4, <1>5, Unspent DEF IInv

(* The server's steps: who is under way does not change.                   *)
LEMMA SameUnderWay ==
    ASSUME NEW r \in wire, NEW a, wire' = (wire \ {r}) \cup {a}, a.open = r.open,
           r.open => a.visitor = r.visitor \/ r.visitor \notin DOMAIN assigned, visit' = visit
    PROVE  \A v \in DOMAIN assigned : v \in UnderWay => v \in UnderWay'
<1> SUFFICES ASSUME NEW v \in DOMAIN assigned, v \in UnderWay PROVE v \in UnderWay'
  OBVIOUS
<1>1. CASE visit # NoVisit /\ v = visit.jar
  BY <1>1 DEF UnderWay
<1>2. CASE \E q \in wire : q.open /\ v = q.visitor
  <2>1. PICK q \in wire : q.open /\ v = q.visitor
    BY <1>2
  <2>2. CASE q # r
    BY <2>1, <2>2 DEF UnderWay
  <2>3. CASE q = r
    <3>1. a \in wire' /\ a.open /\ a.visitor = v
      BY <2>1, <2>3
    <3> QED  BY <3>1 DEF UnderWay
  <2> QED  BY <2>2, <2>3
<1> QED  BY <1>1, <1>2, IsUnderWay

LEMMA CreateVisitorBudget == ASSUME IInv, BudgetInv, NEW r \in wire, create_visitor(r) PROVE BudgetInv'
<1> USE DEF IInv
<1>0. /\ r.step = "create" /\ r.stage = "sent" /\ r \in Request
      /\ assigned' = assigned /\ failed' = failed /\ visit' = visit /\ finished' = finished
  BY DEF create_visitor, tables, run, TypeOK
<1>1. PICK v \in Visitors \ Minted, key \in Keys \cup {Outside} :
        wire' = (wire \ {r}) \cup {[r EXCEPT !.visitor = v, !.key = key, !.stage = "handled"]}
  BY DEF create_visitor, Replace
<1> DEFINE a == [r EXCEPT !.visitor = v, !.key = key, !.stage = "handled"]
<1>2. a.step = "create" /\ a.open = r.open /\ a.stage = "handled" /\ wire' = (wire \ {r}) \cup {a}
  BY <1>0, <1>1 DEF Request
<1> HIDE DEF a
<1>3. r.visitor \notin DOMAIN assigned
  BY <1>0, SimulationAssumption DEF CreateInv, TypeOK
<1>4. Half' \subseteq Half \cup {}
  BY <1>0, <1>2, <1>3, SameUnderWay, NewHalf
<1>5. CASE r.open
  <2>1. Late' \subseteq Late
    BY <1>2, <1>5 DEF Late
  <2> QED  BY <1>0, <1>4, <2>1, Unspent
<1>6. CASE ~ r.open
  <2>1. r \in Late
    BY <1>0, <1>6 DEF Late
  <2>2. Late' \subseteq (Late \ {r}) \cup {a}
    BY <1>2 DEF Late
  <2> QED  BY <1>0, <1>4, <2>1, <2>2, SwappedLate
<1> QED  BY <1>5, <1>6

LEMMA CreateFunnelEventBudget ==
    ASSUME IInv, BudgetInv, NEW r \in wire, create_funnel_event(r) PROVE BudgetInv'
<1>0. /\ r.step # "create" /\ r \in Request
      /\ assigned' = assigned /\ failed' = failed /\ visit' = visit /\ finished' = finished
  BY DEF create_funnel_event, tables, run, IInv, TypeOK
<1>1. PICK a : /\ wire' = (wire \ {r}) \cup {a}
               /\ a.step = r.step /\ a.open = r.open /\ a.visitor = r.visitor
  <2> DEFINE stage == IF r.visitor \in DOMAIN assigned THEN "handled" ELSE "unknown"
             a == [r EXCEPT !.stage = stage]
  <2>1. a.step = r.step /\ a.open = r.open /\ a.visitor = r.visitor
    BY <1>0 DEF Request
  <2>2. wire' = (wire \ {r}) \cup {a}
    BY DEF create_funnel_event, Replace
  <2> QED  BY <2>1, <2>2
<1>2. Half' \subseteq Half \cup {}
  BY <1>0, <1>1, SameUnderWay, NewHalf
<1>3. Late' \subseteq Late
  BY <1>0, <1>1 DEF Late
<1> QED  BY <1>0, <1>2, <1>3, Unspent DEF IInv

(* A creation commits: its visitor is under way, or it was late and its    *)
(* place in the budget passes to the half-funnel it leaves.                *)
LEMMA CommitBudget == ASSUME IInv, BudgetInv, NEW r \in wire, Commit(r) PROVE BudgetInv'
<1> USE DEF IInv
<1>0. /\ r.stage = "handled" /\ r \in Request
      /\ failed' = failed /\ visit' = visit /\ finished' = finished
  BY DEF Commit, run, TypeOK
<1> DEFINE a == [r EXCEPT !.stage = "committed"]
<1>1. /\ a.step = r.step /\ a.open = r.open /\ a.visitor = r.visitor /\ a.stage = "committed"
      /\ wire' = (wire \ {r}) \cup {a}
  BY <1>0 DEF Commit, Replace, Request
<1> HIDE DEF a
<1>2. \A v \in DOMAIN assigned : v \in UnderWay => v \in UnderWay'
  BY <1>0, <1>1, SameUnderWay
<1>3. CASE r.step # "create"
  <2>1. assigned' = assigned
    BY <1>3 DEF Commit
  <2>2. Half' \subseteq Half \cup {}
    BY <1>0, <1>2, <2>1, NewHalf
  <2>3. Late' \subseteq Late
    BY <1>1, <1>3 DEF Late
  <2> QED  BY <1>0, <2>2, <2>3, Unspent
<1>4. CASE r.step = "create"
  <2>1. DOMAIN assigned' = DOMAIN assigned \cup {r.visitor}
    BY <1>4 DEF Commit
  <2>2. CASE r.open
    <3>1. r.visitor \in UnderWay'
      BY <1>1, <2>2 DEF UnderWay
    <3>2. Half' \subseteq Half
      BY <1>0, <1>2, <2>1, <3>1 DEF Half
    <3>3. Late' \subseteq Late
      BY <1>1, <2>2 DEF Late
    <3> QED  BY <1>0, <3>2, <3>3, Unspent
  <2>3. CASE ~ r.open
    <3>1. Half' \subseteq Half \cup {r.visitor}
      BY <1>0, <1>2, <2>1 DEF Half
    <3>2. r \in Late /\ Late' \subseteq Late \ {r}
      BY <1>0, <1>1, <1>4, <2>3 DEF Late
    <3> QED  BY <1>0, <3>1, <3>2, LateLands
  <2> QED  BY <2>2, <2>3
<1> QED  BY <1>3, <1>4

LEMMA ForgottenBudget ==
    ASSUME IInv, BudgetInv, NEW r \in wire, ~ r.open, wire' = wire \ {r},
           assigned' = assigned, failed' = failed, visit' = visit, finished' = finished
    PROVE  BudgetInv'
<1>1. \A v \in UnderWay : v \in UnderWay'
  BY IsUnderWay DEF UnderWay
<1>2. Half' \subseteq Half \cup {}
  BY <1>1, NewHalf
<1>3. Late' \subseteq Late
  BY DEF Late
<1> QED  BY <1>2, <1>3, Unspent DEF IInv

LEMMA BudgetStep == IInv /\ BudgetInv /\ [Next]_vars => BudgetInv'
<1> SUFFICES ASSUME IInv, BudgetInv, [Next]_vars PROVE BudgetInv'
  OBVIOUS
<1>1. ASSUME Complete \/ UNCHANGED vars PROVE BudgetInv'
  <2>1. /\ assigned' = assigned /\ failed' = failed /\ finished' = finished
        /\ visit' = visit /\ wire' = wire
    BY <1>1 DEF Complete, tables, run, vars
  <2>2. Half' \subseteq Half
    BY <2>1 DEF Half, UnderWay
  <2>3. Late' \subseteq Late
    BY <2>1 DEF Late
  <2> QED  BY <2>1, <2>2, <2>3, Unspent DEF IInv
<1>2. ASSUME NEW r \in wire, Refused(r) PROVE BudgetInv'
  BY <1>2, FailedBudget DEF Refused
<1>3. ASSUME NEW r \in wire, Timeout(r) PROVE BudgetInv'
  <2>1. CASE r.stage = "committed"
    BY <1>3, <2>1, FailedBudget DEF Timeout
  <2>2. CASE r.stage # "committed"
    BY <1>3, <2>2, FailedBudget DEF Timeout
  <2> QED  BY <2>1, <2>2
<1>4. ASSUME NEW r \in wire, Rollback(r) PROVE BudgetInv'
  <2>1. CASE r.open
    BY <1>4, <2>1, FailedBudget DEF Rollback
  <2>2. CASE ~ r.open
    BY <1>4, <2>2, ForgottenBudget DEF Rollback, tables, run
  <2> QED  BY <2>1, <2>2
<1>5. ASSUME NEW r \in wire, Drop(r) PROVE BudgetInv'
  BY <1>5, ForgottenBudget DEF Drop, tables, run
<1>6. CASE simulate_traffic
  BY <1>1, <1>2, <1>3, <1>6, OpenBrowserBudget, RecordBudget, WalkBudget, RecordedBudget
     DEF simulate_traffic
<1>7. CASE \E r \in wire : Server(r)
  BY <1>4, <1>5, <1>7, CreateVisitorBudget, CreateFunnelEventBudget, CommitBudget DEF Server
<1> QED  BY <1>1, <1>6, <1>7 DEF Next

-----------------------------------------------------------------------------
(* The invariant the theorems below are read off.                          *)
LEMMA Invariant == Spec => []IInv
<1>1. IInv /\ [Next]_vars => IInv'
  BY EveryStep
<1> QED  BY Initially, <1>1, PTL DEF Spec

(* The tables, the wire and the visit keep their types, and no more visits *)
(* fail than a run allows (simulation.py:151).                             *)
THEOREM TypeCorrect == Spec => []TypeOK
<1>1. IInv => TypeOK
  BY DEF IInv
<1> QED  BY Invariant, <1>1, PTL

(* A visitor whose 201 has left is known to the next request, late ones    *)
(* included (db/session.py:8-16).                                          *)
THEOREM AnsweredIsStored == Spec => []AnsweredMeansStored
<1>1. IInv => AnsweredMeansStored
  BY DEF IInv, CreateInv, StepInv, AnsweredMeansStored
<1> QED  BY Invariant, <1>1, PTL

(* Whatever failed, every visitor holds the first steps of the funnel and  *)
(* none beyond a gap (simulation.py:88-91).                                *)
THEOREM EveryFunnelNarrows == Spec => []FunnelsNarrow
<1>1. IInv => FunnelsNarrow
  BY DEF IInv
<1> QED  BY Invariant, <1>1, PTL

(* However the API fails, visitors stored without the walk they set out on *)
(* never outnumber the failures a run is allowed (simulation.py:44-48).    *)
THEOREM HalfFunnelsStayFew == Spec => []HalfFunnelsAreFew
<1>1. IInv /\ BudgetInv /\ [Next]_vars => BudgetInv'
  BY BudgetStep
<1>2. IInv /\ BudgetInv => HalfFunnelsAreFew
  <2> SUFFICES ASSUME IInv, BudgetInv PROVE HalfFunnelsAreFew
    OBVIOUS
  <2>1. Cardinality(Half) \in Nat /\ Cardinality(Late) \in Nat
    BY HalfIsFinite, FS_CardinalityType DEF IInv, BudgetInv
  <2>2. failed \in Nat /\ failed <= MAX_FAILED_VISITS /\ MAX_FAILED_VISITS \in Nat
    BY FailuresCount DEF IInv
  <2>3. Cardinality(Half) + Cardinality(Late) <= failed
    BY DEF BudgetInv
  <2>4. Cardinality(Half) <= MAX_FAILED_VISITS
    BY <2>1, <2>2, <2>3
  <2> QED  BY <2>4 DEF HalfFunnelsAreFew, Half
<1> QED  BY Invariant, BudgetInitially, <1>1, <1>2, PTL DEF Spec

(* The simulator's writes are ExperimentRead's, without a repeat: what is  *)
(* proved of the read holds of every simulated run.                        *)
THEOREM SimulatedTablesAreRead == Spec => TablesAreRead
<1>1. Init => Read!Init
  BY FunnelFacts DEF Init, Read!Init, Read!FUNNEL
<1>2. IInv /\ [Next]_vars => [Read!Next]_(Read!vars)
  BY EveryStep
<1> QED  BY Invariant, <1>1, <1>2, PTL DEF Spec, TablesAreRead, Read!Spec

=============================================================================

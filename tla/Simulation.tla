----------------------------- MODULE Simulation -----------------------------
(***************************************************************************)
(* The traffic simulator: visitors walked through the API one after the    *)
(* other, each in a browser of its own, with visits that fail, answers     *)
(* that never come and requests the server handles after the simulator has *)
(* given up on them.  Each request is one transaction, committed before    *)
(* its answer leaves (db/session.py).                                      *)
(*                                                                         *)
(* The tables are ExperimentRead's.  The arm is whatever the server        *)
(* assigned, so here it is any key, or none while the flag is off; how far *)
(* a visitor walks is any of WalkLengths, not drawn with the rates.        *)
(***************************************************************************)
EXTENDS Integers, Sequences, FiniteSets, SequencesExt

CONSTANTS Visitors,           \* the ids the server will mint
          Keys,               \* the flag's variant keys
          ControlKey, VariantKey,
          Outside,            \* no assignment: the flag is off
          Rates,              \* the arms activation_rates names
          NoOne,              \* an empty jar
          NoVisit,            \* between two visits
          MAX_FAILED_VISITS,
          WalkLengths         \* bound: how many steps a visitor may take

VARIABLES assigned,  \* visitor_assignment, as in ExperimentRead
          copies,    \* funnel_event rows per visitor and step, as there
          ordinal,   \* visits begun
          failed,    \* visits failed
          outcome,   \* "running", "completed" or "gave up"
          visit,     \* the browser's jar, and its steps: the next and the last
          wire,      \* requests on their way or being handled
          finished   \* ghost: visitors whose visit ended as planned

tables == <<assigned, copies>>
run == <<ordinal, failed, outcome>>
vars == <<tables, run, visit, wire, finished>>

(* results.py's order is the enum's.                                       *)
FUNNEL_IN_ORDER == <<"landing_view", "scan_started", "scan_completed", "cta_click",
                     "signup_started", "activation">>

FUNNEL == Range(FUNNEL_IN_ORDER)

(* While the visitor is being created there is nothing to record yet.      *)
Visit == [jar : Visitors \cup {NoOne}, next : 1..6, last : 0..6]

ASSUME SimulationAssumption ==
    /\ IsFiniteSet(Visitors) /\ NoOne \notin Visitors /\ NoVisit \notin Visit
    /\ Rates \subseteq Keys /\ Outside \notin Keys
    /\ MAX_FAILED_VISITS \in Nat \ {0}
    /\ WalkLengths \subseteq 1..Len(FUNNEL_IN_ORDER)

(* How the tables are read, and how they may be written.                   *)
Read == INSTANCE ExperimentRead WITH
            repeats <- 0, MaxRepeats <- 0, Recordable <- FUNNEL,
            RequiredPerArm <- 1, CriticalNum <- 1, CriticalDen <- 1

(* `key` is known once a new visitor has been assigned, `step` is the one  *)
(* to record; `open` while the simulator still waits for the answer.       *)
Request == [of : Nat, step : FUNNEL \cup {"create"}, visitor : Visitors \cup {NoOne},
            key : Keys \cup {Outside}, stage : {"sent", "handled", "committed", "unknown"},
            open : BOOLEAN]

Init ==
    /\ assigned = [v \in {} |-> Outside]
    /\ copies = [v \in Visitors |-> [s \in FUNNEL |-> 0]]
    /\ ordinal = 0 /\ failed = 0 /\ outcome = "running"
    /\ visit = NoVisit
    /\ wire = {}
    /\ finished = {}

-----------------------------------------------------------------------------
(* The server.                                                             *)

Replace(r, change) == wire' = (wire \ {r}) \cup {change}

Minted == DOMAIN assigned \cup {r.visitor : r \in wire}

(* POST /visitors from an empty jar: a new visitor, not committed yet.     *)
create_visitor(r) ==
    /\ r.step = "create" /\ r.stage = "sent"
    /\ \E v \in Visitors \ Minted, key \in Keys \cup {Outside} :
         Replace(r, [r EXCEPT !.visitor = v, !.key = key, !.stage = "handled"])
    /\ UNCHANGED <<tables, run, visit, finished>>

(* POST /funnel-events: a cookie naming nobody is a 404.                   *)
create_funnel_event(r) ==
    /\ r.step # "create" /\ r.stage = "sent"
    /\ Replace(r, [r EXCEPT !.stage = IF r.visitor \in DOMAIN assigned THEN "handled" ELSE "unknown"])
    /\ UNCHANGED <<tables, run, visit, finished>>

(* get_session: the transaction commits when the handler returns.          *)
Commit(r) ==
    /\ r.stage = "handled"
    /\ IF r.step = "create"
       THEN /\ assigned' = [v \in DOMAIN assigned \cup {r.visitor} |->
                              IF v = r.visitor THEN r.key ELSE assigned[v]]
            /\ UNCHANGED copies
       ELSE copies' = [copies EXCEPT ![r.visitor][r.step] = @ + 1] /\ UNCHANGED assigned
    /\ Replace(r, [r EXCEPT !.stage = "committed"])
    /\ UNCHANGED <<run, visit, finished>>

(* Mutant: FastAPI's default scope commits after the answer has left.      *)
AnsweredEarly(r) == r.stage \in {"handled", "committed"}

(* The answer starts once the transaction is closed: scope="function".     *)
Answered(r) == r.stage = "committed"

-----------------------------------------------------------------------------
(* The run.                                                                *)

Post(nth, step, jar) ==
    wire' = wire \cup {[of |-> nth, step |-> step, visitor |-> jar, key |-> Outside,
                        stage |-> "sent", open |-> TRUE]}

(* A fresh client, with a fresh jar, for every visitor.                    *)
open_browser ==
    /\ outcome = "running" /\ visit = NoVisit
    /\ ordinal < Cardinality(Visitors)
    /\ ordinal' = ordinal + 1
    /\ visit' = [jar |-> NoOne, next |-> 1, last |-> 0]
    /\ Post(ordinal + 1, "create", NoOne)
    /\ UNCHANGED <<tables, failed, outcome, finished>>

(* Mutant: one failure more is let through.                                *)
FailVisitLate ==
    /\ failed' = failed + 1
    /\ outcome' = IF failed' > MAX_FAILED_VISITS THEN "gave up" ELSE outcome
    /\ visit' = NoVisit
    /\ UNCHANGED <<tables, ordinal, finished>>

(* The visit is over; the run is, once too many have failed.               *)
FailVisit ==
    /\ failed' = failed + 1
    /\ outcome' = IF failed' >= MAX_FAILED_VISITS THEN "gave up" ELSE outcome
    /\ visit' = NoVisit
    /\ UNCHANGED <<tables, ordinal, finished>>

(* A 201: the cookie lands in the jar, and the arm decides.  No arm, or    *)
(* one without a rate, is an error of this visit.                          *)
walk(r) ==
    /\ r.open /\ r.step = "create" /\ Answered(r)
    /\ wire' = IF r.stage = "committed" THEN wire \ {r}
               ELSE (wire \ {r}) \cup {[r EXCEPT !.open = FALSE]}
    /\ IF r.key \in Rates
       THEN /\ \E n \in WalkLengths :
                 visit' = [jar |-> r.visitor, next |-> 1, last |-> n]
            /\ UNCHANGED <<tables, run, finished>>
       ELSE FailVisit

record_step ==
    /\ visit # NoVisit /\ visit.next <= visit.last
    /\ ~ \E r \in wire : r.open
    /\ Post(ordinal, FUNNEL_IN_ORDER[visit.next], visit.jar)
    /\ UNCHANGED <<tables, run, visit, finished>>

(* Its 201: the next step, or the end of the visit.                        *)
Recorded(r) ==
    /\ r.open /\ r.step # "create" /\ Answered(r)
    /\ wire' = IF r.stage = "committed" THEN wire \ {r}
               ELSE (wire \ {r}) \cup {[r EXCEPT !.open = FALSE]}
    /\ IF visit.next = visit.last
       THEN visit' = NoVisit /\ finished' = finished \cup {visit.jar}
       ELSE visit' = [visit EXCEPT !.next = @ + 1] /\ UNCHANGED finished
    /\ UNCHANGED <<tables, run>>

(* Anything but a 201 is a SimulationError.                                *)
Refused(r) ==
    /\ r.open /\ r.stage = "unknown"
    /\ wire' = wire \ {r}
    /\ FailVisit

(* A handler that raises rolls back, or the request never arrives.         *)
Rollback(r) ==
    /\ r.stage \in {"sent", "handled"}
    /\ wire' = wire \ {r}
    /\ IF r.open THEN FailVisit ELSE UNCHANGED <<tables, run, visit, finished>>

(* Mutants: the step is simply sent again, under a fresh id; the failure   *)
(* is not noticed; the client waits for ever.                              *)
TimeoutResends(r) ==
    /\ r.open
    /\ wire' = (wire \ {r}) \cup {[r EXCEPT !.open = FALSE], [r EXCEPT !.stage = "sent"]}
    /\ UNCHANGED <<tables, run, visit, finished>>

TimeoutIgnored(r) ==
    /\ r.open
    /\ wire' = (wire \ {r}) \cup (IF r.stage = "committed" THEN {} ELSE {[r EXCEPT !.open = FALSE]})
    /\ IF visit.next < visit.last
       THEN visit' = [visit EXCEPT !.next = @ + 1] /\ UNCHANGED <<tables, run, finished>>
       ELSE FailVisit

NoTimeout(r) == FALSE /\ UNCHANGED vars

(* The client's timeout, or a dropped connection: the visit has failed,    *)
(* and the server, which does not know, may yet handle the request.        *)
Timeout(r) ==
    /\ r.open
    /\ wire' = (wire \ {r}) \cup (IF r.stage = "committed" THEN {} ELSE {[r EXCEPT !.open = FALSE]})
    /\ FailVisit

(* An answer to a connection that is gone.                                 *)
Drop(r) ==
    /\ ~ r.open /\ r.stage \in {"committed", "unknown"}
    /\ wire' = wire \ {r}
    /\ UNCHANGED <<tables, run, visit, finished>>

Complete ==
    /\ outcome = "running" /\ visit = NoVisit
    /\ ordinal = Cardinality(Visitors)
    /\ outcome' = "completed"
    /\ UNCHANGED <<tables, ordinal, failed, visit, wire, finished>>

-----------------------------------------------------------------------------
Server(r) == create_visitor(r) \/ create_funnel_event(r) \/ Commit(r) \/ Rollback(r) \/ Drop(r)

simulate_traffic ==
    \/ open_browser \/ record_step \/ Complete
    \/ \E r \in wire : walk(r) \/ Recorded(r) \/ Refused(r) \/ Timeout(r)

Next == simulate_traffic \/ \E r \in wire : Server(r)

Spec == Init /\ [][Next]_vars

(* The simulator runs and its timeouts fire; nothing is asked of the       *)
(* server.                                                                 *)
FairSpec == Spec /\ WF_vars(simulate_traffic)

-----------------------------------------------------------------------------
TypeOK ==
    /\ DOMAIN assigned \subseteq Visitors
    /\ assigned \in [DOMAIN assigned -> Keys \cup {Outside}]
    /\ copies \in [Visitors -> [FUNNEL -> Nat]]
    /\ ordinal \in Nat /\ failed \in 0..MAX_FAILED_VISITS
    /\ outcome \in {"running", "completed", "gave up"}
    /\ visit = NoVisit \/ visit \in Visit
    /\ wire \subseteq Request
    /\ finished \subseteq Visitors

(* The simulator writes the tables only as ExperimentRead's writes do, and *)
(* never a step twice: what is shown of the read holds of a simulated run, *)
(* a run that stopped part-way included.                                   *)
TablesAreRead == Read!Spec

(* A visitor whose 201 has left is known to the next request: no step is   *)
(* told that there is no such visitor (db/session.py:8-16).                *)
AnsweredMeansStored == \A r \in wire : r.stage # "unknown"

(* Every simulated funnel narrows step by step: whatever failed, and       *)
(* however late a request was handled, a visitor holds the first steps of  *)
(* the funnel and none beyond a gap (simulation.py:88-91).                 *)
FunnelsNarrow ==
    \A v \in DOMAIN assigned, i, j \in DOMAIN FUNNEL_IN_ORDER :
        i < j /\ copies[v][FUNNEL_IN_ORDER[j]] > 0 => copies[v][FUNNEL_IN_ORDER[i]] > 0

(* A run against a failing API leaves few half-funnels behind: the         *)
(* visitors stored without the walk they set out on never outnumber the    *)
(* failures a run is allowed (simulation.py:44-48, BF72).                  *)
UnderWay == {r.visitor : r \in {q \in wire : q.open}} \cup (IF visit = NoVisit THEN {} ELSE {visit.jar})

HalfFunnelsAreFew == Cardinality(DOMAIN assigned \ (finished \cup UnderWay)) <= MAX_FAILED_VISITS

(* A run ends, completed or given up, whatever the server does.            *)
RunEnds == <>(outcome # "running")
=============================================================================

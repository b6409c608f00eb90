---------------------------- MODULE ExperimentRead ----------------------------
(***************************************************************************)
(* What the dashboard is told: the count over the assignment and event     *)
(* tables, the three rates per arm, the z-test on the primary one, and the *)
(* call made on it -- read after every write.                              *)
(*                                                                         *)
(* A visitor's rows for one step differ only in id and time, which the     *)
(* read ignores: the table is how many there are.  The statistics are      *)
(* exact: z is compared through its square, a ratio of integers.           *)
(***************************************************************************)
EXTENDS Integers, FiniteSets, FiniteSetsExt

CONSTANTS Visitors,
          Keys,                    \* the flag's variant keys
          ControlKey, VariantKey,  \* the two the hypothesis names
          Outside,                 \* no assignment: the flag was off
          Recordable,              \* bound: the steps that will be recorded
          MaxRepeats,              \* bound on rows repeating a visitor's step
          RequiredPerArm,          \* required_sample_per_arm of the hypothesis
          CriticalNum, CriticalDen \* the square of _CRITICAL_VALUE, as a ratio

VARIABLES assigned,   \* visitors: id |-> the key of visitor_assignment, or Outside
          copies,     \* funnel_event: how many rows each visitor has per step
          repeats     \* bound: rows that repeat a step

vars == <<assigned, copies, repeats>>

(* FunnelEventName.                                                        *)
FUNNEL == {"landing_view", "scan_started", "scan_completed", "cta_click",
           "signup_started", "activation"}

Metric == [numerator : FUNNEL, denominator : FUNNEL]

PRIMARY_METRIC == [numerator |-> "activation", denominator |-> "scan_completed"]
SECONDARY_METRIC == [numerator |-> "cta_click", denominator |-> "scan_completed"]
GUARDRAIL_METRIC == [numerator |-> "activation", denominator |-> "cta_click"]

METRICS == {PRIMARY_METRIC, SECONDARY_METRIC, GUARDRAIL_METRIC}

ASSUME ReadAssumption ==
    /\ IsFiniteSet(Visitors)
    /\ {ControlKey, VariantKey} \subseteq Keys /\ ControlKey # VariantKey
    /\ Outside \notin Keys
    /\ Recordable \subseteq FUNNEL
    /\ RequiredPerArm \in Nat \ {0}
    /\ CriticalNum \in Nat \ {0} /\ CriticalDen \in Nat \ {0}

-----------------------------------------------------------------------------
(* The writes.                                                             *)

Init ==
    /\ assigned = [v \in {} |-> Outside]
    /\ copies = [v \in Visitors |-> [s \in FUNNEL |-> 0]]
    /\ repeats = 0

(* POST /visitors: Enrolment says which key, here it is any.               *)
insert_visitor(v, key) ==
    /\ v \notin DOMAIN assigned
    /\ assigned' = [u \in DOMAIN assigned \cup {v} |-> IF u = v THEN key ELSE assigned[u]]
    /\ UNCHANGED <<copies, repeats>>

(* POST /funnel-events by a known visitor, under an id not stored yet.     *)
(* Steps come in any order: /signup can be bookmarked.                     *)
insert_event(v, step) ==
    /\ v \in DOMAIN assigned
    /\ IF copies[v][step] = 0 THEN UNCHANGED repeats
       ELSE repeats < MaxRepeats /\ repeats' = repeats + 1
    /\ copies' = [copies EXCEPT ![v][step] = @ + 1]
    /\ UNCHANGED assigned

Next == \E v \in Visitors :
            \/ \E key \in Keys \cup {Outside} : insert_visitor(v, key)
            \/ \E step \in Recordable : insert_event(v, step)

Spec == Init /\ [][Next]_vars

-----------------------------------------------------------------------------
(* count_visitors_per_step_pair.                                           *)

(* Mutant: whoever is not in the variant is read as the control.           *)
steps_reached_folded(key, step) ==
    {v \in DOMAIN assigned : copies[v][step] > 0
                               /\ (key = VariantKey <=> assigned[v] = VariantKey)}

(* SELECT DISTINCT arm, visitor, step: a visitor with no assignment joins  *)
(* to nothing.                                                             *)
steps_reached(key, step) == {v \in DOMAIN assigned : assigned[v] = key /\ copies[v][step] > 0}

(* Mutant: rows are paired, not people.                                    *)
count_row_pairs(key, step, also) ==
    MapThenSumSet(LAMBDA v : copies[v][step] * copies[v][also],
                  {v \in DOMAIN assigned : assigned[v] = key})

(* Visitors of the arm who reached both, in whatever order.                *)
count_visitors(key, step, also) == Cardinality(steps_reached(key, step) \cap steps_reached(key, also))

-----------------------------------------------------------------------------
(* results.py: the rates.                                                  *)

visitors_at(key, step) == count_visitors(key, step, step)

(* Mutant: the numerator step counted on its own (BF60).                   *)
read_halves(key, metric) ==
    [successes |-> visitors_at(key, metric.numerator),
     trials |-> visitors_at(key, metric.denominator)]

(* The numerator is the pair: only visitors who reached the denominator    *)
(* were ever eligible to convert.                                          *)
read_metric(key, metric) ==
    [successes |-> count_visitors(key, metric.numerator, metric.denominator),
     trials |-> visitors_at(key, metric.denominator)]

read_arm(key) == [metric \in METRICS |-> read_metric(key, metric)]

-----------------------------------------------------------------------------
(* stats.py, over two counted arms.                                        *)

Proportion == {arm \in [successes : Nat, trials : Nat] : arm.successes <= arm.trials}

(* The pooled rate is neither 0 nor 1 and both arms have trials.           *)
has_test(control, variant) ==
    LET X == control.successes + variant.successes
        N == control.trials + variant.trials
    IN  control.trials > 0 /\ variant.trials > 0 /\ X # 0 /\ X # N

(* The sign of z is the sign of this: a difference of rates, over the      *)
(* product of the trials.                                                  *)
Difference(control, variant) ==
    variant.successes * control.trials - control.successes * variant.trials

(* z^2 = D^2 N / (n m X (N - X)), against the critical value's square:     *)
(* p < ALPHA on both sides.                                                *)
is_significant(control, variant) ==
    LET X == control.successes + variant.successes
        N == control.trials + variant.trials
        D == Difference(control, variant)
    IN  D * D * N * CriticalDen > CriticalNum * control.trials * variant.trials * X * (N - X)

(* measure_lift: a ratio can be stated once both arms converted somebody.  *)
has_lift(control, variant) == control.successes > 0 /\ variant.successes > 0

-----------------------------------------------------------------------------
(* recommendation.py.                                                      *)

(* Mutant: the total is compared.                                          *)
has_enough_in_total(control, variant) == control.trials + variant.trials >= RequiredPerArm

(* Both arms, not their total.                                             *)
has_enough_traffic(control, variant) ==
    control.trials >= RequiredPerArm /\ variant.trials >= RequiredPerArm

variant_won(control, variant) == Difference(control, variant) > 0

(* Mutant: no call without a lift (BF61).                                  *)
recommend_with_lift(control, variant) ==
    IF ~ has_test(control, variant) \/ ~ is_significant(control, variant)
         \/ ~ has_enough_traffic(control, variant) \/ ~ has_lift(control, variant)
    THEN "KEEP_RUNNING"
    ELSE IF variant_won(control, variant) THEN "SHIP_VARIANT" ELSE "KEEP_CONTROL"

recommend(control, variant) ==
    IF \/ ~ has_test(control, variant)
       \/ ~ is_significant(control, variant)
       \/ ~ has_enough_traffic(control, variant)
    THEN "KEEP_RUNNING"
    ELSE IF ~ variant_won(control, variant) THEN "KEEP_CONTROL"
    ELSE IF ~ has_lift(control, variant) THEN "KEEP_RUNNING"
    ELSE "SHIP_VARIANT"

(* get_experiment_results: one statement, so one state, and only the two   *)
(* arms of the hypothesis.                                                 *)
assemble_results ==
    LET control == read_arm(ControlKey)
        variant == read_arm(VariantKey)
    IN  [control |-> control, variant |-> variant,
         recommendation |-> recommend(control[PRIMARY_METRIC], variant[PRIMARY_METRIC])]

-----------------------------------------------------------------------------
TypeOK ==
    /\ DOMAIN assigned \subseteq Visitors
    /\ assigned \in [DOMAIN assigned -> Keys \cup {Outside}]
    /\ copies \in [Visitors -> [FUNNEL -> Nat]]
    /\ repeats \in Nat

(* Whatever visitors skipped, no rate is above 1, so Proportion never      *)
(* raises and the z-test never takes the root of a negative number: BF60   *)
(* was a 500 that never cleared (results.py:7-15, stats.py:33-39).         *)
RatesAreRates ==
    \A key \in {ControlKey, VariantKey}, metric \in METRICS :
        read_metric(key, metric) \in Proportion

Call == assemble_results.recommendation
Control == read_metric(ControlKey, PRIMARY_METRIC)
Variant == read_metric(VariantKey, PRIMARY_METRIC)

(* Shipping is earned: both arms reached the sample the hypothesis was     *)
(* powered for, the variant's rate is the higher, and the lift beside the  *)
(* call can be stated (recommendation.py:84-88, 117-124).                  *)
ShippingIsEarned ==
    Call = "SHIP_VARIANT" =>
        /\ Control.trials >= RequiredPerArm /\ Variant.trials >= RequiredPerArm
        /\ Variant.successes * Control.trials > Control.successes * Variant.trials
        /\ Control.successes > 0
=============================================================================

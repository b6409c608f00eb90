------------------------ MODULE ExperimentReadProofs ------------------------
(***************************************************************************)
(* Theorems about the dashboard, for any number of visitors, any keys and  *)
(* any hypothesis: no rate exceeds one, shipping is earned, the banner and *)
(* the lift card agree, and only a first step in an arm moves the page.    *)
(*                                                                         *)
(* The first three rest on TypeOK alone: the counts are cardinalities of   *)
(* subsets of a finite set of visitors, and the numerator's is inside the  *)
(* denominator's.  The last one needs that nobody unknown has rows.        *)
(***************************************************************************)
EXTENDS Dashboard, FiniteSetTheorems, TLAPS

-----------------------------------------------------------------------------
(* The tables hold what TypeOK says after every write.                     *)
THEOREM TypeCorrect == Spec => []TypeOK
<1>1. Init => TypeOK
  BY DEF Init, TypeOK
<1>2. TypeOK /\ [Next]_vars => TypeOK'
  <2> SUFFICES ASSUME TypeOK, [Next]_vars PROVE TypeOK'
    OBVIOUS
  <2>1. CASE UNCHANGED vars
    BY <2>1 DEF TypeOK, vars
  <2>2. ASSUME NEW v \in Visitors, NEW key \in Keys \cup {Outside}, insert_visitor(v, key)
        PROVE  TypeOK'
    <3>1. DOMAIN assigned' = DOMAIN assigned \cup {v}
      BY <2>2 DEF insert_visitor
    <3>2. assigned' \in [DOMAIN assigned' -> Keys \cup {Outside}]
      BY <2>2, <3>1 DEF insert_visitor, TypeOK
    <3> QED BY <2>2, <3>1, <3>2 DEF insert_visitor, TypeOK
  <2>3. ASSUME NEW v \in Visitors, NEW step \in Recordable, insert_event(v, step)
        PROVE  TypeOK'
    <3>1. step \in FUNNEL
      BY ReadAssumption
    <3>2. copies' = [copies EXCEPT ![v] = [copies[v] EXCEPT ![step] = copies[v][step] + 1]]
      BY <2>3 DEF insert_event
    <3>3. [copies[v] EXCEPT ![step] = copies[v][step] + 1] \in [FUNNEL -> Nat]
      BY <3>1 DEF TypeOK
    <3>4. copies' \in [Visitors -> [FUNNEL -> Nat]]
      BY <3>2, <3>3 DEF TypeOK
    <3>5. repeats' \in Nat /\ UNCHANGED assigned
      BY <2>3 DEF insert_event, TypeOK
    <3> QED BY <3>4, <3>5 DEF TypeOK
  <2> QED BY <2>1, <2>2, <2>3 DEF Next
<1> QED BY <1>1, <1>2, PTL DEF Spec

-----------------------------------------------------------------------------
(* What is counted is finite, and a pair is counted within each half.      *)
LEMMA ReachedIsFinite ==
    ASSUME TypeOK, NEW key, NEW step
    PROVE  IsFiniteSet(steps_reached(key, step))
<1>1. steps_reached(key, step) \subseteq Visitors
  BY DEF steps_reached, TypeOK
<1> QED BY <1>1, FS_Subset, ReadAssumption

LEMMA PairsWithinHalves ==
    ASSUME TypeOK, NEW key, NEW step, NEW also
    PROVE  /\ count_visitors(key, step, also) \in Nat
           /\ visitors_at(key, also) \in Nat
           /\ count_visitors(key, step, also) <= visitors_at(key, also)
<1> DEFINE both == steps_reached(key, step) \cap steps_reached(key, also)
           half == steps_reached(key, also) \cap steps_reached(key, also)
<1>1. IsFiniteSet(half) /\ both \subseteq half
  BY ReachedIsFinite
<1>2. IsFiniteSet(both) /\ Cardinality(both) <= Cardinality(half)
  BY <1>1, FS_Subset
<1>3. Cardinality(both) \in Nat /\ Cardinality(half) \in Nat
  BY <1>1, <1>2, FS_CardinalityType
<1> QED BY <1>2, <1>3 DEF count_visitors, visitors_at

LEMMA MetricsAreProportions ==
    ASSUME TypeOK, NEW key, NEW metric \in METRICS
    PROVE  read_metric(key, metric) \in Proportion
BY PairsWithinHalves DEF read_metric, Proportion

(* BF60 cannot come back: in every state the tables can reach, no rate on  *)
(* the dashboard is above one.                                             *)
THEOREM NoRateAboveOne == Spec => []RatesAreRates
<1>1. TypeOK => RatesAreRates
  BY MetricsAreProportions DEF RatesAreRates
<1> QED BY <1>1, TypeCorrect, PTL

-----------------------------------------------------------------------------
(* A positive difference of products is a positive difference of rates.    *)
LEMMA WonIsAhead ==
    ASSUME NEW control \in Proportion, NEW variant \in Proportion, variant_won(control, variant)
    PROVE  variant.successes * control.trials > control.successes * variant.trials
<1> DEFINE ahead == variant.successes * control.trials
           behind == control.successes * variant.trials
<1>1. ahead \in Int /\ behind \in Int
  BY DEF Proportion
<1>2. ahead - behind > 0
  BY DEF variant_won, Difference
<1> HIDE DEF ahead, behind
<1>3. ahead > behind
  BY <1>1, <1>2
<1> QED BY <1>3 DEF ahead, behind

(* The dashboard never says "ship" on less than the hypothesis asked for,  *)
(* for a variant that is behind, or beside a lift nobody can state.        *)
THEOREM ShippingIsAlwaysEarned == Spec => []ShippingIsEarned
<1>1. TypeOK => ShippingIsEarned
  <2> SUFFICES ASSUME TypeOK, Call = "SHIP_VARIANT" PROVE
        /\ Control.trials >= RequiredPerArm /\ Variant.trials >= RequiredPerArm
        /\ Variant.successes * Control.trials > Control.successes * Variant.trials
        /\ Control.successes > 0
    BY DEF ShippingIsEarned
  <2>1. PRIMARY_METRIC \in METRICS
    BY DEF METRICS
  <2>2. Control \in Proportion /\ Variant \in Proportion
    BY <2>1, MetricsAreProportions DEF Control, Variant
  <2>3. Call = recommend(Control, Variant)
    BY <2>1 DEF Call, assemble_results, read_arm, Control, Variant
  <2>4. has_enough_traffic(Control, Variant) /\ variant_won(Control, Variant)
          /\ has_lift(Control, Variant)
    BY <2>3 DEF recommend
  <2> QED BY <2>2, <2>4, WonIsAhead DEF has_enough_traffic, has_lift
<1> QED BY <1>1, TypeCorrect, PTL

-----------------------------------------------------------------------------
(* The page, in terms of the two arms.                                     *)
LEMMA ArmsAreProportions ==
    ASSUME TypeOK
    PROVE  Control \in Proportion /\ Variant \in Proportion /\ Call = recommend(Control, Variant)
<1>1. PRIMARY_METRIC \in METRICS
  BY DEF METRICS
<1> QED BY <1>1, MetricsAreProportions DEF Control, Variant, Call, assemble_results, read_arm

LEMMA SmallerArm ==
    ASSUME NEW a \in Nat, NEW b \in Nat
    PROVE  Min({a, b}) >= RequiredPerArm <=> a >= RequiredPerArm /\ b >= RequiredPerArm
<1>1. \E x \in {a, b} : \A y \in {a, b} : x <= y
  OBVIOUS
<1>2. Min({a, b}) \in {a, b} /\ \A y \in {a, b} : Min({a, b}) <= y
  BY <1>1 DEF Min
<1> QED BY <1>2, ReadAssumption

(* What the translation leaves of the answer.                              *)
LEMMA CallIsKnown ==
    ASSUME TypeOK
    PROVE  Call \in Recommendation /\ recommendationFromWire(Call) = Call
BY ArmsAreProportions DEF recommend, Recommendation, recommendationFromWire

LEMMA ResultOfTheArms ==
    ASSUME TypeOK
    PROVE  /\ ExperimentResult.recommendation = Call
           /\ ExperimentResult.test = OnlyIf(has_test(Control, Variant), ZTest(Control, Variant))
           /\ ExperimentResult.lift = OnlyIf(has_lift(Control, Variant), Lift(Control, Variant))
           /\ ExperimentResult.sample = SampleRead(Control, Variant)
<1>1. Call = recommend(Control, Variant)
  BY ArmsAreProportions
<1>2. /\ fromDTO(Answer).recommendation = recommendationFromWire(Answer.recommendation)
      /\ fromDTO(Answer).test = Answer.test
      /\ fromDTO(Answer).lift = Answer.lift
      /\ fromDTO(Answer).sample = Answer.sample
  BY DEF fromDTO, Answer
<1>3. /\ Answer.recommendation = recommend(Control, Variant)
      /\ Answer.test = OnlyIf(has_test(Control, Variant), ZTest(Control, Variant))
      /\ Answer.lift = OnlyIf(has_lift(Control, Variant), Lift(Control, Variant))
      /\ Answer.sample = SampleRead(Control, Variant)
  BY DEF Answer
<1> QED BY <1>1, <1>2, <1>3, CallIsKnown DEF ExperimentResult

LEMMA EnoughIsBothArms ==
    ASSUME TypeOK
    PROVE  hasEnoughTraffic(ExperimentResult) <=> has_enough_traffic(Control, Variant)
<1>1. Control.trials \in Nat /\ Variant.trials \in Nat
  BY ArmsAreProportions DEF Proportion
<1>2. ExperimentResult.sample = [requiredPerArm |-> RequiredPerArm,
                                 reachedPerArm |-> Min({Control.trials, Variant.trials})]
  BY ResultOfTheArms DEF SampleRead
<1> QED BY <1>1, <1>2, SmallerArm DEF hasEnoughTraffic, has_enough_traffic

(* Whoever is ahead has converted somebody.                                *)
LEMMA AheadHasConverted ==
    ASSUME NEW control \in Proportion, NEW variant \in Proportion, variant_won(control, variant)
    PROVE  variant.successes > 0
<1> SUFFICES ASSUME variant.successes = 0 PROVE FALSE
  BY DEF Proportion
<1>1. variant.successes * control.trials = 0
  BY DEF Proportion
<1>2. control.successes * variant.trials >= 0
  BY DEF Proportion
<1>3. control.successes * variant.trials \in Int
  BY DEF Proportion
<1> QED BY <1>1, <1>2, <1>3 DEF variant_won, Difference

(* The figure of a lift that is stated, and the side of zero it reads on.  *)
LiftReads(control, variant) ==
    formatSignedPercent(Difference(control, variant), control.successes * variant.trials)

LEMMA StatedLift ==
    ASSUME NEW result,
           has_test(Control, Variant), has_lift(Control, Variant),
           result.test = OnlyIf(has_test(Control, Variant), ZTest(Control, Variant)),
           result.lift = OnlyIf(has_lift(Control, Variant), Lift(Control, Variant))
    PROVE  readLift(result) =
               {[value |-> LiftReads(Control, Variant),
                 direction |-> directionOf(relative_lift(Control, Variant).point)]}
<1>1. result.lift = {Lift(Control, Variant)} /\ hasStatistics(result)
  BY DEF OnlyIf, hasStatistics
<1>2. Lift(Control, Variant).relative.point
        = [num |-> Difference(Control, Variant), den |-> Control.successes * Variant.trials]
  BY DEF Lift, relative_lift
<1>3. Lift(Control, Variant).relative.point = relative_lift(Control, Variant).point
  BY DEF Lift
<1> DEFINE read(lift) ==
               [value |-> formatSignedPercent(lift.relative.point.num, lift.relative.point.den),
                direction |-> directionOf(lift.relative.point)]
<1>4. read(Lift(Control, Variant))
        = [value |-> LiftReads(Control, Variant),
           direction |-> directionOf(relative_lift(Control, Variant).point)]
  BY <1>2, <1>3 DEF LiftReads
<1>5. readLift(result) = {read(lift) : lift \in result.lift}
  BY <1>1 DEF readLift
<1> HIDE DEF read
<1> QED BY <1>1, <1>4, <1>5

(* The sign written beside a lift never contradicts the lift: it may be    *)
(* missing, where the figure rounds to zero.                               *)
THEOREM SignsAreTrue ==
    ASSUME NEW num \in Int, NEW den \in Nat \ {0}
    PROVE  /\ num >= 0 => formatSignedPercent(num, den).sign # "-"
           /\ num <= 0 => formatSignedPercent(num, den).sign # "+"
           /\ formatSignedPercent(num, den).sign = "" <=> formatSignedPercent(num, den).tenths = 0
<1> DEFINE a == 2 * (1000 * num) + den
           b == 2 * den
           r == a \div b
<1>1. a \in Int /\ b \in Int /\ b > 0
  OBVIOUS
<1>2. r \in Int /\ b * r <= a /\ a < b * (r + 1)
  BY <1>1, Z3
<1>3. Rounded(1000 * num, den) = r
  BY DEF Rounded
<1>4. num >= 0 => r >= 0
  BY <1>2, Z3
<1>5. num <= 0 => r <= 0
  BY <1>2, Z3
<1> QED BY <1>2, <1>3, <1>4, <1>5 DEF formatSignedPercent

LEMMA LiftSigns ==
    ASSUME NEW control \in Proportion, NEW variant \in Proportion, has_lift(control, variant),
           Difference(control, variant) \in Int
    PROVE  /\ Difference(control, variant) >= 0 => LiftReads(control, variant).sign # "-"
           /\ Difference(control, variant) <= 0 => LiftReads(control, variant).sign # "+"
<1>1. control.successes \in Nat \ {0} /\ variant.trials \in Nat \ {0}
  BY DEF Proportion, has_lift
<1>2. control.successes * variant.trials \in Nat \ {0}
  BY <1>1
<1> HIDE DEF Proportion
<1> QED BY <1>2, SignsAreTrue DEF LiftReads

(* What the dashboard says is what it shows, whatever the tables hold.     *)
THEOREM BannerIsAlwaysTrue == Spec => []BannerIsTrue
<1>1. TypeOK => BannerIsTrue
  <2> SUFFICES ASSUME TypeOK PROVE BannerIsTrue
    OBVIOUS
  <2> DEFINE full == Control.trials >= RequiredPerArm /\ Variant.trials >= RequiredPerArm
             found == has_test(Control, Variant) /\ is_significant(Control, Variant)
             won == variant_won(Control, Variant)
             stated == has_lift(Control, Variant)
  <2>1. Control \in Proportion /\ Variant \in Proportion /\ Call = recommend(Control, Variant)
    BY ArmsAreProportions
  <2>2. Control.trials \in Nat /\ Variant.trials \in Nat /\ Control.successes \in Nat
          /\ Variant.successes \in Nat /\ RequiredPerArm \in Nat
    BY <2>1, ReadAssumption DEF Proportion
  <2>3. SignificantOnFullSample <=> full /\ found
    BY DEF SignificantOnFullSample
  <2>4. hasEnoughTraffic(ExperimentResult) <=> full
    BY EnoughIsBothArms DEF has_enough_traffic
  <2>5. /\ Call \in {"SHIP_VARIANT", "KEEP_CONTROL", "KEEP_RUNNING"}
        /\ Call = "SHIP_VARIANT" <=> full /\ found /\ won /\ stated
        /\ Call = "KEEP_CONTROL" <=> full /\ found /\ ~ won
    BY <2>1 DEF recommend, has_enough_traffic
  <2>6. /\ ExperimentResult.recommendation = Call
        /\ ExperimentResult.test = OnlyIf(has_test(Control, Variant), ZTest(Control, Variant))
        /\ ExperimentResult.lift = OnlyIf(stated, Lift(Control, Variant))
    BY ResultOfTheArms
  <2>7. Difference(Control, Variant) \in Int
    <3> DEFINE a == Variant.successes * Control.trials
               b == Control.successes * Variant.trials
    <3>1. a \in Int /\ b \in Int
      BY <2>2
    <3> QED BY <3>1 DEF Difference
  <2>8. won <=> Difference(Control, Variant) > 0
    BY DEF variant_won
  <2>9. /\ Cards.banner.tone = bannerClassMap[Call]
        /\ Cards.banner.title = formatBannerTitle(ExperimentResult)
        /\ Cards.banner.progress = showsSampleProgress(ExperimentResult)
        /\ Cards.lift = LiftCard(ExperimentResult)
    BY <2>6 DEF Cards, RecommendationBanner
  <2>10. Cards.banner.tone = "ship" =>
           /\ Cards.lift.class = {"up"} /\ SignificantOnFullSample
           /\ \E value \in Cards.lift.value : value.sign # "-"
    <3>1. Cards.banner.tone = "ship" => Call = "SHIP_VARIANT"
      BY <2>5, <2>9 DEF bannerClassMap, Recommendation
    <3>2. SUFFICES ASSUME full, found, won, stated
                   PROVE  /\ Cards.lift.class = {"up"}
                          /\ \E value \in Cards.lift.value : value.sign # "-"
      BY <3>1, <2>3, <2>5
    <3>3. readLift(ExperimentResult) = {[value |-> LiftReads(Control, Variant), direction |-> "up"]}
      BY <3>2, <2>6, <2>8, StatedLift DEF directionOf, relative_lift
    <3>4. LiftReads(Control, Variant).sign # "-"
      BY <3>2, <2>1, <2>7, <2>8, LiftSigns
    <3>5. /\ LiftCard(ExperimentResult).class = {"up"}
          /\ LiftCard(ExperimentResult).value = {LiftReads(Control, Variant)}
      BY <3>3 DEF LiftCard
    <3> QED BY <3>4, <3>5, <2>9
  <2>14. Cards.banner.tone = "stop" => \A value \in Cards.lift.value : value.sign # "+"
    <3>1. Cards.banner.tone = "stop" => ~ won
      BY <2>5, <2>9 DEF bannerClassMap, Recommendation
    <3>2. CASE ~ stated
      <4>1. readLift(ExperimentResult) = {}
        BY <3>2, <2>6 DEF readLift, hasStatistics, OnlyIf
      <4> QED BY <4>1, <2>9 DEF LiftCard
    <3>3. CASE ~ has_test(Control, Variant)
      <4>1. readLift(ExperimentResult) = {}
        BY <3>3, <2>6 DEF readLift, hasStatistics, OnlyIf
      <4> QED BY <4>1, <2>9 DEF LiftCard
    <3>4. CASE stated /\ has_test(Control, Variant) /\ ~ won
      <4>1. LiftReads(Control, Variant).sign # "+"
        BY <3>4, <2>1, <2>7, <2>8, LiftSigns
      <4>2. readLift(ExperimentResult) =
                {[value |-> LiftReads(Control, Variant),
                  direction |-> directionOf(relative_lift(Control, Variant).point)]}
        BY <3>4, <2>6, StatedLift
      <4> QED BY <4>1, <4>2, <2>9 DEF LiftCard
    <3> QED BY <3>1, <3>2, <3>3, <3>4
  <2>11. Cards.banner.tone = "stop" <=> SignificantOnFullSample /\ Difference(Control, Variant) <= 0
    <3>1. Cards.banner.tone = "stop" <=> Call = "KEEP_CONTROL"
      BY <2>5, <2>9 DEF bannerClassMap, Recommendation
    <3>2. ~ won <=> Difference(Control, Variant) <= 0
      BY <2>7, <2>8
    <3> QED BY <3>1, <3>2, <2>3, <2>5
  <2>12. Cards.banner.progress <=> Control.trials < RequiredPerArm \/ Variant.trials < RequiredPerArm
    <3>1. Cards.banner.progress <=> Call = "KEEP_RUNNING" /\ ~ full
      BY <2>4, <2>6, <2>9 DEF showsSampleProgress
    <3>2. ~ full => Call = "KEEP_RUNNING"
      BY <2>5
    <3>3. ~ full <=> Control.trials < RequiredPerArm \/ Variant.trials < RequiredPerArm
      BY <2>2
    <3> QED BY <3>1, <3>2, <3>3
  <2>13. ASSUME Cards.banner.title = "no significant difference", SignificantOnFullSample
         PROVE  Control.successes = 0
    <3>1. Call = "KEEP_RUNNING"
      BY <2>5, <2>6, <2>9, <2>13 DEF formatBannerTitle
    <3>2. won /\ ~ stated
      BY <3>1, <2>3, <2>5, <2>13
    <3>3. Variant.successes > 0
      BY <3>2, <2>1, AheadHasConverted
    <3> QED BY <3>2, <3>3, <2>2 DEF has_lift
  <2> QED BY <2>10, <2>11, <2>12, <2>13, <2>14 DEF BannerIsTrue
<1> QED BY <1>1, TypeCorrect, PTL

-----------------------------------------------------------------------------
(* The answer and the client's model of it.                                *)
LEMMA FunnelSteps ==
    /\ DOMAIN FUNNEL_IN_ORDER = 1..6
    /\ \A i \in DOMAIN FUNNEL_IN_ORDER : FUNNEL_IN_ORDER[i] \in FUNNEL
    /\ \A step \in FUNNEL : stepNameFromWire(step) = step
<1>1. DOMAIN FUNNEL_IN_ORDER = 1..6 /\ \A i \in DOMAIN FUNNEL_IN_ORDER : FUNNEL_IN_ORDER[i] \in FUNNEL
  BY DEF FUNNEL_IN_ORDER, FUNNEL
<1>2. \A step \in FUNNEL : stepNameFromWire(step) = step
  BY DEF stepNameFromWire
<1> QED BY <1>1, <1>2

LEMMA RatesAreKept ==
    ASSUME TypeOK, NEW key, NEW metric \in METRICS
    PROVE  MetricRead(key, metric) \in MetricModel
<1> DEFINE counted == read_metric(key, metric)
           rate == [num |-> counted.successes, den |-> counted.trials]
<1>1. counted.successes \in Nat /\ counted.trials \in Nat
  BY MetricsAreProportions DEF Proportion
<1>2. MetricRead(key, metric)
        = [successes |-> counted.successes, trials |-> counted.trials,
           rate |-> OnlyIf(counted.trials > 0, rate)]
  BY DEF MetricRead
<1> HIDE DEF counted
<1>3. OnlyIf(counted.trials > 0, rate) \in Optional(Fraction)
  BY <1>1 DEF OnlyIf, Optional, Fraction
<1>4. OnlyIf(counted.trials > 0, rate) = {} <=> counted.trials = 0
  <2>1. CASE counted.trials > 0
    <3>1. OnlyIf(counted.trials > 0, rate) = {rate}
      BY <2>1 DEF OnlyIf
    <3> HIDE DEF rate
    <3> QED BY <2>1, <3>1, <1>1
  <2>2. CASE ~ counted.trials > 0
    <3>1. OnlyIf(counted.trials > 0, rate) = {}
      BY <2>2 DEF OnlyIf
    <3> QED BY <2>2, <3>1, <1>1
  <2> QED BY <2>1, <2>2
<1> QED BY <1>1, <1>2, <1>3, <1>4 DEF MetricModel, MetricDTO

LEMMA ArmsAreRead ==
    ASSUME TypeOK, NEW key \in Keys
    PROVE  ArmRead(key) \in ArmDTO /\ armFromDTO(ArmRead(key)) \in ArmModel
<1> DEFINE arm == ArmRead(key)
           step(i) == [name |-> FUNNEL_IN_ORDER[i], visitors |-> visitors_at(key, FUNNEL_IN_ORDER[i])]
<1>1. {PRIMARY_METRIC, SECONDARY_METRIC, GUARDRAIL_METRIC} \subseteq METRICS
  BY DEF METRICS
<1>2. /\ arm.primary \in MetricModel /\ arm.secondary \in MetricModel /\ arm.guardrail \in MetricModel
      /\ arm.key = key /\ arm.steps = [i \in 1..6 |-> step(i)]
  BY <1>1, RatesAreKept, FunnelSteps DEF ArmRead
<1>3. \A i \in 1..6 : step(i) \in StepDTO /\ step(i) \in StepCountModel
  BY FunnelSteps, PairsWithinHalves DEF StepDTO, StepCountModel
<1>4. \A i \in 1..6 : stepFromDTO(step(i)) = step(i)
  BY FunnelSteps DEF stepFromDTO
<1>5. arm = [key |-> key, steps |-> arm.steps, primary |-> arm.primary,
             secondary |-> arm.secondary, guardrail |-> arm.guardrail]
  BY DEF ArmRead
<1>6. arm \in ArmDTO
  <2>1. arm.steps \in Seq(StepDTO)
    BY <1>2, <1>3
  <2>2. arm.primary \in MetricDTO /\ arm.secondary \in MetricDTO /\ arm.guardrail \in MetricDTO
    BY <1>2 DEF MetricModel
  <2> HIDE DEF arm
  <2> QED BY <2>1, <2>2, <1>5 DEF ArmDTO
<1>7. armFromDTO(arm) = arm
  <2>1. [i \in DOMAIN arm.steps |-> stepFromDTO(arm.steps[i])] = arm.steps
    BY <1>2, <1>4
  <2> HIDE DEF arm
  <2> QED BY <2>1, <1>5 DEF armFromDTO
<1>8. arm.steps \in [1..6 -> StepCountModel] /\ \A i \in 1..6 : arm.steps[i].name = FUNNEL_IN_ORDER[i]
  BY <1>2, <1>3
<1> HIDE DEF arm
<1>9. arm \in [key : Keys, steps : [DOMAIN FUNNEL_IN_ORDER -> StepCountModel],
                primary : MetricModel, secondary : MetricModel, guardrail : MetricModel]
  BY <1>2, <1>5, <1>8, FunnelSteps
<1>10. arm \in ArmModel
  BY <1>8, <1>9, FunnelSteps DEF ArmModel
<1> QED BY <1>6, <1>7, <1>10 DEF arm

LEMMA MetricsAreNamed ==
    /\ Answer.metrics.primary \in MetricDefinitionDTO
    /\ Answer.metrics.secondary \in MetricDefinitionDTO
    /\ Answer.metrics.guardrail \in MetricDefinitionDTO
    /\ definitionsFromDTO(Answer.metrics) \in MetricDefinitionsModel
<1>1. \A metric \in METRICS :
          metric \in MetricDefinitionModel /\ metric = [numerator |-> metric.numerator,
                                                      denominator |-> metric.denominator]
  BY DEF METRICS, PRIMARY_METRIC, SECONDARY_METRIC, GUARDRAIL_METRIC, MetricDefinitionModel, FUNNEL
<1>2. \A metric \in METRICS :
          metric \in MetricDefinitionDTO /\ definitionFromDTO(metric) = metric
  BY <1>1, FunnelSteps DEF MetricDefinitionModel, MetricDefinitionDTO, definitionFromDTO
<1>3. /\ Answer.metrics = [primary |-> PRIMARY_METRIC, secondary |-> SECONDARY_METRIC,
                           guardrail |-> GUARDRAIL_METRIC]
      /\ {PRIMARY_METRIC, SECONDARY_METRIC, GUARDRAIL_METRIC} \subseteq METRICS
  BY DEF Answer, METRICS
<1> QED BY <1>1, <1>2, <1>3 DEF definitionsFromDTO, MetricDefinitionsModel

LEMMA EstimatesAreFractions ==
    ASSUME TypeOK
    PROVE  /\ OnlyIf(has_test(Control, Variant), ZTest(Control, Variant)) \in Optional(ZTestModel)
           /\ OnlyIf(has_lift(Control, Variant), Lift(Control, Variant)) \in Optional(LiftModel)
<1> DEFINE gain == Variant.successes * Control.trials
           loss == Control.successes * Variant.trials
<1>1. /\ Control.successes \in Nat /\ Control.trials \in Nat /\ Control.successes <= Control.trials
      /\ Variant.successes \in Nat /\ Variant.trials \in Nat /\ Variant.successes <= Variant.trials
  BY ArmsAreProportions DEF Proportion
<1>2. Difference(Control, Variant) \in Int
  <2>1. gain \in Int /\ loss \in Int
    BY <1>1
  <2> QED BY <2>1 DEF Difference
<1>3. ZTest(Control, Variant) \in ZTestModel
  BY <1>2 DEF ZTest, ZTestModel, ZTestDTO
<1>4. has_lift(Control, Variant) => Lift(Control, Variant) \in LiftModel
  <2> SUFFICES ASSUME has_lift(Control, Variant) PROVE Lift(Control, Variant) \in LiftModel
    OBVIOUS
  <2>1. Control.successes \in Nat \ {0} /\ Control.trials \in Nat \ {0} /\ Variant.trials \in Nat \ {0}
    BY <1>1 DEF has_lift
  <2>2. Control.trials * Variant.trials \in Nat \ {0} /\ Control.successes * Variant.trials \in Nat \ {0}
    BY <2>1
  <2>3. absolute_lift(Control, Variant) \in EstimateModel
    BY <1>2, <2>2 DEF absolute_lift, EstimateModel, EstimateDTO, Fraction
  <2>4. relative_lift(Control, Variant) \in EstimateModel
    BY <1>2, <2>2 DEF relative_lift, EstimateModel, EstimateDTO, Fraction
  <2> QED BY <2>3, <2>4 DEF Lift, LiftModel
<1> QED BY <1>3, <1>4 DEF OnlyIf, Optional

(* Whatever the tables hold, the API's answer is one the client can read:  *)
(* no name in it is refused, no rate is a division by zero, every arm has  *)
(* its six steps in order, and the test and the lift are there or absent   *)
(* as a whole (models/experimentResult/translator.ts, schemas.py:1-6).     *)
AnswerIsUnderstood ==
    Answer \in ExperimentResultDTO /\ ExperimentResult \in ExperimentResultModel

THEOREM AnswerIsAlwaysUnderstood == Spec => []AnswerIsUnderstood
<1>1. TypeOK => AnswerIsUnderstood
  <2> SUFFICES ASSUME TypeOK PROVE AnswerIsUnderstood
    OBVIOUS
  <2> DEFINE result == ExperimentResult
  <2>1. ControlKey \in Keys /\ VariantKey \in Keys
    BY ReadAssumption
  <2>2. Answer.control = ArmRead(ControlKey) /\ Answer.variant = ArmRead(VariantKey)
          /\ Answer.lift = OnlyIf(has_lift(Control, Variant), Lift(Control, Variant))
          /\ Answer.hypothesis = RESULT_SCREEN_TONE
    BY DEF Answer
  <2>3. result = [hypothesis |-> result.hypothesis, metrics |-> result.metrics,
                  control |-> result.control, variant |-> result.variant,
                  test |-> result.test, lift |-> result.lift,
                  sample |-> result.sample, recommendation |-> result.recommendation]
    BY DEF ExperimentResult, fromDTO
  <2>4. /\ result.hypothesis = Answer.hypothesis /\ result.metrics = definitionsFromDTO(Answer.metrics)
        /\ result.control = armFromDTO(Answer.control) /\ result.variant = armFromDTO(Answer.variant)
    BY DEF ExperimentResult, fromDTO, Answer
  <2>5. result.hypothesis \in HypothesisModel
    BY <2>2, <2>4 DEF RESULT_SCREEN_TONE, HypothesisModel, Fraction
  <2>6. result.metrics \in MetricDefinitionsModel
    BY <2>4, MetricsAreNamed
  <2>7. result.control \in ArmModel /\ result.variant \in ArmModel
    BY <2>1, <2>2, <2>4, ArmsAreRead
  <2>8. result.test \in Optional(ZTestModel) /\ result.lift \in Optional(LiftModel)
    BY ResultOfTheArms, EstimatesAreFractions
  <2>9. result.sample \in SampleModel
    <3>1. Control.trials \in Nat /\ Variant.trials \in Nat
      BY ArmsAreProportions DEF Proportion
    <3>2. \E x \in {Control.trials, Variant.trials} : \A y \in {Control.trials, Variant.trials} : x <= y
      BY <3>1
    <3>3. Min({Control.trials, Variant.trials}) \in {Control.trials, Variant.trials}
      BY <3>2 DEF Min
    <3> QED BY <3>1, <3>3, ReadAssumption, ResultOfTheArms DEF SampleRead, SampleModel
  <2>10. result.recommendation \in Recommendation
    BY CallIsKnown, ResultOfTheArms
  <2> HIDE DEF result
  <2>11. result \in ExperimentResultModel
    BY <2>3, <2>5, <2>6, <2>7, <2>8, <2>9, <2>10 DEF ExperimentResultModel
  <2>12. Answer \in ExperimentResultDTO
    <3> DEFINE answer == Answer
    <3>1. answer = [hypothesis |-> answer.hypothesis, metrics |-> answer.metrics,
                    control |-> answer.control, variant |-> answer.variant,
                    test |-> answer.test, lift |-> answer.lift,
                    sample |-> answer.sample, recommendation |-> answer.recommendation]
      BY DEF Answer
    <3>2. answer.hypothesis \in [baselineRate : Fraction, minimumDetectableRelativeLift : Fraction]
      BY <2>2 DEF RESULT_SCREEN_TONE, Fraction
    <3>3. answer.metrics \in [primary : MetricDefinitionDTO, secondary : MetricDefinitionDTO,
                              guardrail : MetricDefinitionDTO]
      BY MetricsAreNamed DEF Answer
    <3>4. answer.control \in ArmDTO /\ answer.variant \in ArmDTO
      BY <2>1, <2>2, ArmsAreRead
    <3>5. answer.test \in Optional(ZTestDTO) /\ answer.lift \in Optional(LiftDTO)
      BY EstimatesAreFractions DEF Answer, ZTestModel, LiftModel, EstimateModel, LiftDTO
    <3>6. answer.sample \in [requiredPerArm : Nat, reachedPerArm : Nat]
      <4>1. answer.sample = result.sample
        BY ResultOfTheArms DEF Answer, result
      <4> QED BY <4>1, <2>9 DEF SampleModel
    <3>7. answer.recommendation \in {"SHIP_VARIANT", "KEEP_CONTROL", "KEEP_RUNNING"}
      BY DEF Answer, recommend
    <3> HIDE DEF answer
    <3>8. answer \in ExperimentResultDTO
      BY <3>1, <3>2, <3>3, <3>4, <3>5, <3>6, <3>7 DEF ExperimentResultDTO
    <3> QED BY <3>8 DEF answer
  <2> QED BY <2>11, <2>12 DEF AnswerIsUnderstood, result
<1> QED BY <1>1, TypeCorrect, PTL

(* The chart is never refused for its series, and no two of its bars are   *)
(* announced alike: the name a screen reader hears tells arm and step      *)
(* apart (charts/FunnelBars.tsx:1-4, FunnelBars.utils.ts:36-38).           *)
BarsAreToldApart ==
    LET series == toFunnelSeries(ExperimentResult)
        rows == FunnelBars(series)
    IN  /\ \A n \in {1, 2} : series[n] \in FunnelSeries
        /\ \A i, j \in DOMAIN FUNNEL_IN_ORDER, n, m \in {1, 2} :
               rows[i].bars[n].name = rows[j].bars[m].name => i = j /\ n = m

LEMMA LabelsDiffer ==
    \A i, j \in DOMAIN FUNNEL_IN_ORDER :
        labelOfStep(FUNNEL_IN_ORDER[i]) = labelOfStep(FUNNEL_IN_ORDER[j]) => i = j
<1>1. /\ labelOfStep("landing_view") = "Landing" /\ labelOfStep("scan_started") = "Scan started"
      /\ labelOfStep("scan_completed") = "Scan completed" /\ labelOfStep("cta_click") = "CTA click"
      /\ labelOfStep("signup_started") = "Sign-up started" /\ labelOfStep("activation") = "Activation"
  BY DEF labelOfStep, stepLabelMap, FUNNEL
<1>2. /\ FUNNEL_IN_ORDER[1] = "landing_view" /\ FUNNEL_IN_ORDER[2] = "scan_started"
      /\ FUNNEL_IN_ORDER[3] = "scan_completed" /\ FUNNEL_IN_ORDER[4] = "cta_click"
      /\ FUNNEL_IN_ORDER[5] = "signup_started" /\ FUNNEL_IN_ORDER[6] = "activation"
  BY DEF FUNNEL_IN_ORDER
<1>3. DOMAIN FUNNEL_IN_ORDER = 1..6
  BY FunnelSteps
<1>4. \A i \in 1..6 : i = 1 \/ i = 2 \/ i = 3 \/ i = 4 \/ i = 5 \/ i = 6
  BY SMT
<1> DEFINE label(i) == labelOfStep(FUNNEL_IN_ORDER[i])
<1>5. /\ label(1) = "Landing" /\ label(2) = "Scan started" /\ label(3) = "Scan completed"
      /\ label(4) = "CTA click" /\ label(5) = "Sign-up started" /\ label(6) = "Activation"
  BY <1>1, <1>2
<1> HIDE DEF label
<1>6. \A i, j \in 1..6 : label(i) = label(j) => i = j
  <2> SUFFICES ASSUME NEW i \in 1..6, NEW j \in 1..6, label(i) = label(j) PROVE i = j
    OBVIOUS
  <2>1. CASE i = 1
    BY <2>1, <1>4, <1>5
  <2>2. CASE i = 2
    BY <2>2, <1>4, <1>5
  <2>3. CASE i = 3
    BY <2>3, <1>4, <1>5
  <2>4. CASE i = 4
    BY <2>4, <1>4, <1>5
  <2>5. CASE i = 5
    BY <2>5, <1>4, <1>5
  <2>6. CASE i = 6
    BY <2>6, <1>4, <1>5
  <2> QED BY <1>4, <2>1, <2>2, <2>3, <2>4, <2>5, <2>6
<1> QED BY <1>3, <1>6 DEF label

LEMMA SeriesOfAnArm ==
    ASSUME NEW arm \in ArmModel
    PROVE  /\ toSeries(arm) \in FunnelSeries
           /\ toSeries(arm).label = arm.key /\ DOMAIN toSeries(arm).steps = 1..6
           /\ \A i \in 1..6 : toSeries(arm).steps[i].label = labelOfStep(FUNNEL_IN_ORDER[i])
<1>1. /\ arm.key \in Keys /\ arm.steps \in [1..6 -> StepCountModel]
      /\ \A i \in 1..6 : arm.steps[i].name = FUNNEL_IN_ORDER[i]
  BY FunnelSteps DEF ArmModel
<1> DEFINE step(i) == [key |-> arm.steps[i].name, label |-> labelOfStep(arm.steps[i].name),
                       value |-> arm.steps[i].visitors]
<1>2. toSeries(arm) = [key |-> arm.key, label |-> arm.key, steps |-> [i \in 1..6 |-> step(i)]]
  BY <1>1 DEF toSeries
<1>3. \A i \in 1..6 : step(i) \in FunnelStep
  BY <1>1 DEF StepCountModel, FunnelStep
<1>4. \A i \in 1..6 : step(i).label = labelOfStep(FUNNEL_IN_ORDER[i])
  BY <1>1
<1> HIDE DEF step
<1>5. [i \in 1..6 |-> step(i)] \in [DOMAIN FUNNEL_IN_ORDER -> FunnelStep]
  BY <1>3, FunnelSteps
<1> QED BY <1>1, <1>2, <1>4, <1>5 DEF FunnelSeries

THEOREM BarsAreAlwaysToldApart == Spec => []BarsAreToldApart
<1>1. TypeOK => BarsAreToldApart
  <2> SUFFICES ASSUME TypeOK PROVE BarsAreToldApart
    OBVIOUS
  <2> DEFINE control == armFromDTO(ArmRead(ControlKey))
             variant == armFromDTO(ArmRead(VariantKey))
             series == toFunnelSeries(ExperimentResult)
  <2>1. control \in ArmModel /\ variant \in ArmModel
    BY ArmsAreRead, ReadAssumption
  <2>2. control.key = ControlKey /\ variant.key = VariantKey
    BY DEF armFromDTO, ArmRead
  <2>3. series = <<toSeries(control), toSeries(variant)>>
    BY DEF toFunnelSeries, ExperimentResult, fromDTO, Answer
  <2> HIDE DEF control, variant, series
  <2>4. /\ series[1] = toSeries(control) /\ series[2] = toSeries(variant)
        /\ Len(series) = 2 /\ DOMAIN series = {1, 2}
    BY <2>3
  <2>5. \A n \in {1, 2} : /\ series[n] \in FunnelSeries /\ DOMAIN series[n].steps = 1..6
                         /\ \A i \in 1..6 : series[n].steps[i].label = labelOfStep(FUNNEL_IN_ORDER[i])
    BY <2>1, <2>4, SeriesOfAnArm
  <2>6. series[1].label = ControlKey /\ series[2].label = VariantKey
    BY <2>1, <2>2, <2>4, SeriesOfAnArm
  <2>7. FunnelBars(series) = toRows(series)
    BY <2>4 DEF FunnelBars, hasTooManySeries, MAX_SERIES
  <2>8. \A i \in 1..6, n \in {1, 2} :
            toRows(series)[i].bars[n].name
                = <<series[n].label, labelOfStep(FUNNEL_IN_ORDER[i]), series[n].steps[i].value>>
    BY <2>4, <2>5 DEF toRows, barOf, describeBar
  <2>9. \A i, j \in 1..6, n, m \in {1, 2} :
            toRows(series)[i].bars[n].name = toRows(series)[j].bars[m].name => i = j /\ n = m
    <3> SUFFICES ASSUME NEW i \in 1..6, NEW j \in 1..6, NEW n \in {1, 2}, NEW m \in {1, 2},
                        toRows(series)[i].bars[n].name = toRows(series)[j].bars[m].name
                 PROVE  i = j /\ n = m
      OBVIOUS
    <3>1. series[n].label = series[m].label
            /\ labelOfStep(FUNNEL_IN_ORDER[i]) = labelOfStep(FUNNEL_IN_ORDER[j])
      <4> DEFINE value(p, k) == series[p].steps[k].value
                 label(k) == labelOfStep(FUNNEL_IN_ORDER[k])
      <4>1. <<series[n].label, label(i), value(n, i)>> = <<series[m].label, label(j), value(m, j)>>
        BY <2>8
      <4> HIDE DEF value, label
      <4>2. series[n].label = series[m].label /\ label(i) = label(j)
        BY <4>1
      <4> QED BY <4>2 DEF label
    <3>2. n = m
      BY <3>1, <2>6, ReadAssumption
    <3>3. i = j
      BY <3>1, LabelsDiffer, FunnelSteps
    <3> QED BY <3>2, <3>3
  <2> DEFINE rows == toRows(series)
  <2> HIDE DEF rows
  <2>10. /\ \A n \in {1, 2} : series[n] \in FunnelSeries
         /\ \A i, j \in DOMAIN FUNNEL_IN_ORDER, n, m \in {1, 2} :
                rows[i].bars[n].name = rows[j].bars[m].name => i = j /\ n = m
    BY <2>5, <2>9, FunnelSteps DEF rows
  <2> QED BY <2>7, <2>10 DEF BarsAreToldApart, series, rows
<1> QED BY <1>1, TypeCorrect, PTL

-----------------------------------------------------------------------------
(* Rows are only ever written for a visitor the API knows.                 *)
NobodyUnknownHasRows ==
    \A v \in Visitors \ DOMAIN assigned : \A step \in FUNNEL : copies[v][step] = 0

LEMMA RowsAreKnown == Spec => []NobodyUnknownHasRows
<1>1. Init => NobodyUnknownHasRows
  BY DEF Init, NobodyUnknownHasRows
<1>2. TypeOK /\ NobodyUnknownHasRows /\ [Next]_vars => NobodyUnknownHasRows'
  <2> SUFFICES ASSUME TypeOK, NobodyUnknownHasRows, [Next]_vars PROVE NobodyUnknownHasRows'
    OBVIOUS
  <2>1. CASE UNCHANGED vars
    BY <2>1 DEF NobodyUnknownHasRows, vars
  <2>2. ASSUME NEW v \in Visitors, NEW key \in Keys \cup {Outside}, insert_visitor(v, key)
        PROVE  NobodyUnknownHasRows'
    <3>1. DOMAIN assigned' = DOMAIN assigned \cup {v} /\ copies' = copies
      BY <2>2 DEF insert_visitor
    <3> QED BY <3>1 DEF NobodyUnknownHasRows
  <2>3. ASSUME NEW v \in Visitors, NEW step \in Recordable, insert_event(v, step)
        PROVE  NobodyUnknownHasRows'
    <3>1. v \in DOMAIN assigned /\ assigned' = assigned
      BY <2>3 DEF insert_event
    <3>2. \A u \in Visitors \ {v} : copies'[u] = copies[u]
      BY <2>3 DEF insert_event, TypeOK
    <3> QED BY <3>1, <3>2 DEF NobodyUnknownHasRows
  <2> QED BY <2>1, <2>2, <2>3 DEF Next
<1> QED BY <1>1, <1>2, TypeCorrect, PTL DEF Spec

(* The arms are a function of who has reached what in them.                *)
LEMMA SamePeopleSameArms ==
    ASSUME \A key \in {ControlKey, VariantKey}, step \in FUNNEL :
               steps_reached(key, step)' = steps_reached(key, step)
    PROVE  UNCHANGED <<ArmRead(ControlKey), ArmRead(VariantKey)>>
<1>1. \A key \in {ControlKey, VariantKey}, step \in FUNNEL, also \in FUNNEL :
          count_visitors(key, step, also)' = count_visitors(key, step, also)
  BY DEF count_visitors
<1>2. \A key \in {ControlKey, VariantKey}, step \in FUNNEL :
          visitors_at(key, step)' = visitors_at(key, step)
  BY <1>1 DEF visitors_at
<1>3. \A metric \in METRICS : metric.numerator \in FUNNEL /\ metric.denominator \in FUNNEL
  BY DEF METRICS, PRIMARY_METRIC, SECONDARY_METRIC, GUARDRAIL_METRIC, FUNNEL
<1>4. \A key \in {ControlKey, VariantKey}, metric \in METRICS :
          read_metric(key, metric)' = read_metric(key, metric)
  BY <1>1, <1>2, <1>3 DEF read_metric
<1>5. \A key \in {ControlKey, VariantKey}, metric \in METRICS :
          MetricRead(key, metric)' = MetricRead(key, metric)
  BY <1>4 DEF MetricRead
<1>6. {PRIMARY_METRIC, SECONDARY_METRIC, GUARDRAIL_METRIC} \subseteq METRICS
  BY DEF METRICS
<1>7. \A i \in DOMAIN FUNNEL_IN_ORDER : FUNNEL_IN_ORDER[i] \in FUNNEL
  BY DEF FUNNEL_IN_ORDER, FUNNEL
<1> QED BY <1>2, <1>5, <1>6, <1>7 DEF ArmRead

(* The page is a function of the two arms: nothing on it moves while they  *)
(* do not.                                                                 *)
THEOREM PageFollowsItsArms ==
    Spec => [][UNCHANGED <<ArmRead(ControlKey), ArmRead(VariantKey)>> => UNCHANGED Cards]_vars
<1>1. ASSUME UNCHANGED <<ArmRead(ControlKey), ArmRead(VariantKey)>> PROVE UNCHANGED Cards
  <2>1. \A key \in {ControlKey, VariantKey} :
            MetricRead(key, PRIMARY_METRIC)' = MetricRead(key, PRIMARY_METRIC)
    BY <1>1 DEF ArmRead
  <2>2. \A key \in {ControlKey, VariantKey} :
            /\ read_metric(key, PRIMARY_METRIC)
                 = [successes |-> MetricRead(key, PRIMARY_METRIC).successes,
                    trials |-> MetricRead(key, PRIMARY_METRIC).trials]
            /\ read_metric(key, PRIMARY_METRIC)'
                 = [successes |-> MetricRead(key, PRIMARY_METRIC)'.successes,
                    trials |-> MetricRead(key, PRIMARY_METRIC)'.trials]
    BY DEF MetricRead, read_metric
  <2>3. Control' = Control /\ Variant' = Variant
    BY <2>1, <2>2 DEF Control, Variant
  <2>4. UNCHANGED Answer
    BY <1>1, <2>3 DEF Answer
  <2> QED BY <2>4 DEF Cards, ExperimentResult
<1> QED BY <1>1, PTL DEF Spec

(* Repeats, third variants, strangers and first visits leave the page as   *)
(* it is.                                                                  *)
THEOREM PageCountsPeople == Spec => OnlyNewPeopleMoveThePage
<1> DEFINE NewPerson == \E v \in DOMAIN assigned :
                            /\ assigned[v] \in {ControlKey, VariantKey}
                            /\ \E step \in FUNNEL : copies[v][step] = 0 /\ copies'[v][step] = 1
<1>1. TypeOK /\ NobodyUnknownHasRows /\ [Next]_vars
        => [NewPerson \/ UNCHANGED <<ArmRead(ControlKey), ArmRead(VariantKey)>>]_vars
  <2> SUFFICES ASSUME TypeOK, NobodyUnknownHasRows, Next, ~ NewPerson
               PROVE  \A key \in {ControlKey, VariantKey}, step \in FUNNEL :
                          steps_reached(key, step)' = steps_reached(key, step)
    BY SamePeopleSameArms
  <2>1. ASSUME NEW v \in Visitors, NEW key \in Keys \cup {Outside}, insert_visitor(v, key),
               NEW arm \in {ControlKey, VariantKey}, NEW step \in FUNNEL
        PROVE  steps_reached(arm, step)' = steps_reached(arm, step)
    <3>1. v \notin DOMAIN assigned /\ copies' = copies /\ DOMAIN assigned' = DOMAIN assigned \cup {v}
            /\ \A u \in DOMAIN assigned : assigned'[u] = assigned[u]
      BY <2>1 DEF insert_visitor
    <3>2. copies[v][step] = 0
      BY <3>1 DEF NobodyUnknownHasRows
    <3> QED BY <3>1, <3>2 DEF steps_reached
  <2>2. ASSUME NEW v \in Visitors, NEW done \in Recordable, insert_event(v, done),
               NEW arm \in {ControlKey, VariantKey}, NEW step \in FUNNEL
        PROVE  steps_reached(arm, step)' = steps_reached(arm, step)
    <3>1. v \in DOMAIN assigned /\ assigned' = assigned /\ done \in FUNNEL
      BY <2>2, ReadAssumption DEF insert_event
    <3>2. copies' = [copies EXCEPT ![v] = [copies[v] EXCEPT ![done] = copies[v][done] + 1]]
      BY <2>2 DEF insert_event
    <3>3. copies[v] \in [FUNNEL -> Nat] /\ copies \in [Visitors -> [FUNNEL -> Nat]]
            /\ DOMAIN assigned \subseteq Visitors
      BY DEF TypeOK
    <3>4. copies'[v][done] = copies[v][done] + 1
      BY <3>1, <3>2, <3>3
    <3>5. copies[v][done] # 0 \/ assigned[v] \notin {ControlKey, VariantKey}
      BY <3>1, <3>4
    <3>6. \A u \in DOMAIN assigned : u # v \/ step # done => copies'[u][step] = copies[u][step]
      BY <3>2, <3>3
    <3>7. copies[v][done] \in Nat
      BY <3>1, <3>3
    <3>8. \A u \in DOMAIN assigned : assigned[u] = arm
              => (copies'[u][step] > 0 <=> copies[u][step] > 0)
      BY <3>4, <3>5, <3>6, <3>7
    <3> QED BY <3>1, <3>8 DEF steps_reached
  <2> QED BY <2>1, <2>2 DEF Next
<1> QED BY <1>1, TypeCorrect, RowsAreKnown, PTL DEF Spec, OnlyNewPeopleMoveThePage
=============================================================================

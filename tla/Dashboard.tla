------------------------------ MODULE Dashboard ------------------------------
(***************************************************************************)
(* What the dashboard shows of the read: the answer on the wire, the       *)
(* client's model of it, the hypothesis, the funnel's bars, the lift card  *)
(* and the banner.  Each is a function of one answer of the API, so the    *)
(* state is ExperimentRead's; the page's own load is in Pages.             *)
(***************************************************************************)
EXTENDS ExperimentRead, Figures, Sequences

-----------------------------------------------------------------------------
(* The wire.  An optional figure is the set of what is there: nothing, or  *)
(* one.  A rate is a fraction; of an estimate the interval is left out,    *)
(* and of a p-value all but its side of ALPHA.  A name is one the API has. *)
Optional(S) == {some \in SUBSET S : \A x, y \in some : x = y}

OnlyIf(condition, x) == IF condition THEN {x} ELSE {}

Fraction == [num : Int, den : Nat \ {0}]

MetricDefinitionDTO == [numerator : FUNNEL, denominator : FUNNEL]

StepDTO == [name : FUNNEL, visitors : Nat]

MetricDTO == [successes : Nat, trials : Nat, rate : Optional(Fraction)]

ArmDTO == [key : Keys, steps : Seq(StepDTO),
           primary : MetricDTO, secondary : MetricDTO, guardrail : MetricDTO]

ZTestDTO == [z : Int, pValue : {"below alpha", "chance"}]

EstimateDTO == [point : Fraction]

LiftDTO == [absolute : EstimateDTO, relative : EstimateDTO]

ExperimentResultDTO ==
    [hypothesis : [baselineRate : Fraction, minimumDetectableRelativeLift : Fraction],
     metrics : [primary : MetricDefinitionDTO, secondary : MetricDefinitionDTO,
                guardrail : MetricDefinitionDTO],
     control : ArmDTO, variant : ArmDTO,
     test : Optional(ZTestDTO), lift : Optional(LiftDTO),
     sample : [requiredPerArm : Nat, reachedPerArm : Nat],
     recommendation : {"SHIP_VARIANT", "KEEP_CONTROL", "KEEP_RUNNING"}]

-----------------------------------------------------------------------------
(* What the API answers.                                                   *)

(* In funnel order, every step: nobody reached it is a zero.               *)
FUNNEL_IN_ORDER == <<"landing_view", "scan_started", "scan_completed", "cta_click",
                     "signup_started", "activation">>

(* 0 of 0 is not a rate of 0.                                              *)
MetricRead(key, metric) ==
    LET counted == read_metric(key, metric)
    IN  [successes |-> counted.successes, trials |-> counted.trials,
         rate |-> OnlyIf(counted.trials > 0,
                         [num |-> counted.successes, den |-> counted.trials])]

ArmRead(key) ==
    [key |-> key,
     steps |-> [i \in DOMAIN FUNNEL_IN_ORDER |->
                   [name |-> FUNNEL_IN_ORDER[i], visitors |-> visitors_at(key, FUNNEL_IN_ORDER[i])]],
     primary |-> MetricRead(key, PRIMARY_METRIC),
     secondary |-> MetricRead(key, SECONDARY_METRIC),
     guardrail |-> MetricRead(key, GUARDRAIL_METRIC)]

(* z in the only thing the page could read of it, its sign.                *)
ZTest(control, variant) ==
    [z |-> Difference(control, variant),
     pValue |-> IF is_significant(control, variant) THEN "below alpha" ELSE "chance"]

absolute_lift(control, variant) ==
    [point |-> [num |-> Difference(control, variant), den |-> control.trials * variant.trials]]

relative_lift(control, variant) ==
    [point |-> [num |-> Difference(control, variant), den |-> control.successes * variant.trials]]

Lift(control, variant) ==
    [absolute |-> absolute_lift(control, variant), relative |-> relative_lift(control, variant)]

RESULT_SCREEN_TONE ==
    [baselineRate |-> [num |-> 8, den |-> 100],
     minimumDetectableRelativeLift |-> [num |-> 20, den |-> 100]]

(* The smaller arm's trials, against the trials every arm must reach.      *)
SampleRead(control, variant) ==
    [requiredPerArm |-> RequiredPerArm,
     reachedPerArm |-> Min({control.trials, variant.trials})]

Answer ==
    LET control == Control
        variant == Variant
    IN  [hypothesis |-> RESULT_SCREEN_TONE,
         metrics |-> [primary |-> PRIMARY_METRIC, secondary |-> SECONDARY_METRIC,
                      guardrail |-> GUARDRAIL_METRIC],
         control |-> ArmRead(ControlKey), variant |-> ArmRead(VariantKey),
         test |-> OnlyIf(has_test(control, variant), ZTest(control, variant)),
         lift |-> OnlyIf(has_lift(control, variant), Lift(control, variant)),
         sample |-> SampleRead(control, variant),
         recommendation |-> recommend(control, variant)]

-----------------------------------------------------------------------------
(* The client's models.                                                    *)
Recommendation == {"SHIP_VARIANT", "KEEP_CONTROL", "KEEP_RUNNING"}

HypothesisModel == [baselineRate : Fraction, minimumDetectableRelativeLift : Fraction]

MetricDefinitionModel == [numerator : FUNNEL, denominator : FUNNEL]

MetricDefinitionsModel ==
    [primary : MetricDefinitionModel, secondary : MetricDefinitionModel,
     guardrail : MetricDefinitionModel]

StepCountModel == [name : FUNNEL, visitors : Nat]

(* The rate is absent, not zero, when nobody reached the denominator.      *)
MetricModel == {metric \in MetricDTO : metric.rate = {} <=> metric.trials = 0}

(* All six steps in funnel order.                                          *)
ArmModel ==
    {arm \in [key : Keys, steps : [DOMAIN FUNNEL_IN_ORDER -> StepCountModel],
               primary : MetricModel, secondary : MetricModel, guardrail : MetricModel] :
        \A i \in DOMAIN FUNNEL_IN_ORDER : arm.steps[i].name = FUNNEL_IN_ORDER[i]}

ZTestModel == ZTestDTO

EstimateModel == EstimateDTO

LiftModel == [absolute : EstimateModel, relative : EstimateModel]

SampleModel == [requiredPerArm : Nat, reachedPerArm : Nat]

(* The test and the lift are absent independently of each other.           *)
ExperimentResultModel ==
    [hypothesis : HypothesisModel, metrics : MetricDefinitionsModel,
     control : ArmModel, variant : ArmModel,
     test : Optional(ZTestModel), lift : Optional(LiftModel),
     sample : SampleModel, recommendation : Recommendation]

-----------------------------------------------------------------------------
(* The translation.  A name or a call the client does not know is refused: *)
(* there is no such member to choose.                                      *)
stepNameFromWire(wire) == CHOOSE name \in FUNNEL : name = wire

recommendationFromWire(wire) == CHOOSE recommendation \in Recommendation : recommendation = wire

definitionFromDTO(dto) ==
    [numerator |-> stepNameFromWire(dto.numerator),
     denominator |-> stepNameFromWire(dto.denominator)]

definitionsFromDTO(dto) ==
    [primary |-> definitionFromDTO(dto.primary), secondary |-> definitionFromDTO(dto.secondary),
     guardrail |-> definitionFromDTO(dto.guardrail)]

stepFromDTO(dto) == [name |-> stepNameFromWire(dto.name), visitors |-> dto.visitors]

armFromDTO(dto) == [dto EXCEPT !.steps = [i \in DOMAIN dto.steps |-> stepFromDTO(dto.steps[i])]]

fromDTO(dto) ==
    [hypothesis |-> dto.hypothesis, metrics |-> definitionsFromDTO(dto.metrics),
     control |-> armFromDTO(dto.control), variant |-> armFromDTO(dto.variant),
     test |-> dto.test, lift |-> dto.lift, sample |-> dto.sample,
     recommendation |-> recommendationFromWire(dto.recommendation)]

(* fetchExperimentResults, when it is answered.                            *)
ExperimentResult == fromDTO(Answer)

hasStatistics(result) == result.test # {} /\ result.lift # {}


(* Mutant: the bar's own comparison is strict.                             *)
hasMoreThanEnoughTraffic(result) == result.sample.reachedPerArm > result.sample.requiredPerArm

hasEnoughTraffic(result) == result.sample.reachedPerArm >= result.sample.requiredPerArm

-----------------------------------------------------------------------------
(* The hypothesis.                                                         *)
formatHypothesisMeta(hypothesis) ==
    [baseline |-> formatShare(hypothesis.baselineRate.num, hypothesis.baselineRate.den),
     lift |-> formatShare(hypothesis.minimumDetectableRelativeLift.num,
                          hypothesis.minimumDetectableRelativeLift.den)]

HypothesisCard(hypothesis) == formatHypothesisMeta(hypothesis)

-----------------------------------------------------------------------------
(* The funnel's bars.                                                      *)
stepLabelMap ==
    [step \in FUNNEL |->
        CASE step = "landing_view" -> "Landing"
          [] step = "scan_started" -> "Scan started"
          [] step = "scan_completed" -> "Scan completed"
          [] step = "cta_click" -> "CTA click"
          [] step = "signup_started" -> "Sign-up started"
          [] step = "activation" -> "Activation"]

labelOfStep(step) == stepLabelMap[step]

MAX_SERIES == 2

FunnelStep == [key : FUNNEL, label : {labelOfStep(step) : step \in FUNNEL}, value : Nat]

FunnelSeries == [key : Keys, label : Keys, steps : [DOMAIN FUNNEL_IN_ORDER -> FunnelStep]]

toSeries(arm) ==
    [key |-> arm.key, label |-> arm.key,
     steps |-> [i \in DOMAIN arm.steps |->
                   [key |-> arm.steps[i].name, label |-> labelOfStep(arm.steps[i].name),
                    value |-> arm.steps[i].visitors]]]

(* Control first, then the variant: colours are assigned by position.      *)
toFunnelSeries(result) == <<toSeries(result.control), toSeries(result.variant)>>

(* Each step against the first one; nobody there is an empty funnel.       *)
shareOfFirst(values) ==
    [i \in DOMAIN values |-> IF values[1] = 0 THEN <<0, 1>> ELSE <<values[i], values[1]>>]

(* The name a screen reader hears.                                         *)
describeBar(seriesLabel, stepLabel, value) == <<seriesLabel, stepLabel, value>>

barOf(series, i) ==
    [seriesKey |-> series.key, stepKey |-> series.steps[i].key,
     share |-> shareOfFirst([j \in DOMAIN series.steps |-> series.steps[j].value])[i],
     name |-> describeBar(series.label, series.steps[i].label, series.steps[i].value)]

(* One row per step of the first series, in it one bar per series.         *)
toRows(series) ==
    [i \in DOMAIN series[1].steps |->
        [label |-> series[1].steps[i].label,
         bars |-> [n \in DOMAIN series |-> barOf(series[n], i)]]]

hasTooManySeries(series) == Len(series) > MAX_SERIES

(* A third series has no colour, and is refused rather than drawn in one.  *)
FunnelBars(series) == IF hasTooManySeries(series) THEN <<>> ELSE toRows(series)

-----------------------------------------------------------------------------
(* The lift card.                                                          *)
directionOf(point) == IF point.num > 0 THEN "up" ELSE IF point.num < 0 THEN "down" ELSE "flat"

(* Nothing when it is unmeasured.                                          *)
readLift(result) ==
    IF hasStatistics(result)
    THEN {[value |-> formatSignedPercent(lift.relative.point.num, lift.relative.point.den),
           direction |-> directionOf(lift.relative.point)] : lift \in result.lift}
    ELSE {}

formatLiftTitle(result) == labelOfStep(result.metrics.primary.numerator)

(* The class the figure wears, and the figure: the dash of no data is none *)
(* and wears the flat class.                                               *)
LiftCard(result) ==
    LET read == readLift(result)
    IN  [title |-> formatLiftTitle(result),
         class |-> IF read = {} THEN {"flat"} ELSE {lift.direction : lift \in read},
         value |-> {lift.value : lift \in read}]

-----------------------------------------------------------------------------
(* The banner.                                                             *)

bannerClassMap ==
    [recommendation \in Recommendation |->
        CASE recommendation = "SHIP_VARIANT" -> "ship"
          [] recommendation = "KEEP_CONTROL" -> "stop"
          [] recommendation = "KEEP_RUNNING" -> "wait"]

formatKeepRunning(result) ==
    IF hasEnoughTraffic(result) THEN "no significant difference" ELSE "waiting for visitors"

formatBannerTitle(result) ==
    CASE result.recommendation = "SHIP_VARIANT" -> "outperforms"
      [] result.recommendation = "KEEP_CONTROL" -> "underperforms"
      [] result.recommendation = "KEEP_RUNNING" -> formatKeepRunning(result)

showsSampleProgress(result) ==
    result.recommendation = "KEEP_RUNNING" /\ ~ hasEnoughTraffic(result)

RecommendationBanner(result) ==
    [tone |-> bannerClassMap[result.recommendation], title |-> formatBannerTitle(result),
     progress |-> showsSampleProgress(result)]

(* The page once the answer is there.                                      *)
Cards ==
    LET result == ExperimentResult
    IN  [hypothesis |-> HypothesisCard(result.hypothesis),
         funnel |-> FunnelBars(toFunnelSeries(result)), lift |-> LiftCard(result),
         banner |-> RecommendationBanner(result)]

-----------------------------------------------------------------------------
(* The banner and the card beside it tell one story.  A banner in the tone *)
(* of shipping stands beside a lift that is stated, up, and never reads as *)
(* a loss; one that stops the experiment says so of every fully sampled,   *)
(* significant loss and of nothing else, with or without a lift (BF61,     *)
(* recommendation.py:84-93), and never beside a lift that reads as a gain; *)
(* the bar is there exactly while the smaller arm is short of its sample   *)
(* (RecommendationBanner.utils.ts:46-49); and "no significant difference"  *)
(* is never said of a difference that was found, but for a control nobody  *)
(* converted in, where the win has no lift to state.                       *)
SignificantOnFullSample ==
    /\ Control.trials >= RequiredPerArm /\ Variant.trials >= RequiredPerArm
    /\ has_test(Control, Variant) /\ is_significant(Control, Variant)

BannerIsTrue ==
    LET page == Cards IN
    /\ page.banner.tone = "ship" =>
         /\ page.lift.class = {"up"} /\ SignificantOnFullSample
         /\ \E value \in page.lift.value : value.sign # "-"
    /\ page.banner.tone = "stop" => \A value \in page.lift.value : value.sign # "+"
    /\ page.banner.tone = "stop"
         <=> SignificantOnFullSample /\ Difference(Control, Variant) <= 0
    /\ page.banner.progress
         <=> Control.trials < RequiredPerArm \/ Variant.trials < RequiredPerArm
    /\ page.banner.title = "no significant difference" /\ SignificantOnFullSample
         => Control.successes = 0

(* A funnel counts people.  No figure of the two arms moves but by         *)
(* somebody in one of them reaching a step for the first time: not a       *)
(* repeated row (experiments/repository.py:27-30), not a third variant's   *)
(* visitor, one without an assignment, or a visit nobody has recorded a    *)
(* step of (results.py:108-110).  The page is a function of the two arms.  *)
OnlyNewPeopleMoveThePage ==
    [][\/ \E v \in DOMAIN assigned :
            /\ assigned[v] \in {ControlKey, VariantKey}
            /\ \E step \in FUNNEL : copies[v][step] = 0 /\ copies'[v][step] = 1
       \/ UNCHANGED <<ArmRead(ControlKey), ArmRead(VariantKey)>>]_vars
=============================================================================

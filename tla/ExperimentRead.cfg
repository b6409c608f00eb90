SPECIFICATION Spec
CONSTANTS
    Visitors = {v1, v2, v3, v4}
    Keys = {calm, urgent, loud}
    ControlKey = calm
    VariantKey = urgent
    loud = loud
    Outside = Outside
    Recordable = {"scan_completed", "cta_click", "activation"}
    MaxRepeats = 1
    RequiredPerArm = 2
    CriticalNum = 1
    CriticalDen = 1
SYMMETRY Symmetry
INVARIANTS RatesAreRates ShippingIsEarned BannerIsTrue
PROPERTIES OnlyNewPeopleMoveThePage
CHECK_DEADLOCK FALSE

SPECIFICATION FairSpec
CONSTANTS
    Tabs = {t1}
    Visitors = {v1, v2, v3}
    Steps = {e1, e2}
    Variants = {calm, urgent}
    Outside = Outside
    NoOne = NoOne
    MaxLoads = 2
    MaxLosses = 1
    MaxLostSteps = 1
    MaxResets = 1
    MaxExpiries = 1
INVARIANTS NoStepIsTurnedAway SentInOrder OneVisitorPerBrowser TaggedAsShown
PROPERTIES QueueDrains
CHECK_DEADLOCK FALSE

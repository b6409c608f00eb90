SPECIFICATION Spec
CONSTANTS
    Tabs = {t1, t2}
    Visitors = {v1, v2, v3}
    Steps = {e1}
    Variants = {calm}
    Outside = Outside
    NoOne = NoOne
    MaxLoads = 2
    MaxLosses = 0
    MaxLostSteps = 0
    MaxResets = 0
    MaxExpiries = 0
INVARIANTS TabsAreOnePerson
CHECK_DEADLOCK FALSE

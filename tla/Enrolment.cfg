SPECIFICATION Spec
CONSTANTS
    calm = calm
    urgent = urgent
    loud = loud
    Keys <- MCKeys
    Splits <- MCSplits
    Seed <- MCSeed
    ControlKey = calm
    Outside = Outside
    None = None
    Visitors = {v1, v2}
    Savers = {s1, s2}
    MaxWrites = 2
SYMMETRY Symmetry
INVARIANTS OrphansOnlyFromTheRace
PROPERTIES SameCopyEveryVisit
CHECK_DEADLOCK FALSE

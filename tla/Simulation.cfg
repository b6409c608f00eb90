SPECIFICATION FairSpec
CONSTANTS
    Visitors = {v1, v2, v3}
    Keys = {calm, urgent, loud}
    ControlKey = calm
    VariantKey = urgent
    Outside = Outside
    Rates = {calm, urgent}
    NoOne = NoOne
    NoVisit = NoVisit
    MAX_FAILED_VISITS = 2
    WalkLengths = {1, 3}
INVARIANTS AnsweredMeansStored FunnelsNarrow HalfFunnelsAreFew
PROPERTIES TablesAreRead RunEnds
CHECK_DEADLOCK FALSE

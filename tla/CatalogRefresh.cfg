SPECIFICATION FairRefreshSpec
CONSTANTS
    n1 = n1
    n2 = n2
    Boot = Boot
    NoOne = NoOne
    Never = Never
    Names <- MCNames
    Payloads <- MCPayloads
    Requests = {r1, r2}
    Times = {0, 1, 2, 3, 4, 5}
    SyncTTL = 3
    RetryInterval = 2
    OutageEnds = 2
    MaxClock = 5
    MaxCrashes = 1
INVARIANTS SingleFlight HibpBudget
PROPERTIES ImplementsStore Heals StaysCurrent
CHECK_DEADLOCK FALSE

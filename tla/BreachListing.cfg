SPECIFICATION FairSpec
CONSTANTS
    a = a
    b = b
    c = c
    all = all
    ac = ac
    Names <- MCNames
    Payloads <- MCPayloads
    Selections <- MCSelections
    Listing <- MCListing
    NoFilters = all
    Times = {0, 1}
    SyncTTL = 1
    Limit = 1
    MaxPage = 4
    MaxRefreshes = 2
    MaxFailures = 1
    MaxLaterFailures = 1
INVARIANTS RowsAnswerTheSelection NoGaps
PROPERTIES ImplementsProvider Recovers
CHECK_DEADLOCK FALSE

SPECIFICATION Spec
CONSTANTS
    none = none
    passwords = passwords
    Texts <- MCTexts
    Queries <- MCQueries
    Trimmed <- MCTrimmed
    DataClasses <- MCDataClasses
    NoQuery = none
    NoClass = none
    NoVariant = none
    SummaryBody <- MCSummaryBody
    Strings <- MCStrings
    YearOf <- MCYearOf
    Offset <- MCOffset
    PASSWORDS_DATA_CLASS = passwords
    adobe = adobe
    null = null
    ReducedMotion = FALSE
INVARIANTS NoHalfAnswer

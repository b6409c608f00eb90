SPECIFICATION Spec
CONSTANTS
    Nobody = Nobody
    Tabs = {t1, t2}
    raise = raise
    lower = lower
    reword = reword
    Edits <- MCEdits
    Weights <- MCWeights
    Typed <- MCTyped
    Seeded <- MCSeeded
    MaxWrites = 2
    MaxReloads = 1
    MaxLosses = 1
    MaxHasty = 1
SYMMETRY Symmetry
INVARIANTS SavedMeansStored AnswersAreTrue
PROPERTIES NoLostUpdate EditsSurviveAnswers
CHECK_DEADLOCK FALSE

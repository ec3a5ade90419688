CONSTANTS
    Workers = {w1, w2}
    Last = 2
    AttemptLimits = {1, 2}
    MaxLosses = 2
SPECIFICATION FairSpec
INVARIANTS
    TypeOK
    OneSubmission
    PaidOnceWithoutRetries
    OrphanedOnlyAfterLoss
PROPERTIES
    InLine
    EveryProductEnds
CHECK_DEADLOCK FALSE

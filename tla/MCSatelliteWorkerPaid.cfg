CONSTANTS
    Workers = {w1}
    Last = 1
    AttemptLimits = {2}
    MaxLosses = 1
SPECIFICATION Spec
INVARIANTS
    PaidOnce
CHECK_DEADLOCK FALSE

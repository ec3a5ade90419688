CONSTANTS
    Callers = {c1, c2}
    Nobody = Nobody
    ServiceTimeouts = {15, 19}
    ConfigureLimit = 2
    ModelTimeout = 14
    RevokeLimit = 2
    Backlog = 2
SPECIFICATION FairSpec
INVARIANTS
    TypeOK
    GpuIsSharedOnlyWhenAbandoned
    NestedIsExclusive
    NestedIsInTime
PROPERTIES
    LockIsReleased

CONSTANTS
    Callers = {c1}
    Nobody = Nobody
    ServiceTimeouts = {15}
    ConfigureLimit = 2
    ModelTimeout = 14
    RevokeLimit = 2
    Backlog = 2
SPECIFICATION Spec
INVARIANTS
    GpuIsExclusive

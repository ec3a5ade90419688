CONSTANTS
    Runners = {r1, r2}
    Kinds = {"incident_day", "event_candidate"}
    Sources = {s1}
    Gaps = {"gap"}
    Queries = 2
    MaxOffset = 1
    MaxSourcePages = 3
    MaxWave = 2
    ZeroYieldWaves = 2
    MaxMishaps = 1
SPECIFICATION FairSpec
INVARIANTS
    TypeOK
    SourcesOnce
    ConvergenceIsEarned
    NothingSilentlyDropped
    PlanIsAccepted
PROPERTIES
    OneAcquisition
    WaveEnds
CHECK_DEADLOCK FALSE

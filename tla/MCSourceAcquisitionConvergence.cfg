CONSTANTS
    Runners = {r1}
    Kinds = {"incident_day"}
    Sources = {s1}
    Gaps = {"gap"}
    Queries = 2
    MaxOffset = 1
    MaxSourcePages = 4
    MaxWave = 2
    ZeroYieldWaves = 2
    MaxMishaps = 0
SPECIFICATION Spec
INVARIANTS
    ConvergedFoundNothing
CHECK_DEADLOCK FALSE

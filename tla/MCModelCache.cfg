CONSTANTS
    p1 = p1
    p2 = p2
    p3 = p3
    Pods = {p1, p2, p3}
    Models = {1, 2, 3}
    Expected <- MCExpected
    AutoPrefetch = {p1, p2}
    MaxMishaps = 3
SPECIFICATION FairSpec
INVARIANTS
    LaunchedIsWhole
    ProvidedIsComplete
PROPERTIES
    NothingIsRepeated
    EveryPodLaunches
CHECK_DEADLOCK FALSE

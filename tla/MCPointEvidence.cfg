CONSTANTS
    k = k
    k2 = k2
    v = v
    g = g
    s = s
    Threads = {k, k2, v, g, s}
    ServiceOf <- MCServiceOf
    Photos = {3}
    Frames = {1, 2}
    MaxMedia = 2
    Candidates = {1, 2}
    MaxRequests = 2
    MaxMishaps = 1
SPECIFICATION FairSpec
INVARIANTS
    NothingFromStaleEvidence
    RefusedOnlyIfDisturbed
PROPERTIES
    AsIfInOneStep
    EveryCandidateIsAssessed
CHECK_DEADLOCK FALSE

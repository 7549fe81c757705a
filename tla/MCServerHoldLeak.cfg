CONSTANTS
    s1 = s1  s2 = s2
    Sessions <- MCSessions
    MaxContexts = 3
    NumWorkers = 2
    MaxSessions = 2
    EagerSessions = FALSE
    MaxConns = 3
    ThreadCounts = {1, 2}
    POI_INVALID = POI_INVALID
    Free = Free
SPECIFICATION Spec
INVARIANT StoppedReleased

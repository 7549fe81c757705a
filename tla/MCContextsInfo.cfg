CONSTANTS
    NCtx = 2
    MaxStops = 2
    MaxInfos = 2
SPECIFICATION Spec
INVARIANT TypeOK
INVARIANT NoStalePoolRead
CHECK_DEADLOCK FALSE

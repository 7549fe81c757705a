CONSTANTS
    Requests <- MCRequests
    HeaderLen = 3
    MaxTransfer = 7
    SendBufSz = 2
    MaxRequests = 2
    MaxCycles = 2
SPECIFICATION Spec
INVARIANT TypeOK
INVARIANT SendReceiveInterlock
INVARIANT CleanReturn
INVARIANT ConnectionLineHonoured
PROPERTY RespondOnce
PROPERTY SessionReturns
PROPERTY ImplementsSessionCycle

CONSTANTS
    Requests <- MCRequests
    HeaderLen = 3
    MaxTransfer = 7
    SendBufSz = 2
    MaxRequests = 2
    MaxCycles = 2
SPECIFICATION Spec
INVARIANT ReadWithinRequest

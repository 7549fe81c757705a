CONSTANTS
    srv1 = srv1  Null = Null
    Srvs <- MCSrvs
    RpcIds <- RequestIds
SPECIFICATION Spec
INVARIANT TypeOK
INVARIANT InvalidHandleRefused
INVARIANT HandlesDense
PROPERTY ExitsOnSignal
CHECK_DEADLOCK FALSE

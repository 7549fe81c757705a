CONSTANTS
    Sessions = {s1, s2}
    Pollers = {portal, rpc}
    MaxTrans = 3
SPECIFICATION Spec
INVARIANT TypeOK
INVARIANT CountedOnce

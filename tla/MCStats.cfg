CONSTANTS
    Sessions = {s1, s2}
    Pollers = {portal}
    MaxTrans = 3
SPECIFICATION Spec
INVARIANT TypeOK
INVARIANT CountedOnce

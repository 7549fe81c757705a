CONSTANTS
    s1 = s1  s2 = s2  s3 = s3  r1 = r1  r2 = r2  t1 = t1  t2 = t2
    NoId = NoId  NoThread = NoThread
    Sessions <- ThreeSessions
    Resources <- MCResources
    Threads <- MCThreads
    Scripts <- WellFormedScripts
SPECIFICATION Spec
PROPERTY LockReturns

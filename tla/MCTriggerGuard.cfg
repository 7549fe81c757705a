CONSTANTS
    s1 = s1
    s2 = s2
    s3 = s3
    Scopes <- MCScopes
    Stopper = Stopper
    NoOwner = NoOwner
SPECIFICATION Spec
INVARIANT TypeOK
INVARIANT GuardExclusion

CONSTANTS
    Proc = {p1, p2, p3}
    None = None
    Orphan = Orphan
    Stale = 1
    StatTries = 0
SPECIFICATION Spec
INVARIANT TypeOK
INVARIANT Exclusion
INVARIANT NoForgottenLock
PROPERTY OrphanBroken

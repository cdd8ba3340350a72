CONSTANTS
    a = a
    b = b
    Reader = r
    Deliverer = {d1}
    OldMail <- MCOldMail
    Torn = Torn
    NoFile = NoFile
    None = None
    Orphan = Orphan
    MaxLet = 2
    MaxSessions = 2
    Stale = 1
    StatTries = 0
SPECIFICATION Spec
INVARIANT TypeOK
INVARIANT TmpMirrorsBox
INVARIANT NoDeliveryDuringRewrite
PROPERTY ImplementsStore
PROPERTY DeliveryEnds

SPECIFICATION Spec
CONSTANTS
    None = None
    Temp = Temp
    a = a
    b = b
    c = c
    d = d
    v = v
    w = w
    s = s
    ab = ab
    cd = cd
    vw = vw
    sole = sole
    Name <- MCName
    File = {ab, cd, vw, sole}
    FileOf <- MCFileOf
    NLink <- MCNLink
    Empty = {vw}
    Lists <- MCLists
    Foreign <- MCForeign
    Wanted <- MCWanted
    Targets <- MCTargets
    Failures = 2
INVARIANT TypeOK
INVARIANT OnTape
INVARIANT StatusTells
INVARIANT NothingLost
INVARIANT NoTempLeft
PROPERTY DataAwaited
CHECK_DEADLOCK FALSE

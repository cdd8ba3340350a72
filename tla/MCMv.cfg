SPECIFICATION Spec
CONSTANTS
    None = None
    d = d
    a = a
    b = b
    e = e
    f = f
    n = n
    o = o
    g = g
    Node <- MCNode
    Up <- MCUp
    Above <- MCAbove
    Kind <- MCKind
    Ino <- MCIno
    Operands <- MCOperands
    Starts <- MCStarts
    Bound <- MCBound
INVARIANT DataSafe
INVARIANT StatusTells
INVARIANT LinksKept
PROPERTY ImplementsMove
PROPERTY Ends
CHECK_DEADLOCK FALSE

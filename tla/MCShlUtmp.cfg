SPECIFICATION Spec
CONSTANTS
    Layer = {a, b}
    Null = Null
    MAXLAYER = 2
    Talking = {}
    Leaving = {}
INVARIANT UtmpRemoved
CHECK_DEADLOCK FALSE

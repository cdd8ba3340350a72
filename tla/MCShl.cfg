SPECIFICATION Spec
CONSTANTS
    Layer = {a, b, c}
    Null = Null
    MAXLAYER = 3
    Talking = {a}
    Leaving = {b}
INVARIANT ListSound
INVARIANT UtmpFollows
CHECK_DEADLOCK FALSE
INVARIANT AwaitReturns

SPECIFICATION Spec
CONSTANTS
    N = 2
    Letters = 2
    Room = 1
    MaxLine = 2
    Inputs <- MCInputs
INVARIANT NothingLost
INVARIANT OutputRight
INVARIANT NoTempLeft
PROPERTY CheckRight
PROPERTY Ends
CHECK_DEADLOCK FALSE

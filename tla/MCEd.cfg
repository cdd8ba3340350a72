SPECIFICATION Spec
CONSTANTS
    Marks = {ma}
    MaxLine = 5
    Nlall = 4
    Grow = 2
    Moves = {0}
    OneLink = TRUE
    MaxCmd = 2
    MaxSignal = 1
INVARIANT UndoKeeps
INVARIANT QuitWarned
INVARIANT HupSaves
PROPERTY WriteSafe
PROPERTY MoveRearranges
PROPERTY MarksStay
PROPERTY GlobalEnds
CHECK_DEADLOCK FALSE

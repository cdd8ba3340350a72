SPECIFICATION Spec
CONSTANTS
    MaxTerms = 1
    MaxStops = 0
INVARIANT KillAfterGrace
CHECK_DEADLOCK FALSE

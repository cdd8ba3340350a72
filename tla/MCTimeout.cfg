SPECIFICATION Spec
CONSTANTS
    MaxTerms = 2
    MaxStops = 1
INVARIANT TypeOK
INVARIANT GraceKept
INVARIANT TimeoutReported
PROPERTY EndNoticed
PROPERTY TimeLimitKept
CHECK_DEADLOCK FALSE

SPECIFICATION Spec
CONSTANTS
    FailureThreshold = 3
    ResetTimeout = 2
    MaxDepth = 3
    MaxRun = 6
    MaxTime = 6
INVARIANT CountsConsecutive
INVARIANT ProbeInFlight
PROPERTY ImplementsFailFast
CHECK_DEADLOCK FALSE

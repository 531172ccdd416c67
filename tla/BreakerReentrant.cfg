SPECIFICATION Spec
CONSTANTS
    FailureThreshold = 1
    ResetTimeout = 2
    MaxDepth = 2
    MaxRun = 3
    MaxTime = 3
PROPERTY OpenUntilTimeout
CHECK_DEADLOCK FALSE

SPECIFICATION CalcSpec
CONSTANTS
    Digits = {0, 2}
    MaxShown = 22
INVARIANT ErrorIsShown
CHECK_DEADLOCK FALSE

SPECIFICATION Spec
CONSTANTS
    Limits = {1, 2}
    Windows = {1, 2}
    Skew = 1
    MaxSendLimit = 3
    MaxClock = 3
    MaxSends = 3
    MaxMisses = 1
INVARIANT SendsCount
CHECK_DEADLOCK FALSE

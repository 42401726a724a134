SPECIFICATION Spec
CONSTANTS
    MaxCredit = 3
    MaxPending = 3
    Buffer = 2
    Rebuffer = 2
    MaxFrames = 6
INVARIANT BodyHasRoom
CHECK_DEADLOCK FALSE

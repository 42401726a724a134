SPECIFICATION FairSpec
CONSTANTS
    MaxCredit = 4
    MaxPending = 3
    Buffer = 4
    Rebuffer = 3
    MaxFrames = 9
INVARIANT WholeAnswerIsPlayed
PROPERTIES KeepsWindow PlaysToTheEnd
CHECK_DEADLOCK FALSE

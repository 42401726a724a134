SPECIFICATION FairSpec
CONSTANTS
    Device = {desk, shelf}
    MaxGenerations = 2
    MaxLeases = 2
INVARIANTS HandoverIsClean LeaseIsWatched
PROPERTIES KeepsTurnOrder LeaseEnds
CONSTRAINT UpToNames
CHECK_DEADLOCK FALSE

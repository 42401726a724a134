SPECIFICATION Spec
CONSTANTS
    Parts = 2
    MaxWrites = 1
    MaxEpoch = 3
    MaxBackups = 2
INVARIANTS DataFitsVersion
PROPERTIES KeepsData RecoverySavesData
CHECK_DEADLOCK FALSE

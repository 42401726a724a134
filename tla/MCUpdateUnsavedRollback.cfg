SPECIFICATION Spec
CONSTANTS
    Parts = 2
    MaxWrites = 1
    MaxEpoch = 3
    MaxBackups = 2
PROPERTIES RollbackSavesData
CHECK_DEADLOCK FALSE

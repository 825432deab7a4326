SPECIFICATION Spec
CONSTANTS
    Keys <- MCKeys
    Tables <- MCTables
    NumLevels = 3
    L0Trigger = 1
    LevelBase = 1
    LevelMult = 2
    MaxFileSize = 1
    MaxCompactions = 2
    MaxFlushJobs = 2
    MaxFlushes = 4
    MaxCrashes = 1
    MaxTs = 2
INVARIANTS
    StorageTypeOK
    LevelsAreSorted
    JobsOwnTheirInputs
    NothingLeftToCompact
PROPERTY ImplementsStorageMap
CHECK_DEADLOCK FALSE

SPECIFICATION Spec
CONSTANTS
    Txns = {t1, t2}
    MaxJobs = 3
    MaxLog = 6
    MaxCrashes = 1
SYMMETRY Symmetry
INVARIANTS
    StartupAccepts
    RecoveredIsSnapshot
    AckedIsRestorable
PROPERTY CheckpointsOnlyGrow
CHECK_DEADLOCK FALSE

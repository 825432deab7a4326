SPECIFICATION Spec
CONSTANTS
    Txns = {t1, t2, t3}
    MaxJobs = 1
    MaxLog = 4
    MaxCrashes = 0
SYMMETRY Symmetry
INVARIANTS
    AckedIsBehindRedo
CHECK_DEADLOCK FALSE

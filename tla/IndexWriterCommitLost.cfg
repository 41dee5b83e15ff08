\* A commit throws, the next one is cut short by a crash
SPECIFICATION Spec
CHECK_DEADLOCK FALSE
CONSTANTS
    MaxCounter = 1
    MaxGeneration = 3
    MaxDelGen = 0
    MaxCrashes = 1
    MaxOpens = 2
    UseCompoundFile = FALSE
    FlushMayFail = FALSE
    MergeMayFail = FALSE
    SegmentsWriteMayFail = TRUE
    DataSyncMayFail = FALSE
    SegmentsSyncMayFail = FALSE
    DeleteMayFail = FALSE
    DeleteAllWhilePending = FALSE
INVARIANTS
    Recoverable

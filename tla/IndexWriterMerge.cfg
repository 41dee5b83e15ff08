SPECIFICATION Spec
CHECK_DEADLOCK FALSE
CONSTANTS
    MaxCounter = 3
    MaxGeneration = 2
    MaxDelGen = 1
    MaxCrashes = 0
    MaxOpens = 1
    UseCompoundFile = TRUE
    FlushMayFail = FALSE
    MergeMayFail = TRUE
    SegmentsWriteMayFail = TRUE
    DataSyncMayFail = FALSE
    SegmentsSyncMayFail = FALSE
    DeleteMayFail = FALSE
    DeleteAllWhilePending = TRUE
INVARIANTS
    TypeOK
    RefCountsExact
    ReferencedFilesExist
    SegmentsUsable
    ClosedLeavesNoGarbage

SPECIFICATION Spec
CHECK_DEADLOCK FALSE
CONSTANTS
    MaxCounter = 2
    MaxGeneration = 3
    MaxDelGen = 0
    MaxCrashes = 1
    MaxOpens = 2
    UseCompoundFile = TRUE
    FlushMayFail = FALSE
    MergeMayFail = FALSE
    SegmentsWriteMayFail = FALSE
    DataSyncMayFail = TRUE
    SegmentsSyncMayFail = FALSE
    DeleteMayFail = FALSE
    DeleteAllWhilePending = FALSE
INVARIANTS
    Recoverable
    CommitPointsDurable
    SnapshotHeld
PROPERTIES
    WriteOnce

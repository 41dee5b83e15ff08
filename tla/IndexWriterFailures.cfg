SPECIFICATION Spec
CHECK_DEADLOCK FALSE
CONSTANTS
    MaxCounter = 1
    MaxGeneration = 3
    MaxDelGen = 0
    MaxCrashes = 0
    MaxOpens = 1
    UseCompoundFile = TRUE
    FlushMayFail = TRUE
    MergeMayFail = TRUE
    SegmentsWriteMayFail = TRUE
    DataSyncMayFail = TRUE
    SegmentsSyncMayFail = TRUE
    DeleteMayFail = TRUE
    DeleteAllWhilePending = FALSE
INVARIANTS
    SyncedIsStable
PROPERTIES
    CommitsAdvance
    LastCommitStays
    ClosedForgetsNothing

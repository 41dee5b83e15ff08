SPECIFICATION Spec
CONSTANTS
    Thread = {t1, t2, t3}
    Calls = {"prepare", "commit", "close"}
    MaxCalls = 1
    MaxSegments = 2
    SyncMayFail = TRUE
    WriteMayFail = TRUE
CHECK_DEADLOCK FALSE
SYMMETRY Symmetry
INVARIANTS TypeOK CommitCovers CommitsSynced
PROPERTIES CommitsNeverRegress SegmentsFileOnce ClosedIsFinal

SPECIFICATION FairSpec
CONSTANTS
    Thread = {t1, t2, t3}
    Calls = {"commit", "close", "rollback"}
    MaxCalls = 1
    MaxSegments = 2
    SyncMayFail = TRUE
    WriteMayFail = TRUE
CHECK_DEADLOCK FALSE
PROPERTY CommitReturns

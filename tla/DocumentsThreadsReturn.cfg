SPECIFICATION FairSpec
CHECK_DEADLOCK FALSE
CONSTANTS
    Thread = {t1, t2}
    Calls = {"add", "update", "delete", "commit", "deleteAll", "close"}
    MaxCalls = 3
    MAX_THREAD_STATE = 2
    QueueSize = 2
    PauseBytes = 1
    ResumeBytes = 0
    MaxBufferedDocs = 2
    MaxBufferedDeletes = 2
    RAMMayFill = TRUE
    DocMayFail = TRUE
    MayAbort = TRUE
    FlushMayFail = TRUE
PROPERTIES
    CallsReturn

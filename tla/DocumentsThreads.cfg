SPECIFICATION Spec
CHECK_DEADLOCK FALSE
SYMMETRY Symmetry
CONSTANTS
    Thread = {t1, t2, t3}
    Calls = {"add", "update", "delete", "commit", "close"}
    MaxCalls = 4
    MAX_THREAD_STATE = 2
    QueueSize = 2
    PauseBytes = 1
    ResumeBytes = 0
    MaxBufferedDocs = 4
    MaxBufferedDeletes = 2
    RAMMayFill = FALSE
    DocMayFail = TRUE
    MayAbort = TRUE
    FlushMayFail = TRUE
INVARIANTS
    TypeOK
    QueueConsistent
    FlushIsDue
PROPERTIES
    BuffersDocuments

SPECIFICATION Spec
CONSTANTS
    Thread = {t1, t2, t3}
    MergeThread = {m1}
    Calls = {"add", "commit", "optimize", "addIndexesNoOptimize", "addIndexes", "close", "waitForMerges"}
    MaxCalls = 3
    Existing = 2
    External <- OneAndOne
    MaxNumSegments = 1
    MergeMayFail = FALSE
    MergeFactor = 2
    MinMergeDocs = 1
    MaxMergeDocs = 100
SYMMETRY ThreadsAlike
INVARIANTS
    TypeOK
    DocsKept
    MergesCanCommit
    NoExternal
PROPERTIES
    OptimizeDone
CHECK_DEADLOCK FALSE

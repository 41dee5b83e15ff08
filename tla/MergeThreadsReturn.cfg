SPECIFICATION FairSpec
CONSTANTS
    Thread = {t1, t2}
    MergeThread = {m1}
    Calls = {"add", "commit", "optimize", "addIndexesNoOptimize", "addIndexes", "deleteAll", "rollback", "close", "closeAbort", "waitForMerges"}
    MaxCalls = 2
    Existing = 2
    External <- OneOfOne
    MaxNumSegments = 1
    MergeMayFail = FALSE
    MergeFactor = 2
    MinMergeDocs = 1
    MaxMergeDocs = 100
PROPERTIES
    MergeCallsReturn
CHECK_DEADLOCK FALSE

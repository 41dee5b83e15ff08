SPECIFICATION Spec
CONSTANTS
    Thread = {t1, t2, t3}
    MergeThread = {m1}
    Calls = {"add", "addIndexesNoOptimize", "rollback"}
    MaxCalls = 3
    Existing = 1
    External <- OneOfOne
    MaxNumSegments = 1
    MergeMayFail = TRUE
    MergeFactor = 2
    MinMergeDocs = 1
    MaxMergeDocs = 100
SYMMETRY ThreadsAlike
INVARIANTS
    DocsKept
    RegistryConsistent
PROPERTIES
    MergesStopped
    RollbackReverts
CHECK_DEADLOCK FALSE

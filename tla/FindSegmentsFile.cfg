\* A reader against a writer that commits, rolls back and keeps a snapshot
SPECIFICATION FairSpec
CONSTANTS
    MaxGeneration = 3
    GenFileRetries = 2
    AtomicListing = FALSE
    Snapshots = TRUE
    CommitMayFail = TRUE
INVARIANTS
    TypeOK
    KeepsLooking
PROPERTIES
    QuietFinds
    NeverStale
    ReaderReturns
CHECK_DEADLOCK FALSE

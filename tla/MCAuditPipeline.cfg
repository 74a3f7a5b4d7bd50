SPECIFICATION FairSpec
CONSTANTS
    Runs = {r1}
    Consumers = {c1, c2}
    NoRun = NoRun
    PruneExpired = TRUE
    LateJobs = FALSE
    MaxDeliveries = 3
    MaxFaults = 3
INVARIANTS
    IInv
    CompleteUntilExpiry
    NoOrphans
PROPERTIES
    OnlyExpiredIsRemoved
    ReplayConverges
    ExpiredIsPruned
    ArchivedInTheEnd

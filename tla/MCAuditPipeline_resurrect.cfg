SPECIFICATION Spec
CONSTANTS
    Runs = {r1}
    Consumers = {c1}
    NoRun = NoRun
    PruneExpired = TRUE
    LateJobs = TRUE
    MaxDeliveries = 1
    MaxFaults = 0
INVARIANTS
    NoOrphans

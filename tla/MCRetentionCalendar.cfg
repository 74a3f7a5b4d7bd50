SPECIFICATION Spec
CONSTANTS
    None = None
    RetentionDays = None
    ArchiveAfterDays = None
    PruneExpired = TRUE
    Uploads <- MCUploads
    MaxTime = 1110
INVARIANT
    RetainedUntil
CHECK_DEADLOCK FALSE

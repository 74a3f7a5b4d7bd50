SPECIFICATION Spec
CONSTANTS
    None = None
    Genesis = "zero"
    Foreign <- MCForeign
    NetworkNames = {"get"}
    TaintTags <- MCTaintTags
    Entrusted <- MCEntrusted
    Digest <- MCDigest
    ForeignHash <- MCForeignHash
    Changed = "changed"
    Manifests <- MCManifests
    Uploads <- MCUploads
    NoMeta <- MCNoMeta
    MaxEvents = 3
    MaxEdits = 1
INVARIANTS
    TamperingShows
    NoFalseAlarm
    RowPerFinding
    ApprovalsAgree
    VerifiedChainScores
PROPERTIES
    CriticalFindingsStand
    RiskNeverImproves
    StatusNeverFalls
CHECK_DEADLOCK FALSE

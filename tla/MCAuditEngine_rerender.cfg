SPECIFICATION Spec
CONSTANTS
    None = None
    Genesis = "zero"
    Foreign <- MCForeign
    NetworkNames = {"get"}
    TaintTags <- MCTaintTags
    Entrusted <- MCEntrusted
    Digest <- MCDigest
    ForeignHash <- MCForeignHash
    Changed = "changed"
    Manifests <- MCManifests
    Uploads <- MCUploads
    NoMeta <- MCNoMeta
    MaxEvents = 3
    MaxEdits = 1
INVARIANTS
    RerenderKeepsStatuses
CHECK_DEADLOCK FALSE

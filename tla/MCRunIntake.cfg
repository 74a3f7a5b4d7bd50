SPECIFICATION Spec
CONSTANTS
    None = None
    NoWindow = NoWindow
    w1 = w1
    w2 = w2
    t1 = t1
    Workers = {w1, w2}
    Tenants = {t1}
    LIMIT_PER_MINUTE = 2
    WINDOW_MS = 2
    RuleIds = {"eas", "ars", "off"}
    DedupeMs = 2
    MaxPerWindow = 2
    RateMs = 2
    Rules <- MCRules
    Targets = {"email"}
    Scores <- MCScores
    Gatekeeper = TRUE
    MaxTime = 3
INVARIANTS
    BurstBounded
    QuietAfterPassing
    ReasonsAreTrue
PROPERTIES
    LimiterPromise
    GateWindow
SYMMETRY Symmetric
CHECK_DEADLOCK FALSE

SPECIFICATION Spec
CONSTANTS
    None = None
    Reports <- MCReport
    ValidityDays = {1}
    MaxEvidenceAge = 1
    MaxClockSkew = 0
    MaxStaleness = 1
    EffectiveDates = {0, 2}
    Expected = {1, 2}
    MaxIssuances = 3
    MaxCopies = 1
    MaxRecords = 1
    MaxTime = 2
INVARIANT
    EvidenceNeverYounger
CHECK_DEADLOCK FALSE

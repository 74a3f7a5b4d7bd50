SPECIFICATION Spec
CONSTANTS
    None = None
    Reports <- MCReports
    ValidityDays = {1}
    MaxEvidenceAge = 1
    MaxClockSkew = 0
    MaxStaleness = 1
    EffectiveDates = {0, 2}
    Expected = {1, 2}
    MaxIssuances = 2
    MaxCopies = 2
    MaxRecords = 1
    MaxTime = 2
INVARIANT
    SummaryIsOfReport
CHECK_DEADLOCK FALSE

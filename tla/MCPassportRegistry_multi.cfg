\* Multi-tenant deployment: unowned passports are refused, two ids can be minted.
SPECIFICATION Spec
CONSTANTS
    Passports = {legacy, new1, new2}
    Legacy = {legacy}
    Tenants = {alice, bob}
    Requests = {r1, r2}
    MultiTenant = TRUE
    DeploymentTenant = alice
    NoTenant = NoTenant
    NoRecord = NoRecord
    LegacyRecord = LegacyRecord
    NoPassport = NoPassport
SYMMETRY RequestSymmetry
INVARIANTS
    RevocationAuthorized
    ReportedIssuanceOwned
    RegistryRevocationSticks
PROPERTIES
    LedgerSpec

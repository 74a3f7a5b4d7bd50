\* A revocation embedded in a legacy document.
SPECIFICATION Spec
CONSTANTS
    Passports = {legacy, new1}
    Legacy = {legacy}
    Tenants = {alice, bob}
    Requests = {r1}
    MultiTenant = FALSE
    DeploymentTenant = alice
    NoTenant = NoTenant
    NoRecord = NoRecord
    LegacyRecord = LegacyRecord
    NoPassport = NoPassport
INVARIANTS
    EmbeddedNeverActive

\* A renewal racing a revocation of the same passport.
SPECIFICATION Spec
CONSTANTS
    Passports = {legacy, new1}
    Legacy = {legacy}
    Tenants = {alice, bob}
    Requests = {r1, r2}
    MultiTenant = FALSE
    DeploymentTenant = alice
    NoTenant = NoTenant
    NoRecord = NoRecord
    LegacyRecord = LegacyRecord
    NoPassport = NoPassport
PROPERTIES
    RenewalNeverFromRevoked

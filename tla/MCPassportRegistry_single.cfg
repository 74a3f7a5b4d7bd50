\* Single-tenant deployment: unowned legacy passports are claimed by the caller.
SPECIFICATION Spec
CONSTANTS
    Passports = {legacy, new1}
    Legacy = {legacy}
    Tenants = {alice, bob}
    Requests = {r1, r2, r3}
    MultiTenant = FALSE
    DeploymentTenant = alice
    NoTenant = NoTenant
    NoRecord = NoRecord
    LegacyRecord = LegacyRecord
    NoPassport = NoPassport
SYMMETRY RequestSymmetry
INVARIANTS
    IInv
    OneRevocationWinner
    RenewalKeepsOwner

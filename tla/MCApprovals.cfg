\* Three requests of two tenants over two approvals, batches of up to two items.
SPECIFICATION Spec
CONSTANTS
    Ids = {a1, a2}
    UnknownId = UnknownId
    Tenants = {alice, bob}
    Requests = {r1, r2, r3}
    NoTenant = NoTenant
    Nobody = Nobody
    MaxItems = 2
SYMMETRY Symmetry
INVARIANT
    ReportedDecisionStands
PROPERTY
    LedgerSpec

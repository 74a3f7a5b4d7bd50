\* Two revocations race on the bitstring.
SPECIFICATION Spec
CONSTANTS
    Agents = {a1, a2}
    Requests = {r1, r2}
    NoAgent = NoAgent
    MaxCount = 3
INVARIANTS
    AckedRevocationListed

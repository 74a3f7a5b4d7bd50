\* Two agents, two concurrent handlers, nine claimed positions: two bytes of the list.
SPECIFICATION Spec
CONSTANTS
    Agents = {a1, a2}
    Requests = {r1, r2}
    NoAgent = NoAgent
    MaxCount = 9
SYMMETRY Symmetry
INVARIANTS
    IInv
    DistinctIndices
    NoFalseRevocation
    OnlyLastCharacterUnserved

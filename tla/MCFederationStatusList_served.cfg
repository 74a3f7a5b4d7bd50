\* One handler at a time: the list as served.
SPECIFICATION Spec
CONSTANTS
    Agents = {a1, a2}
    Requests = {r1}
    NoAgent = NoAgent
    MaxCount = 3
INVARIANTS
    ServedListComplete

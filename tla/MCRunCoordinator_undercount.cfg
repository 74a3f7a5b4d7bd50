SPECIFICATION Spec
CONSTANTS
    None = None
    Chunks = {0, 1, 2, 3}
    MaxUnindexed = 2
    MaxEvictions = 2
PROPERTY
    CountedInTheEnd

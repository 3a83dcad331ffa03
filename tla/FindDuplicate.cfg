CONSTANTS
    i1 = i1
    i2 = i2
    i3 = i3
    i4 = i4
    i5 = i5
    None = None
    Blank = ""
    Ingest = {i1,i2,i3}
    Keyed = {i1,i2,i3}
    Values <- Repeated

SPECIFICATION Spec
INVARIANTS
    ChunksMatch
CHECK_DEADLOCK FALSE

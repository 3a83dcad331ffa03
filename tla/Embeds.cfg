CONSTANTS
    c1 = c1
    c2 = c2
    c3 = c3
    p1 = p1
    p2 = p2
    None = None
    Separator = 0
    ChunkSize = 3
    Overlap = 1
    Call = {c1, c2, c3}
    Kind <- Mixed
    Process = {p1, p2}
    Host <- Hosted
    Documents <- Mixture
    Cut <- CutByChunker
    Model = {"openai", "demo"}
    Demo = "demo"
    FirstModel = "openai"
    MaxConcurrency = 1
    MaxFaults = 1
    MaxExpiries = 1
    MaxRedeploys = 1

SPECIFICATION FairSpec
INVARIANTS
    ChunksHoldDocument
    ChunkBound
    ChunksGetTheirVectors
    CacheSound
PROPERTIES
    Served
CHECK_DEADLOCK FALSE

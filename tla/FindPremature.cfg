CONSTANTS
    p1 = p1
    p2 = p2
    Post = {p1, p2}
    Worker = {w1, w2}
    Kind <- Full
    ExtBlog = {}
    Expected = 2
    BatchSize = 1
    MaxRetries = 1
    MaxCrashes = 0
    MaxSteals = 1
    MaxRedisFaults = 0
    MaxWorkFaults = 0

SPECIFICATION Spec
INVARIANTS
    SnapshotWaitsForAll
CHECK_DEADLOCK FALSE

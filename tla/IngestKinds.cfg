CONSTANTS
    p1 = p1
    p2 = p2
    Post = {p1, p2}
    Worker = {w1, w2}
    Kind <- Mixed
    ExtBlog = {p1}
    Expected = 1
    BatchSize = 2
    MaxRetries = 1
    MaxCrashes = 1
    MaxSteals = 1
    MaxRedisFaults = 1
    MaxWorkFaults = 1

SPECIFICATION FairSpec
INVARIANTS
    PostPublishBound
PROPERTIES
    PostAnalysed
    Drains
CHECK_DEADLOCK FALSE

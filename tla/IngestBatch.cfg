CONSTANTS
    p1 = p1
    p2 = p2
    Post = {p1, p2}
    Worker = {w1, w2}
    Kind <- Full
    ExtBlog = {}
    Expected = 2
    BatchSize = 1
    MaxRetries = 1
    MaxCrashes = 1
    MaxSteals = 1
    MaxRedisFaults = 1
    MaxWorkFaults = 1

SPECIFICATION Spec
SYMMETRY Symmetry
INVARIANTS
    NoPostLost
    SnapshotOwner
    PublishBound
    SourcesCommitted
    BatchNotForgotten
    SnapshotComplete
PROPERTIES
    LockSpec
CHECK_DEADLOCK FALSE

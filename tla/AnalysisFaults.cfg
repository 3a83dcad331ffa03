CONSTANTS
    r1 = r1
    r2 = r2
    r3 = r3
    p1 = p1
    p2 = p2
    None = None
    Request = {r1, r2, r3}
    Process = {p1, p2}
    Kind <- Awaited
    Prefetch = 1
    MaxRetries = 1
    MaxCrashes = 1
    MaxDisconnects = 1
    MaxWorkFaults = 1
    MaxBrokerFaults = 1

SPECIFICATION Spec
SYMMETRY Symmetry
INVARIANTS
    NoRequestLost
    AnalysesBound
    EventsBacked
    StuckBound
CHECK_DEADLOCK FALSE

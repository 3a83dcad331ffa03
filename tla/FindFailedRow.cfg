CONSTANTS
    r1 = r1
    r2 = r2
    r3 = r3
    p1 = p1
    p2 = p2
    None = None
    Request = {r1}
    Process = {p1}
    Kind <- Stored
    Prefetch = 1
    MaxRetries = 1
    MaxCrashes = 0
    MaxDisconnects = 0
    MaxWorkFaults = 2
    MaxBrokerFaults = 0

SPECIFICATION Spec
INVARIANTS
    FailureRecorded
CHECK_DEADLOCK FALSE

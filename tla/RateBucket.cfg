CONSTANTS
    c1 = c1
    c2 = c2
    Client = {c1, c2}
    Skew <- Skewed
    Capacity = 7
    Rate = 2
    Cost = 5
    Margin = 2
    Second = 2
    MaxSkew = 1
    MaxLag = 1
    MaxClock = 8
    MaxRequests = 5

SPECIFICATION Spec
INVARIANTS
    AdmissionBound
    AdmittedOverTime
    RetryAfterExact
CHECK_DEADLOCK FALSE

CONSTANTS
    r1 = r1
    r2 = r2
    r3 = r3
    A = A
    B = B
    Request = {r1, r2, r3}
    Text = {A, B}
    Setting <- Settings
    User = User
    Own = 2
    TopK = 1
    PoolSize = 2
    Permits = 1
    MaxLlmFaults = 1
    MaxDbFaults = 1
    None = None

SPECIFICATION FairSpec
INVARIANTS
    ReadYourAnalysis
    LatestFresh
    AnswersTrue
    ProfileOnce
    CurrentProfile
    ContextBest
PROPERTIES
    AllAnswered
CHECK_DEADLOCK FALSE

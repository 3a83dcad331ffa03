CONSTANTS
    Chat = {c1, c2}
    MaxTokens = 4
    MaxTurns = 1
    MaxUse = 2
    MaxRequests = 4
    MaxResets = 1
    MaxFaults = 1

SPECIFICATION Spec
SYMMETRY Symmetry
INVARIANTS
    LimitOverrun
    HistoryCharged
    SessionExpires
    ResetLeftover
CHECK_DEADLOCK FALSE

CONSTANTS
    p1 = p1
    p2 = p2
    Post = {p1, p2}
    Worker = {w1}
    Kind <- Modes
    ExtBlog = {}
    Expected = 1
    BatchSize = 1
    MaxRetries = 1
    MaxCrashes = 1
    MaxSteals = 0
    MaxRedisFaults = 1
    MaxWorkFaults = 1
    Batch = Batch
    Missing = Missing
    Asked = {p1}
    MaxMessages = 2
    Process = {a1}
    Prefetch = 1
    MaxAnalysisRetries = 1
    MaxAnalysisCrashes = 1
    MaxDisconnects = 1
    MaxAnalysisFaults = 1
    MaxBrokerFaults = 1
    MaxFaults = 1
    NoMessage = NoMessage

SPECIFICATION FairPipeline
INVARIANTS
    FoundWhenAnalysed
PROPERTIES
    DocumentReported
    Answered
    LifeSpec
CHECK_DEADLOCK FALSE

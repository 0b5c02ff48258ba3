SPECIFICATION MCSpec
CONSTANTS
    Requests = {1, 2, 3, 4}
    BufferSize = 1
    BatchSize = 2
    Timestamp <- MCTimestamp
    StatusCode <- MCStatusCode
    WithKey = {1, 2}
    From = 1
    To = 3
    KeyLimit = 1
    PageLimit = 2
INVARIANTS
    TypeOK
    NoSilentLoss
    SummaryBracketed
    PagesSkipNothing
PROPERTIES
    IsLossyQueue
    QueuedIsFlushed
CHECK_DEADLOCK FALSE

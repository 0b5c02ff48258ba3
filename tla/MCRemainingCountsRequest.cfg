SPECIFICATION Spec
CONSTANTS
    Requests = {r1, r2}
    Limit = 2
    Window = 2
    MaxTime = 3
INVARIANT RemainingCountsRequest

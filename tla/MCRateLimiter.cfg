SPECIFICATION MCSpec
CONSTANTS
    Algorithms = {"fixed_window", "sliding_window", "token_bucket"}
    Requests = {r1, r2}
    Limit = 1
    Window = 3
    WindowSeconds = 3
    Token = 2
    MaxTime = 5
    MaxPassed = 6
INVARIANTS
    TypeOK
    WithinWindowLimit
    ResetLeavesWindow
    LetThroughBounded
    RefillAdds
    SequentialSupply
PROPERTIES
    EntriesLastWindow

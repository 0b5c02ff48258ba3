SPECIFICATION Spec
CONSTANTS
    Requests = {r1, r2}
    Configs <- MCConfigs
    DrainTimeout = 2
INVARIANT FailedMeansNotStarted
CHECK_DEADLOCK FALSE

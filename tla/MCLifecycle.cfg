SPECIFICATION FairSpec
CONSTANTS
    Requests = {r1, r2}
    Configs <- MCConfigs
    DrainTimeout = 2
INVARIANTS
    TypeOK
    CheckersStopped
    StoresOutliveRequests
PROPERTY SignalEndsProcess
CHECK_DEADLOCK FALSE

SPECIFICATION FairServiceSpec
CONSTANTS
    Targets <- MCTargets
    CfgMaxFailures <- MCMaxFailures
    CountCap <- MCCountCap
    Requests = {r1}
    Strategies = {"random"}
    IntMax <- MCIntMax
    BreakerMaxFailures <- MCBreakerMaxFailures
    CfgTimeout <- MCTimeout
    CfgHalfOpenSuccess <- MCHalfOpenSuccess
    BreakerCountCap <- MCBreakerMaxFailures
INVARIANTS
    TypeOK
    HealthyIffBelowThreshold
    ListMatchesStatus
PROPERTIES
    ServiceIsProxy
    StopEndsLoop
    DownTargetUnused
    WellServiceServes

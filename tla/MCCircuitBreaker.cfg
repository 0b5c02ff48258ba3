SPECIFICATION BreakerFairSpec
CONSTANTS
    Requests = {c1, c2, c3}
    CfgMaxFailures <- MCMaxFailures
    CfgTimeout <- MCTimeout
    CfgHalfOpenSuccess <- MCHalfOpenSuccess
    CountCap <- MCCountCap
INVARIANTS
    BreakerTypeOK
    ClosedIffBelowThreshold
    OpenSinceLastFailure
PROPERTIES
    KeepsContract
    Recovery

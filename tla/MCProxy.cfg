SPECIFICATION FairSpec
CONSTANTS
    Requests = {r1, r2}
    Targets <- MCTargets
    Strategies = {"round_robin", "random", "least_connections"}
    IntMax <- MCIntMax
    CfgMaxFailures <- MCMaxFailures
    CfgTimeout <- MCTimeout
    CfgHalfOpenSuccess <- MCHalfOpenSuccess
    CountCap <- MCCountCap
INVARIANTS
    TypeOK
    ConnectionsExact
PROPERTIES
    UsesBreaker
    ServiceRecovers

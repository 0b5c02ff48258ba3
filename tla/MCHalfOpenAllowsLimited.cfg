SPECIFICATION TrialsSpec
CONSTANTS
    Requests = {c1, c2, c3}
    CfgMaxFailures <- MCMaxFailures
    CfgTimeout <- MCTimeout
    CfgHalfOpenSuccess <- MCHalfOpenSuccess
    CountCap <- MCCountCap
INVARIANT HalfOpenAllowsLimited

-------------------------- MODULE MCBreakerTrials --------------------------
(* The circuit breaker with a history variable: the calls in progress that were
   admitted in the current half-open period. *)
EXTENDS CircuitBreaker, FiniteSets

VARIABLE trials

MCMaxFailures == 2
MCTimeout == 1
MCHalfOpenSuccess == 1
MCCountCap == 3

TrialsInit == BreakerInit /\ trials = {}

TrialsNext ==
    /\ BreakerNext
    /\ trials' = IF state' = StateHalfOpen
                 THEN (trials \cup (executing' \ executing)) \cap executing'
                 ELSE {}

TrialsSpec == TrialsInit /\ [][TrialsNext]_<<breakerVars, trials>>

(* "StateHalfOpen - testing if service recovered, allow limited requests": a
   half-open circuit tries no more calls at a time than it needs successes. *)
HalfOpenAllowsLimited == Cardinality(trials) <= halfOpenSuccess
=============================================================================

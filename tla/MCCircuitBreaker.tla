-------------------------- MODULE MCCircuitBreaker --------------------------
(* Three concurrent calls against a breaker that opens on the second failure,
   stays open for two units of time and needs two successes to close. *)
EXTENDS CircuitBreaker

MCMaxFailures == 2
MCTimeout == 2
MCHalfOpenSuccess == 2
MCCountCap == 4
=============================================================================

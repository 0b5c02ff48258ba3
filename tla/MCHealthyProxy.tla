--------------------------- MODULE MCHealthyProxy ----------------------------
(* Two targets, the first of them configured twice: nothing in config.validate
   rejects a repeated target. *)
EXTENDS HealthyProxy

MCTargets == <<"a", "b", "a">>
MCMaxFailures == 2
MCCountCap == 2
MCIntMax == 1
MCBreakerMaxFailures == 1
MCTimeout == 1
MCHalfOpenSuccess == 1
=============================================================================

------------------------------ MODULE MCProxy ------------------------------
(* Two targets and an empty one, a breaker that opens on the first failure, a
   3-bit int. *)
EXTENDS Proxy, TLC

MCTargets == <<"a", "b", "">>
MCMaxFailures == 1
MCTimeout == 1
MCHalfOpenSuccess == 1
MCCountCap == 1
MCIntMax == 3
=============================================================================

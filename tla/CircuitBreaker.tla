--------------------------- MODULE CircuitBreaker ---------------------------
(***************************************************************************)
(* The circuit breaker of internal/circuitbreaker.  A call runs fn between *)
(* two critical sections, so it is one action that enters (or is turned    *)
(* away) and one that leaves; every step of another goroutine, Reset and   *)
(* the passing of time may fall between the two.                           *)
(*                                                                         *)
(* The two time stamps are kept as ages.  The code only ever compares      *)
(* time.Since(lastFailureTime) with the timeout, so an age saturates just  *)
(* above the timeout and the model needs no bound on time.  failureCount   *)
(* grows for as long as calls fail; it saturates at CountCap, which is at  *)
(* least maxFailures, the only value it is compared with.                  *)
(***************************************************************************)
EXTENDS Integers

CONSTANTS
    Requests,            \* the goroutines that may be inside Call
    CfgMaxFailures,      \* Config.MaxFailures
    CfgTimeout,          \* Config.Timeout, in clock units
    CfgHalfOpenSuccess,  \* Config.HalfOpenSuccess
    CountCap             \* where the model stops counting failures

StateClosed == "closed"
StateOpen == "open"
StateHalfOpen == "half-open"

(* New: a missing or negative setting is replaced by its default. *)
OrDefault(cfg, default) == IF cfg <= 0 THEN default ELSE cfg
maxFailures == OrDefault(CfgMaxFailures, 5)
timeout == OrDefault(CfgTimeout, 30)
halfOpenSuccess == OrDefault(CfgHalfOpenSuccess, 1)

ASSUME ConfigAssumption ==
    /\ CfgMaxFailures \in Int
    /\ CfgTimeout \in Int
    /\ CfgHalfOpenSuccess \in Int
    /\ CountCap \in Int
    /\ CountCap >= maxFailures

VARIABLES
    state,
    failureCount,
    successCount,
    sinceFailure,   \* time.Since(lastFailureTime)
    sinceChange,    \* time.Since(lastStateChange)
    executing       \* the calls whose fn is running

breakerVars == <<state, failureCount, successCount, sinceFailure, sinceChange, executing>>

LongAgo == timeout + 1
Older(age) == IF age < LongAgo THEN age + 1 ELSE age
Counted(n) == IF n < CountCap THEN n + 1 ELSE n

BreakerInit ==
    /\ state = StateClosed
    /\ failureCount = 0
    /\ successCount = 0
    /\ sinceFailure = LongAgo
    /\ sinceChange = 0
    /\ executing = {}

setState(newState) ==
    /\ state' = newState
    /\ sinceChange' = IF state # newState THEN 0 ELSE sinceChange

-----------------------------------------------------------------------------
(* Call, up to the point where fn runs or ErrCircuitOpen is returned. *)

(* Fault: entering half-open keeps the successes of the last half-open period. *)
AdmitKeepingSuccesses(c) ==
    /\ c \notin executing
    /\ executing' = executing \cup {c}
    /\ \/ state # StateOpen /\ UNCHANGED <<state, sinceChange>>
       \/ state = StateOpen /\ sinceFailure > timeout /\ setState(StateHalfOpen)
    /\ UNCHANGED <<failureCount, successCount, sinceFailure>>

(* Fault: the timeout is compared with >=. *)
AdmitAtTimeout(c) ==
    /\ c \notin executing
    /\ executing' = executing \cup {c}
    /\ \/ state # StateOpen /\ UNCHANGED <<state, successCount, sinceChange>>
       \/ /\ state = StateOpen
          /\ sinceFailure >= timeout
          /\ setState(StateHalfOpen)
          /\ successCount' = 0
    /\ UNCHANGED <<failureCount, sinceFailure>>

Admit(c) ==
    /\ c \notin executing
    /\ executing' = executing \cup {c}
    /\ \/ /\ state # StateOpen
          /\ UNCHANGED <<state, successCount, sinceChange>>
       \/ /\ state = StateOpen
          /\ sinceFailure > timeout
          /\ setState(StateHalfOpen)
          /\ successCount' = 0
    /\ UNCHANGED <<failureCount, sinceFailure>>

Reject(c) ==
    /\ c \notin executing
    /\ state = StateOpen
    /\ sinceFailure <= timeout
    /\ UNCHANGED breakerVars

-----------------------------------------------------------------------------
(* Call, after fn has returned. *)

(* Fault: a failure does not renew lastFailureTime. *)
onFailureUndated ==
    /\ failureCount' = Counted(failureCount)
    /\ sinceFailure' = IF sinceFailure = LongAgo THEN 0 ELSE sinceFailure
    /\ \/ state = StateHalfOpen /\ setState(StateOpen) /\ successCount' = 0
       \/ /\ state # StateHalfOpen
          /\ IF failureCount' >= maxFailures
             THEN setState(StateOpen)
             ELSE UNCHANGED <<state, sinceChange>>
          /\ UNCHANGED successCount

onFailure ==
    /\ failureCount' = Counted(failureCount)
    /\ sinceFailure' = 0
    /\ \/ /\ state = StateHalfOpen
          /\ setState(StateOpen)
          /\ successCount' = 0
       \/ /\ state # StateHalfOpen
          /\ failureCount' >= maxFailures
          /\ setState(StateOpen)
          /\ UNCHANGED successCount
       \/ /\ state # StateHalfOpen
          /\ failureCount' < maxFailures
          /\ UNCHANGED <<state, sinceChange, successCount>>

(* Fault: half-open closes without clearing failureCount. *)
onSuccessKeepingFailures ==
    /\ UNCHANGED sinceFailure
    /\ \/ /\ state = StateHalfOpen
          /\ successCount' = successCount + 1
          /\ IF successCount' >= halfOpenSuccess
             THEN setState(StateClosed)
             ELSE UNCHANGED <<state, sinceChange>>
          /\ UNCHANGED failureCount
       \/ /\ state = StateClosed
          /\ failureCount' = 0
          /\ UNCHANGED <<state, successCount, sinceChange>>
       \/ /\ state = StateOpen
          /\ UNCHANGED <<state, failureCount, successCount, sinceChange>>

(* Fault: successes of the closed state are counted too. *)
onSuccessCountingAll ==
    /\ successCount' = successCount + 1
    /\ UNCHANGED sinceFailure
    /\ \/ /\ state = StateHalfOpen
          /\ successCount' >= halfOpenSuccess
          /\ setState(StateClosed)
          /\ failureCount' = 0
       \/ /\ state = StateHalfOpen
          /\ successCount' < halfOpenSuccess
          /\ UNCHANGED <<state, failureCount, sinceChange>>
       \/ /\ state = StateClosed
          /\ failureCount' = 0
          /\ UNCHANGED <<state, sinceChange>>
       \/ state = StateOpen /\ UNCHANGED <<state, failureCount, sinceChange>>

(* Fault: the last success needed starts the count anew and does not close. *)
onSuccessNotClosing ==
    /\ failureCount' = IF state = StateClosed THEN 0 ELSE failureCount
    /\ successCount' = IF state = StateHalfOpen
                       THEN (successCount + 1) % halfOpenSuccess ELSE successCount
    /\ UNCHANGED <<state, sinceFailure, sinceChange>>

onSuccess ==
    /\ UNCHANGED sinceFailure
    /\ \/ /\ state = StateHalfOpen
          /\ successCount' = successCount + 1
          /\ \/ /\ successCount' >= halfOpenSuccess
                /\ setState(StateClosed)
                /\ failureCount' = 0
             \/ /\ successCount' < halfOpenSuccess
                /\ UNCHANGED <<state, failureCount, sinceChange>>
       \/ /\ state = StateClosed
          /\ failureCount' = 0
          /\ UNCHANGED <<state, successCount, sinceChange>>
       \/ /\ state = StateOpen
          /\ UNCHANGED <<state, failureCount, successCount, sinceChange>>

Return(c) == c \in executing /\ executing' = executing \ {c}
Fail(c) == Return(c) /\ onFailure
Succeed(c) == Return(c) /\ onSuccess

(* fn panics (a proxied body that breaks off): Call unwinds without holding *)
(* the lock and records neither a failure nor a success.                    *)
Panic(c) ==
    /\ Return(c)
    /\ UNCHANGED <<state, failureCount, successCount, sinceFailure, sinceChange>>

-----------------------------------------------------------------------------
Reset ==
    /\ state' = StateClosed
    /\ failureCount' = 0
    /\ successCount' = 0
    /\ sinceChange' = 0
    /\ UNCHANGED <<sinceFailure, executing>>

BreakerTick ==
    /\ sinceFailure' = Older(sinceFailure)
    /\ sinceChange' = Older(sinceChange)
    /\ UNCHANGED <<state, failureCount, successCount, executing>>

BreakerNext ==
    \/ \E c \in Requests : Admit(c) \/ Reject(c) \/ Fail(c) \/ Succeed(c) \/ Panic(c)
    \/ Reset
    \/ BreakerTick

BreakerSpec == BreakerInit /\ [][BreakerNext]_breakerVars

(* Time passes, fn returns (the proxied request ends one way or another) and *)
(* requests keep arriving: the breaker has no timer, so without a call an    *)
(* open circuit stays open.                                                  *)
BreakerFairness ==
    /\ WF_breakerVars(BreakerTick)
    /\ \A c \in Requests :
        /\ WF_breakerVars(Admit(c))
        /\ WF_breakerVars(Fail(c) \/ Succeed(c) \/ Panic(c))

BreakerFairSpec == BreakerSpec /\ BreakerFairness

-----------------------------------------------------------------------------
(* Type invariant.  successCount never exceeds halfOpenSuccess although      *)
(* onSuccess increments it without a bound of its own.                       *)
BreakerTypeOK ==
    /\ state \in {StateClosed, StateOpen, StateHalfOpen}
    /\ failureCount \in 0..CountCap
    /\ successCount \in 0..halfOpenSuccess
    /\ sinceFailure \in 0..LongAgo
    /\ sinceChange \in 0..LongAgo
    /\ executing \subseteq Requests

(* The circuit is closed exactly while fewer than maxFailures failures are   *)
(* on the count, whatever late results of earlier calls onFailure and        *)
(* onSuccess are handed after Reset or a change of state.                    *)
ClosedIffBelowThreshold == state = StateClosed <=> failureCount < maxFailures

(* A half-open circuit still needs at least one success: the successes of an *)
(* earlier half-open period, or of calls that return while it is open, never *)
(* let Call re-enter half-open with the quota already met.                   *)
HalfOpenNeedsSuccess == state = StateHalfOpen => successCount < halfOpenSuccess

(* An open circuit has seen a failure at or after the moment it opened, so   *)
(* the timeout that Call measures from lastFailureTime always covers at      *)
(* least `timeout' of being open; late failures of calls admitted before     *)
(* can only lengthen it, and Reset leaves no stale time stamp that would     *)
(* shorten it.                                                               *)
OpenSinceLastFailure == state = StateOpen => sinceFailure <= sinceChange

(* The breaker keeps the contract of BreakerContract: its states are the     *)
(* gate, and what is left of the timeout of Call is the cool-down.           *)
Contract == INSTANCE BreakerContract WITH
    Calls <- Requests,
    Passing <- StateClosed, Blocking <- StateOpen, Trying <- StateHalfOpen,
    Cooldown <- LongAgo,
    gate <- state,
    cooldown <- IF state = StateOpen THEN LongAgo - sinceFailure ELSE 0,
    inside <- executing

(* Every behaviour of the breaker is one of the contract: an open circuit    *)
(* runs no fn until the timeout has passed since the last failure, and only  *)
(* Reset takes it from open to closed without a half-open period between.    *)
KeepsContract == Contract!ContractSpec

(* If from some point on no call fails, and none panics in a half-open        *)
(* circuit, the circuit closes for good: no combination of late results,      *)
(* resets and half-open periods leaves onSuccess unable to close it while     *)
(* requests keep arriving.  (Only in the half-open state does a panic leave   *)
(* the breaker otherwise than a success may.)                                 *)
Recovery ==
    <>[][~ \E c \in Requests : Fail(c) \/ (state = StateHalfOpen /\ Panic(c))]_breakerVars
    => <>[](state = StateClosed)
=============================================================================

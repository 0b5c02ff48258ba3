----------------------------- MODULE ProxyProofs -----------------------------
(***************************************************************************)
(* The proxy for every list of targets, every number of concurrent         *)
(* requests and every configuration.  First its circuit breaker: the       *)
(* safety of the breaker, and that it keeps the contract of                *)
(* BreakerContract.  Then the proxy: it uses the breaker as the breaker's  *)
(* specification says, so that all this holds of it, and its connection    *)
(* counts are exact.                                                       *)
(***************************************************************************)
EXTENDS Proxy, FiniteSetTheorems, TLAPS

-----------------------------------------------------------------------------
(* The breaker, from ConfigAssumption only: Requests is any set here. *)

(* The inductive invariant.  Neither threshold is inductive alone: that      *)
(* half-open re-opens above maxFailures rests on the failure count surviving *)
(* the whole open period, and closing rests on clearing it.                  *)
BreakerInv ==
    /\ BreakerTypeOK
    /\ ClosedIffBelowThreshold
    /\ HalfOpenNeedsSuccess
    /\ OpenSinceLastFailure

(* New leaves the breaker with positive settings whatever the configuration. *)
LEMMA Settings ==
    /\ maxFailures \in Nat \ {0}
    /\ timeout \in Nat \ {0}
    /\ halfOpenSuccess \in Nat \ {0}
    /\ CountCap \in Nat
    /\ CountCap >= maxFailures
    /\ LongAgo \in Nat
    /\ LongAgo = timeout + 1
BY ConfigAssumption DEF maxFailures, timeout, halfOpenSuccess, OrDefault,
    LongAgo

(* A new breaker satisfies the inductive invariant. *)
LEMMA BreakerInitInv == BreakerInit => BreakerInv
BY Settings DEF BreakerInit, BreakerInv, BreakerTypeOK, ClosedIffBelowThreshold,
    HalfOpenNeedsSuccess, OpenSinceLastFailure, StateClosed, StateOpen,
    StateHalfOpen

(* Entering Call preserves the inductive invariant. *)
LEMMA AdmitInv == ASSUME BreakerInv, NEW c \in Requests, Admit(c) PROVE BreakerInv'
BY Settings DEF Admit, setState, BreakerInv, BreakerTypeOK,
    ClosedIffBelowThreshold, HalfOpenNeedsSuccess, OpenSinceLastFailure,
    StateClosed, StateOpen, StateHalfOpen

(* A failing fn preserves it: the count passes maxFailures only on the way   *)
(* to open, and an open circuit is as old as its last failure.               *)
LEMMA FailInv == ASSUME BreakerInv, NEW c \in Requests, Fail(c) PROVE BreakerInv'
BY Settings DEF Fail, Return, onFailure, setState, Counted, BreakerInv,
    BreakerTypeOK, ClosedIffBelowThreshold, HalfOpenNeedsSuccess,
    OpenSinceLastFailure, StateClosed, StateOpen, StateHalfOpen

(* A succeeding fn preserves it in each of the three states. *)
LEMMA SucceedInv ==
    ASSUME BreakerInv, NEW c \in Requests, Succeed(c) PROVE BreakerInv'
BY Settings DEF Succeed, Return, onSuccess, setState, BreakerInv, BreakerTypeOK,
    ClosedIffBelowThreshold, HalfOpenNeedsSuccess, OpenSinceLastFailure,
    StateClosed, StateOpen, StateHalfOpen

(* Every step of the breaker preserves the inductive invariant. *)
LEMMA BreakerNextInv == BreakerInv /\ [BreakerNext]_breakerVars => BreakerInv'
<1> SUFFICES ASSUME BreakerInv, [BreakerNext]_breakerVars PROVE BreakerInv'
  OBVIOUS
<1> USE Settings DEF BreakerInv, BreakerTypeOK, ClosedIffBelowThreshold,
        HalfOpenNeedsSuccess, OpenSinceLastFailure, StateClosed, StateOpen,
        StateHalfOpen
<1>1. ASSUME NEW c \in Requests, Admit(c) PROVE BreakerInv'
  BY <1>1, AdmitInv
<1>2. ASSUME NEW c \in Requests, Reject(c) PROVE BreakerInv'
  BY <1>2 DEF Reject, breakerVars
<1>3. ASSUME NEW c \in Requests, Fail(c) PROVE BreakerInv'
  BY <1>3, FailInv
<1>4. ASSUME NEW c \in Requests, Succeed(c) PROVE BreakerInv'
  BY <1>4, SucceedInv
<1>5. ASSUME NEW c \in Requests, Panic(c) PROVE BreakerInv'
  BY <1>5 DEF Panic, Return
<1>6. CASE Reset
  BY <1>6 DEF Reset
<1>7. CASE BreakerTick
  BY <1>7 DEF BreakerTick, Older
<1>8. CASE UNCHANGED breakerVars
  BY <1>8 DEF breakerVars
<1>9. QED
  BY <1>1, <1>2, <1>3, <1>4, <1>5, <1>6, <1>7, <1>8 DEF BreakerNext

(* The inductive invariant holds in every reachable state. *)
LEMMA BreakerInvariance == BreakerSpec => []BreakerInv
BY BreakerInitInv, BreakerNextInv, PTL DEF BreakerSpec

(* Type correctness of the breaker. *)
THEOREM BreakerTypeCorrect == BreakerSpec => []BreakerTypeOK
<1>1. BreakerInv => BreakerTypeOK
  BY DEF BreakerInv
<1>2. QED
  BY <1>1, BreakerInvariance, PTL

(* Call, onFailure, onSuccess and Reset keep the circuit closed exactly while *)
(* fewer than maxFailures failures are counted.                               *)
THEOREM ThresholdExact == BreakerSpec => []ClosedIffBelowThreshold
<1>1. BreakerInv => ClosedIffBelowThreshold
  BY DEF BreakerInv
<1>2. QED
  BY <1>1, BreakerInvariance, PTL

(* A half-open circuit never starts with its quota of successes already met.  *)
THEOREM TrialNeeded == BreakerSpec => []HalfOpenNeedsSuccess
<1>1. BreakerInv => HalfOpenNeedsSuccess
  BY DEF BreakerInv
<1>2. QED
  BY <1>1, BreakerInvariance, PTL

(* An open circuit has been open at least as long as the time Call compares   *)
(* with the timeout.                                                          *)
THEOREM OpenForTimeout == BreakerSpec => []OpenSinceLastFailure
<1>1. BreakerInv => OpenSinceLastFailure
  BY DEF BreakerInv
<1>2. QED
  BY <1>1, BreakerInvariance, PTL

-----------------------------------------------------------------------------
(* Every step of the breaker is a step of the contract or leaves gate,        *)
(* cool-down and calls alone.                                                 *)
LEMMA StepKeepsContract ==
    BreakerInv /\ [BreakerNext]_breakerVars =>
    [Contract!ContractNext]_(Contract!contractVars)
<1> SUFFICES ASSUME BreakerInv, [BreakerNext]_breakerVars
             PROVE  [Contract!ContractNext]_(Contract!contractVars)
  OBVIOUS
<1> USE Settings DEF BreakerInv, BreakerTypeOK, StateClosed, StateOpen,
        StateHalfOpen, Contract!contractVars, Contract!ContractNext
<1>1. ASSUME NEW c \in Requests, Admit(c) PROVE Contract!Enter(c)
  BY <1>1 DEF Admit, setState, Contract!Enter
<1>2. ASSUME NEW c \in Requests, Fail(c) PROVE Contract!Leave(c)
  BY <1>2 DEF Fail, Return, onFailure, setState, Contract!Leave, Contract!Block
<1>3. ASSUME NEW c \in Requests, Succeed(c) PROVE Contract!Leave(c)
  BY <1>3 DEF Succeed, Return, onSuccess, setState, Contract!Leave,
      Contract!Block
<1>4. ASSUME NEW c \in Requests, Panic(c) PROVE Contract!Leave(c)
  BY <1>4 DEF Panic, Return, Contract!Leave
<1>5. CASE Reset
  BY <1>5 DEF Reset, Contract!Override
<1>6. CASE BreakerTick
  BY <1>6 DEF BreakerTick, Older, Contract!Elapse
<1>7. CASE UNCHANGED breakerVars \/ \E c \in Requests : Reject(c)
  BY <1>7 DEF breakerVars, Reject
<1>8. QED
  BY <1>1, <1>2, <1>3, <1>4, <1>5, <1>6, <1>7 DEF BreakerNext

(* The circuit breaker implements its contract: no fn runs in an open circuit *)
(* before the timeout has passed, and only Reset closes an open circuit.      *)
THEOREM ContractKept == BreakerSpec => KeepsContract
<1>1. BreakerInit => Contract!ContractInit
  BY DEF BreakerInit, Contract!ContractInit, StateClosed, StateOpen
<1>2. QED
  BY <1>1, StepKeepsContract, BreakerInvariance, PTL DEF BreakerSpec,
      KeepsContract, Contract!ContractSpec

-----------------------------------------------------------------------------
(* The proxy and its breaker. *)

(* Every step of the proxy is a step of its breaker or leaves it alone. *)
LEMMA StepUsesBreaker == [Next]_vars => [BreakerNext]_breakerVars
<1> SUFFICES ASSUME [Next]_vars PROVE [BreakerNext]_breakerVars
  OBVIOUS
<1> USE DEF breakerVars
<1>1. ASSUME NEW r \in Requests, Handle(r) PROVE [BreakerNext]_breakerVars
  <2>1. CASE Forward(r)
    BY <2>1 DEF Forward, BreakerNext
  <2>2. CASE CircuitOpen(r)
    BY <2>2 DEF CircuitOpen, BreakerNext
  <2>3. CASE BackendAnswers(r)
    BY <2>3 DEF BackendAnswers, BreakerNext
  <2>4. CASE \/ CopyHealthyTargets(r) \/ NoHealthyTargets(r) \/ Select(r) \/ SelectsEmpty(r)
             \/ SelectPanics(r) \/ CountConnection(r) \/ DecrementConnection(r)
    BY <2>4 DEF CopyHealthyTargets, NoHealthyTargets, Select, SelectsEmpty, SelectPanics,
        CountConnection, DecrementConnection
  <2>5. QED
    BY <1>1, <2>1, <2>2, <2>3, <2>4 DEF Handle
<1>2. CASE HealthUpdate
  BY <1>2 DEF HealthUpdate
<1>3. CASE ResetBreaker
  BY <1>3 DEF ResetBreaker, BreakerNext
<1>4. CASE Tick
  BY <1>4 DEF Tick, BreakerNext
<1>5. CASE UNCHANGED vars
  BY <1>5 DEF vars
<1>6. QED
  BY <1>1, <1>2, <1>3, <1>4, <1>5 DEF Next

(* The proxy's requests make the breaker do nothing that its own             *)
(* specification does not allow.                                             *)
THEOREM BreakerUsed == Spec => UsesBreaker
<1>1. Init => BreakerInit
  BY DEF Init
<1>2. QED
  BY <1>1, StepUsesBreaker, PTL DEF Spec, UsesBreaker, BreakerSpec

(* The breaker inside the proxy is well typed, by its own theorem. *)
LEMMA BreakerTyped == Spec => []BreakerTypeOK
BY BreakerTypeCorrect, BreakerUsed, PTL DEF UsesBreaker

-----------------------------------------------------------------------------
(* Types of the balancer and of the requests.  A request's target is taken   *)
(* from its copy of the list, and the copy only holds configured entries.    *)
LocalTypeOK == BalancerTypeOK /\ RequestTypeOK

(* Counting up leaves an int, by wrapping around if need be; so does down. *)
LEMMA CountType ==
    /\ \A n \in Int : Incremented(n) \in Int
    /\ \A n \in (-IntMax - 1)..IntMax : Incremented(n) \in (-IntMax - 1)..IntMax
    /\ \A n \in Int : Decremented(n) \in Int
    /\ Decremented(0) = 0
BY BalancerAssumption DEF Incremented, Decremented

(* Whatever the strategy, Next preserves the balancer's types and counts no   *)
(* connection.                                                                *)
LEMMA PickTyped ==
    ASSUME BalancerTypeOK, NEW r \in Requests, NEW i \in list[r], Picks(r, i)
    PROVE  BalancerTypeOK' /\ UNCHANGED <<strategy, connections>>
<1>1. CASE RoundRobinNext(list[r], i)
  BY <1>1, CountType DEF BalancerTypeOK, RoundRobinNext
<1>2. CASE RandomNext(list[r], i) \/ LeastConnectionsNext(list[r], i)
  <2>1. UNCHANGED balancerVars
    BY <1>2 DEF RandomNext, LeastConnectionsNext
  <2>2. QED
    BY <2>1 DEF BalancerTypeOK, balancerVars
<1>3. QED
  BY <1>1, <1>2 DEF Picks

(* Answering a request, and leaving Handle, preserve the types. *)
LEMMA LeaveTyped ==
    ASSUME LocalTypeOK, NEW r \in Requests, Answered(r) \/ Leave(r),
           pc[r] \in {"idle", "selecting"} => Answered(r),
           UNCHANGED <<balancerVars, healthyTargets>>
    PROVE  LocalTypeOK'
BY DEF LocalTypeOK, BalancerTypeOK, RequestTypeOK, balancerVars, Answered, Leave

(* Every step preserves the types. *)
LEMMA NextTyped == LocalTypeOK /\ [Next]_vars => LocalTypeOK'
<1> SUFFICES ASSUME LocalTypeOK, [Next]_vars PROVE LocalTypeOK'
  OBVIOUS
<1> USE BalancerAssumption DEF LocalTypeOK, BalancerTypeOK, RequestTypeOK, balancerVars
<1>1. ASSUME NEW r \in Requests, CopyHealthyTargets(r) PROVE LocalTypeOK'
  BY <1>1 DEF CopyHealthyTargets
<1>2. ASSUME NEW r \in Requests, NoHealthyTargets(r) \/ SelectPanics(r) PROVE LocalTypeOK'
  BY <1>2, LeaveTyped DEF NoHealthyTargets, SelectPanics
<1>3. ASSUME NEW r \in Requests, Select(r) PROVE LocalTypeOK'
  <2>1. PICK i \in list[r] :
            Picks(r, i) /\ Targets[i] # "" /\ target' = [target EXCEPT ![r] = Targets[i]]
    BY <1>3, Zenon DEF Select
  <2>2. Targets[i] \in TargetSet \ {""}
    BY <2>1 DEF TargetSet
  <2>3. BalancerTypeOK'
    BY <2>1, PickTyped
  <2>4. RequestTypeOK'
    BY <1>3, <2>1, <2>2 DEF Select
  <2>5. QED
    BY <2>3, <2>4
<1>4. ASSUME NEW r \in Requests, CountConnection(r) PROVE LocalTypeOK'
  <2>1. connections' \in [TargetSet -> Int]
    BY <1>4, CountType DEF CountConnection, Increment
  <2>2. QED
    BY <1>4, <2>1 DEF CountConnection, Increment
<1>5. ASSUME NEW r \in Requests, Forward(r) PROVE LocalTypeOK'
  BY <1>5 DEF Forward, ReadyToCall
<1>6. ASSUME NEW r \in Requests, CircuitOpen(r) \/ BackendAnswers(r) PROVE LocalTypeOK'
  BY <1>6, LeaveTyped DEF CircuitOpen, ReadyToCall, BackendAnswers
<1>7. ASSUME NEW r \in Requests, DecrementConnection(r) PROVE LocalTypeOK'
  <2>1. connections' \in [TargetSet -> Int]
    BY <1>7, CountType DEF DecrementConnection, Decrement
  <2>2. QED
    BY <1>7, <2>1 DEF DecrementConnection, Decrement, Answered
<1>8. CASE HealthUpdate \/ ResetBreaker \/ Tick
  BY <1>8 DEF HealthUpdate, ResetBreaker, Tick, requestVars
<1>9. CASE UNCHANGED vars
  BY <1>9 DEF vars, requestVars
<1>10. ASSUME NEW r \in Requests, SelectsEmpty(r) PROVE LocalTypeOK'
  <2>1. PICK i \in list[r] : Picks(r, i)
    BY <1>10, Zenon DEF SelectsEmpty
  <2>2. BalancerTypeOK'
    BY <2>1, PickTyped
  <2>3. RequestTypeOK'
    BY <1>10 DEF SelectsEmpty, Answered
  <2>4. QED
    BY <2>2, <2>3
<1>11. QED
  BY <1>1, <1>2, <1>3, <1>4, <1>5, <1>6, <1>7, <1>8, <1>9, <1>10 DEF Next, Handle

(* The types of the balancer and the requests hold in every reachable state. *)
LEMMA LocallyTyped == Spec => []LocalTypeOK
<1>1. Init => LocalTypeOK
  <2>1. 0 \in (-IntMax - 1)..IntMax
    BY BalancerAssumption
  <2>2. Init => BalancerTypeOK
    BY <2>1, 0 \in Int DEF Init, BalancerInit, BalancerTypeOK
  <2>3. Init => RequestTypeOK
    BY DEF Init, RequestTypeOK
  <2>4. QED
    BY <2>2, <2>3 DEF LocalTypeOK
<1>2. QED
  BY <1>1, NextTyped, PTL DEF Spec

(* Type correctness of the proxy: Handle counts, asks the breaker and         *)
(* forwards for configured targets only, and never for the empty one that the *)
(* list may hold.                                                             *)
THEOREM TypeCorrect == Spec => []TypeOK
<1>1. LocalTypeOK /\ BreakerTypeOK => TypeOK
  BY DEF LocalTypeOK, TypeOK
<1>2. QED
  BY <1>1, LocallyTyped, BreakerTyped, PTL

-----------------------------------------------------------------------------
(* The requests connected to a target are finitely many, and as few as int   *)
(* can count.                                                                *)
LEMMA ConnectedBound ==
    ASSUME NEW t \in TargetSet
    PROVE  /\ IsFiniteSet(Connected(t))
           /\ Cardinality(Connected(t)) \in Nat
           /\ Cardinality(Connected(t)) <= IntMax
<1>1. Connected(t) \subseteq Requests
  BY DEF Connected
<1>2. /\ IsFiniteSet(Connected(t))
      /\ Cardinality(Connected(t)) <= Cardinality(Requests)
  BY <1>1, ProxyAssumption, FS_Subset
<1>3. Cardinality(Connected(t)) \in Nat /\ Cardinality(Requests) \in Nat
  BY <1>2, ProxyAssumption, FS_CardinalityType
<1>4. QED
  BY <1>2, <1>3, ProxyAssumption, BalancerAssumption

(* Steps that neither count nor uncount a connection leave the sets of        *)
(* connected requests, and so the counts, as they are.                        *)
LEMMA SameConnections ==
    ASSUME ConnectionsExact, UNCHANGED connections,
           \A t \in TargetSet : Connected(t)' = Connected(t)
    PROVE  ConnectionsExact'
BY DEF ConnectionsExact

(* lc.Increment adds the request to those connected to its target.            *)
LEMMA CountExact ==
    ASSUME LocalTypeOK, ConnectionsExact, NEW r \in Requests, CountConnection(r)
    PROVE  ConnectionsExact'
<1>0. PICK t \in TargetSet : t = target[r]
  BY DEF LocalTypeOK, RequestTypeOK, CountConnection
<1>1. /\ connections \in [TargetSet -> Int]
      /\ connections' = [connections EXCEPT ![t] = Incremented(connections[t])]
  BY <1>0 DEF LocalTypeOK, BalancerTypeOK, RequestTypeOK, CountConnection, Increment
<1>2. /\ r \notin Connected(t)
      /\ Connected(t)' = Connected(t) \cup {r}
      /\ \A u \in TargetSet \ {t} : Connected(u)' = Connected(u)
  BY <1>0 DEF LocalTypeOK, RequestTypeOK, CountConnection, Increment, Connected
<1>3. Cardinality(Connected(t)') = Cardinality(Connected(t)) + 1
  <2>1. IsFiniteSet(Connected(t))
    BY ConnectedBound
  <2>2. QED
    BY <1>2, <2>1, FS_AddElement
<1>4. Cardinality(Connected(t)) + 1 <= IntMax
  <2>1. Connected(t)' \subseteq Requests
    BY DEF Connected
  <2>2. Cardinality(Connected(t)') <= Cardinality(Requests)
    BY <2>1, ProxyAssumption, FS_Subset
  <2>3. Cardinality(Requests) \in Nat
    BY ProxyAssumption, FS_CardinalityType
  <2>4. QED
    BY <1>1, <1>3, <2>2, <2>3, ProxyAssumption, BalancerAssumption, ConnectedBound
<1>5. connections'[t] = Cardinality(Connected(t)')
  BY <1>1, <1>3, <1>4, BalancerAssumption, ConnectedBound DEF ConnectionsExact, Incremented
<1>6. ASSUME NEW u \in TargetSet \ {t} PROVE connections'[u] = Cardinality(Connected(u)')
  BY <1>1, <1>2 DEF ConnectionsExact
<1>7. QED
  BY <1>5, <1>6 DEF ConnectionsExact

(* The deferred lc.Decrement takes it out again, and finds a count above 0.   *)
LEMMA UncountExact ==
    ASSUME LocalTypeOK, ConnectionsExact, NEW r \in Requests, DecrementConnection(r),
           strategy = "least_connections"
    PROVE  ConnectionsExact'
<1>0. PICK t \in TargetSet : t = target[r]
  BY DEF LocalTypeOK, RequestTypeOK, DecrementConnection
<1>1. /\ connections \in [TargetSet -> Int]
      /\ connections' = [connections EXCEPT ![t] = Decremented(connections[t])]
  BY <1>0 DEF LocalTypeOK, BalancerTypeOK, RequestTypeOK, DecrementConnection, Decrement
<1>2. /\ r \in Connected(t)
      /\ Connected(t)' = Connected(t) \ {r}
      /\ \A u \in TargetSet \ {t} : Connected(u)' = Connected(u)
  BY <1>0 DEF LocalTypeOK, RequestTypeOK, DecrementConnection, Decrement, Answered,
      Connected
<1>3. Cardinality(Connected(t)') = Cardinality(Connected(t)) - 1
  BY <1>1, <1>2, ConnectedBound, FS_RemoveElement
<1>4. Cardinality(Connected(t)) > 0
  BY <1>1, <1>2, ConnectedBound, FS_EmptySet
<1>5. connections'[t] = Cardinality(Connected(t)')
  BY <1>1, <1>3, <1>4, ConnectedBound DEF ConnectionsExact, Decremented
<1>6. ASSUME NEW u \in TargetSet \ {t} PROVE connections'[u] = Cardinality(Connected(u)')
  BY <1>1, <1>2 DEF ConnectionsExact
<1>7. QED
  BY <1>5, <1>6 DEF ConnectionsExact

(* Every step keeps the counts exact. *)
LEMMA NextExact == LocalTypeOK /\ ConnectionsExact /\ [Next]_vars => ConnectionsExact'
<1> SUFFICES ASSUME LocalTypeOK, ConnectionsExact, [Next]_vars PROVE ConnectionsExact'
  OBVIOUS
<1> USE DEF LocalTypeOK, RequestTypeOK, balancerVars
<1>1. ASSUME NEW r \in Requests,
             \/ CopyHealthyTargets(r) \/ NoHealthyTargets(r) \/ SelectPanics(r)
             \/ Select(r) \/ SelectsEmpty(r)
      PROVE  ConnectionsExact'
  <2>1. UNCHANGED <<strategy, connections>>
    <3>1. CASE CopyHealthyTargets(r) \/ NoHealthyTargets(r) \/ SelectPanics(r)
      BY <3>1 DEF CopyHealthyTargets, NoHealthyTargets, SelectPanics
    <3>2. CASE Select(r) \/ SelectsEmpty(r)
      <4>1. PICK i \in list[r] : Picks(r, i)
        BY <3>2, Zenon DEF Select, SelectsEmpty
      <4>2. QED
        BY <4>1, PickTyped
    <3>3. QED
      BY <1>1, <3>1, <3>2
  <2>2. \A t \in TargetSet : Connected(t)' = Connected(t)
    BY <1>1, <2>1 DEF CopyHealthyTargets, NoHealthyTargets, SelectPanics, Select,
        SelectsEmpty, Answered, Connected
  <2>3. QED
    BY <2>1, <2>2, SameConnections
<1>2. ASSUME NEW r \in Requests, Forward(r) \/ CircuitOpen(r) \/ BackendAnswers(r)
      PROVE  ConnectionsExact'
  <2>1. UNCHANGED <<strategy, connections>>
    BY <1>2 DEF Forward, CircuitOpen, BackendAnswers
  <2>2. \A t \in TargetSet : Connected(t)' = Connected(t)
    BY <1>2, <2>1 DEF Forward, CircuitOpen, BackendAnswers, ReadyToCall, Leave, Answered,
        Connected
  <2>3. QED
    BY <2>1, <2>2, SameConnections
<1>3. ASSUME NEW r \in Requests, CountConnection(r) PROVE ConnectionsExact'
  BY <1>3, CountExact
<1>4. ASSUME NEW r \in Requests, DecrementConnection(r) PROVE ConnectionsExact'
  <2>1. CASE strategy = "least_connections"
    BY <1>4, <2>1, UncountExact
  <2>2. CASE strategy # "least_connections"
    <3>1. \A t \in TargetSet : Connected(t) = {} /\ Connected(t)' = {}
      BY <1>4, <2>2 DEF DecrementConnection, Decrement, Connected
    <3>2. \A t \in TargetSet : connections[t] = 0
      BY <3>1, FS_EmptySet DEF ConnectionsExact
    <3>3. UNCHANGED connections
      <4>1. target[r] \in TargetSet /\ connections \in [TargetSet -> Int]
        BY <1>4 DEF DecrementConnection, BalancerTypeOK
      <4>2. Decremented(connections[target[r]]) = connections[target[r]]
        BY <3>2, <4>1, CountType
      <4>3. connections' = [connections EXCEPT ![target[r]] =
      Decremented(connections[target[r]])]
        BY <1>4 DEF DecrementConnection, Decrement
      <4>4. QED
        BY <4>1, <4>2, <4>3
    <3>4. QED
      BY <3>1, <3>3, SameConnections
  <2>3. QED
    BY <2>1, <2>2
<1>5. CASE HealthUpdate \/ ResetBreaker \/ Tick \/ UNCHANGED vars
  <2>1. UNCHANGED <<strategy, connections, pc, target>>
    BY <1>5 DEF HealthUpdate, ResetBreaker, Tick, vars, requestVars
  <2>2. \A t \in TargetSet : Connected(t)' = Connected(t)
    BY <2>1 DEF Connected
  <2>3. QED
    BY <2>1, <2>2, SameConnections
<1>6. QED
  BY <1>1, <1>2, <1>3, <1>4, <1>5 DEF Next, Handle

(* LeastConnections counts exactly the requests that Handle has counted and    *)
(* not yet counted down, for any number of concurrent requests and however     *)
(* they leave Handle.                                                          *)
THEOREM CountsExact == Spec => []ConnectionsExact
<1>1. Init => ConnectionsExact
  <2> SUFFICES ASSUME Init, NEW t \in TargetSet
               PROVE  connections[t] = Cardinality(Connected(t))
    BY DEF ConnectionsExact
  <2>1. connections[t] = 0
    BY DEF Init, BalancerInit
  <2>2. Connected(t) = {}
    BY DEF Init, Connected
  <2>3. QED
    BY <2>1, <2>2, FS_EmptySet
<1>2. QED
  BY <1>1, NextExact, LocallyTyped, PTL DEF Spec
=============================================================================

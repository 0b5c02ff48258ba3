------------------------- MODULE HealthyProxyProofs --------------------------
(***************************************************************************)
(* The safety of the health checker for every list of targets, repeated    *)
(* entries included, and every failure limit; and a service keeps what its *)
(* two parts promise, for every number of requests and configuration: its  *)
(* checker only takes steps of HealthChecker, its proxy only steps of      *)
(* Proxy.                                                                  *)
(***************************************************************************)
EXTENDS HealthyProxy, TLAPS

(* The inductive invariant: that a new list matches the statuses rests on    *)
(* probes being recorded in rounds only, which is part of TypeOK.            *)
Inv == TypeOK /\ HealthyIffBelowThreshold /\ ListMatchesStatus

(* NewChecker leaves a positive limit whatever the configuration. *)
LEMMA Limits ==
    /\ maxFailures \in Nat \ {0}
    /\ CountCap \in Nat
    /\ CountCap >= maxFailures
BY CheckerAssumption DEF maxFailures

(* Every entry of the list names a target. *)
LEMMA Entries == \A i \in Positions : Targets[i] \in TargetSet
BY DEF TargetSet

(* A new checker satisfies the inductive invariant. *)
LEMMA InitInv == Init => Inv
<1> SUFFICES ASSUME Init PROVE Inv
  OBVIOUS
<1>1. IsHealthy \in [TargetSet -> BOOLEAN] /\ \A t \in TargetSet : IsHealthy[t]
  BY Zenon DEF Init
<1>2. FailureCount \in [TargetSet -> 0..CountCap]
      /\ \A t \in TargetSet : FailureCount[t] < maxFailures
  BY Limits DEF Init
<1>3. QED
  BY <1>1, <1>2 DEF Init, Inv, TypeOK, HealthyIffBelowThreshold, ListMatchesStatus

(* recordSuccess and recordFailure of one entry preserve it: the target is   *)
(* not Untouched afterwards, and all other targets are as they were.         *)
LEMMA ProbeInv ==
    ASSUME Inv, NEW i \in Positions, ProbeSucceeds(i) \/ ProbeFails(i)
    PROVE  Inv'
<1> DEFINE t == Targets[i]
<1>1. t \in TargetSet
  BY Entries
<1>2. phase \in {"starting", "checking"} /\ i \in probing /\ probing' = probing \ {i}
      /\ UNCHANGED <<running, stopClosed, phase, ticked, healthyTargets>>
  BY DEF Inv, TypeOK, ProbeSucceeds, ProbeFails, Recorded
<1>3. CASE ProbeSucceeds(i)
  <2>1. /\ FailureCount' = [FailureCount EXCEPT ![t] = 0]
        /\ IsHealthy' = [IsHealthy EXCEPT ![t] = TRUE]
    BY <1>3 DEF ProbeSucceeds, recordSuccess
  <2>2. TypeOK' /\ HealthyIffBelowThreshold'
    BY <1>1, <1>2, <2>1, Limits DEF Inv, TypeOK, HealthyIffBelowThreshold
  <2>3. ListMatchesStatus'
    BY <1>1, <1>2, <2>1, Entries DEF Inv, TypeOK, ListMatchesStatus, Untouched
  <2>4. QED
    BY <2>2, <2>3 DEF Inv
<1>4. CASE ProbeFails(i)
  <2>1. /\ FailureCount' = [FailureCount EXCEPT ![t] = Counted(FailureCount[t])]
        /\ IsHealthy' = [IsHealthy EXCEPT ![t] = IsHealthy[t] /\ FailureCount'[t] < maxFailures]
    BY <1>4 DEF ProbeFails, recordFailure
  <2>2. /\ FailureCount[t] \in 0..CountCap
        /\ Counted(FailureCount[t]) \in 0..CountCap
        /\ Counted(FailureCount[t]) < maxFailures => FailureCount[t] < maxFailures
        /\ FailureCount'[t] = Counted(FailureCount[t])
    BY <1>1, <2>1, Limits DEF Inv, TypeOK, Counted
  <2>3. TypeOK' /\ HealthyIffBelowThreshold'
    BY <1>1, <1>2, <2>1, <2>2 DEF Inv, TypeOK, HealthyIffBelowThreshold
  <2>4. ListMatchesStatus'
    BY <1>1, <1>2, <2>1, Entries DEF Inv, TypeOK, ListMatchesStatus, Untouched
  <2>5. QED
    BY <2>3, <2>4 DEF Inv
<1>5. QED
  BY <1>3, <1>4

(* Every step of the checker preserves the inductive invariant. *)
LEMMA NextInv == Inv /\ [Next]_vars => Inv'
<1> SUFFICES ASSUME Inv, [Next]_vars PROVE Inv'
  OBVIOUS
<1> USE DEF Inv, TypeOK, HealthyIffBelowThreshold, ListMatchesStatus, Untouched, status
<1>1. CASE Start
  BY <1>1 DEF Start
<1>2. CASE Stop
  BY <1>2 DEF Stop
<1>3. CASE Tick
  BY <1>3 DEF Tick
<1>4. CASE CheckOnTick
  BY <1>4 DEF CheckOnTick
<1>5. CASE ExitOnStop
  BY <1>5 DEF ExitOnStop
<1>6. ASSUME NEW i \in Positions, ProbeSucceeds(i) \/ ProbeFails(i) PROVE Inv'
  BY <1>6, ProbeInv
<1>7. CASE updateHealthyTargets
  BY <1>7 DEF updateHealthyTargets
<1>8. CASE UNCHANGED vars
  BY <1>8 DEF vars
<1>9. QED
  BY <1>1, <1>2, <1>3, <1>4, <1>5, <1>6, <1>7, <1>8 DEF Next

(* The inductive invariant holds in every reachable state. *)
LEMMA Invariance == Spec => []Inv
BY InitInv, NextInv, PTL DEF Spec

(* Type correctness: in particular the proxy only ever sees a list made of     *)
(* entries of the configured one.                                              *)
THEOREM TypeCorrect == Spec => []TypeOK
<1>1. Inv => TypeOK
  BY DEF Inv
<1>2. QED
  BY <1>1, Invariance, PTL

(* recordSuccess and recordFailure keep a target healthy exactly while it has  *)
(* failed fewer than maxFailures probes since its last success.                *)
THEOREM ThresholdExact == Spec => []HealthyIffBelowThreshold
<1>1. Inv => HealthyIffBelowThreshold
  BY DEF Inv
<1>2. QED
  BY <1>1, Invariance, PTL

(* Outside a round the list the proxy routes by is what the statuses say, and  *)
(* during a round it differs for targets already probed only.                  *)
THEOREM ListCurrent == Spec => []ListMatchesStatus
<1>1. Inv => ListMatchesStatus
  BY DEF Inv
<1>2. QED
  BY <1>1, Invariance, PTL

-----------------------------------------------------------------------------
(* Handling a request, a reset and the passing of time leave the list alone. *)
LEMMA HandleKeepsList ==
    ASSUME NEW r \in Requests, P!Handle(r)
    PROVE  UNCHANGED healthyTargets
BY DEF P!Handle, P!CopyHealthyTargets, P!NoHealthyTargets, P!Select, P!SelectsEmpty,
       P!SelectPanics, P!CountConnection, P!Forward, P!CircuitOpen, P!BackendAnswers, P!DecrementConnection

(* Every step of the service is a step of its checker or leaves it alone. *)
LEMMA StepOfChecker == [ServiceNext]_serviceVars => [Next]_vars
<1> SUFFICES ASSUME [ServiceNext]_serviceVars PROVE [Next]_vars
  OBVIOUS
<1> USE DEF checkerVars, vars, status
<1>1. CASE \E r \in Requests : Handle(r)
  BY <1>1, HandleKeepsList DEF Handle
<1>2. CASE Serving /\ P!ResetBreaker /\ UNCHANGED checkerVars
  BY <1>2 DEF P!ResetBreaker
<1>3. CASE P!Tick /\ UNCHANGED checkerVars
  BY <1>3 DEF P!Tick
<1>4. CASE UNCHANGED serviceVars
  BY <1>4 DEF serviceVars
<1>5. QED
  BY <1>1, <1>2, <1>3, <1>4 DEF ServiceNext

(* The checker of a service behaves as HealthChecker, whatever the requests  *)
(* do: what is proved of the one holds in the other.                         *)
THEOREM ServiceHasChecker == ServiceSpec => Spec
BY StepOfChecker, PTL DEF ServiceSpec, ServiceInit, Spec

(* Every step of the service is one of the proxy's, or leaves the proxy      *)
(* alone; a step of the checker is an update of the list by entries that are *)
(* configured, which is what TypeOK of the checker is needed for.            *)
LEMMA StepOfProxy == TypeOK' /\ [ServiceNext]_serviceVars => [P!Next]_(P!vars)
<1> SUFFICES ASSUME TypeOK', [ServiceNext]_serviceVars PROVE [P!Next]_(P!vars)
  OBVIOUS
<1>1. CASE Next /\ UNCHANGED handleVars
  <2>1. healthyTargets' \in SUBSET P!Positions
    BY DEF TypeOK, Positions, P!Positions
  <2>2. UNCHANGED <<P!balancerVars, P!breakerVars, P!requestVars>>
    BY <1>1 DEF handleVars, P!balancerVars, P!breakerVars, P!requestVars
  <2>3. QED
    BY <2>1, <2>2 DEF P!Next, P!HealthUpdate
<1>2. CASE \E r \in Requests : Handle(r)
  BY <1>2 DEF Handle, P!Next
<1>3. CASE Serving /\ P!ResetBreaker /\ UNCHANGED checkerVars
  BY <1>3 DEF P!Next
<1>4. CASE P!Tick /\ UNCHANGED checkerVars
  BY <1>4 DEF P!Next
<1>5. CASE UNCHANGED serviceVars
  BY <1>5 DEF serviceVars, handleVars, P!vars, P!balancerVars, P!breakerVars, P!requestVars
<1>6. QED
  BY <1>1, <1>2, <1>3, <1>4, <1>5 DEF ServiceNext

(* The service implements Proxy: the list its health checker rebuilds is     *)
(* always one that Handle expects.                                           *)
THEOREM ServiceImplementsProxy == ServiceSpec => ServiceIsProxy
<1>1. ServiceInit => P!Init
  BY DEF ServiceInit
<1>2. ServiceSpec => []TypeOK
  BY ServiceHasChecker, TypeCorrect, PTL
<1>3. QED
  BY <1>1, <1>2, StepOfProxy, PTL DEF ServiceSpec, ServiceIsProxy, P!Spec
=============================================================================

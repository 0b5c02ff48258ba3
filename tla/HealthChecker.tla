---------------------------- MODULE HealthChecker ----------------------------
(***************************************************************************)
(* The health checker of internal/healthcheck for one service.  Start runs *)
(* one round of probes, then a goroutine runs one at every tick until Stop *)
(* closes stopChan.  A round probes every entry of the target list at the  *)
(* same time; each probe records its result on its own, and only when all  *)
(* have is the list that the proxy routes by rebuilt.                      *)
(*                                                                         *)
(* Targets is the configured list, in which a target may be repeated.  The *)
(* rebuilt list keeps its order, so it is modelled by the set of positions *)
(* it keeps.  FailureCount saturates at CountCap, as in CircuitBreaker.    *)
(***************************************************************************)
EXTENDS Integers, Sequences

CONSTANTS Targets, CfgMaxFailures, CountCap

(* NewChecker's default. *)
maxFailures == IF CfgMaxFailures <= 0 THEN 3 ELSE CfgMaxFailures

Positions == DOMAIN Targets
TargetSet == {Targets[i] : i \in Positions}

ASSUME CheckerAssumption ==
    /\ Targets \in Seq(TargetSet)
    /\ CfgMaxFailures \in Int
    /\ CountCap \in Int
    /\ CountCap >= maxFailures

VARIABLES
    running,
    stopClosed,      \* stopChan has been closed
    phase,           \* where Start, then its goroutine, is
    ticked,          \* a tick waits in ticker.C, which holds one
    probing,         \* positions whose probe of this round is not recorded
    IsHealthy,
    FailureCount,
    healthyTargets   \* the positions in the list of healthy targets

status == <<IsHealthy, FailureCount>>
vars == <<running, stopClosed, phase, ticked, probing, status, healthyTargets>>

Init ==
    /\ running = FALSE
    /\ stopClosed = FALSE
    /\ phase = "new"
    /\ ticked = FALSE
    /\ probing = {}
    /\ IsHealthy = [t \in TargetSet |-> TRUE]
    /\ FailureCount = [t \in TargetSet |-> 0]
    /\ healthyTargets = {}

(* Start, up to the probes of the initial round. *)
Start ==
    /\ phase = "new"
    /\ ~running
    /\ running' = TRUE
    /\ phase' = "starting"
    /\ probing' = Positions
    /\ UNCHANGED <<stopClosed, ticked, status, healthyTargets>>

(* Stop, called by Shutdown on a checker that Start has returned from. *)
Stop ==
    /\ phase \notin {"new", "starting"}
    /\ running
    /\ running' = FALSE
    /\ stopClosed' = TRUE
    /\ UNCHANGED <<phase, ticked, probing, status, healthyTargets>>

(* The ticker exists while the goroutine runs; a second tick is dropped. *)
Tick ==
    /\ phase \in {"waiting", "checking"}
    /\ ticked' = TRUE
    /\ UNCHANGED <<running, stopClosed, phase, probing, status, healthyTargets>>

(* The two branches of the goroutine's select. *)
CheckOnTick ==
    /\ phase = "waiting"
    /\ ticked
    /\ ticked' = FALSE
    /\ phase' = "checking"
    /\ probing' = Positions
    /\ UNCHANGED <<running, stopClosed, status, healthyTargets>>

(* Fault: a waiting tick is served before stopChan. *)
ExitOnStopAfterTicks ==
    /\ phase = "waiting"
    /\ stopClosed
    /\ ~ticked
    /\ phase' = "exited"
    /\ UNCHANGED <<running, stopClosed, ticked, probing, status, healthyTargets>>

ExitOnStop ==
    /\ phase = "waiting"
    /\ stopClosed
    /\ phase' = "exited"
    /\ UNCHANGED <<running, stopClosed, ticked, probing, status, healthyTargets>>

-----------------------------------------------------------------------------
(* checkTarget for one entry of the list: a 2xx or 3xx answer is a success,  *)
(* any other answer, an error and a timeout are failures.                    *)

Counted(n) == IF n < CountCap THEN n + 1 ELSE n

(* Fault: a success does not clear FailureCount. *)
recordSuccessKeepingCount(t) ==
    /\ IsHealthy' = [IsHealthy EXCEPT ![t] = TRUE]
    /\ UNCHANGED FailureCount

recordSuccess(t) ==
    /\ FailureCount' = [FailureCount EXCEPT ![t] = 0]
    /\ IsHealthy' = [IsHealthy EXCEPT ![t] = TRUE]

(* Fault: the limit is not looked at. *)
recordFailureKeepingUp(t) ==
    /\ FailureCount' = [FailureCount EXCEPT ![t] = Counted(@)]
    /\ UNCHANGED IsHealthy

recordFailure(t) ==
    /\ FailureCount' = [FailureCount EXCEPT ![t] = Counted(@)]
    /\ IsHealthy' = [IsHealthy EXCEPT ![t] = @ /\ FailureCount'[t] < maxFailures]

Recorded(i) ==
    /\ i \in probing
    /\ probing' = probing \ {i}
    /\ UNCHANGED <<running, stopClosed, phase, ticked, healthyTargets>>

ProbeSucceeds(i) == Recorded(i) /\ recordSuccess(Targets[i])
ProbeFails(i) == Recorded(i) /\ recordFailure(Targets[i])

(* Fault: the list is rebuilt without waiting for the round's probes. *)
updateWithoutWaiting ==
    /\ phase \in {"starting", "checking"}
    /\ healthyTargets' = {i \in Positions : IsHealthy[Targets[i]]}
    /\ phase' = "waiting"
    /\ UNCHANGED <<running, stopClosed, ticked, probing, status>>

(* Fault: the new list is appended to the old one. *)
updateWithoutClearing ==
    /\ phase \in {"starting", "checking"}
    /\ probing = {}
    /\ healthyTargets' = healthyTargets \cup {i \in Positions : IsHealthy[Targets[i]]}
    /\ phase' = "waiting"
    /\ UNCHANGED <<running, stopClosed, ticked, probing, status>>

(* wg.Wait returns and updateHealthyTargets rebuilds the list. *)
updateHealthyTargets ==
    /\ phase \in {"starting", "checking"}
    /\ probing = {}
    /\ healthyTargets' = {i \in Positions : IsHealthy[Targets[i]]}
    /\ phase' = "waiting"
    /\ UNCHANGED <<running, stopClosed, ticked, probing, status>>

Next ==
    \/ Start \/ Stop
    \/ Tick \/ CheckOnTick \/ ExitOnStop
    \/ \E i \in Positions : ProbeSucceeds(i) \/ ProbeFails(i)
    \/ updateHealthyTargets

Spec == Init /\ [][Next]_vars

(* The ticker ticks and every probe ends, by its timeout at the latest.  The *)
(* select chooses at random when it could both check and exit, so it does    *)
(* not keep passing over stopChan: strong fairness.                          *)
Fairness ==
    /\ WF_vars(Start)
    /\ WF_vars(Tick)
    /\ WF_vars(CheckOnTick)
    /\ SF_vars(ExitOnStop)
    /\ \A i \in Positions : WF_vars(ProbeSucceeds(i) \/ ProbeFails(i))
    /\ WF_vars(updateHealthyTargets)

FairSpec == Spec /\ Fairness

-----------------------------------------------------------------------------
(* Type invariant; probes only run inside a round. *)
TypeOK ==
    /\ running \in BOOLEAN
    /\ stopClosed \in BOOLEAN
    /\ phase \in {"new", "starting", "waiting", "checking", "exited"}
    /\ ticked \in BOOLEAN
    /\ probing \subseteq Positions
    /\ phase \notin {"starting", "checking"} => probing = {}
    /\ IsHealthy \in [TargetSet -> BOOLEAN]
    /\ FailureCount \in [TargetSet -> 0..CountCap]
    /\ healthyTargets \subseteq Positions

(* A target is healthy exactly while it has failed fewer than maxFailures    *)
(* probes since its last success, although recordFailure only ever clears    *)
(* the flag and recordSuccess only ever sets it.                             *)
HealthyIffBelowThreshold ==
    \A t \in TargetSet : IsHealthy[t] <=> FailureCount[t] < maxFailures

(* No probe of target t has been recorded in the round in progress. *)
Untouched(t) ==
    phase = "checking" => \A i \in Positions : Targets[i] = t => i \in probing

(* The list the proxy routes by agrees with the recorded status of every     *)
(* target except those probed in the round in progress: wg.Wait keeps it     *)
(* from being rebuilt in the middle of a round, after Stop included.         *)
ListMatchesStatus ==
    phase \in {"waiting", "checking", "exited"} =>
        \A i \in Positions :
            Untouched(Targets[i]) => (i \in healthyTargets <=> IsHealthy[Targets[i]])

(* Stop ends the goroutine, even when it closes stopChan during a round and  *)
(* a tick is already waiting.                                                *)
StopEndsLoop == stopClosed ~> phase = "exited"
=============================================================================

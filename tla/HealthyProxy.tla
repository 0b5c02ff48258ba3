---------------------------- MODULE HealthyProxy -----------------------------
(***************************************************************************)
(* A service as NewWithConfig of internal/proxy puts it together: Proxy    *)
(* with its health checker.  In Proxy the healthy list may change to any   *)
(* list at any time; here it is the one that HealthChecker rebuilds, and   *)
(* requests come once Start has returned, since NewWithConfig calls it     *)
(* before the routes exist.                                                *)
(***************************************************************************)
EXTENDS HealthChecker

CONSTANTS
    Requests, Strategies, IntMax,
    BreakerMaxFailures, CfgTimeout, CfgHalfOpenSuccess, BreakerCountCap

VARIABLES
    strategy, current, connections,
    state, failureCount, successCount, sinceFailure, sinceChange, executing,
    pc, list, target

P == INSTANCE Proxy WITH
    CfgMaxFailures <- BreakerMaxFailures, CountCap <- BreakerCountCap

handleVars == <<strategy, current, connections, state, failureCount, successCount,
                sinceFailure, sinceChange, executing, pc, list, target>>
checkerVars == <<running, stopClosed, phase, ticked, probing, status>>
serviceVars == <<checkerVars, healthyTargets, handleVars>>

ServiceInit == Init /\ P!Init

Serving == phase \notin {"new", "starting"}

(* Fault: Handle is given the configured targets instead of the healthy ones. *)
HandleConfiguredTargets(r) ==
    /\ Serving
    /\ pc[r] = "idle"
    /\ pc' = [pc EXCEPT ![r] = "selecting"]
    /\ list' = [list EXCEPT ![r] = Positions]
    /\ UNCHANGED <<strategy, current, connections, state, failureCount, successCount>>
    /\ UNCHANGED <<sinceFailure, sinceChange, executing, target, healthyTargets, checkerVars>>

Handle(r) == Serving /\ P!Handle(r) /\ UNCHANGED checkerVars

ServiceNext ==
    \/ Next /\ UNCHANGED handleVars
    \/ \E r \in Requests : Handle(r)
    \/ Serving /\ P!ResetBreaker /\ UNCHANGED checkerVars
    \/ P!Tick /\ UNCHANGED checkerVars

ServiceSpec == ServiceInit /\ [][ServiceNext]_serviceVars

(* The fairness of the two parts. *)
FairServiceSpec ==
    /\ ServiceSpec
    /\ Fairness
    /\ WF_serviceVars(P!Tick /\ UNCHANGED checkerVars)
    /\ \A r \in Requests : WF_serviceVars(Handle(r))

-----------------------------------------------------------------------------
(* The checker and the proxy fit together: seen without the checker, a       *)
(* service is Proxy, so all that holds of Proxy for every list holds of it.  *)
ServiceIsProxy == P!Spec

(* A target that stays down leaves the list and gets no more requests, for   *)
(* good, unless the service is stopped: recordFailure counts to the          *)
(* threshold over several rounds, a later round rebuilds the list, and every *)
(* copy of an older list that Handle took is used up.                        *)
DownTargetUnused ==
    \A t \in TargetSet \ {""} :
        <>[][~ \E i \in Positions : Targets[i] = t /\ ProbeSucceeds(i)]_serviceVars =>
            \/ <>stopClosed
            \/ <>[](/\ \A i \in healthyTargets : Targets[i] # t
                    /\ \A r \in Requests : target[r] # t)

(* A service whose backends are well again serves again, unless it is        *)
(* stopped: a target whose probes no longer fail is back in the list for     *)
(* good, however far recordFailure had counted, and once requests no longer  *)
(* fail, or find an empty target, they close the circuit for good.           *)
WellServiceServes ==
    \A t \in TargetSet :
        <>[][~ \E i \in Positions : Targets[i] = t /\ ProbeFails(i)]_serviceVars =>
            \/ <>stopClosed
            \/ /\ <>[](\A i \in Positions : Targets[i] = t => i \in healthyTargets)
               /\ <>[][~ \E r \in Requests :
                        \/ P!Fail(r)
                        \/ state = P!StateHalfOpen /\ P!Panic(r)
                        \/ P!SelectsEmpty(r)
                        \/ P!SelectPanics(r)]_serviceVars
                  => <>[](state = P!StateClosed)
=============================================================================

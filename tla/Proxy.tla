------------------------------- MODULE Proxy -------------------------------
(***************************************************************************)
(* Proxy.Handle of internal/proxy for one service: concurrent requests     *)
(* that share the health checker's list, the load balancer and one circuit *)
(* breaker.  A request copies the healthy list, lets the strategy pick a   *)
(* target from the copy, counts its connection, and forwards inside the    *)
(* breaker's Call.  Each lock is taken and released on its own, so other   *)
(* requests, the health checker and the administrator act between any two  *)
(* of these steps.  Of the health checker the proxy sees the list only;    *)
(* that it holds entries of the configured list is TypeOK of HealthChecker *)
(***************************************************************************)
EXTENDS LoadBalancer, CircuitBreaker

VARIABLES
    healthyTargets,   \* positions in the health checker's list
    pc,               \* how far Handle has come for each request
    list,             \* its copy of the healthy list
    target            \* its selectedTarget, "" before there is one

ASSUME ProxyAssumption ==
    /\ IsFiniteSet(Requests)
    /\ Cardinality(Requests) <= IntMax

requestVars == <<pc, list, target>>
vars == <<balancerVars, healthyTargets, breakerVars, requestVars>>

Init ==
    /\ BalancerInit
    /\ BreakerInit
    /\ healthyTargets \in SUBSET Positions
    /\ pc = [r \in Requests |-> "idle"]
    /\ list = [r \in Requests |-> {}]
    /\ target = [r \in Requests |-> ""]

(* Handle has answered, or was unwound by a panic that Recovery answers. *)
Answered(r) ==
    /\ pc' = [pc EXCEPT ![r] = "idle"]
    /\ list' = [list EXCEPT ![r] = {}]
    /\ target' = [target EXCEPT ![r] = ""]

-----------------------------------------------------------------------------
(* GetHealthyTargets: an empty list ends the request with a 503. *)
CopyHealthyTargets(r) ==
    /\ pc[r] = "idle"
    /\ healthyTargets # {}
    /\ pc' = [pc EXCEPT ![r] = "selecting"]
    /\ list' = [list EXCEPT ![r] = healthyTargets]
    /\ UNCHANGED <<target, balancerVars, healthyTargets, breakerVars>>

NoHealthyTargets(r) ==
    /\ pc[r] = "idle"
    /\ healthyTargets = {}
    /\ Answered(r)
    /\ UNCHANGED <<balancerVars, healthyTargets, breakerVars>>

(* loadBalancer.Next returns entry i of the copy. *)
Picks(r, i) ==
    \/ strategy = "round_robin" /\ RoundRobinNext(list[r], i)
    \/ strategy = "random" /\ RandomNext(list[r], i)
    \/ strategy = "least_connections" /\ LeastConnectionsNext(list[r], i)

(* Fault: an empty target is not noticed. *)
SelectUnchecked(r) ==
    /\ pc[r] = "selecting"
    /\ \E i \in list[r] :
        /\ Picks(r, i)
        /\ target' = [target EXCEPT ![r] = Targets[i]]
    /\ pc' = [pc EXCEPT ![r] = "selected"]
    /\ list' = [list EXCEPT ![r] = {}]
    /\ UNCHANGED <<healthyTargets, breakerVars>>

(* Next, and the lookup of the target's reverse proxy: NewWithConfig made one *)
(* for every entry.  The copy is not looked at again.                         *)
Select(r) ==
    /\ pc[r] = "selecting"
    /\ \E i \in list[r] :
        /\ Picks(r, i)
        /\ Targets[i] # ""
        /\ target' = [target EXCEPT ![r] = Targets[i]]
    /\ pc' = [pc EXCEPT ![r] = "selected"]
    /\ list' = [list EXCEPT ![r] = {}]
    /\ UNCHANGED <<healthyTargets, breakerVars>>

(* An entry of the configured list may be the empty string, which url.Parse   *)
(* accepts: a request that is given it is answered with a 503.  The strategy  *)
(* has moved on, no connection is counted and the breaker is not asked.       *)
SelectsEmpty(r) ==
    /\ pc[r] = "selecting"
    /\ \E i \in list[r] : Picks(r, i) /\ Targets[i] = ""
    /\ Answered(r)
    /\ UNCHANGED <<healthyTargets, breakerVars>>

(* Next panics: the round-robin counter has wrapped around, or another        *)
(* request is using the unsynchronized rand.Rand at the same time.            *)
SelectPanics(r) ==
    /\ pc[r] = "selecting"
    /\ \/ strategy = "round_robin" /\ RoundRobinPanics(list[r])
       \/ /\ strategy = "random"
          /\ \E other \in Requests \ {r} : pc[other] = "selecting"
    /\ Answered(r)
    /\ UNCHANGED <<balancerVars, healthyTargets, breakerVars>>

(* lc.Increment *)
CountConnection(r) ==
    /\ pc[r] = "selected"
    /\ strategy = "least_connections"
    /\ Increment(target[r])
    /\ pc' = [pc EXCEPT ![r] = "counted"]
    /\ UNCHANGED <<list, target, healthyTargets, breakerVars>>

ReadyToCall(r) ==
    pc[r] = IF strategy = "least_connections" THEN "counted" ELSE "selected"

(* Fault: the request is forwarded without asking the breaker. *)
ForwardUnasked(r) ==
    /\ ReadyToCall(r)
    /\ executing' = executing \cup {r}
    /\ pc' = [pc EXCEPT ![r] = "forwarding"]
    /\ UNCHANGED <<state, failureCount, successCount, sinceFailure, sinceChange>>
    /\ UNCHANGED <<list, target, balancerVars, healthyTargets>>

(* Fault: Handle looks at the breaker's State before it makes the call. *)
ForwardUnlessOpen(r) ==
    /\ ReadyToCall(r)
    /\ state # StateOpen
    /\ Admit(r)
    /\ pc' = [pc EXCEPT ![r] = "forwarding"]
    /\ UNCHANGED <<list, target, balancerVars, healthyTargets>>

Forward(r) ==
    /\ ReadyToCall(r)
    /\ Admit(r)
    /\ pc' = [pc EXCEPT ![r] = "forwarding"]
    /\ UNCHANGED <<list, target, balancerVars, healthyTargets>>

-----------------------------------------------------------------------------
(* Leaving Handle: the deferred lc.Decrement is a step of its own. *)

(* Fault: Handle returns without running the deferred call. *)
LeaveWithoutDecrement(r) == Answered(r)

Leave(r) ==
    \/ strategy # "least_connections" /\ Answered(r)
    \/ /\ strategy = "least_connections"
       /\ pc' = [pc EXCEPT ![r] = "leaving"]
       /\ UNCHANGED <<list, target>>

CircuitOpen(r) ==
    /\ ReadyToCall(r)
    /\ Reject(r)
    /\ Leave(r)
    /\ UNCHANGED <<balancerVars, healthyTargets>>

(* ServeHTTP returns a status below 500, one of 500 and above, or panics when *)
(* the backend breaks off in the middle of the body.                          *)
BackendAnswers(r) ==
    /\ pc[r] = "forwarding"
    /\ \/ Succeed(r) /\ Leave(r)
       \/ Fail(r) /\ Leave(r)
       \/ Panic(r) /\ Leave(r)
    /\ UNCHANGED <<balancerVars, healthyTargets>>

DecrementConnection(r) ==
    /\ pc[r] = "leaving"
    /\ Decrement(target[r])
    /\ Answered(r)
    /\ UNCHANGED <<healthyTargets, breakerVars>>

-----------------------------------------------------------------------------
(* The health checker installs a new list. *)
HealthUpdate ==
    /\ healthyTargets' \in SUBSET Positions
    /\ UNCHANGED <<balancerVars, breakerVars, requestVars>>

(* ResetCircuitBreaker, and the passing of time. *)
ResetBreaker == Reset /\ UNCHANGED <<balancerVars, healthyTargets, requestVars>>
Tick == BreakerTick /\ UNCHANGED <<balancerVars, healthyTargets, requestVars>>

Handle(r) ==
    \/ CopyHealthyTargets(r) \/ NoHealthyTargets(r)
    \/ Select(r) \/ SelectsEmpty(r) \/ SelectPanics(r)
    \/ CountConnection(r)
    \/ Forward(r) \/ CircuitOpen(r)
    \/ BackendAnswers(r)
    \/ DecrementConnection(r)

Next ==
    \/ \E r \in Requests : Handle(r)
    \/ HealthUpdate \/ ResetBreaker \/ Tick

Spec == Init /\ [][Next]_vars

(* Requests keep arriving and are scheduled, backends answer or the           *)
(* connection breaks, and time passes.                                        *)
FairSpec == Spec /\ WF_vars(Tick) /\ \A r \in Requests : WF_vars(Handle(r))

-----------------------------------------------------------------------------
BalancerTypeOK ==
    /\ strategy \in Strategies
    /\ current \in (-IntMax - 1)..IntMax
    /\ connections \in [TargetSet -> Int]

RequestTypeOK ==
    /\ healthyTargets \subseteq Positions
    /\ pc \in [Requests -> {"idle", "selecting", "selected", "counted", "forwarding", "leaving"}]
    /\ list \in [Requests -> SUBSET Positions]
    /\ target \in [Requests -> TargetSet \cup {""}]
    /\ \A r \in Requests : pc[r] = "selecting" => list[r] # {}
    /\ \A r \in Requests : pc[r] \notin {"idle", "selecting"} => target[r] \in TargetSet \ {""}

(* Type invariant.  A request that gets as far as counting its connection and *)
(* asking the breaker does so for a configured target other than the empty    *)
(* string; every configured target has a reverse proxy, so Handle's "Proxy    *)
(* not found for target" branch is never taken.                               *)
TypeOK == BalancerTypeOK /\ RequestTypeOK /\ BreakerTypeOK

(* The requests whose connection to t is counted. *)
Connected(t) ==
    {r \in Requests :
        /\ strategy = "least_connections"
        /\ target[r] = t
        /\ pc[r] \in {"counted", "forwarding", "leaving"}}

(* LeastConnections counts exactly the requests between Increment and the     *)
(* deferred Decrement, on every way out of Handle: an open circuit, a backend *)
(* error and a panic included.  So no count leaks, and Decrement's test for 0 *)
(* never hides a missing Increment.                                           *)
ConnectionsExact == \A t \in TargetSet : connections[t] = Cardinality(Connected(t))

(* The requests of a service use its shared breaker as CircuitBreaker         *)
(* assumes: whatever Handle does, the breaker only takes steps of its own     *)
(* specification, so all that holds of it there holds inside the proxy.       *)
UsesBreaker == BreakerSpec

(* A service recovers as a whole: once its backends no longer fail, or panic  *)
(* in a half-open circuit, Next no longer panics or returns an empty target   *)
(* and the health checker no longer empties the list, the circuit closes for  *)
(* good, although the requests that could half-open it first have to get past *)
(* the list and the strategy, and every late result reaches the same breaker. *)
ServiceRecovers ==
    /\ <>[][~ \E r \in Requests :
            \/ Fail(r)
            \/ state = StateHalfOpen /\ Panic(r)
            \/ SelectsEmpty(r)
            \/ SelectPanics(r)]_vars
    /\ <>[](healthyTargets # {})
    => <>[](state = StateClosed)
=============================================================================

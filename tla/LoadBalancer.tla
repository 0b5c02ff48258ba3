---------------------------- MODULE LoadBalancer ----------------------------
(***************************************************************************)
(* The strategies of internal/loadbalancer.  Next is handed a list of      *)
(* healthy targets; the list is the set of positions of the configured     *)
(* Targets that it keeps, in their order (see HealthChecker).  An action   *)
(* ...Next(list, i) is a call of Next(list) that returns entry i.          *)
(***************************************************************************)
EXTENDS Integers, Sequences, FiniteSets

CONSTANTS
    Targets,      \* the configured list
    Strategies,   \* the strategies a service may be configured with
    IntMax        \* the largest int of the platform

Positions == DOMAIN Targets
TargetSet == {Targets[i] : i \in Positions}

ASSUME BalancerAssumption ==
    /\ Targets \in Seq(TargetSet)
    /\ Strategies \subseteq {"round_robin", "random", "least_connections"}
    /\ IntMax \in Nat

VARIABLES
    strategy,      \* what NewStrategy made
    current,       \* RoundRobin.current
    connections    \* LeastConnections.connections, 0 where the map has no entry

balancerVars == <<strategy, current, connections>>

BalancerInit ==
    /\ strategy \in Strategies
    /\ current = 0
    /\ connections = [t \in TargetSet |-> 0]

(* How many entries of the list come before entry i: its index in the list. *)
Index(list, i) == Cardinality({j \in list : j < i})

(* int arithmetic wraps around. *)
Incremented(n) == IF n = IntMax THEN -IntMax - 1 ELSE n + 1

(* Go's remainder has the sign of the dividend, so a counter that has wrapped *)
(* around indexes the list with a negative number unless it divides evenly.   *)
RoundRobinPanics(list) == current < 0 /\ current % Cardinality(list) # 0

RoundRobinNext(list, i) ==
    /\ ~RoundRobinPanics(list)
    /\ i \in list
    /\ Index(list, i) = current % Cardinality(list)
    /\ current' = Incremented(current)
    /\ UNCHANGED <<strategy, connections>>

(* rand.Intn picks any index. *)
RandomNext(list, i) == i \in list /\ UNCHANGED balancerVars

(* The first entry with the fewest connections. *)
LeastConnected(list, i) ==
    /\ i \in list
    /\ \A j \in list :
        /\ connections[Targets[i]] <= connections[Targets[j]]
        /\ connections[Targets[i]] = connections[Targets[j]] => i <= j

(* The loop keeps the first entry with the fewest connections.  When that is *)
(* the empty string it is taken for none, and the first entry is returned.   *)
LeastConnectionsNext(list, i) ==
    /\ i \in list
    /\ \E least \in list :
        /\ LeastConnected(list, least)
        /\ \/ Targets[least] # "" /\ i = least
           \/ Targets[least] = "" /\ \A j \in list : i <= j
    /\ UNCHANGED balancerVars

(* A count of 0 is left alone. *)
Decremented(n) == IF n > 0 THEN n - 1 ELSE n

Increment(t) ==
    /\ connections' = [connections EXCEPT ![t] = Incremented(@)]
    /\ UNCHANGED <<strategy, current>>

Decrement(t) ==
    /\ connections' = [connections EXCEPT ![t] = Decremented(@)]
    /\ UNCHANGED <<strategy, current>>
=============================================================================

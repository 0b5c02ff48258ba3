--------------------------- MODULE LifecycleProofs ---------------------------
(***************************************************************************)
(* The safety of starting up and shutting down, for every configuration,   *)
(* every number of services and requests and every time limit.             *)
(***************************************************************************)
EXTENDS Lifecycle, TLAPS

(* The services that NewWithConfig has made a proxy of, and those of them    *)
(* whose path no later one has.                                              *)
Built == {i \in 1..initialized : HasTargets(cfg, i) /\ Builds(cfg, i)}
Latest ==
    {i \in Built : \A j \in Built : j > i => Path(cfg, j) # Path(cfg, i)}

Started == {"started", "waiting", "stopping", "draining", "returning"}

(* What initializeProxies leaves behind, and what Shutdown does to it. *)
ProxiesInv ==
    /\ main # "config" => Valid(cfg)
    /\ main \in Started => Services(cfg) = 1..initialized
    /\ proxies = Latest
    /\ checking \subseteq Built
    /\ main \notin {"stopping", "draining", "returning"} => checking = Built
    /\ Built \ proxies \subseteq checking
    /\ main \in {"draining", "returning"} => proxies \cap checking = {}

(* The stores are open until main returns. *)
StoresInv ==
    /\ main = "postgres" => "redis" \in open
    /\ main \in {"migrate", "stopping", "draining"} => open = Stores
    /\ exit = "Server Exited" => main = "returning"

(* From a Shutdown that began main returns only when nothing is in flight. *)
DrainInv ==
    inShutdown => main = "draining" \/ (main = "returning" /\ inFlight = {})

(* The inductive invariant. *)
Inv == TypeOK /\ ProxiesInv /\ StoresInv /\ DrainInv

(* The services are numbered without a gap, so a next one or none is left. *)
LEMMA Numbered ==
    ASSUME cfg \in Configs
    PROVE  \E n \in Nat : Services(cfg) = 1..n
BY LifecycleAssumption DEF Services

(* One more service is numbered. *)
LEMMA NextNumber ==
    ASSUME NEW n \in Nat
    PROVE  n + 1 \in Nat /\ 1..(n + 1) = 1..n \cup {n + 1}
OBVIOUS

(* The time that is left starts at the limit and runs down to 0. *)
LEMMA TimeLeft ==
    /\ DrainTimeout \in 0..DrainTimeout
    /\ \A t \in 0..DrainTimeout : t > 0 => t - 1 \in 0..DrainTimeout
<1>1. DrainTimeout \in Nat
  BY LifecycleAssumption
<1>2. QED
  BY <1>1

(* The process begins with nothing built and nothing open. *)
LEMMA InitInv == Init => Inv
<1> SUFFICES ASSUME Init PROVE Inv
  OBVIOUS
<1>1. 1..initialized = {} /\ initialized \in Nat
  BY DEF Init
<1>2. Built = {} /\ Latest = {}
  BY <1>1 DEF Built, Latest
<1>3. TypeOK
  BY <1>1, TimeLeft DEF Init, TypeOK
<1>4. ProxiesInv /\ StoresInv /\ DrainInv
  BY <1>2 DEF Init, ProxiesInv, StoresInv, DrainInv, Started
<1>5. QED
  BY <1>3, <1>4 DEF Inv

(* Every step keeps the types.  That New is called with both stores open     *)
(* rests on the order in which main connects to them.                        *)
LEMMA NextTyped == Inv /\ [Next]_vars => TypeOK'
<1>1. SUFFICES ASSUME Inv, [Next]_vars PROVE TypeOK'
  OBVIOUS
<1>2. TypeOK /\ StoresInv
  BY <1>1 DEF Inv
<1> USE <1>2 DEF TypeOK, startVars, serverVars
<1>3. CASE AssignServer \/ Listen \/ ServerClosed \/ FatalRun
  <2>1. CASE AssignServer
    BY <2>1 DEF AssignServer
  <2>2. CASE Listen
    BY <2>2 DEF Listen
  <2>3. CASE ServerClosed
    BY <2>3 DEF ServerClosed
  <2>4. CASE FatalRun
    BY <2>4 DEF FatalRun
  <2>5. QED
    BY <1>3, <2>1, <2>2, <2>3, <2>4
<1>4. CASE Load \/ FatalStart \/ RoutePanic \/ StartRunner \/ Notify
  BY <1>4 DEF Load, FatalStart, RoutePanic, StartRunner, Notify, AllInitialized
<1>5. CASE Connect
  <2>1. /\ open' \subseteq Stores
        /\ main' \in {"postgres", "migrate", "proxies"}
        /\ main' = "proxies" => open' = Stores
    BY <1>5 DEF Connect, Stores, StoresInv
  <2>2. UNCHANGED <<cfg, initialized, proxies, checking, runner, serverVars, timeLeft, exit>>
    BY <1>5 DEF Connect
  <2>3. QED
    BY <2>1, <2>2
<1>6. CASE initializeProxy
  <2>1. initialized + 1 \in Nat /\ 1..(initialized + 1) = 1..initialized \cup {initialized + 1}
    BY NextNumber
  <2>2. QED
    BY <1>6, <2>1 DEF initializeProxy
<1>7. CASE \E p \in Services(cfg) : StopProxy(p)
  BY <1>7 DEF StopProxy
<1>8. CASE ShutdownServer \/ Drained \/ Forced \/ Return
  BY <1>8 DEF ShutdownServer, Drained, Forced, Return
<1>9. CASE \E s \in Stores : Close(s)
  BY <1>9 DEF Close
<1>10. CASE Signal \/ Killed
  BY <1>10 DEF Signal, Killed
<1>11. CASE Tick
  <2>1. timeLeft' \in 0..DrainTimeout
    BY <1>11, TimeLeft DEF Tick
  <2>2. QED
    BY <1>11, <2>1 DEF Tick
<1>12. CASE \E r \in Requests : Accept(r) \/ Answer(r)
  <2>1. inFlight' \subseteq Requests
    BY <1>12 DEF Accept, Answer
  <2>2. /\ cfg' = cfg /\ open' = open /\ initialized' = initialized /\ proxies' = proxies
        /\ main' = main /\ checking' = checking /\ runner' = runner /\ exit' = exit
        /\ httpServer' = httpServer /\ inShutdown' = inShutdown /\ timeLeft' = timeLeft
    BY <1>12 DEF Accept, Answer
  <2>3. /\ proxies' \subseteq {i \in 1..initialized' : HasTargets(cfg', i)}
        /\ initialized' \in Nat /\ 1..initialized' \subseteq Services(cfg)'
        /\ checking' \subseteq 1..initialized'
    BY <2>2
  <2>4. /\ cfg' \in Configs /\ open' \subseteq Stores
        /\ main' \in {"proxies", "started", "waiting"} => open' = Stores
        /\ httpServer' \in BOOLEAN /\ inShutdown' \in BOOLEAN
        /\ inFlight' \subseteq Requests /\ timeLeft' \in 0..DrainTimeout
    BY <2>1, <2>2
  <2>5. QED
    BY <2>2, <2>3, <2>4
<1>13. CASE UNCHANGED vars
  <2>1. /\ cfg' = cfg /\ open' = open /\ initialized' = initialized /\ proxies' = proxies
        /\ main' = main /\ checking' = checking /\ runner' = runner /\ exit' = exit
        /\ httpServer' = httpServer /\ inShutdown' = inShutdown /\ timeLeft' = timeLeft
        /\ inFlight' = inFlight
    BY <1>13 DEF vars
  <2>2. /\ proxies' \subseteq {i \in 1..initialized' : HasTargets(cfg', i)}
        /\ initialized' \in Nat /\ 1..initialized' \subseteq Services(cfg)'
        /\ checking' \subseteq 1..initialized'
    BY <2>1
  <2>3. /\ cfg' \in Configs /\ open' \subseteq Stores
        /\ main' \in {"proxies", "started", "waiting"} => open' = Stores
        /\ httpServer' \in BOOLEAN /\ inShutdown' \in BOOLEAN
        /\ inFlight' \subseteq Requests /\ timeLeft' \in 0..DrainTimeout
    BY <2>1
  <2>4. QED
    BY <2>1, <2>2, <2>3
<1>14. QED
  BY <1>1, <1>3, <1>4, <1>5, <1>6, <1>7, <1>8, <1>9, <1>10, <1>11, <1>12, <1>13
  DEF Next, Runner, Main, StartUp, Stop

(* Every step keeps the stores open for main. *)
LEMMA NextStores == Inv /\ [Next]_vars => StoresInv'
<1>1. SUFFICES ASSUME Inv, [Next]_vars PROVE StoresInv'
  OBVIOUS
<1>2. StoresInv /\ open \subseteq Stores /\ (main = "waiting" => open = Stores)
  BY <1>1 DEF Inv, TypeOK
<1> USE <1>2 DEF StoresInv, startVars, serverVars
<1>3. CASE AssignServer \/ Listen \/ ServerClosed \/ FatalRun
  BY <1>3 DEF AssignServer, Listen, ServerClosed, FatalRun
<1>4. CASE Load \/ FatalStart \/ initializeProxy \/ RoutePanic \/ StartRunner \/ Notify
  BY <1>4 DEF Load, FatalStart, initializeProxy, RoutePanic, StartRunner, Notify, AllInitialized
<1>5. CASE Connect
  BY <1>5 DEF Connect, Stores
<1>6. CASE \E p \in Services(cfg) : StopProxy(p)
  BY <1>6 DEF StopProxy
<1>7. CASE ShutdownServer \/ Drained \/ Forced \/ Return
  BY <1>7 DEF ShutdownServer, Drained, Forced, Return
<1>8. CASE \E s \in Stores : Close(s)
  BY <1>8 DEF Close
<1>9. CASE Signal \/ Killed \/ Tick
  BY <1>9 DEF Signal, Killed, Tick
<1>10. CASE \E r \in Requests : Accept(r) \/ Answer(r)
  BY <1>10 DEF Accept, Answer
<1>11. CASE UNCHANGED vars
  BY <1>11 DEF vars
<1>12. QED
  BY <1>1, <1>3, <1>4, <1>5, <1>6, <1>7, <1>8, <1>9, <1>10, <1>11
  DEF Next, Runner, Main, StartUp, Stop

(* Every step keeps the order of shutting down: Drained is the only way from *)
(* a Shutdown that began to the deferred calls.                              *)
LEMMA NextDrain == Inv /\ [Next]_vars => DrainInv'
<1>1. SUFFICES ASSUME Inv, [Next]_vars PROVE DrainInv'
  OBVIOUS
<1>2. DrainInv /\ inShutdown \in BOOLEAN /\ httpServer \in BOOLEAN
  BY <1>1 DEF Inv, TypeOK
<1> USE <1>2 DEF DrainInv, startVars, serverVars
<1>3. CASE AssignServer \/ Listen \/ ServerClosed \/ FatalRun
  BY <1>3 DEF AssignServer, Listen, ServerClosed, FatalRun
<1>4. CASE Load \/ FatalStart \/ initializeProxy \/ RoutePanic \/ StartRunner \/ Notify
  BY <1>4 DEF Load, FatalStart, initializeProxy, RoutePanic, StartRunner, Notify, AllInitialized
<1>5. CASE Connect
  BY <1>5 DEF Connect
<1>6. CASE \E p \in Services(cfg) : StopProxy(p)
  BY <1>6 DEF StopProxy
<1>7. CASE ShutdownServer \/ Drained \/ Forced \/ Return
  <2>1. CASE ShutdownServer
    <3>1. CASE httpServer
      BY <2>1, <3>1 DEF ShutdownServer
    <3>2. CASE ~httpServer
      BY <2>1, <3>2 DEF ShutdownServer
    <3>3. QED
      BY <3>1, <3>2
  <2>2. CASE Drained \/ Forced \/ Return
    BY <2>2 DEF Drained, Forced, Return
  <2>3. QED
    BY <1>7, <2>1, <2>2
<1>8. CASE \E s \in Stores : Close(s)
  BY <1>8 DEF Close
<1>9. CASE Signal \/ Killed \/ Tick
  BY <1>9 DEF Signal, Killed, Tick
<1>10. CASE \E r \in Requests : Accept(r) \/ Answer(r)
  BY <1>10 DEF Accept, Answer
<1>11. CASE UNCHANGED vars
  BY <1>11 DEF vars
<1>12. QED
  BY <1>1, <1>3, <1>4, <1>5, <1>6, <1>7, <1>8, <1>9, <1>10, <1>11
  DEF Next, Runner, Main, StartUp, Stop

(* A turn of the loop of initializeProxies adds its service to what is built *)
(* and takes the one whose path it has out of the map.                       *)
LEMMA InitializeProxies == Inv /\ initializeProxy => ProxiesInv'
<1>1. SUFFICES ASSUME Inv, initializeProxy PROVE ProxiesInv'
  OBVIOUS
<1> DEFINE i == initialized + 1
<1>2. /\ initialized \in Nat
      /\ 1..i = 1..initialized \cup {i}
      /\ \A j \in 1..initialized : j < i
  <2>1. initialized \in Nat
    BY <1>1 DEF Inv, TypeOK
  <2>2. QED
    BY <2>1, NextNumber
<1>3. initialized' = i /\ cfg' = cfg /\ main' = main /\ main = "proxies"
  BY <1>1 DEF initializeProxy
<1>4. CASE UNCHANGED <<proxies, checking>> /\ ~(HasTargets(cfg, i) /\ Builds(cfg, i))
  <2>1. Built' = Built /\ Latest' = Latest
    BY <1>2, <1>3, <1>4 DEF Built, Latest
  <2>2. QED
    BY <1>1, <1>3, <1>4, <2>1 DEF Inv, ProxiesInv, Started
<1>5. CASE /\ HasTargets(cfg, i) /\ Builds(cfg, i)
           /\ proxies' = {j \in proxies : Path(cfg, j) # Path(cfg, i)} \cup {i}
           /\ checking' = checking \cup {i}
  <2>1. Built' = Built \cup {i}
    BY <1>2, <1>3, <1>5 DEF Built
  <2>2. \A j \in Built : j < i /\ j \in Nat
    BY <1>2 DEF Built
  <2>3. Latest' = {j \in Latest : Path(cfg, j) # Path(cfg, i)} \cup {i}
    BY <1>2, <1>3, <2>1, <2>2 DEF Latest
  <2>4. proxies' = Latest'
    BY <1>1, <1>5, <2>3 DEF Inv, ProxiesInv
  <2>5. checking' = Built'
    BY <1>1, <1>3, <1>5, <2>1 DEF Inv, ProxiesInv
  <2>6. QED
    BY <1>1, <1>3, <2>4, <2>5 DEF Inv, ProxiesInv, Started
<1>6. QED
  BY <1>1, <1>4, <1>5 DEF initializeProxy

(* Every other step leaves the map alone; StopProxy takes a checker away     *)
(* that belongs to a proxy in it, and Shutdown goes on when all are gone.    *)
LEMMA NextProxies == Inv /\ [Next]_vars => ProxiesInv'
<1>1. SUFFICES ASSUME Inv, [Next]_vars PROVE ProxiesInv'
  OBVIOUS
<1>2. TypeOK /\ ProxiesInv
  BY <1>1 DEF Inv
<1>3. CASE initializeProxy
  BY <1>1, <1>3, InitializeProxies
<1>4. ASSUME UNCHANGED <<cfg, initialized>> PROVE Built' = Built /\ Latest' = Latest
  BY <1>4 DEF Built, Latest
<1> USE <1>2, <1>4 DEF ProxiesInv, Started, startVars, serverVars
<1>5. CASE AssignServer \/ Listen \/ ServerClosed \/ FatalRun
  BY <1>5 DEF AssignServer, Listen, ServerClosed, FatalRun
<1>6. CASE Load \/ Connect \/ FatalStart \/ RoutePanic \/ Notify
  BY <1>6 DEF Load, Connect, FatalStart, RoutePanic, AllInitialized, Notify
<1>7. CASE StartRunner
  <2>1. Services(cfg) = 1..initialized
    <3>1. PICK n \in Nat : Services(cfg) = 1..n
      BY Numbered DEF TypeOK
    <3>2. initialized \in Nat /\ 1..initialized \subseteq 1..n /\ initialized + 1 \notin 1..n
      BY <1>7, <3>1 DEF StartRunner, AllInitialized, TypeOK
    <3>3. n = initialized
      BY <3>2
    <3>4. QED
      BY <3>1, <3>3
  <2>2. QED
    BY <1>7, <2>1 DEF StartRunner, AllInitialized
<1>8. CASE \E p \in Services(cfg) : StopProxy(p)
  BY <1>8 DEF StopProxy
<1>9. CASE ShutdownServer \/ Drained \/ Forced \/ Return
  BY <1>9 DEF ShutdownServer, Drained, Forced, Return
<1>10. CASE \E s \in Stores : Close(s)
  BY <1>10 DEF Close
<1>11. CASE Signal \/ Killed \/ Tick
  BY <1>11 DEF Signal, Killed, Tick
<1>12. CASE \E r \in Requests : Accept(r) \/ Answer(r)
  BY <1>12 DEF Accept, Answer
<1>13. CASE UNCHANGED vars
  BY <1>13 DEF vars
<1>14. QED
  BY <1>1, <1>3, <1>5, <1>6, <1>7, <1>8, <1>9, <1>10, <1>11, <1>12, <1>13
  DEF Next, Runner, Main, StartUp, Stop

(* The inductive invariant holds of every state of the process. *)
LEMMA Invariance == Spec => []Inv
<1>1. Inv /\ [Next]_vars => Inv'
  BY NextTyped, NextStores, NextDrain, NextProxies DEF Inv
<1>2. QED
  BY InitInv, <1>1, PTL DEF Spec

-----------------------------------------------------------------------------
(* New is only called with both stores open, and every proxy in the map has  *)
(* targets, for every configuration that Load may return.                    *)
THEOREM TypeCorrect == Spec => []TypeOK
BY Invariance, PTL DEF Inv

(* Shutdown keeps both stores open for every request it waits for, and main  *)
(* does not return before the last of them has been answered.                *)
THEOREM StoresKept == Spec => []StoresOutliveRequests
<1>1. Inv => StoresOutliveRequests
  BY DEF Inv, StoresInv, DrainInv, StoresOutliveRequests
<1>2. QED
  BY <1>1, Invariance, PTL

(* When Shutdown turns to the server, the health checkers still running are  *)
(* exactly those of services whose path a later service has taken over.      *)
THEOREM OnlyReplacedCheck == Spec => []CheckersStopped
<1>1. ASSUME Inv, main \in {"draining", "returning"}
      PROVE  checking = {i \in Services(cfg) : Builds(cfg, i) /\ Replaced(i)}
  <2>1. /\ Services(cfg) = 1..initialized /\ initialized \in Nat
        /\ \A i \in 1..initialized : HasTargets(cfg, i)
        /\ checking = Built \ Latest
    BY <1>1 DEF Inv, TypeOK, ProxiesInv, Started, Valid
  <2>2. Built = {i \in 1..initialized : Builds(cfg, i)}
    BY <2>1 DEF Built
  <2>3. \A i \in Built : i \notin Latest <=> Replaced(i)
    <3>1. TAKE i \in Built
    <3>2. i \in Nat /\ \A j \in 1..initialized : j > i <=> j \in (i + 1)..initialized
      BY <2>1 DEF Built
    <3>3. (i + 1)..initialized \subseteq 1..initialized
      BY <2>1, <3>2
    <3>4. QED
      BY <2>2, <3>2, <3>3 DEF Latest, Replaced
  <2>4. QED
    BY <2>1, <2>2, <2>3
<1>2. Inv => CheckersStopped
  BY <1>1 DEF CheckersStopped
<1>3. QED
  BY <1>2, Invariance, PTL
=============================================================================

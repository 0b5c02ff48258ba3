------------------------------ MODULE Lifecycle ------------------------------
(***************************************************************************)
(* The life of the gateway process: main of cmd/gateway, Load and validate *)
(* of internal/config, New, Run and Shutdown of internal/server, and the   *)
(* goroutine in which main runs the server.  The process ends when main    *)
(* returns, when either goroutine calls log.Fatal, which waits for no one  *)
(* and runs no deferred call, when New panics, which does run them, and    *)
(* when a signal comes before Notify.                                      *)
(*                                                                         *)
(* A configuration is what the file and the environment amount to:         *)
(* whether the required settings are there, whether gin takes its routes,  *)
(* and its services in order.  A service has a path ("" when it is         *)
(* missing), a number of targets, and NewWithConfig makes a proxy of it or *)
(* does not (an unknown strategy, a target that is no URL).                *)
(***************************************************************************)
EXTENDS Naturals, Sequences

CONSTANTS
    Requests,      \* HTTP requests
    Configs,       \* [complete : BOOLEAN, routable : BOOLEAN, services : Seq(Service)]
    DrainTimeout   \* five seconds, in clock units

Service == [path : STRING, targets : Nat, builds : BOOLEAN]

ASSUME LifecycleAssumption ==
    /\ DrainTimeout \in Nat
    /\ \A c \in Configs :
        /\ c.complete \in BOOLEAN /\ c.routable \in BOOLEAN
        /\ Len(c.services) \in Nat
        /\ DOMAIN c.services = 1..Len(c.services)
        /\ \A i \in 1..Len(c.services) :
            /\ c.services[i].targets \in Nat
            /\ c.services[i].builds \in BOOLEAN

Stores == {"redis", "postgres"}

VARIABLES
    cfg,
    main,
    open,         \* stores that are connected and not closed
    initialized,  \* services that initializeProxies is done with
    proxies,      \* the services in the map from paths to proxies
    checking,     \* services whose health checker has not been stopped
    runner,       \* the goroutine that calls srv.Run
    httpServer,   \* s.httpServer has been assigned
    inShutdown,   \* http.Server.Shutdown has begun
    inFlight,     \* requests accepted and not answered
    timeLeft,     \* of the context that Shutdown is given
    exit          \* how the process ended

startVars == <<cfg, open, initialized, proxies>>
serverVars == <<httpServer, inShutdown, inFlight>>
vars == <<startVars, main, checking, runner, serverVars, timeLeft, exit>>

Running == exit = "no"

(* The services of a configuration. *)
Services(c) == 1..Len(c.services)
Path(c, i) == c.services[i].path
HasTargets(c, i) == c.services[i].targets > 0
Builds(c, i) == c.services[i].builds

Init ==
    /\ cfg \in Configs
    /\ main = "config"
    /\ open = {}
    /\ initialized = 0
    /\ proxies = {}
    /\ checking = {}
    /\ runner = "none"
    /\ httpServer = FALSE
    /\ inShutdown = FALSE
    /\ inFlight = {}
    /\ timeLeft = DrainTimeout
    /\ exit = "no"

-----------------------------------------------------------------------------
(* Starting up *)

Valid(c) ==
    /\ c.complete
    /\ c.services # <<>>
    /\ \A i \in Services(c) : Path(c, i) # "" /\ HasTargets(c, i)

Load ==
    /\ main = "config"
    /\ Valid(cfg)
    /\ main' = "redis"
    /\ UNCHANGED <<startVars, checking, runner, serverVars, timeLeft, exit>>

(* Fault: main goes on when NewRedis returns an error. *)
ConnectAnyway ==
    /\ \/ main = "redis" /\ open' \in {open, open \cup {"redis"}} /\ main' = "postgres"
       \/ main = "postgres" /\ open' = open \cup {"postgres"} /\ main' = "migrate"
       \/ main = "migrate" /\ main' = "proxies" /\ UNCHANGED open
    /\ UNCHANGED <<cfg, initialized, proxies, checking, runner, serverVars, timeLeft, exit>>

(* NewRedis, NewPostgres and AutoMigrate, one after the other. *)
Connect ==
    /\ \/ main = "redis" /\ open' = open \cup {"redis"} /\ main' = "postgres"
       \/ main = "postgres" /\ open' = open \cup {"postgres"} /\ main' = "migrate"
       \/ main = "migrate" /\ main' = "proxies" /\ UNCHANGED open
    /\ UNCHANGED <<cfg, initialized, proxies, checking, runner, serverVars, timeLeft, exit>>

AllInitialized == main = "proxies" /\ initialized + 1 \notin Services(cfg)

(* A bad configuration, a store out of reach, or a schema that cannot be      *)
(* brought up to date: log.Fatal.                                             *)
FatalStart ==
    /\ \/ main = "config" /\ ~Valid(cfg)
       \/ main \in {"redis", "postgres", "migrate"}
    /\ exit' = "Failed to start up"
    /\ UNCHANGED <<startVars, main, checking, runner, serverVars, timeLeft>>

(* One turn of the loop over the services.  NewWithConfig starts the health   *)
(* checker; a service that it makes no proxy of is skipped.  The path is the  *)
(* key of the map: a later service replaces an earlier one with its path.     *)
initializeProxy ==
    /\ main = "proxies"
    /\ initialized' = initialized + 1
    /\ LET i == initialized + 1 IN
        /\ i \in Services(cfg)
        /\ \/ /\ ~HasTargets(cfg, i) \/ ~Builds(cfg, i)
              /\ UNCHANGED <<proxies, checking>>
           \/ /\ HasTargets(cfg, i) /\ Builds(cfg, i)
              /\ proxies' = {j \in proxies : Path(cfg, j) # Path(cfg, i)} \cup {i}
              /\ checking' = checking \cup {i}
    /\ UNCHANGED <<cfg, open, main, runner, serverVars, timeLeft, exit>>

(* gin panics at a route that conflicts with another one.  New does not       *)
(* return, and the panic runs main's deferred calls.                          *)
RoutePanic ==
    /\ AllInitialized
    /\ ~cfg.routable
    /\ main' = "panicking"
    /\ UNCHANGED <<startVars, checking, runner, serverVars, timeLeft, exit>>

(* The routes are set up and the server goroutine is started. *)
StartRunner ==
    /\ AllInitialized
    /\ cfg.routable
    /\ runner' = "new"
    /\ main' = "started"
    /\ UNCHANGED <<startVars, checking, serverVars, timeLeft, exit>>

Notify ==
    /\ main = "started"
    /\ main' = "waiting"
    /\ UNCHANGED <<startVars, checking, runner, serverVars, timeLeft, exit>>

(* Before signal.Notify a signal ends the process at once. *)
Killed ==
    /\ main \in {"config", "redis", "postgres", "migrate", "proxies", "panicking", "started"}
    /\ exit' = "killed"
    /\ UNCHANGED <<startVars, main, checking, runner, serverVars, timeLeft>>

-----------------------------------------------------------------------------
(* The server goroutine *)

AssignServer ==
    /\ runner = "new"
    /\ httpServer' = TRUE
    /\ runner' = "assigned"
    /\ UNCHANGED <<startVars, main, checking, inShutdown, inFlight, timeLeft, exit>>

(* ListenAndServe listens, unless the address is taken. *)
Listen ==
    /\ runner = "assigned"
    /\ \/ ~inShutdown /\ runner' = "serving"
       \/ runner' = "failed"
    /\ UNCHANGED <<startVars, main, checking, serverVars, timeLeft, exit>>

(* ListenAndServe returns ErrServerClosed as soon as Shutdown begins. *)
ServerClosed ==
    /\ runner \in {"assigned", "serving"}
    /\ inShutdown
    /\ runner' = "closed"
    /\ UNCHANGED <<startVars, main, checking, serverVars, timeLeft, exit>>

(* Run never returns without an error. *)
FatalRun ==
    /\ runner \in {"failed", "closed"}
    /\ exit' = "Server failed to start"
    /\ UNCHANGED <<startVars, main, checking, runner, serverVars, timeLeft>>

Accept(r) ==
    /\ runner = "serving"
    /\ ~inShutdown
    /\ r \notin inFlight
    /\ inFlight' = inFlight \cup {r}
    /\ UNCHANGED <<startVars, main, checking, runner, httpServer, inShutdown, timeLeft, exit>>

Answer(r) ==
    /\ r \in inFlight
    /\ inFlight' = inFlight \ {r}
    /\ UNCHANGED <<startVars, main, checking, runner, httpServer, inShutdown, timeLeft, exit>>

-----------------------------------------------------------------------------
(* Shutting down *)

Signal ==
    /\ main = "waiting"
    /\ main' = "stopping"
    /\ UNCHANGED <<startVars, checking, runner, serverVars, timeLeft, exit>>

(* Fault: stopping a proxy waits for requests. *)
StopProxyWhenIdle(p) ==
    /\ main = "stopping"
    /\ p \in proxies \cap checking
    /\ inFlight = {}
    /\ checking' = checking \ {p}
    /\ UNCHANGED <<startVars, main, runner, serverVars, timeLeft, exit>>

(* p.Stop for one proxy after the other, in any order: a map is iterated. *)
StopProxy(p) ==
    /\ main = "stopping"
    /\ p \in proxies \cap checking
    /\ checking' = checking \ {p}
    /\ UNCHANGED <<startVars, main, runner, serverVars, timeLeft, exit>>

(* Fault: the listener is closed with the checkers still to be stopped. *)
ShutdownServerFirst ==
    /\ main = "stopping"
    /\ inShutdown' = httpServer
    /\ main' = IF httpServer THEN "draining" ELSE "returning"
    /\ UNCHANGED <<startVars, checking, runner, httpServer, inFlight, timeLeft, exit>>

(* Without a server yet there is nothing to shut down. *)
ShutdownServer ==
    /\ main = "stopping"
    /\ proxies \cap checking = {}
    /\ inShutdown' = httpServer
    /\ main' = IF httpServer THEN "draining" ELSE "returning"
    /\ UNCHANGED <<startVars, checking, runner, httpServer, inFlight, timeLeft, exit>>

Drained ==
    /\ main = "draining"
    /\ inFlight = {}
    /\ main' = "returning"
    /\ UNCHANGED <<startVars, checking, runner, serverVars, timeLeft, exit>>

Tick ==
    /\ main \in {"stopping", "draining"}
    /\ timeLeft > 0
    /\ timeLeft' = timeLeft - 1
    /\ UNCHANGED <<startVars, main, checking, runner, serverVars, exit>>

Forced ==
    /\ main = "draining"
    /\ timeLeft = 0
    /\ exit' = "Server forced to shutdown"
    /\ UNCHANGED <<startVars, main, checking, runner, serverVars, timeLeft>>

(* Fault: the stores are closed when the signal comes, not by deferred calls. *)
CloseEarly(s) ==
    /\ main \in {"stopping", "draining", "returning", "panicking"}
    /\ s \in open
    /\ s = "redis" => "postgres" \notin open
    /\ open' = open \ {s}
    /\ UNCHANGED <<cfg, initialized, proxies, main, checking, runner, serverVars, timeLeft, exit>>

(* The deferred calls, in reverse order. *)
Close(s) ==
    /\ main \in {"returning", "panicking"}
    /\ s \in open
    /\ s = "redis" => "postgres" \notin open
    /\ open' = open \ {s}
    /\ UNCHANGED <<cfg, initialized, proxies, main, checking, runner, serverVars, timeLeft, exit>>

Return ==
    /\ main \in {"returning", "panicking"}
    /\ open = {}
    /\ exit' = IF main = "returning" THEN "Server Exited" ELSE "panic"
    /\ UNCHANGED <<startVars, main, checking, runner, serverVars, timeLeft>>

Runner == Running /\ (AssignServer \/ Listen \/ ServerClosed \/ FatalRun)
StartUp == Load \/ Connect \/ FatalStart \/ initializeProxy \/ RoutePanic \/ StartRunner \/ Notify
Stop ==
    \/ \E p \in Services(cfg) : StopProxy(p)
    \/ ShutdownServer \/ Drained \/ Forced
    \/ \E s \in Stores : Close(s)
    \/ Return
Main == Running /\ (StartUp \/ Stop)

Next ==
    \/ Runner \/ Main
    \/ Running /\ (Signal \/ Killed \/ Tick)
    \/ Running /\ \E r \in Requests : Accept(r) \/ Answer(r)

Spec == Init /\ [][Next]_vars

(* Both goroutines are scheduled, every connection attempt and migration      *)
(* ends, and time passes.  No fairness for signals, and none for Answer: a    *)
(* request may hang.                                                          *)
Fairness == WF_vars(Runner) /\ WF_vars(Main) /\ WF_vars(Running /\ Tick)

FairSpec == Spec /\ Fairness

-----------------------------------------------------------------------------
(* Type invariant.  New is only called with both stores open, and             *)
(* every service in the map has targets: initializeProxies' warning about a   *)
(* service without any is never given.                                        *)
TypeOK ==
    /\ cfg \in Configs
    /\ main \in {"config", "redis", "postgres", "migrate", "proxies", "panicking",
                 "started", "waiting", "stopping", "draining", "returning"}
    /\ open \subseteq Stores
    /\ main \in {"proxies", "started", "waiting"} => open = Stores
    /\ initialized \in Nat /\ 1..initialized \subseteq Services(cfg)
    /\ proxies \subseteq {i \in 1..initialized : HasTargets(cfg, i)}
    /\ checking \subseteq 1..initialized
    /\ runner \in {"none", "new", "assigned", "serving", "failed", "closed"}
    /\ httpServer \in BOOLEAN /\ inShutdown \in BOOLEAN
    /\ inFlight \subseteq Requests
    /\ timeLeft \in 0..DrainTimeout
    /\ exit \in {"no", "Failed to start up", "panic", "killed", "Server failed to start",
                 "Server forced to shutdown", "Server Exited"}

(* Service i has been replaced in the map by a later one with its path. *)
Replaced(i) ==
    \E j \in (i + 1)..initialized : Builds(cfg, j) /\ Path(cfg, j) = Path(cfg, i)

(* Shutdown stops the health checker of every service that has one, except    *)
(* those whose path a later service took over: their proxies are in no map,   *)
(* so nothing can stop them, and they probe on while requests drain.          *)
CheckersStopped ==
    main \in {"draining", "returning"} =>
        checking = {i \in Services(cfg) : Builds(cfg, i) /\ Replaced(i)}

(* A request that Shutdown waits for keeps both stores to the end: the        *)
(* deferred closes only run when the last one has been answered, so "Server   *)
(* Exited" means that none was cut off, whatever the server goroutine did.    *)
StoresOutliveRequests ==
    inShutdown /\ inFlight # {} => open = Stores /\ exit # "Server Exited"

(* Starting up ends, and once a signal has been received the process ends,    *)
(* even if a request hangs, the server never came up, or the signal comes     *)
(* while Run is still assigning httpServer.                                   *)
SignalEndsProcess == main # "waiting" ~> main = "waiting" \/ ~Running

(* "Server failed to start": the process reports so only if the server did    *)
(* not start.  A request that was accepted and is being answered shows that   *)
(* it had.                                                                    *)
FailedMeansNotStarted == exit = "Server failed to start" => inFlight = {}
=============================================================================

# A TLA+ model of the API gateway

The gateway is one Go process in front of a set of backend services. It keeps
state in memory (circuit breakers, health status, connection counts, a log
buffer), in Redis (rate limits, cached API keys) and in PostgreSQL (API keys,
users, request logs). Almost all of its difficulty is concurrency: every HTTP
request runs in a goroutine of its own, and each lock, Redis command and query
is a separate step between which any other request, timer or administrator may
act. The modules here describe those steps, TLC checks them on small instances,
and TLAPS proves their safety properties for every instance.

## The system

| Part | Source | State | Operations | Hard behaviours |
|---|---|---|---|---|
| Circuit breaker | `internal/circuitbreaker` | state, two counters, two time stamps | `Call`, `Reset` | `fn` runs outside the lock: results arrive in a later state |
| Health checker | `internal/healthcheck` | status per target, list of healthy targets | `Start`, `Stop`, probe rounds | probes of a round finish in any order; stop during a round |
| Load balancer | `internal/loadbalancer` | round-robin counter, connection counts, `rand.Rand` | `Next`, `Increment`, `Decrement` | counter wraps around; unsynchronized `rand.Rand` |
| Proxy | `internal/proxy` | uses the three above | `Handle` | copied list goes stale; every exit must give back a connection |
| Rate limiters | `internal/ratelimit` | Redis counter, sorted set, bucket | `Allow`, `Remaining`, `Reset` | check-then-act over several Redis commands |
| Rate limit middleware | `internal/middleware/ratelimit.go` | none | tier lookup, headers | clock read several times |
| API keys | `internal/service/apikey.go` and its repository, handler, middleware | row, cached copy | `Create`, `Validate`, `Update`, `Delete` | two stores without a transaction |
| Request logger | `internal/middleware/requestlogger.go` | channel, batch | send, batch insert | full channel, failed insert, process exit |
| Process | `cmd/gateway`, `internal/server`, `internal/config`, `internal/storage` | connections, proxies, server, in-flight requests | `Load`, `New`, `Run`, `Shutdown` | stores that fail, signal at any time, two goroutines that may end the process |
| Request pipeline | `internal/server`, `internal/middleware` | one `gin.Context` per request | the chain of middleware and handlers | who stops a request, and what has happened to it by then |
| Authentication | `internal/service/authService.go` and its repository, handler, middleware | users, tokens | `Register`, `Login`, `RequireAuth` | check-then-create on the email |
| Analytics | `internal/service/analytics.go` and its repository, handler | none | reports | several queries for one report while entries are inserted |
| System handler | `internal/handler/systemHandler.go` | none | reset a breaker | |

A request passes Recovery, RequestID, Logger, RequestLogger, CORS, the API-key
validator and the rate limiter, and then a handler or `Proxy.Handle`. `Handle`
copies the health checker's list, asks the strategy for a target, and forwards
inside the service's circuit breaker.

## The modules

Each module says at its head what it abstracts. Operators marked *Fault* are
plausible mistakes in the definition that follows them. They are not part of
any specification; they show that a property can fail.

**`CircuitBreaker`**. `Call` is two actions, one for each critical section:
`Admit` or `Reject` on the way in, `Fail`, `Succeed` or `Panic` on the way out.
Time stamps are ages that saturate just above the timeout, the only value they
are compared with, and `failureCount` saturates at `CountCap >= maxFailures`, so
the model is finite without a bound on time or failures.
**`BreakerContract`** is what a caller may rely on: a gate with a cool-down.

**`HealthChecker`**. One round is `Start` or `CheckOnTick`, a probe result for
each position of the target list in any order, and `updateHealthyTargets`. The
list of healthy targets is the set of positions it keeps.

**`LoadBalancer`** has the three strategies as actions on a list. `int` has the
width given by `IntMax`, and Go's remainder keeps the sign of the dividend.
`LeastConnections` takes an empty target that it finds least used for none, and
returns the first entry instead.

**`Proxy`** extends the load balancer and the breaker and composes them into
`Handle`, one action per step that touches shared state. The health checker
appears as `HealthUpdate`, which installs any list of configured entries, more
than `HealthChecker` ever does: `HealthyProxy` shows that. Nothing keeps an
empty string out of the configured list; a request that is given it is answered
with a 503 (`SelectsEmpty`) before its connection is counted and the breaker is
asked. A panic in `ServeHTTP` or in `Next` unwinds
`Handle` and runs its deferred `Decrement`. For `Random` a panic is possible
whenever two requests are in `Next` together, which is the data race's outcome.

**`RateLimiter`** is the middleware for one client: the tier names an algorithm,
`NewLimiter` makes its limiter, and requests go through it.
**`FixedWindow`, `SlidingWindow`, `TokenBucket`**, which it instantiates, have one action per Redis
command and per reading of the clock. Commands whose errors the code ignores
have a failing variant. Redis drops keys when the clock reaches their expiry.
The clock is bounded by `MaxTime`. In the token bucket a token is `Token` parts,
so refills of a fraction of a token occur. The headers `Remaining` and `Reset`
are modelled for the fixed window; for the other two they only read.

**`APIKeyCache`** is one key: its row, the cached copy with its time to live,
`Validate` in three steps, and `Update`/`Delete`, which clear the copy (once per
field) before they write the row.

**`RequestLogger`** has the non-blocking send, the worker's `select`, the insert
as a step of its own during which nothing is received, and the end of the
process. An insert that reports an error may have written its rows: `insertBatch`
drops the batch either way. **`LossyQueue`** is its abstract view: one bounded FIFO queue.

**`Analytics`** extends it with the reports: the summary, one action per query,
the statistics of one API key, and the log read page by page by a client. The
worker inserts between any two queries. A page is cut from *some* order of the
rows that the query's `ORDER BY` allows, so entries with equal time stamps, and
all entries of the listing by status, may change places between two pages.

**`HealthyProxy`** is a service as `NewWithConfig` puts it together: it extends
`HealthChecker` and instantiates `Proxy`, whose list is now the one that the
checker rebuilds.

**`Accounts`** is the users table with its unique index, and the tokens with
their time to live. **`Pipeline`** extends it with the chain of
`setupMiddleware` and `setupRoutes`: `index` is gin's position in the chain,
`Abort` moves it past the end, `Finish` is what runs after the last handler
(the log entry, then gin's own 404), and `Panic` is a panic on its way to
`Recovery`. `Redirect` is gin's redirect of a path that has a route but for its
last slash: it happens before the chain, so no middleware sees the request. The key service, the limiter and the proxies, which have modules of
their own, appear as any outcome they may have.

**`Lifecycle`** has `main` from `config.Load` on, the goroutine that runs the
server, and the requests in flight. A configuration is what `validate`,
`initializeProxies` and gin's router look at. Either goroutine may end the
process by `log.Fatal`, which runs no deferred call. Routes that conflict make
gin panic in `New`, which does run them: the stores are closed first.

`MC*` modules give constants values or add history variables that only the
properties use.

## What the runs show

Runs that pass:

| Run | Instance | Shows |
|---|---|---|
| `breaker` | 3 calls | Closed exactly while failures are below the threshold; the timeout covers the whole open period; `BreakerContract` is kept; the circuit recovers once calls stop failing (and panicking in half-open) |
| `health` | list `t1,t2,t1`, 1 request | Health is exact and the list agrees with it between rounds; `Stop` ends the goroutine; the service implements `Proxy`; a target that stays down gets no more requests; one that is up again is listed again, and the circuit closes again once requests do not fail |
| `proxy` | 2 requests, 2 targets and an empty one, all strategies | Only configured, non-empty targets are counted and forwarded to; connection counts never leak; the breaker is used as specified; the service's circuit closes for good once backends are well, some are listed and `Next` neither panics nor returns an empty target |
| `request_log` | 4 requests, 2 with one time stamp, buffer 1, batch 2, pages of 2, reports | No entry is lost without a message or inserted twice; order is kept; nothing waits for ever. Each count of a summary is true of the table at some moment since its first query, so the rates are exact if nothing was inserted meanwhile; paging through a time range skips no entry with a time stamp of its own |
| `rate_limit` | 2 requests at a time, limit 1, 2 windows of 3 units | Fixed window: the limit is exact while a window lasts, and the reset header always leaves it. Sliding window: of the requests of the last window, at most one more than the limit is let through for each other request in `Allow`, provided that each left an entry of its own, and no entry is forgotten early. Token bucket: it stays in range, a refill never subtracts, and sequential requests never outrun the supply |
| `api_key` | 2 validations, 2 administrators | Only active rows are cached; the copy agrees with the row in the end |
| `lifecycle` | 15 configurations, 2 requests | `New` runs only with both stores open; `Shutdown` stops every checker, except those of a service whose path a later service took over; the stores outlive the requests that are drained; startup ends, and a signal always ends the process |
| `pipeline` | 2 requests at a time, 1 email, 2 passwords | Whoever answers is the last to; a request is charged once, to its key or else its address, and not at all when it is turned away before; all requests that reach the chain and do not panic are logged with the status they got; a 201 or 200 about an account is true; admin handlers run for account holders only |

Runs that end in a violation. Each checks a sentence of the repository, quoted
under `findings` in `PROJECT.json`:

| Run | What happens |
|---|---|
| `breaker_half_open_limit` | Every call that arrives in half-open runs, not a limited number |
| `fixed_window_remaining` | `Remaining` reads a key nobody writes and reports the full limit |
| `api_key_stale` | A validation between the clearing and the write restores the old copy |
| `lifecycle_fatal` | A server that has accepted a request, and is draining it after a signal, ends the process with the report that it failed to start |

The models also contain behaviours that no run singles out. Two requests that
count before either adds both pass a sliding window, which `LetThroughBounded`
bounds. It does not bound requests that leave no entry of their own: the members
of the set are time stamps, so requests that read the same time share one, and
the results of `ZAdd` and `Expire` are not looked at. `GET /auth/me` answers 401 whatever the token, because its route is not
behind `RequireAuth`. A panic after the backend's answer was begun makes
`Recovery` write a second body. The error rate of a summary can exceed 100 when
entries are inserted between its queries. A success from
before the circuit opened counts in a half-open period. `Next` panics once the
round-robin counter has wrapped around, and may panic when two requests race on
`rand.Rand`. A request whose handler panics is not logged, since Recovery is the
outer middleware, and entries in memory are lost when the process ends. A fixed
window's request that read the clock in the window and increments after the key
expired is let through. Two requests may spend the same token of a bucket. The
passing properties are stated so that they hold in spite of these.

**Bounds.** Two actors are enough for each race in the code, since every race is
between one request's read and another's write; the breaker has three calls so
that a late result can meet a half-open period with a call of its own. The
`health` run has one request, since `proxy` has two against any list.
Thresholds are 2 where a step below the threshold differs from the step at it.
Capacities are small enough to be exceeded. `MaxTime` covers two windows, so
that a window ends while requests are in it, and a window has more units of time
than the sliding window may let requests through. In `proxy` the empty target is
the last of three, so that each strategy meets it alone and among others; the
breaker, which `breaker` checks with more failures, opens on the first. In
`request_log` entries reach the channel in any order, so an entry older than a
page already read may be inserted later, and the two that share a time stamp may
be cut apart by a page. Deadlock is not checked where the
system really stops: when the process has ended.

**Fairness.** The clock ticks; goroutines that can run are scheduled; calls to
backends and stores return, by a timeout at the latest. `select` chooses at
random among ready branches, so its branches are strongly fair. For the breaker
and the proxy, requests are assumed to keep arriving, since only a call can
half-open the circuit. In `Lifecycle` requests need not end and signals need not
come. `Pipeline` has no liveness property, and needs no fairness.

## What is proved

The proofs are in the eight `*Proofs` modules. They hold for any number of
calls, targets, requests and administrators, and any configuration, from the
assumptions named in the modules: `ConfigAssumption` (settings are integers, the
cap is not below the threshold), `CheckerAssumption`, `BalancerAssumption`,
`ProxyAssumption` (finitely many requests, no more than the largest `int`),
`LimiterAssumption` (limits and windows are positive), `CacheAssumption`,
`LifecycleAssumption` (the shape of a configuration), `AccountsAssumption` (a
token's time to live is positive), `PipelineAssumption` (what a request may
hold), `LoggerAssumption` (buffer and batch hold at least one entry) and
`AnalyticsAssumption` (an entry has a time stamp and a status from 100 to 599,
and limits are positive).

- *Breaker.* In `ProxyProofs`, `BreakerTypeCorrect`, `ThresholdExact`,
  `TrialNeeded` and `OpenForTimeout` prove four invariants; `TrialNeeded`, that a half-open circuit always needs
  another success, is only proved. They need each other: that the count is at the
  threshold in half-open and open is what makes a late failure re-open, and
  `successCount <= halfOpenSuccess` needs that a half-open circuit is below its
  quota. Their conjunction is the inductive invariant. `ContractKept` proves
  that every step is a step of the contract or a stutter.
- *Health checker.* `TypeCorrect`, `ThresholdExact` and `ListCurrent`, in
  `HealthyProxyProofs`. The list agrees with a target's status until the first
  probe of the round touches it.
- *Proxy.* Also in `ProxyProofs`, `BreakerUsed` proves that the breaker inside the proxy only takes its
  own steps, so that the breaker's theorems carry over. `TypeCorrect` proves that
  a request past the selection has a configured target other than the empty one,
  so that the branch for an unknown target is unreachable. `CountsExact` proves that connection counts
  are the number of requests between `Increment` and `Decrement`; it needs that
  this number stays within `int`.
- *Service.* `ServiceHasChecker` and `ServiceImplementsProxy` prove that
  `HealthyProxy` implements both of its parts: a step of the checker is a
  `HealthUpdate` or a stutter of `Proxy`, because the rebuilt list only holds
  configured positions (the checker's type invariant).
- *Rate limiters.* `RateLimiterProofs` proves the properties that need no
  history. The inductive invariant has a part for each limiter. For the fixed
  window: a request's window has begun, and a counter with an expiry expires
  after its window. For the sliding window: the entries of the set, and the
  requests that passed the check and are still to add theirs, are fewer than the
  limit plus the number of requests (`SetBound`). For the bucket: what a
  request holds was saved before it read the clock.
  `RateLimiterHistoryProofs` proves those about what was let through, over the
  history variables of `MCRateLimiter`: every request let through was counted
  in its window (`WindowLimitKept`), an entry's own
  `Expire`, or a later one, covers the entry's window (`EntriesKept`), a request
  let through in the last window is in the set or about to be added to it unless
  the history says that it left no entry, so that `SetBound` bounds those let
  through (`LetThroughLimited`), and tokens held and spent are paid for by a full
  bucket and the refills (`SupplyKept`). The clock is bounded by `MaxTime` there
  too, by any value.
- *API-key cache.* `TypeCorrect`: only active rows are copied, and every copy
  expires. It needs that a validation about to fill the cache holds a row it
  found active.
- *Request logger.* `AnalyticsProofs` proves both invariants of the logger and
  its refinement. `LoggerTypeCorrect` is inductive as it stands. So is
  `NothingLostInSilence`, given the types: a request that is not logged yet has
  no entry anywhere, so sending or skipping it adds one; the worker only moves
  entries on; and table, batch and channel have none in common, so a batch that
  is given up is reported as a whole, and is in the table as a whole or not at
  all. `QueueKept` shows every step to be a step
  of `LossyQueue` or a stutter: joining batch and channel hides `Receive`, which
  only moves the boundary between them, and an insert takes a run off the front.
- *Analytics.* `LoggerBesideReports` proves that the reports only read, so the
  logger's theorems hold beside them. `SummaryTrue` follows from `SummaryInv`:
  some prefix of the table, the same one for all counts, is what the total was
  counted on, and each count made so far lies between the prefix's and the
  table's. The table only grows at its end, so the prefix stays. `PagesComplete`
  follows from `PagingInv`: an entry that was there at the beginning is listed, or
  at least as many entries are newer than it as the pages so far could hold. In
  an order by time stamp an entry with its own stamp comes right after exactly
  the newer ones (`PlaceOfRow`), so such an entry is on the next page or that
  page is full of newer ones too (`NextPage`); inserts can only add newer ones;
  and a page that is not full cannot leave it out.
- *Pipeline.* `PipelineProofs` proves all five properties of the run: `Answered`,
  `Charged`, `Logged`, `AsTold` and `AdminGuarded`. The inductive invariant says
  of each request what its position in the chain implies: nothing is written
  before the last handler has run or one has aborted, past `CORS` it is no
  preflight, past the key check `apiKey` tells whether it came with a key, past
  the limiter it has been charged once, past `RequestLogger` it will be logged,
  and below `/admin` it has a user. Of the accounts it needs that only emails
  with a row have a token, and that a row never changes, so that one request's
  step cannot make another's answer untrue.
- *Process.* `TypeCorrect`, `StoresKept` and `OnlyReplacedCheck`. The last one
  needs an invariant of the loop over the services: the checkers running are
  those of all services built so far, and the map holds those not replaced.

Only model-checked: the liveness properties (`Recovery`, `StopEndsLoop`,
`DownTargetUnused`, `WellServiceServes`, `ServiceRecovers`, `QueuedIsFlushed`,
`CopyConverges`, `SignalEndsProcess`), since reasoning about fairness is out of
the prover's reach. Every invariant, action property and refinement that a
passing run checks is also proved.

## What is not modelled

Header rewriting, response bodies, logging, and most of the content of log
entries, which no property distinguishes. The middleware `Logger` and
`RequestID`, which print and tag. `UpdateLastUsed`, whose column nothing reads.
How passwords are hashed and tokens signed. What averages, percentiles, top
endpoints and the time series come to, which the database computes; the
percentile of an even number of response times need not be an integer, cannot be
scanned into an `int` then, and is reported as 0, as its error is ignored.
`CleanupOldLogs`, which nothing calls, and the analytics settings, which nothing
reads. Parsing of requests: a time range, a limit and an offset are constants or
the client's state. The environment overrides of the configuration, which are
part of what a configuration amounts to. The one-hour expiry of a token bucket:
by then the bucket is full, and `Allow` takes a missing bucket for a full one.
Redis retries inside the client library.

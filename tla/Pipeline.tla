------------------------------ MODULE Pipeline -------------------------------
(***************************************************************************)
(* What happens to a request between gin and its handler: the chain that   *)
(* setupMiddleware and setupRoutes of internal/server put together, the    *)
(* middleware in it that may answer, and the handlers of the routes.       *)
(*                                                                         *)
(* gin calls handler after handler, whether or not one calls c.Next, until *)
(* one has called c.Abort; then what follows c.Next in each runs, the last *)
(* one first.  A panic goes straight to Recovery.  RequestID and Logger    *)
(* only tag and print and are left out of the chain.                       *)
(*                                                                         *)
(* The key service, the limiter and the proxies have modules of their own  *)
(* and are here what this chain sees of them: any outcome they may have.   *)
(***************************************************************************)
EXTENDS Accounts, Integers, Sequences

CONSTANTS
    Requests,   \* requests at a time: each stands for one after the other
    Inputs      \* [route, options, key, token, body]: what a request may hold

(* "none" is any path without a route; "slash" one that has a route when a    *)
(* trailing slash is added to it or taken away.                               *)
Routes == {"health", "register", "login", "me", "admin", "proxy", "none", "slash"}

ASSUME PipelineAssumption ==
    \A i \in Inputs :
        /\ i.route \in Routes
        /\ i.options \in BOOLEAN                          \* the method is OPTIONS
        /\ i.key \in {"absent", "valid", "invalid"}       \* the X-API-Key header
        /\ i.token \in Emails \cup {None}                 \* the bearer token
        /\ i.body = None \/ i.body \in [email : Emails, password : Passwords]

VARIABLE ctx   \* the gin.Context of each request

vars == <<ctx, accounts>>

(* Fault: requests are charged before their key is known. *)
chainLimiterFirst(route) ==
    <<"Recovery", "RequestLogger", "CORS", "RateLimitWithTier", "APIKeyValidator">>
        \o (IF route = "admin" THEN <<"RequireAuth">> ELSE <<>>)
        \o (IF route = "none" THEN <<>> ELSE <<route>>)

(* Fault: RequestLogger comes after middleware that may abort. *)
chainLoggerLate(route) ==
    <<"Recovery", "CORS", "APIKeyValidator", "RequestLogger", "RateLimitWithTier">>
        \o (IF route = "admin" THEN <<"RequireAuth">> ELSE <<>>)
        \o (IF route = "none" THEN <<>> ELSE <<route>>)

(* The handlers of a route in order.  A request that gin redirects has none. *)
chain(route) ==
    IF route = "slash" THEN <<>>
    ELSE <<"Recovery", "RequestLogger", "CORS", "APIKeyValidator", "RateLimitWithTier">>
            \o (IF route = "admin" THEN <<"RequireAuth">> ELSE <<>>)
            \o (IF route = "none" THEN <<>> ELSE <<route>>)

AbortIndex == 63

(* A context for input i: gin has set the status to 404 if there is no route. *)
NewContext(i) ==
    [pc |-> "running", in |-> i, index |-> 1,
     status |-> IF i.route = "none" THEN 404 ELSE 200,
     writes |-> 0,         \* bodies written
     logging |-> FALSE,    \* RequestLogger has called c.Next
     apiKey |-> FALSE,     \* c.Get("api_key")
     user |-> None,        \* c.Get("user_id")
     charged |-> <<>>,     \* the keys limiter.Allow was called with
     checked |-> FALSE,    \* Register has found no user
     served |-> FALSE,     \* the handler of the route has run
     panicked |-> FALSE,
     entry |-> None]       \* what RequestLogger hands to its channel

Idle == [NewContext([route |-> "none", options |-> FALSE, key |-> "absent",
                     token |-> None, body |-> None]) EXCEPT !.pc = "idle"]

Init == AccountsInit /\ ctx = [r \in Requests |-> Idle]

-----------------------------------------------------------------------------
(* gin.Context *)

(* A status does not change once a body has been begun. *)
JSON(c, code) ==
    [c EXCEPT !.status = IF c.writes = 0 THEN code ELSE @,
              !.writes = IF @ = 2 THEN 2 ELSE @ + 1]

Abort(c) == [c EXCEPT !.index = AbortIndex]
Continue(c) == [c EXCEPT !.index = @ + 1]

At(r, handler) ==
    /\ ctx[r].pc = "running"
    /\ ctx[r].index <= Len(chain(ctx[r].in.route))
    /\ chain(ctx[r].in.route)[ctx[r].index] = handler

Becomes(r, c) == ctx' = [ctx EXCEPT ![r] = c]

(* The handler of the route answers. *)
Serve(r, code) == Becomes(r, [Continue(JSON(ctx[r], code)) EXCEPT !.served = TRUE])

Arrive(r) ==
    /\ ctx[r].pc # "running"
    /\ \E i \in Inputs : i.route # "slash" /\ Becomes(r, NewContext(i))
    /\ UNCHANGED accounts

(* RedirectTrailingSlash, on by default: gin sends the client to the path      *)
(* that has a route, with 301 for a GET and 307 for any other method, and      *)
(* calls no handler.                                                           *)
Redirect(r) ==
    /\ ctx[r].pc # "running"
    /\ \E i \in Inputs, code \in {301, 307} :
        /\ i.route = "slash"
        /\ i.options => code = 307
        /\ Becomes(r, [JSON(NewContext(i), code) EXCEPT !.pc = "done"])
    /\ UNCHANGED accounts

-----------------------------------------------------------------------------
(* The middleware. *)

(* Recovery only defers; what it defers is Panic below. *)
Recovery(r) ==
    /\ At(r, "Recovery")
    /\ Becomes(r, Continue(ctx[r]))
    /\ UNCHANGED accounts

RequestLogger(r) ==
    /\ At(r, "RequestLogger")
    /\ Becomes(r, [Continue(ctx[r]) EXCEPT !.logging = TRUE])
    /\ UNCHANGED accounts

CORS(r) ==
    /\ At(r, "CORS")
    /\ Becomes(r, IF ctx[r].in.options THEN Abort(JSON(ctx[r], 204)) ELSE Continue(ctx[r]))
    /\ UNCHANGED accounts

(* Fault: no Abort after the answer. *)
APIKeyValidatorNotAborting(r) ==
    /\ At(r, "APIKeyValidator")
    /\ \/ /\ ctx[r].in.key = "absent"
          /\ Becomes(r, Continue(ctx[r]))
       \/ /\ ctx[r].in.key = "valid"
          /\ Becomes(r, [Continue(ctx[r]) EXCEPT !.apiKey = TRUE])
       \/ /\ ctx[r].in.key # "absent"
          /\ Becomes(r, Continue(JSON(ctx[r], 401)))
    /\ UNCHANGED accounts

(* Validate refuses a key it does not know, and any key when a store fails. *)
APIKeyValidator(r) ==
    /\ At(r, "APIKeyValidator")
    /\ \/ /\ ctx[r].in.key = "absent"
          /\ Becomes(r, Continue(ctx[r]))
       \/ /\ ctx[r].in.key = "valid"
          /\ Becomes(r, [Continue(ctx[r]) EXCEPT !.apiKey = TRUE])
       \/ /\ ctx[r].in.key # "absent"
          /\ Becomes(r, Abort(JSON(ctx[r], 401)))
    /\ UNCHANGED accounts

RateLimitWithTier(r) ==
    LET key == IF ctx[r].apiKey THEN "key id" ELSE "client ip"
        called == [ctx[r] EXCEPT !.charged = Append(@, key)]
    IN  /\ At(r, "RateLimitWithTier")
        /\ Becomes(r, Continue(called))
           \/ \E code \in {429, 500} : Becomes(r, Abort(JSON(called, code)))
        /\ UNCHANGED accounts

(* Fault: no Abort after the answer. *)
RequireAuthNotAborting(r) ==
    /\ At(r, "RequireAuth")
    /\ Becomes(r, IF ValidateToken(ctx[r].in.token)
                  THEN [Continue(ctx[r]) EXCEPT !.user = ctx[r].in.token]
                  ELSE Continue(JSON(ctx[r], 401)))
    /\ UNCHANGED accounts

RequireAuth(r) ==
    /\ At(r, "RequireAuth")
    /\ Becomes(r, IF ValidateToken(ctx[r].in.token)
                  THEN [Continue(ctx[r]) EXCEPT !.user = ctx[r].in.token]
                  ELSE Abort(JSON(ctx[r], 401)))
    /\ UNCHANGED accounts

-----------------------------------------------------------------------------
(* The handlers. *)

(* healthCheck pings both stores. *)
Health(r) ==
    /\ At(r, "health")
    /\ \E redisHealthy, dbHealthy \in BOOLEAN :
        Serve(r, IF redisHealthy /\ dbHealthy THEN 200 ELSE 503)
    /\ UNCHANGED accounts

(* Register looks for the email; the query may fail. *)
RegisterFind(r) ==
    LET body == ctx[r].in.body
    IN  /\ At(r, "register") /\ ~ctx[r].checked
        /\ \/ body # None /\ FindByEmail(body.email) = None
              /\ Becomes(r, [ctx[r] EXCEPT !.checked = TRUE])
           \/ Serve(r, 400)
        /\ UNCHANGED accounts

(* Register inserts the row.  The reply may be lost once the row is there. *)
RegisterCreate(r) ==
    LET body == ctx[r].in.body
    IN  /\ At(r, "register") /\ ctx[r].checked
        /\ \/ Create(body.email, body.password) /\ (Serve(r, 201) \/ Serve(r, 400))
           \/ UNCHANGED accounts /\ Serve(r, 400)

Login(r) ==
    LET body == ctx[r].in.body
    IN  /\ At(r, "login")
        /\ \/ /\ body # None /\ PasswordMatches(body.email, body.password)
              /\ SignToken(body.email)
              /\ Serve(r, 200)
           \/ /\ UNCHANGED accounts
              /\ IF body = None THEN Serve(r, 400) ELSE Serve(r, 401)

(* Me reads the user that only RequireAuth sets; its route is not behind it. *)
Me(r) ==
    /\ At(r, "me")
    /\ IF ctx[r].user = None THEN Serve(r, 401)
       ELSE \E code \in {200, 404, 500} : Serve(r, code)
    /\ UNCHANGED accounts

(* The handlers below /admin: what they do is in other modules. *)
Admin(r) ==
    /\ At(r, "admin")
    /\ \E code \in {200, 201, 400, 404, 500} : Serve(r, code)
    /\ UNCHANGED accounts

(* Handle passes on what a backend answers, or 502, or answers 503 itself. *)
Proxy(r) ==
    /\ At(r, "proxy")
    /\ \E code \in {200, 502, 503} : Serve(r, code)
    /\ UNCHANGED accounts

(* Handle panics in the load balancer, or, when the backend breaks off, after *)
(* it has begun to answer.                                                    *)
Panic(r) ==
    /\ At(r, "proxy")
    /\ \E c \in {ctx[r], JSON(ctx[r], 200)} :
        Becomes(r, [Abort(JSON(c, 500)) EXCEPT !.pc = "done", !.panicked = TRUE])
    /\ UNCHANGED accounts

(* After the last handler: RequestLogger's entry, then gin's own 404. *)
Finish(r) ==
    LET c == [ctx[r] EXCEPT
                !.pc = "done",
                !.entry = IF ctx[r].logging
                          THEN [status |-> ctx[r].status, apiKey |-> ctx[r].apiKey]
                          ELSE None]
    IN  /\ ctx[r].pc = "running"
        /\ ctx[r].index > Len(chain(ctx[r].in.route))
        /\ Becomes(r, IF c.writes = 0 THEN JSON(c, c.status) ELSE c)
        /\ UNCHANGED accounts

-----------------------------------------------------------------------------
Middleware(r) ==
    \/ Recovery(r) \/ RequestLogger(r) \/ CORS(r) \/ APIKeyValidator(r)
    \/ RateLimitWithTier(r) \/ RequireAuth(r)

Handler(r) ==
    \/ Health(r) \/ RegisterFind(r) \/ RegisterCreate(r) \/ Login(r) \/ Me(r)
    \/ Admin(r) \/ Proxy(r) \/ Panic(r)

Next ==
    \/ \E r \in Requests : Arrive(r) \/ Redirect(r) \/ Middleware(r) \/ Handler(r) \/ Finish(r)
    \/ TokensAge /\ UNCHANGED ctx

Spec == Init /\ [][Next]_vars

-----------------------------------------------------------------------------
Done(r) == ctx[r].pc = "done"

(* Whoever answers is the last to: no middleware answers and lets the chain  *)
(* go on, and no request goes without an answer.  Only a panic after the     *)
(* answer was begun makes Recovery add a second body.                        *)
AnsweredOnce ==
    \A r \in Requests :
        /\ ctx[r].writes = 2 => ctx[r].panicked
        /\ Done(r) => ctx[r].writes > 0

(* A request that reaches its handler has been charged once, to the key it   *)
(* came with or else to its address; one that is turned away for its key,    *)
(* and a preflight, are charged to no one.                                   *)
ChargedOnce ==
    \A r \in Requests :
        /\ ctx[r].served =>
            ctx[r].charged = IF ctx[r].in.key = "absent" THEN <<"client ip">>
                             ELSE <<"key id">>
        /\ Done(r) /\ (ctx[r].in.options \/ ctx[r].in.key = "invalid") =>
            ctx[r].charged = <<>>

(* Every request that gin hands to the chain and that does not panic is      *)
(* logged, those that are turned away and those without a route included,    *)
(* with the status that was sent and the key it was charged to.  A redirect  *)
(* is answered outside of the chain and leaves no entry.                     *)
LoggedAsAnswered ==
    \A r \in Requests :
        Done(r) /\ ~ctx[r].panicked =>
            ctx[r].entry = IF ctx[r].in.route = "slash" THEN None
                           ELSE [status |-> ctx[r].status, apiKey |-> ctx[r].apiKey]

(* What a client is told about an account stays true: after a 201 the email  *)
(* has the password that was sent with it, whoever registered it at the same *)
(* time, and a login that was answered 200 had the account's password.       *)
AccountsAsTold ==
    \A r \in Requests :
        Done(r) /\ <<ctx[r].in.route, ctx[r].status>> \in {<<"register", 201>>, <<"login", 200>>}
            => PasswordMatches(ctx[r].in.body.email, ctx[r].in.body.password)

(* A handler below /admin runs only for the holder of an account.            *)
AdminHasUser ==
    \A r \in Requests :
        ctx[r].served /\ ctx[r].in.route = "admin" =>
            ctx[r].user # None /\ users[ctx[r].user] # None
=============================================================================

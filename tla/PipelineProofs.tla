--------------------------- MODULE PipelineProofs ----------------------------
(***************************************************************************)
(* What the middleware chain guarantees, for any number of requests at a   *)
(* time, accounts and kinds of requests.                                   *)
(***************************************************************************)
EXTENDS Pipeline, TLAPS

(* What a request may hold; that of no request at all included. *)
InputOK(i) ==
    /\ i.route \in Routes
    /\ i.options \in BOOLEAN
    /\ i.key \in {"absent", "valid", "invalid"}
    /\ i.token \in Emails \cup {None}
    /\ i.body = None \/ i.body \in [email : Emails, password : Passwords]

NoInput == [route |-> "none", options |-> FALSE, key |-> "absent",
            token |-> None, body |-> None]

(* The sets are named so that a proof can leave them unexpanded. *)
Flags == BOOLEAN
Progress == {"idle", "running", "done"}
TheInputs == Inputs \cup {NoInput}
Indexes == 1..63
Counts == 0..2
Users == Emails \cup {None}
Charges == Seq({"client ip", "key id"})
Entries == {None} \cup [status : Nat, apiKey : BOOLEAN]

Contexts ==
    [pc : Progress, in : TheInputs, index : Indexes, status : Nat, writes : Counts,
     logging : Flags, apiKey : Flags, user : Users, charged : Charges,
     checked : Flags, served : Flags, panicked : Flags, entry : Entries]

ChargedTo(c) == IF c.in.key = "absent" THEN <<"client ip">> ELSE <<"key id">>

(* The place of the last handler of its chain. *)
Last(c) == Len(chain(c.in.route))

(* How far a request is says what has happened to it. *)
Answering(c) ==
    /\ c.index <= Last(c) => c.writes = 0 /\ ~c.served /\ c.pc # "done"
    /\ c.index > Last(c) => c.writes > 0 \/ c.in.route = "none"
    /\ c.pc = "done" => c.writes > 0
    /\ c.writes = 2 => c.panicked
    /\ c.in.route = "slash" => c.pc = "done"

Charging(c) ==
    /\ c.index <= 4 => ~c.apiKey
    /\ c.index \in 4..62 => ~c.in.options
    /\ c.index \in 5..62 => c.in.key # "invalid" /\ (c.apiKey <=> c.in.key # "absent")
    /\ c.index <= 5 => c.charged = <<>>
    /\ c.index \in 6..62 => c.charged = ChargedTo(c)
    /\ c.in.options \/ c.in.key = "invalid" => c.charged = <<>>
    /\ c.served => c.charged = ChargedTo(c)

Logging(c) ==
    /\ c.index >= 3 => c.logging
    /\ c.pc = "done" /\ ~c.panicked =>
        c.entry = IF c.in.route = "slash" THEN None ELSE [status |-> c.status, apiKey |-> c.apiKey]

Authorized(c, u) ==
    /\ c.in.route = "admin" /\ (c.index = 7 \/ c.served) => c.user # None
    /\ c.user # None => u[c.user] # None

Told(c, u) ==
    /\ c.checked => c.in.body # None
    /\ /\ c.writes > 0
       /\ \/ c.in.route = "register" /\ c.status = 201
          \/ c.in.route = "login" /\ c.status = 200
       => /\ c.in.body # None
          /\ u[c.in.body.email] # None
          /\ u[c.in.body.email] = c.in.body.password

Good(c, u) ==
    /\ c \in Contexts
    /\ Answering(c)
    /\ Charging(c)
    /\ Logging(c)
    /\ Authorized(c, u)
    /\ Told(c, u)

AccountsInv ==
    /\ users \in [Emails -> Passwords \cup {None}]
    /\ tokens \in [Emails -> Nat]
    /\ \A e \in Emails : tokens[e] > 0 => users[e] # None

Inv ==
    /\ AccountsInv
    /\ DOMAIN ctx = Requests
    /\ \A r \in Requests : Good(ctx[r], users)

-----------------------------------------------------------------------------
(* Every input is one that PipelineAssumption describes. *)
LEMMA InputsOK == \A i \in Inputs \cup {NoInput} : InputOK(i)
<1>1. ASSUME NEW i \in Inputs PROVE InputOK(i)
  BY PipelineAssumption, Zenon DEF InputOK
<1>2. InputOK(NoInput)
  BY DEF InputOK, NoInput, Routes
<1>3. QED
  BY <1>1, <1>2

(* The numbers in a context. *)
LEMMA Numbers ==
    ASSUME NEW c \in Contexts
    PROVE  c.index \in 1..63 /\ c.status \in Nat /\ c.writes \in 0..2
<1>1. c.index \in Indexes /\ c.status \in Nat /\ c.writes \in Counts
  BY DEF Contexts
<1>2. QED
  BY <1>1 DEF Indexes, Counts

(* Its other fields. *)
LEMMA Fields ==
    ASSUME NEW c \in Contexts
    PROVE  /\ c.user \in Emails \cup {None}
           /\ c.in.route \in Routes
           /\ c.in.options \in BOOLEAN
           /\ c.in.key \in {"absent", "valid", "invalid"}
           /\ c.in.token \in Emails \cup {None}
           /\ c.in.body = None \/ c.in.body \in [email : Emails, password : Passwords]
<1>1. c.user \in Users /\ c.in \in TheInputs
  BY DEF Contexts
<1>2. InputOK(c.in)
  BY <1>1, InputsOK DEF TheInputs
<1>3. QED
  BY <1>1, <1>2 DEF Users, InputOK

(* Where the handlers stand in the chain of a route. *)
LEMMA ChainShape ==
    ASSUME NEW route \in Routes \ {"slash"}
    PROVE  /\ Len(chain(route)) = IF route = "admin" THEN 7 ELSE IF route = "none" THEN 5 ELSE 6
           /\ chain(route)[1] = "Recovery"
           /\ chain(route)[2] = "RequestLogger"
           /\ chain(route)[3] = "CORS"
           /\ chain(route)[4] = "APIKeyValidator"
           /\ chain(route)[5] = "RateLimitWithTier"
           /\ route = "admin" => chain(route)[6] = "RequireAuth" /\ chain(route)[7] = "admin"
           /\ route \notin {"admin", "none"} => chain(route)[6] = route
<1>1. CASE route = "admin"
  BY <1>1 DEF chain
<1>2. CASE route = "none"
  BY <1>2 DEF chain
<1>3. CASE route \notin {"admin", "none"}
  BY <1>3 DEF chain
<1>4. QED
  BY <1>1, <1>2, <1>3

(* A redirected request has no handlers. *)
LEMMA NoChain == Len(chain("slash")) = 0
BY DEF chain

(* A handler is reached at its place only. *)
LEMMA Place ==
    ASSUME NEW r \in Requests, NEW handler, At(r, handler), ctx[r] \in Contexts
    PROVE  /\ ctx[r].index \in 1..7
           /\ ctx[r].in.route \in Routes
           /\ ctx[r].pc = "running"
           /\ ctx[r].index <= Last(ctx[r])
           /\ handler = "Recovery" => ctx[r].index = 1
           /\ handler = "RequestLogger" => ctx[r].index = 2
           /\ handler = "CORS" => ctx[r].index = 3
           /\ handler = "APIKeyValidator" => ctx[r].index = 4
           /\ handler = "RateLimitWithTier" => ctx[r].index = 5
           /\ handler = "RequireAuth" => ctx[r].index = 6 /\ ctx[r].in.route = "admin"
           /\ handler \in Routes =>
                /\ ctx[r].in.route = handler
                /\ ctx[r].index = Last(ctx[r])
                /\ ctx[r].index \in {6, 7}
                /\ handler = "admin" => ctx[r].index = 7
<1> DEFINE route == ctx[r].in.route
<1>1. route \in Routes \ {"slash"} /\ ctx[r].index \in 1..63
  <2>1. route \in Routes /\ ctx[r].index \in 1..63
    BY Fields, Numbers
  <2>2. ctx[r].index <= Len(chain(route))
    BY DEF At
  <2> DEFINE n == Len(chain(route))
  <2> HIDE DEF route
  <2>3. route = "slash" => n = 0
    BY NoChain, Zenon
  <2>4. ctx[r].index <= n
    BY <2>2
  <2> HIDE DEF n
  <2>5. n # 0
    BY <2>1, <2>4
  <2>6. route # "slash"
    BY <2>3, <2>5
  <2>7. QED
    BY <2>1, <2>6
<1>2. ctx[r].index <= Len(chain(route)) /\ chain(route)[ctx[r].index] = handler /\ ctx[r].pc = "running"
  BY DEF At
<1> DEFINE k == ctx[r].index
<1> HIDE DEF route, k
<1>3. /\ Len(chain(route)) = IF route = "admin" THEN 7 ELSE IF route = "none" THEN 5 ELSE 6
      /\ chain(route)[1] = "Recovery"
      /\ chain(route)[2] = "RequestLogger"
      /\ chain(route)[3] = "CORS"
      /\ chain(route)[4] = "APIKeyValidator"
      /\ chain(route)[5] = "RateLimitWithTier"
      /\ route = "admin" => chain(route)[6] = "RequireAuth" /\ chain(route)[7] = "admin"
      /\ route \notin {"admin", "none"} => chain(route)[6] = route
  BY <1>1, ChainShape
<1>4. k \in 1..63 /\ k <= Len(chain(route)) /\ chain(route)[k] = handler
  BY <1>1, <1>2 DEF k
<1>5. k \in {1, 2, 3, 4, 5, 6, 7}
  BY <1>3, <1>4
<1>6. /\ handler = "Recovery" => k = 1
      /\ handler = "RequestLogger" => k = 2
      /\ handler = "CORS" => k = 3
      /\ handler = "APIKeyValidator" => k = 4
      /\ handler = "RateLimitWithTier" => k = 5
      /\ handler = "RequireAuth" => k = 6 /\ route = "admin"
      /\ handler \in Routes =>
            /\ route = handler
            /\ k = Len(chain(handler))
            /\ k \in {6, 7}
            /\ handler = "admin" => k = 7
  <2>1. CASE k \in 1..5
    BY <1>3, <1>4, <1>5, <2>1 DEF Routes
  <2>2. CASE k = 6 /\ route = "admin"
    BY <1>3, <1>4, <2>2 DEF Routes
  <2>3. CASE k = 6 /\ route # "admin"
    BY <1>1, <1>3, <1>4, <2>3 DEF Routes
  <2>4. CASE k = 7
    BY <1>3, <1>4, <2>4 DEF Routes
  <2>5. QED
    BY <1>5, <2>1, <2>2, <2>3, <2>4
<1>7. QED
  BY <1>1, <1>2, <1>5, <1>6 DEF route, k, Last

(* Accounts are never removed or given another password. *)
Grows == \A e \in Emails : users[e] # None => users'[e] = users[e]

(* A step of one request leaves the others as they are. *)
LEMMA OneRequest ==
    ASSUME Inv, NEW r \in Requests, NEW d, Becomes(r, d),
           AccountsInv', Grows, Good(d, users')
    PROVE  Inv'
<1>1. ctx' = [ctx EXCEPT ![r] = d] /\ DOMAIN ctx = Requests
  BY DEF Inv, Becomes
<1>2. DOMAIN ctx' = Requests
  BY <1>1
<1>3. ASSUME NEW q \in Requests PROVE Good(ctx'[q], users')
  <2>1. CASE q = r
    BY <1>1, <2>1
  <2>2. CASE q # r
    <3>1. ctx'[q] = ctx[q] /\ Good(ctx[q], users)
      BY <1>1, <2>2 DEF Inv
    <3> DEFINE c == ctx[q]
    <3>2. c.in.body = None \/ c.in.body.email \in Emails
      BY <3>1, Fields DEF Good
    <3>3. c.user = None \/ c.user \in Emails
      BY <3>1, Fields DEF Good
    <3>4. Authorized(c, users) /\ Told(c, users)
      BY <3>1 DEF Good
    <3> HIDE DEF c
    <3>5. Authorized(c, users')
      BY <3>3, <3>4 DEF Authorized, Grows
    <3>6. Told(c, users')
      BY <3>2, <3>4 DEF Told, Grows
    <3>7. QED
      BY <3>1, <3>5, <3>6 DEF Good, c
  <2>3. QED
    BY <2>1, <2>2
<1>4. QED
  BY <1>2, <1>3 DEF Inv

(* The same when the step leaves the accounts alone. *)
LEMMA OneRequestOnly ==
    ASSUME Inv, NEW r \in Requests, NEW d, Becomes(r, d),
           UNCHANGED accounts, Good(d, users)
    PROVE  Inv'
<1>1. users' = users /\ tokens' = tokens
  BY DEF accounts
<1>2. AccountsInv' /\ Grows /\ Good(d, users')
  BY <1>1 DEF Inv, AccountsInv, Grows
<1>3. QED
  BY <1>2, OneRequest

SameRequest(c, d) == d.pc = c.pc /\ d.in = c.in
SameReply(c, d) == d.status = c.status /\ d.writes = c.writes
SameMarks(c, d) ==
    /\ d.logging = c.logging /\ d.apiKey = c.apiKey /\ d.user = c.user
    /\ d.charged = c.charged /\ d.checked = c.checked /\ d.served = c.served
    /\ d.panicked = c.panicked /\ d.entry = c.entry

(* What the three operations on a gin.Context change: Continue. *)
LEMMA ContinueEffect ==
    ASSUME NEW c \in Contexts, c.index <= 7
    PROVE  /\ Continue(c) \in Contexts
           /\ Continue(c).index = c.index + 1
           /\ SameRequest(c, Continue(c)) /\ SameReply(c, Continue(c)) /\ SameMarks(c, Continue(c))
<1>1. c.index + 1 \in Indexes
  BY Numbers DEF Indexes
<1>2. QED
  BY <1>1 DEF Contexts, Continue, SameRequest, SameReply, SameMarks

(* Abort moves a context past every handler. *)
LEMMA AbortEffect ==
    ASSUME NEW c \in Contexts
    PROVE  /\ Abort(c) \in Contexts
           /\ Abort(c).index = 63
           /\ SameRequest(c, Abort(c)) /\ SameReply(c, Abort(c)) /\ SameMarks(c, Abort(c))
<1>1. 63 \in Indexes
  BY DEF Indexes
<1>2. QED
  BY <1>1 DEF Contexts, Abort, AbortIndex, SameRequest, SameReply, SameMarks

(* JSON begins the answer, or adds to it. *)
LEMMA JSONEffect ==
    ASSUME NEW c \in Contexts, NEW code \in Nat
    PROVE  /\ JSON(c, code) \in Contexts
           /\ JSON(c, code).index = c.index
           /\ c.writes = 0 => JSON(c, code).status = code /\ JSON(c, code).writes = 1
           /\ c.writes = 1 => JSON(c, code).status = c.status /\ JSON(c, code).writes = 2
           /\ SameRequest(c, JSON(c, code)) /\ SameMarks(c, JSON(c, code))
<1> DEFINE x == IF c.writes = 0 THEN code ELSE c.status
           y == IF c.writes = 2 THEN 2 ELSE c.writes + 1
<1>1. x \in Nat /\ y \in Counts
  BY Numbers DEF Counts
<1>2. JSON(c, code) = [c EXCEPT !.status = x, !.writes = y]
  BY DEF JSON
<1>3. /\ c.writes = 0 => x = code /\ y = 1
      /\ c.writes = 1 => x = c.status /\ y = 2
  OBVIOUS
<1> HIDE DEF x, y
<1>4. /\ JSON(c, code) \in Contexts
      /\ JSON(c, code).index = c.index
      /\ JSON(c, code).status = x
      /\ JSON(c, code).writes = y
      /\ SameRequest(c, JSON(c, code)) /\ SameMarks(c, JSON(c, code))
  BY <1>1, <1>2 DEF Contexts, SameRequest, SameMarks
<1>5. QED
  BY <1>3, <1>4

(* The length of a chain is a number. *)
LEMMA ChainLength ==
    ASSUME NEW c \in Contexts
    PROVE  /\ Last(c) \in {0, 5, 6, 7}
           /\ c.in.route = "slash" <=> Last(c) = 0
           /\ c.in.route = "admin" <=> Last(c) = 7
           /\ c.in.route = "none" <=> Last(c) = 5
<1> DEFINE route == c.in.route
<1>1. route \in Routes
  BY Fields
<1> DEFINE n == Len(chain(route))
<1>2. Last(c) = n
  BY DEF Last
<1> HIDE DEF route
<1>3. route = "slash" => n = 0
  BY NoChain, Zenon
<1>4. route # "slash" => n = IF route = "admin" THEN 7 ELSE IF route = "none" THEN 5 ELSE 6
  BY <1>1, ChainShape
<1> HIDE DEF n
<1>5. /\ n \in {0, 5, 6, 7}
      /\ route = "slash" <=> n = 0
      /\ route = "admin" <=> n = 7
      /\ route = "none" <=> n = 5
  BY <1>3, <1>4
<1>6. QED
  BY <1>2, <1>5 DEF route

(* Middleware that answers and aborts. *)
LEMMA Refused ==
    ASSUME NEW c \in Contexts, NEW u, NEW code \in Nat \ {200, 201},
           c.pc = "running", c.index >= 3, c.index <= Last(c),
           Answering(c), Logging(c), Authorized(c, u), Told(c, u),
           c.in.options \/ c.in.key = "invalid" => c.charged = <<>>
    PROVE  Good(Abort(JSON(c, code)), u)
<1> DEFINE e == JSON(c, code)
           d == Abort(e)
<1>1. c.writes = 0 /\ ~c.served /\ code \in Nat
  BY DEF Answering
<1>2. /\ e \in Contexts /\ e.status = code /\ e.writes = 1
      /\ SameRequest(c, e) /\ SameMarks(c, e)
  BY <1>1, JSONEffect
<1>3. d \in Contexts /\ d.index = 63 /\ SameRequest(e, d) /\ SameReply(e, d) /\ SameMarks(e, d)
  BY <1>2, AbortEffect
<1> HIDE DEF e, d
<1>4. d.status = code /\ d.writes = 1 /\ SameRequest(c, d) /\ SameMarks(c, d)
  BY <1>2, <1>3 DEF SameRequest, SameReply, SameMarks
<1>5. Answering(d)
  <2>1. Last(d) \in {0, 5, 6, 7}
    BY <1>3, ChainLength
  <2>2. /\ ~(d.index <= Last(d))
        /\ d.writes > 0 /\ d.writes # 2
    BY <1>3, <1>4, <2>1
  <2>3. d.in.route # "slash"
    BY <1>4 DEF Answering, SameRequest
  <2>4. QED
    BY <2>2, <2>3, Zenon DEF Answering
<1>6. Charging(d)
  BY <1>1, <1>3, <1>4 DEF Charging, SameRequest, SameMarks
<1>7. Logging(d)
  BY <1>3, <1>4 DEF Logging, SameRequest, SameMarks
<1>8. Authorized(d, u)
  BY <1>1, <1>3, <1>4 DEF Authorized, SameRequest, SameMarks
<1>9. Told(d, u)
  BY <1>4 DEF Told, SameRequest, SameMarks
<1>10. QED
  BY <1>3, <1>5, <1>6, <1>7, <1>8, <1>9 DEF Good, d, e

(* Middleware that lets the chain go on: what does not depend on which. *)
LEMMA Passed ==
    ASSUME NEW c \in Contexts, NEW d \in Contexts, NEW u,
           c.pc = "running", c.index <= Last(c), c.index <= 6,
           c.index <= 5 \/ c.in.route = "admin",
           Answering(c), Told(c, u), d.logging \/ d.index <= 2,
           d.index = c.index + 1, SameRequest(c, d), SameReply(c, d),
           d.served = c.served, d.checked = c.checked
    PROVE  Answering(d) /\ Told(d, u) /\ Logging(d)
<1>1. c.writes = 0 /\ ~c.served /\ d.writes = 0 /\ ~d.served
  BY DEF Answering, SameReply
<1>2. Last(d) = Last(c) /\ d.in = c.in /\ d.pc = "running"
  BY DEF Last, SameRequest
<1>3. c.index \in 1..63
  BY Numbers
<1>4. d.index > Last(d) => d.in.route = "none"
  BY <1>2, <1>3, ChainLength
<1>5. Answering(d)
  BY <1>1, <1>2, <1>4 DEF Answering
<1>6. Told(d, u)
  BY <1>1, <1>2 DEF Told
<1>7. Logging(d)
  BY <1>2, <1>3 DEF Logging
<1>8. QED
  BY <1>5, <1>6, <1>7

(* The handler of a route answers and the chain is at its end. *)
LEMMA Served ==
    ASSUME NEW c, NEW u, Good(c, u), NEW code \in Nat,
           c.pc = "running", c.index = Last(c), c.index \in {6, 7},
           (c.in.route = "register" /\ code = 201) \/ (c.in.route = "login" /\ code = 200)
             => /\ c.in.body # None
                /\ u[c.in.body.email] # None
                /\ u[c.in.body.email] = c.in.body.password
    PROVE  Good([Continue(JSON(c, code)) EXCEPT !.served = TRUE], u)
<1> DEFINE e == JSON(c, code)
           f == Continue(e)
           d == [f EXCEPT !.served = TRUE]
<1>1. c \in Contexts /\ c.writes = 0
  BY DEF Good, Answering
<1>2. /\ e \in Contexts /\ e.index = c.index /\ e.status = code /\ e.writes = 1
      /\ SameRequest(c, e) /\ SameMarks(c, e)
  BY <1>1, JSONEffect
<1>3. /\ f \in Contexts /\ f.index = c.index + 1
      /\ SameRequest(e, f) /\ SameReply(e, f) /\ SameMarks(e, f)
  BY <1>2, ContinueEffect
<1> HIDE DEF e, f
<1>4. TRUE \in Flags
  BY DEF Flags
<1>5. /\ d \in Contexts /\ d.index = f.index /\ d.pc = f.pc /\ d.in = f.in
      /\ d.status = f.status /\ d.writes = f.writes /\ d.logging = f.logging
      /\ d.apiKey = f.apiKey /\ d.user = f.user /\ d.charged = f.charged
      /\ d.checked = f.checked /\ d.served = TRUE
  BY <1>3, <1>4 DEF Contexts
<1> HIDE DEF d
<1>6. /\ d.index = c.index + 1 /\ d.pc = "running" /\ d.in = c.in
      /\ d.status = code /\ d.writes = 1 /\ d.logging = c.logging
      /\ d.apiKey = c.apiKey /\ d.user = c.user /\ d.charged = c.charged
      /\ d.checked = c.checked
  BY <1>2, <1>3, <1>5 DEF SameRequest, SameReply, SameMarks
<1>7. Last(d) = c.index
  BY <1>6 DEF Last
<1>8. Answering(d)
  <2>1. d.in.route # "slash"
    BY <1>6 DEF Good, Answering
  <2>2. d.index > Last(d) /\ ~(d.index <= Last(d)) /\ d.writes = 1 /\ d.pc # "done"
    BY <1>6, <1>7
  <2>3. QED
    BY <2>1, <2>2 DEF Answering
<1>9. Charging(d)
  <2>1. /\ ~c.in.options /\ c.in.key # "invalid" /\ (c.apiKey <=> c.in.key # "absent")
        /\ c.charged = ChargedTo(c)
    BY DEF Good, Charging
  <2>2. ~d.in.options /\ d.in.key # "invalid" /\ (d.apiKey <=> d.in.key # "absent")
    BY <1>6, <2>1
  <2>3. d.charged = ChargedTo(d)
    BY <1>6, <2>1 DEF ChargedTo
  <2>4. ~(d.index <= 4) /\ ~(d.index <= 5)
    BY <1>6
  <2>5. QED
    BY <2>2, <2>3, <2>4 DEF Charging
<1>10. Logging(d)
  BY <1>6 DEF Good, Logging
<1>11. Authorized(d, u)
  BY <1>1, <1>6, ChainLength DEF Good, Authorized
<1>12. Told(d, u)
  BY <1>6 DEF Good, Told
<1>13. QED
  BY <1>5, <1>8, <1>9, <1>10, <1>11, <1>12 DEF Good, d, e, f

-----------------------------------------------------------------------------
(* Recovery lets every request on. *)
LEMMA RecoveryInv ==
    ASSUME Inv, NEW r \in Requests, Recovery(r)
    PROVE  Inv'
<1> DEFINE c == ctx[r]
           d == Continue(c)
<1>1. Good(c, users) /\ c \in Contexts
  BY DEF Inv, Good
<1>2. c.index = 1 /\ c.pc = "running" /\ c.index <= Last(c)
  BY <1>1, Place DEF Recovery
<1>3. /\ d \in Contexts /\ d.index = 2
      /\ SameRequest(c, d) /\ SameReply(c, d) /\ SameMarks(c, d)
  BY <1>1, <1>2, ContinueEffect
<1>4. Becomes(r, d) /\ UNCHANGED accounts
  BY DEF Recovery
<1> HIDE DEF c, d
<1>5. Answering(d) /\ Told(d, users) /\ Logging(d)
  BY <1>1, <1>2, <1>3, Passed DEF Good, SameMarks
<1>6. Charging(d) /\ Authorized(d, users)
  BY <1>1, <1>2, <1>3 DEF Good, Answering, Charging, Authorized, SameRequest, SameMarks
<1>7. Good(d, users)
  BY <1>3, <1>5, <1>6 DEF Good
<1>8. QED
  BY <1>4, <1>7, OneRequestOnly

(* RequestLogger marks the context for what it does after c.Next. *)
LEMMA RequestLoggerInv ==
    ASSUME Inv, NEW r \in Requests, RequestLogger(r)
    PROVE  Inv'
<1> DEFINE c == ctx[r]
           e == Continue(c)
           d == [e EXCEPT !.logging = TRUE]
<1>1. Good(c, users) /\ c \in Contexts
  BY DEF Inv, Good
<1>2. c.index = 2 /\ c.pc = "running" /\ c.index <= Last(c)
  BY <1>1, Place DEF RequestLogger
<1>3. /\ e \in Contexts /\ e.index = 3
      /\ SameRequest(c, e) /\ SameReply(c, e) /\ SameMarks(c, e)
  BY <1>1, <1>2, ContinueEffect
<1>4. Becomes(r, d) /\ UNCHANGED accounts
  BY DEF RequestLogger
<1> HIDE DEF c, e
<1>5. TRUE \in Flags
  BY DEF Flags
<1>6. /\ d \in Contexts /\ d.index = 3 /\ d.logging = TRUE
      /\ SameRequest(e, d) /\ SameReply(e, d)
      /\ d.apiKey = e.apiKey /\ d.user = e.user /\ d.charged = e.charged
      /\ d.checked = e.checked /\ d.served = e.served
  BY <1>3, <1>5 DEF Contexts, SameRequest, SameReply
<1> HIDE DEF d
<1>7. /\ SameRequest(c, d) /\ SameReply(c, d)
      /\ d.apiKey = c.apiKey /\ d.user = c.user /\ d.charged = c.charged
      /\ d.checked = c.checked /\ d.served = c.served
  BY <1>3, <1>6 DEF SameRequest, SameReply, SameMarks
<1>8. Answering(d) /\ Told(d, users) /\ Logging(d)
  BY <1>1, <1>2, <1>6, <1>7, Passed DEF Good
<1>9. Charging(d) /\ Authorized(d, users)
  BY <1>1, <1>2, <1>6, <1>7 DEF Good, Answering, Charging, Authorized, SameRequest
<1>10. Good(d, users)
  BY <1>6, <1>8, <1>9 DEF Good
<1>11. QED
  BY <1>4, <1>10, OneRequestOnly

(* CORS answers a preflight itself. *)
LEMMA CORSInv ==
    ASSUME Inv, NEW r \in Requests, CORS(r)
    PROVE  Inv'
<1> DEFINE c == ctx[r]
<1>1. Good(c, users) /\ c \in Contexts
  BY DEF Inv, Good
<1>2. c.index = 3 /\ c.pc = "running" /\ c.index <= Last(c)
  BY <1>1, Place DEF CORS
<1>3. CASE c.in.options
  <2>1. c.charged = <<>>
    BY <1>1, <1>2 DEF Good, Charging
  <2>2. Becomes(r, Abort(JSON(c, 204))) /\ UNCHANGED accounts
    BY <1>3 DEF CORS
  <2> HIDE DEF c
  <2>3. Good(Abort(JSON(c, 204)), users)
    BY <1>1, <1>2, <2>1, Refused DEF Good
  <2>4. QED
    BY <2>2, <2>3, OneRequestOnly
<1>4. CASE ~c.in.options
  <2> DEFINE d == Continue(c)
  <2>1. Becomes(r, d) /\ UNCHANGED accounts
    BY <1>4 DEF CORS
  <2>2. /\ d \in Contexts /\ d.index = 4
        /\ SameRequest(c, d) /\ SameReply(c, d) /\ SameMarks(c, d)
    BY <1>1, <1>2, ContinueEffect
  <2> HIDE DEF c, d
  <2>3. Answering(d) /\ Told(d, users) /\ Logging(d)
    BY <1>1, <1>2, <2>2, Passed DEF Good, Logging, SameMarks
  <2>4. Charging(d) /\ Authorized(d, users)
    BY <1>1, <1>2, <1>4, <2>2
    DEF Good, Answering, Charging, Authorized, SameRequest, SameMarks
  <2>5. Good(d, users)
    BY <2>2, <2>3, <2>4 DEF Good
  <2>6. QED
    BY <2>1, <2>5, OneRequestOnly
<1>5. QED
  BY <1>3, <1>4

(* APIKeyValidator refuses a key or notes it. *)
LEMMA APIKeyValidatorInv ==
    ASSUME Inv, NEW r \in Requests, APIKeyValidator(r)
    PROVE  Inv'
<1> DEFINE c == ctx[r]
           e == Continue(c)
<1>1. Good(c, users) /\ c \in Contexts
  BY DEF Inv, Good
<1>2. c.index = 4 /\ c.pc = "running" /\ c.index <= Last(c)
  BY <1>1, Place DEF APIKeyValidator
<1>3. c.charged = <<>> /\ ~c.in.options /\ ~c.apiKey /\ ~c.served
  BY <1>1, <1>2 DEF Good, Charging, Answering
<1>4. /\ e \in Contexts /\ e.index = 5
      /\ SameRequest(c, e) /\ SameReply(c, e) /\ SameMarks(c, e)
  BY <1>1, <1>2, ContinueEffect
<1>5. CASE c.in.key = "absent" /\ Becomes(r, e) /\ UNCHANGED accounts
  <2> HIDE DEF c, e
  <2>1. Answering(e) /\ Told(e, users) /\ Logging(e)
    <3>1. Answering(c) /\ Told(c, users) /\ Logging(c)
      BY <1>1 DEF Good
    <3>2. e.logging /\ e.served = c.served /\ e.checked = c.checked
      BY <1>2, <1>4, <3>1 DEF Logging, SameMarks
    <3>3. QED
      BY <1>1, <1>2, <1>4, <3>1, <3>2, Passed
  <2>2. Charging(e)
    BY <1>3, <1>4, <1>5 DEF Charging, SameRequest, SameMarks
  <2>3. Authorized(e, users)
    BY <1>1, <1>3, <1>4 DEF Good, Authorized, SameRequest, SameMarks
  <2>4. Good(e, users)
    BY <1>4, <2>1, <2>2, <2>3 DEF Good
  <2>5. QED
    BY <1>5, <2>4, OneRequestOnly
<1>6. CASE /\ c.in.key = "valid"
           /\ Becomes(r, [e EXCEPT !.apiKey = TRUE]) /\ UNCHANGED accounts
  <2> HIDE DEF c, e
  <2> DEFINE d == [e EXCEPT !.apiKey = TRUE]
  <2>1. TRUE \in Flags
    BY DEF Flags
  <2>2. /\ d \in Contexts /\ d.index = 5 /\ d.apiKey = TRUE
        /\ SameRequest(e, d) /\ SameReply(e, d)
        /\ d.logging = e.logging /\ d.user = e.user /\ d.charged = e.charged
        /\ d.checked = e.checked /\ d.served = e.served
    BY <1>4, <2>1 DEF Contexts, SameRequest, SameReply
  <2>3. Becomes(r, d) /\ UNCHANGED accounts
    BY <1>6
  <2> HIDE DEF d
  <2>4. /\ SameRequest(c, d) /\ SameReply(c, d)
        /\ d.logging = c.logging /\ d.user = c.user /\ d.charged = c.charged
        /\ d.checked = c.checked /\ d.served = c.served
    BY <1>4, <2>2 DEF SameRequest, SameReply, SameMarks
  <2>5. Answering(d) /\ Told(d, users) /\ Logging(d)
    BY <1>1, <1>2, <2>2, <2>4, Passed DEF Good, Logging
  <2>6. Charging(d)
    BY <1>3, <1>6, <2>2, <2>4 DEF Charging, SameRequest
  <2>7. Authorized(d, users)
    BY <1>1, <1>3, <2>2, <2>4 DEF Good, Authorized, SameRequest
  <2>8. Good(d, users)
    BY <2>2, <2>5, <2>6, <2>7 DEF Good
  <2>9. QED
    BY <2>3, <2>8, OneRequestOnly
<1>7. CASE Becomes(r, Abort(JSON(c, 401))) /\ UNCHANGED accounts
  <2> HIDE DEF c
  <2>1. Good(Abort(JSON(c, 401)), users)
    BY <1>1, <1>2, <1>3, Refused DEF Good
  <2>2. QED
    BY <1>7, <2>1, OneRequestOnly
<1>8. QED
  BY <1>5, <1>6, <1>7 DEF APIKeyValidator

(* A first charge. *)
LEMMA AppendFirst ==
    ASSUME NEW S, NEW k \in S
    PROVE  Append(<<>>, k) = <<k>> /\ <<k>> \in Seq(S)
<1>1. <<k>> \in Seq(S)
  OBVIOUS
<1>2. Append(<<>>, k) \in Seq(S) /\ Len(Append(<<>>, k)) = 1 /\ Append(<<>>, k)[1] = k
  OBVIOUS
<1>3. QED
  BY <1>1, <1>2

(* RateLimitWithTier charges a request before it lets it on or refuses it. *)
LEMMA RateLimitInv ==
    ASSUME Inv, NEW r \in Requests, RateLimitWithTier(r)
    PROVE  Inv'
<1> DEFINE c == ctx[r]
           key == IF c.apiKey THEN "key id" ELSE "client ip"
           e == [c EXCEPT !.charged = Append(c.charged, key)]
<1>1. Good(c, users) /\ c \in Contexts
  BY DEF Inv, Good
<1>2. c.index = 5 /\ c.pc = "running" /\ c.index <= Last(c)
  <2>1. At(r, "RateLimitWithTier")
    BY DEF RateLimitWithTier
  <2>2. QED
    BY <1>1, <2>1, Place
<1>3. /\ c.charged = <<>> /\ ~c.in.options /\ c.in.key # "invalid"
      /\ c.apiKey <=> c.in.key # "absent"
  BY <1>1, <1>2 DEF Good, Charging
<1>4. /\ Becomes(r, Continue(e)) \/ \E code \in {429, 500} : Becomes(r, Abort(JSON(e, code)))
      /\ UNCHANGED accounts
  BY DEF RateLimitWithTier
<1> HIDE DEF c
<1>5. Append(c.charged, key) = ChargedTo(c) /\ ChargedTo(c) \in Charges
  <2>1. ChargedTo(c) = <<key>> /\ key \in {"client ip", "key id"}
    BY <1>3 DEF ChargedTo
  <2> HIDE DEF key
  <2>2. Append(c.charged, key) = <<key>> /\ <<key>> \in Charges
    BY <1>3, <2>1, AppendFirst DEF Charges
  <2>3. QED
    BY <2>1, <2>2
<1>6. e = [c EXCEPT !.charged = ChargedTo(c)]
  BY <1>5
<1> HIDE DEF key, e
<1>7. /\ e \in Contexts /\ e.index = c.index /\ e.charged = ChargedTo(c)
      /\ SameRequest(c, e) /\ SameReply(c, e)
      /\ e.logging = c.logging /\ e.apiKey = c.apiKey /\ e.user = c.user
      /\ e.checked = c.checked /\ e.served = c.served
      /\ e.panicked = c.panicked /\ e.entry = c.entry
  BY <1>1, <1>5, <1>6 DEF Contexts, SameRequest, SameReply
<1>8. Last(e) = Last(c) /\ e.in = c.in /\ e.pc = "running" /\ ChargedTo(e) = ChargedTo(c)
  BY <1>2, <1>7 DEF Last, SameRequest, ChargedTo
<1>9. Answering(e)
  BY <1>1, <1>7, <1>8 DEF Good, Answering, SameRequest, SameReply
<1>10. Logging(e)
  BY <1>1, <1>7, <1>8 DEF Good, Logging, SameRequest, SameReply
<1>11. Authorized(e, users) /\ Told(e, users)
  BY <1>1, <1>7, <1>8 DEF Good, Authorized, Told, SameReply
<1>12. CASE Becomes(r, Continue(e))
  <2> DEFINE d == Continue(e)
  <2>1. /\ d \in Contexts /\ d.index = 6
        /\ SameRequest(e, d) /\ SameReply(e, d) /\ SameMarks(e, d)
    BY <1>2, <1>7, ContinueEffect
  <2> HIDE DEF d
  <2>2. e.index = 5 /\ e.index <= Last(e) /\ e.logging
    BY <1>1, <1>2, <1>7, <1>8 DEF Good, Logging
  <2>3. Answering(d) /\ Told(d, users) /\ Logging(d)
    <3>1. d.logging /\ d.served = e.served /\ d.checked = e.checked
      BY <2>1, <2>2 DEF SameMarks
    <3>2. d.index = e.index + 1 /\ e.index <= 5 /\ e.index <= 6
      BY <2>1, <2>2
    <3>3. QED
      BY <1>7, <1>8, <1>9, <1>11, <2>1, <2>2, <3>1, <3>2, Passed
  <2>4. /\ ~d.in.options /\ d.in.key # "invalid" /\ (d.apiKey <=> d.in.key # "absent")
        /\ d.charged = ChargedTo(d)
    BY <1>3, <1>7, <1>8, <2>1 DEF SameRequest, SameMarks, ChargedTo
  <2>5. Charging(d)
    BY <2>1, <2>4 DEF Charging
  <2>6. ~d.served
    BY <1>9, <2>1, <2>2 DEF Answering, SameMarks
  <2>7. Authorized(d, users)
    BY <1>11, <2>1, <2>6 DEF Authorized, SameRequest, SameMarks
  <2>8. Good(d, users)
    BY <2>1, <2>3, <2>5, <2>7 DEF Good
  <2>9. QED
    BY <1>4, <1>12, <2>8, OneRequestOnly DEF d
<1>13. CASE \E code \in {429, 500} : Becomes(r, Abort(JSON(e, code)))
  <2>1. PICK code \in {429, 500} : Becomes(r, Abort(JSON(e, code)))
    BY <1>13
  <2>2. Good(Abort(JSON(e, code)), users)
    <3>1. code \in Nat \ {200, 201} /\ e.index >= 3 /\ e.index <= Last(e)
      BY <1>2, <1>7, <1>8
    <3>2. ~(e.in.options \/ e.in.key = "invalid")
      BY <1>3, <1>8
    <3>3. QED
      BY <1>7, <1>8, <1>9, <1>10, <1>11, <3>1, <3>2, Refused
  <2>3. QED
    BY <1>4, <2>1, <2>2, OneRequestOnly
<1>14. QED
  BY <1>4, <1>12, <1>13

(* RequireAuth lets only the holder of a token on, and so of an account. *)
LEMMA RequireAuthInv ==
    ASSUME Inv, NEW r \in Requests, RequireAuth(r)
    PROVE  Inv'
<1> DEFINE c == ctx[r]
           e == Continue(c)
           t == c.in.token
<1>1. Good(c, users) /\ c \in Contexts
  BY DEF Inv, Good
<1>2. c.index = 6 /\ c.pc = "running" /\ c.index <= Last(c) /\ c.in.route = "admin"
  BY <1>1, Place DEF RequireAuth
<1>3. /\ c.charged = ChargedTo(c) /\ ~c.in.options /\ c.in.key # "invalid" /\ ~c.served
      /\ c.apiKey <=> c.in.key # "absent"
  <2>1. Charging(c) /\ Answering(c)
    BY <1>1 DEF Good
  <2>2. QED
    BY <1>2, <2>1 DEF Charging, Answering
<1>4. CASE ValidateToken(t)
  <2> DEFINE d == [e EXCEPT !.user = t]
  <2>1. Becomes(r, d) /\ UNCHANGED accounts
    BY <1>4 DEF RequireAuth
  <2>2. t \in Emails /\ t # None /\ t \in Users /\ users[t] # None
    BY <1>1, <1>4, Fields DEF ValidateToken, Users, Inv, AccountsInv
  <2>3. /\ e \in Contexts /\ e.index = 7
        /\ SameRequest(c, e) /\ SameReply(c, e) /\ SameMarks(c, e)
    BY <1>1, <1>2, ContinueEffect
  <2> HIDE DEF c, e, t
  <2>4. /\ d \in Contexts /\ d.index = 7 /\ d.user = t
        /\ SameRequest(e, d) /\ SameReply(e, d)
        /\ d.logging = e.logging /\ d.apiKey = e.apiKey /\ d.charged = e.charged
        /\ d.checked = e.checked /\ d.served = e.served
    BY <2>2, <2>3 DEF Contexts, SameRequest, SameReply
  <2> HIDE DEF d
  <2>5. /\ SameRequest(c, d) /\ SameReply(c, d)
        /\ d.logging = c.logging /\ d.apiKey = c.apiKey /\ d.charged = c.charged
        /\ d.checked = c.checked /\ d.served = c.served
    BY <2>3, <2>4 DEF SameRequest, SameReply, SameMarks
  <2>6. Answering(d) /\ Told(d, users) /\ Logging(d)
    <3>1. Answering(c) /\ Told(c, users) /\ Logging(c)
      BY <1>1 DEF Good
    <3>2. d.logging
      BY <1>2, <2>5, <3>1 DEF Logging
    <3>3. QED
      BY <1>1, <1>2, <2>4, <2>5, <3>1, <3>2, Passed
  <2>7. /\ ~d.in.options /\ d.in.key # "invalid" /\ (d.apiKey <=> d.in.key # "absent")
        /\ d.charged = ChargedTo(d)
    BY <1>3, <2>5 DEF SameRequest, ChargedTo
  <2>8. Charging(d)
    BY <2>4, <2>7 DEF Charging
  <2>9. Authorized(d, users)
    BY <2>2, <2>4 DEF Authorized
  <2>10. Good(d, users)
    BY <2>4, <2>6, <2>8, <2>9 DEF Good
  <2>11. QED
    BY <2>1, <2>10, OneRequestOnly
<1>5. CASE ~ValidateToken(t)
  <2>1. Becomes(r, Abort(JSON(c, 401))) /\ UNCHANGED accounts
    BY <1>5 DEF RequireAuth
  <2> HIDE DEF c
  <2>2. /\ 401 \in Nat \ {200, 201} /\ c.index >= 3
        /\ Answering(c) /\ Logging(c) /\ Authorized(c, users) /\ Told(c, users)
        /\ c.in.options \/ c.in.key = "invalid" => c.charged = <<>>
    BY <1>1, <1>2, <1>3 DEF Good
  <2>3. Good(Abort(JSON(c, 401)), users)
    BY <1>1, <1>2, <2>2, Refused
  <2>4. QED
    BY <2>1, <2>3, OneRequestOnly
<1>6. QED
  BY <1>4, <1>5

-----------------------------------------------------------------------------
(* A handler that answers and leaves the accounts alone. *)
LEMMA ServeInv ==
    ASSUME Inv, NEW r \in Requests, NEW handler \in Routes, At(r, handler),
           NEW code \in Nat, Serve(r, code), UNCHANGED accounts,
           handler = "register" => code # 201,
           handler = "login" => code # 200
    PROVE  Inv'
<1> DEFINE c == ctx[r]
<1>1. Good(c, users) /\ c \in Contexts
  BY DEF Inv, Good
<1>2. /\ c.pc = "running" /\ c.index = Last(c) /\ c.index \in {6, 7}
      /\ c.in.route = handler
  BY <1>1, Place
<1>3. Becomes(r, [Continue(JSON(c, code)) EXCEPT !.served = TRUE])
  BY DEF Serve
<1> HIDE DEF c
<1>4. Good([Continue(JSON(c, code)) EXCEPT !.served = TRUE], users)
  BY <1>1, <1>2, Served
<1>5. QED
  BY <1>3, <1>4, OneRequestOnly

(* The handlers that have nothing to do with the accounts. *)
LEMMA PlainInv ==
    ASSUME Inv, NEW r \in Requests, Health(r) \/ Me(r) \/ Admin(r) \/ Proxy(r)
    PROVE  Inv'
<1>1. \E handler \in {"health", "me", "admin", "proxy"} :
        /\ At(r, handler)
        /\ \E code \in {200, 201, 400, 401, 404, 500, 502, 503} : Serve(r, code)
        /\ UNCHANGED accounts
  BY DEF Health, Me, Admin, Proxy
<1>2. PICK handler \in {"health", "me", "admin", "proxy"} :
        /\ At(r, handler)
        /\ \E code \in {200, 201, 400, 401, 404, 500, 502, 503} : Serve(r, code)
        /\ UNCHANGED accounts
  BY <1>1
<1>3. PICK code \in {200, 201, 400, 401, 404, 500, 502, 503} : Serve(r, code)
  BY <1>2
<1>4. handler \in Routes /\ code \in Nat
  BY DEF Routes
<1>5. QED
  BY <1>2, <1>3, <1>4, ServeInv

(* Register's query: it goes on only with a body. *)
LEMMA RegisterFindInv ==
    ASSUME Inv, NEW r \in Requests, RegisterFind(r)
    PROVE  Inv'
<1> DEFINE c == ctx[r]
           d == [c EXCEPT !.checked = TRUE]
<1>1. Good(c, users) /\ c \in Contexts
  BY DEF Inv, Good
<1>2. At(r, "register") /\ UNCHANGED accounts
  BY DEF RegisterFind
<1>3. (c.in.body # None /\ Becomes(r, d)) \/ Serve(r, 400)
  BY DEF RegisterFind
<1>4. CASE c.in.body # None /\ Becomes(r, d)
  <2> HIDE DEF c
  <2>1. TRUE \in Flags
    BY DEF Flags
  <2>2. /\ d \in Contexts /\ d.index = c.index /\ d.pc = c.pc /\ d.in = c.in
        /\ d.status = c.status /\ d.writes = c.writes /\ d.logging = c.logging
        /\ d.apiKey = c.apiKey /\ d.user = c.user /\ d.charged = c.charged
        /\ d.served = c.served /\ d.panicked = c.panicked /\ d.entry = c.entry
    BY <1>1, <2>1 DEF Contexts
  <2> HIDE DEF d
  <2>3. Last(d) = Last(c) /\ ChargedTo(d) = ChargedTo(c)
    BY <2>2 DEF Last, ChargedTo
  <2>4. Answering(d)
    BY <1>1, <2>2, <2>3 DEF Good, Answering
  <2>5. Charging(d)
    BY <1>1, <2>2, <2>3 DEF Good, Charging
  <2>6. Logging(d)
    BY <1>1, <2>2 DEF Good, Logging
  <2>7. Authorized(d, users) /\ Told(d, users)
    <3>1. Authorized(c, users) /\ Told(c, users)
      BY <1>1 DEF Good
    <3>2. QED
      BY <1>4, <2>2, <3>1 DEF Authorized, Told
  <2>8. Good(d, users)
    BY <2>2, <2>4, <2>5, <2>6, <2>7 DEF Good
  <2>9. QED
    BY <1>2, <1>4, <2>8, OneRequestOnly
<1>5. CASE Serve(r, 400)
  <2>1. "register" \in Routes /\ 400 \in Nat
    BY DEF Routes
  <2>2. QED
    BY <1>2, <1>5, <2>1, ServeInv
<1>6. QED
  BY <1>3, <1>4, <1>5

(* Register's INSERT: a 201 is sent only for the row that was inserted. *)
LEMMA RegisterCreateInv ==
    ASSUME Inv, NEW r \in Requests, RegisterCreate(r)
    PROVE  Inv'
<1> DEFINE c == ctx[r]
           body == c.in.body
<1>1. Good(c, users) /\ c \in Contexts
  BY DEF Inv, Good
<1>2. At(r, "register") /\ c.checked
  BY DEF RegisterCreate
<1>3. /\ c.pc = "running" /\ c.index = Last(c) /\ c.index \in {6, 7}
      /\ c.in.route = "register"
  <2>1. "register" \in Routes
    BY DEF Routes
  <2>2. QED
    BY <1>1, <1>2, <2>1, Place
<1>4. body # None /\ body.email \in Emails /\ body.password \in Passwords
  BY <1>1, <1>2, Fields DEF Good, Told
<1>5. CASE Create(body.email, body.password) /\ (Serve(r, 201) \/ Serve(r, 400))
  <2>1. PICK code \in {201, 400} : Serve(r, code)
    BY <1>5
  <2>2. /\ users[body.email] = None /\ tokens' = tokens
        /\ users' = [users EXCEPT ![body.email] = body.password]
    BY <1>5 DEF Create
  <2> DEFINE d == [Continue(JSON(c, code)) EXCEPT !.served = TRUE]
  <2>3. Becomes(r, d)
    BY <2>1 DEF Serve
  <2> HIDE DEF c, body
  <2>4. AccountsInv
    BY DEF Inv
  <2>5. body.password # None
    BY <1>4, AccountsAssumption
  <2>6. AccountsInv' /\ Grows
    BY <1>4, <2>2, <2>4, <2>5 DEF AccountsInv, Grows
  <2>7. users'[body.email] = body.password
    BY <1>4, <2>2, <2>4 DEF AccountsInv
  <2>8. c.user # None => c.user \in Emails
    BY <1>1, Fields
  <2>9. Authorized(c, users')
    BY <1>1, <2>6, <2>8 DEF Good, Authorized, Grows
  <2>10. Told(c, users')
    BY <1>1, <1>3, <1>4, <2>5, <2>7 DEF Good, Told, body
  <2>11. Good(c, users')
    BY <1>1, <2>9, <2>10 DEF Good
  <2>12. Good(d, users')
    BY <1>3, <1>4, <2>5, <2>7, <2>11, Served DEF body
  <2>13. QED
    BY <2>3, <2>6, <2>12, OneRequest
<1>6. CASE UNCHANGED accounts /\ Serve(r, 400)
  <2>1. "register" \in Routes /\ 400 \in Nat
    BY DEF Routes
  <2>2. QED
    BY <1>2, <1>6, <2>1, ServeInv
<1>7. QED
  BY <1>5, <1>6 DEF RegisterCreate

(* Login signs a token for an account whose password was sent. *)
LEMMA LoginInv ==
    ASSUME Inv, NEW r \in Requests, Login(r)
    PROVE  Inv'
<1> DEFINE c == ctx[r]
           body == c.in.body
<1>1. Good(c, users) /\ c \in Contexts
  BY DEF Inv, Good
<1>2. At(r, "login") /\ "login" \in Routes
  BY DEF Login, Routes
<1>3. /\ c.pc = "running" /\ c.index = Last(c) /\ c.index \in {6, 7}
      /\ c.in.route = "login"
  BY <1>1, <1>2, Place
<1>4. CASE /\ body # None /\ PasswordMatches(body.email, body.password)
           /\ SignToken(body.email) /\ Serve(r, 200)
  <2> DEFINE d == [Continue(JSON(c, 200)) EXCEPT !.served = TRUE]
  <2>1. Becomes(r, d)
    BY <1>4 DEF Serve
  <2>2. body.email \in Emails
    BY <1>1, <1>4, Fields
  <2>3. /\ users[body.email] # None /\ users[body.email] = body.password
        /\ users' = users /\ tokens' = [tokens EXCEPT ![body.email] = jwtExpiry]
    BY <1>4 DEF PasswordMatches, FindByEmail, SignToken
  <2> HIDE DEF c, body
  <2>4. AccountsInv' /\ Grows
    BY <2>2, <2>3, AccountsAssumption DEF Inv, AccountsInv, Grows
  <2>5. Good(d, users)
    BY <1>1, <1>3, <1>4, <2>3, Served DEF body
  <2>6. Good(d, users')
    BY <2>3, <2>5
  <2>7. QED
    BY <2>1, <2>4, <2>6, OneRequest
<1>5. CASE UNCHANGED accounts /\ (Serve(r, 400) \/ Serve(r, 401))
  <2>1. PICK code \in {400, 401} : Serve(r, code)
    BY <1>5
  <2>2. QED
    BY <1>2, <1>5, <2>1, ServeInv
<1>6. QED
  BY <1>4, <1>5 DEF Login

(* A panic is answered by Recovery, whatever was written before. *)
LEMMA PanicInv ==
    ASSUME Inv, NEW r \in Requests, Panic(r)
    PROVE  Inv'
<1> DEFINE c == ctx[r]
<1>1. Good(c, users) /\ c \in Contexts
  BY DEF Inv, Good
<1>2. At(r, "proxy") /\ "proxy" \in Routes
  BY DEF Panic, Routes
<1>3. /\ c.pc = "running" /\ c.index = Last(c) /\ c.index \in {6, 7}
      /\ c.in.route = "proxy"
  BY <1>1, <1>2, Place
<1>4. PICK e \in {c, JSON(c, 200)} :
        Becomes(r, [Abort(JSON(e, 500)) EXCEPT !.pc = "done", !.panicked = TRUE])
  BY DEF Panic
<1> DEFINE f == JSON(e, 500)
           g == Abort(f)
           d == [g EXCEPT !.pc = "done", !.panicked = TRUE]
<1> HIDE DEF c
<1>5. c.writes = 0 /\ ~c.served
  <2>1. Answering(c)
    BY <1>1 DEF Good
  <2>2. QED
    BY <1>3, <2>1 DEF Answering
<1>6. /\ e \in Contexts /\ e.writes \in {0, 1}
      /\ SameRequest(c, e) /\ SameMarks(c, e)
  <2>1. CASE e = c
    BY <1>1, <1>5, <2>1 DEF SameRequest, SameMarks
  <2>2. CASE e = JSON(c, 200)
    <3>1. 200 \in Nat
      OBVIOUS
    <3>2. QED
      BY <1>1, <1>5, <2>2, <3>1, JSONEffect
  <2>3. QED
    BY <1>4, <2>1, <2>2
<1>7. /\ f \in Contexts /\ f.writes \in {1, 2}
      /\ SameRequest(e, f) /\ SameMarks(e, f)
  <2>1. 500 \in Nat
    OBVIOUS
  <2>2. /\ f \in Contexts /\ SameRequest(e, f) /\ SameMarks(e, f)
        /\ e.writes = 0 => f.writes = 1
        /\ e.writes = 1 => f.writes = 2
    BY <1>6, <2>1, JSONEffect
  <2>3. QED
    BY <1>6, <2>2
<1>8. /\ g \in Contexts /\ g.index = 63
      /\ SameRequest(f, g) /\ SameReply(f, g) /\ SameMarks(f, g)
  BY <1>7, AbortEffect
<1>9. Becomes(r, d)
  BY <1>4
<1> HIDE DEF f, g
<1>10. TRUE \in Flags /\ "done" \in Progress
  BY DEF Flags, Progress
<1>11. /\ d \in Contexts /\ d.index = g.index /\ d.in = g.in /\ d.pc = "done"
       /\ d.status = g.status /\ d.writes = g.writes /\ d.logging = g.logging
       /\ d.apiKey = g.apiKey /\ d.user = g.user /\ d.charged = g.charged
       /\ d.checked = g.checked /\ d.served = g.served /\ d.panicked = TRUE
  BY <1>8, <1>10 DEF Contexts
<1> HIDE DEF d
<1>12. /\ d.index = 63 /\ d.in = c.in /\ d.writes \in {1, 2} /\ d.logging = c.logging
       /\ d.apiKey = c.apiKey /\ d.user = c.user /\ d.charged = c.charged
       /\ d.checked = c.checked /\ d.served = c.served
  BY <1>6, <1>7, <1>8, <1>11 DEF SameRequest, SameReply, SameMarks
<1>13. Answering(d)
  <2>1. ~(d.index <= Last(d)) /\ d.writes > 0
    BY <1>11, <1>12, ChainLength
  <2>2. QED
    BY <1>11, <2>1 DEF Answering
<1>14. Charging(d)
  <2>1. c.in.options \/ c.in.key = "invalid" => c.charged = <<>>
    BY <1>1 DEF Good, Charging
  <2>2. QED
    BY <1>5, <1>12, <2>1 DEF Charging
<1>15. Logging(d)
  <2>1. Logging(c)
    BY <1>1 DEF Good
  <2>2. QED
    BY <1>3, <1>11, <1>12, <2>1 DEF Logging
<1>16. Authorized(d, users) /\ Told(d, users)
  BY <1>1, <1>3, <1>12 DEF Good, Authorized, Told
<1>17. Good(d, users)
  BY <1>11, <1>13, <1>14, <1>15, <1>16 DEF Good
<1>18. QED
  BY <1>9, <1>17, OneRequestOnly DEF Panic

-----------------------------------------------------------------------------
(* After the last handler: the log entry, then gin's 404 if nobody answered. *)
LEMMA FinishInv ==
    ASSUME Inv, NEW r \in Requests, Finish(r)
    PROVE  Inv'
<1> DEFINE c == ctx[r]
           record == [status |-> c.status, apiKey |-> c.apiKey]
           e == [c EXCEPT !.pc = "done", !.entry = record]
<1>1. Good(c, users) /\ c \in Contexts
  BY DEF Inv, Good
<1>2. c.pc = "running" /\ c.index > Last(c) /\ UNCHANGED accounts
  BY DEF Finish, Last
<1>3. c.logging /\ c.in.route # "slash"
  <2>1. Logging(c) /\ c.in.route # "slash"
    BY <1>1, <1>2 DEF Good, Answering
  <2>2. c.index >= 3
    BY <1>1, <1>2, <2>1, Numbers, ChainLength
  <2>3. QED
    BY <2>1, <2>2 DEF Logging
<1>4. Becomes(r, IF e.writes = 0 THEN JSON(e, e.status) ELSE e)
  BY <1>3 DEF Finish
<1>5. record \in Entries /\ "done" \in Progress
  <2>1. c.status \in Nat /\ c.apiKey \in BOOLEAN
    BY <1>1 DEF Contexts, Flags
  <2>2. QED
    BY <2>1 DEF Entries, Progress
<1> HIDE DEF c, record
<1>6. /\ e \in Contexts /\ e.index = c.index /\ e.in = c.in /\ e.pc = "done"
      /\ SameReply(c, e) /\ e.logging = c.logging
      /\ e.apiKey = c.apiKey /\ e.user = c.user /\ e.charged = c.charged
      /\ e.checked = c.checked /\ e.served = c.served /\ e.panicked = c.panicked
      /\ e.entry = record
  BY <1>1, <1>5 DEF Contexts, SameReply
<1> HIDE DEF e
<1>7. /\ e.status = c.status /\ e.writes = c.writes /\ Last(e) = Last(c)
      /\ ChargedTo(e) = ChargedTo(c)
  BY <1>6 DEF SameReply, Last, ChargedTo
<1> DEFINE d == IF e.writes = 0 THEN JSON(e, e.status) ELSE e
<1>8. /\ d \in Contexts /\ d.index = e.index /\ d.status = e.status
      /\ e.writes = 0 => d.writes = 1
      /\ e.writes # 0 => d.writes = e.writes
      /\ SameRequest(e, d) /\ SameMarks(e, d)
  <2>1. CASE e.writes = 0
    <3>1. e.status \in Nat
      BY <1>6, Numbers
    <3>2. d = JSON(e, e.status)
      BY <2>1
    <3>3. QED
      BY <1>6, <2>1, <3>1, <3>2, JSONEffect
  <2>2. CASE e.writes # 0
    <3>1. d = e
      BY <2>2
    <3>2. QED
      BY <1>6, <2>2, <3>1 DEF SameRequest, SameMarks
  <2>3. QED
    BY <2>1, <2>2
<1> HIDE DEF d
<1>9. /\ d.index = c.index /\ d.in = c.in /\ d.pc = "done" /\ d.status = c.status
      /\ d.logging = c.logging /\ d.apiKey = c.apiKey /\ d.user = c.user
      /\ d.charged = c.charged /\ d.checked = c.checked /\ d.served = c.served
      /\ d.panicked = c.panicked /\ d.entry = record
  BY <1>6, <1>7, <1>8 DEF SameRequest, SameMarks
<1>10. Last(d) = Last(c) /\ ChargedTo(d) = ChargedTo(c)
  BY <1>9 DEF Last, ChargedTo
<1>11. /\ c.writes = 0 => d.writes = 1
       /\ c.writes # 0 => d.writes = c.writes
       /\ c.writes \in 0..2
  BY <1>1, <1>7, <1>8, Numbers
<1>12. Answering(d)
  <2>1. d.writes > 0
    BY <1>11
  <2>2. ~(d.index <= Last(d))
    BY <1>1, <1>2, <1>9, <1>10, Numbers, ChainLength
  <2>3. d.writes = 2 => c.writes = 2
    BY <1>11
  <2>4. c.writes = 2 => d.panicked
    BY <1>1, <1>9 DEF Good, Answering
  <2>5. d.in.route # "slash"
    BY <1>3, <1>9
  <2>6. QED
    BY <2>1, <2>2, <2>3, <2>4, <2>5 DEF Answering
<1>13. Charging(d)
  BY <1>1, <1>9, <1>10 DEF Good, Charging
<1>14. Logging(d)
  BY <1>3, <1>9 DEF Logging, record
<1>15. Authorized(d, users)
  BY <1>1, <1>9 DEF Good, Authorized
<1>16. Told(d, users)
  <2>1. Answering(c) /\ Told(c, users)
    BY <1>1 DEF Good
  <2>2. c.writes > 0 \/ c.in.route = "none"
    BY <1>2, <2>1 DEF Answering
  <2>3. QED
    BY <1>1, <1>9, <2>1, <2>2 DEF Told
<1>17. Good(d, users)
  BY <1>8, <1>12, <1>13, <1>14, <1>15, <1>16 DEF Good
<1>18. QED
  BY <1>2, <1>4, <1>17, OneRequestOnly DEF d

(* A context in which nothing has happened yet. *)
Fresh(d) ==
    /\ d.index = 1 /\ d.writes = 0
    /\ ~d.apiKey /\ d.user = None /\ d.charged = <<>>
    /\ ~d.checked /\ ~d.served /\ d.entry = None

(* It is good whatever the request holds. *)
LEMMA FreshGood ==
    ASSUME NEW d \in Contexts, Fresh(d), d.pc # "done", d.in.route # "slash"
    PROVE  Good(d, users)
<1>1. ~(d.index > Last(d))
  BY ChainLength DEF Fresh
<1>2. Answering(d)
  BY <1>1 DEF Answering, Fresh
<1>3. Charging(d) /\ Logging(d) /\ Authorized(d, users) /\ Told(d, users)
  BY DEF Fresh, Charging, Logging, Authorized, Told
<1>4. QED
  BY <1>2, <1>3 DEF Good

(* NewContext makes such a context. *)
LEMMA NewFresh ==
    ASSUME NEW i \in TheInputs
    PROVE  /\ NewContext(i) \in Contexts /\ Fresh(NewContext(i))
           /\ NewContext(i).pc = "running" /\ NewContext(i).in = i
<1> DEFINE code == IF i.route = "none" THEN 404 ELSE 200
           running == "running"
           first == 1
           zero == 0
           no == FALSE
           nothing == <<>>
<1>1. /\ running \in Progress /\ first \in Indexes /\ zero \in Counts /\ no \in Flags
      /\ None \in Users /\ None \in Entries /\ code \in Nat
  BY DEF Progress, Indexes, Counts, Flags, Users, Entries
<1>2. nothing \in Charges
  BY DEF Charges
<1>3. NewContext(i) = [pc |-> running, in |-> i, index |-> first, status |-> code, writes |-> zero,
                       logging |-> no, apiKey |-> no, user |-> None, charged |-> nothing,
                       checked |-> no, served |-> no, panicked |-> no, entry |-> None]
  BY DEF NewContext
<1> HIDE DEF code, running, first, zero, no, nothing
<1>4. NewContext(i) \in Contexts
  BY <1>1, <1>2, <1>3 DEF Contexts
<1>5. Fresh(NewContext(i)) /\ NewContext(i).pc = "running" /\ NewContext(i).in = i
  BY <1>3 DEF Fresh, running, first, zero, no, nothing
<1>6. QED
  BY <1>4, <1>5

(* A request arrives where none is being served. *)
LEMMA ArriveInv ==
    ASSUME Inv, NEW r \in Requests, Arrive(r)
    PROVE  Inv'
<1>1. PICK i \in Inputs : i.route # "slash" /\ Becomes(r, NewContext(i))
  BY DEF Arrive
<1>2. UNCHANGED accounts
  BY DEF Arrive
<1> DEFINE d == NewContext(i)
<1>3. d \in Contexts /\ Fresh(d) /\ d.pc = "running" /\ d.in = i
  BY NewFresh DEF TheInputs
<1>4. Becomes(r, d)
  BY <1>1
<1> HIDE DEF d
<1>5. Good(d, users)
  BY <1>1, <1>3, FreshGood
<1>6. QED
  BY <1>2, <1>4, <1>5, OneRequestOnly

(* gin answers a request with a redirect, and no handler has run. *)
LEMMA RedirectInv ==
    ASSUME Inv, NEW r \in Requests, Redirect(r)
    PROVE  Inv'
<1>1. PICK i \in Inputs, code \in {301, 307} :
        /\ i.route = "slash"
        /\ i.options => code = 307
        /\ Becomes(r, [JSON(NewContext(i), code) EXCEPT !.pc = "done"])
  BY Zenon DEF Redirect
<1>2. UNCHANGED accounts
  BY DEF Redirect
<1> DEFINE c == NewContext(i)
           e == JSON(c, code)
           d == [e EXCEPT !.pc = "done"]
<1>3. c \in Contexts /\ Fresh(c) /\ c.in = i
  BY NewFresh DEF TheInputs
<1>4. Becomes(r, d)
  BY <1>1
<1> HIDE DEF c
<1>5. c.writes = 0 /\ c.index = 1 /\ code \in Nat
  BY <1>3 DEF Fresh
<1>6. /\ e \in Contexts /\ e.index = c.index /\ e.status = code /\ e.writes = 1
      /\ SameRequest(c, e) /\ SameMarks(c, e)
  <2>1. c \in Contexts /\ code \in Nat
    BY <1>3, <1>5
  <2>2. /\ JSON(c, code) \in Contexts
        /\ JSON(c, code).index = c.index
        /\ c.writes = 0 => JSON(c, code).status = code /\ JSON(c, code).writes = 1
        /\ SameRequest(c, JSON(c, code)) /\ SameMarks(c, JSON(c, code))
    BY <2>1, JSONEffect
  <2>3. QED
    BY <1>5, <2>2, Zenon
<1> HIDE DEF e
<1>7. "done" \in Progress
  BY DEF Progress
<1>8. /\ d \in Contexts /\ d.index = e.index /\ d.in = e.in /\ d.pc = "done"
      /\ d.status = e.status /\ d.writes = e.writes /\ SameMarks(e, d)
  BY <1>6, <1>7 DEF Contexts, SameMarks
<1> HIDE DEF d
<1>9. /\ d.index = 1 /\ d.in.route = "slash" /\ d.status = code /\ d.writes = 1
      /\ SameMarks(c, d)
  BY <1>1, <1>3, <1>5, <1>6, <1>8 DEF SameRequest, SameMarks
<1>10. /\ ~d.apiKey /\ d.user = None /\ d.charged = <<>> /\ ~d.checked /\ ~d.served
       /\ d.entry = None
  BY <1>3, <1>9 DEF SameMarks, Fresh
<1>11. Answering(d)
  <2>1. ~(d.index <= Last(d))
    BY <1>8, <1>9, ChainLength
  <2>2. QED
    BY <1>8, <1>9, <2>1 DEF Answering
<1>12. Charging(d) /\ Authorized(d, users) /\ Told(d, users)
  BY <1>9, <1>10 DEF Charging, Authorized, Told
<1>13. Logging(d)
  BY <1>9, <1>10 DEF Logging
<1>14. Good(d, users)
  BY <1>8, <1>11, <1>12, <1>13 DEF Good
<1>15. QED
  BY <1>2, <1>4, <1>14, OneRequestOnly

(* Time passes for the tokens. *)
LEMMA TokensAgeInv ==
    ASSUME Inv, TokensAge, UNCHANGED ctx
    PROVE  Inv'
<1>1. AccountsInv'
  BY DEF Inv, AccountsInv, TokensAge
<1>2. users' = users /\ ctx' = ctx
  BY DEF TokensAge
<1>3. QED
  BY <1>1, <1>2 DEF Inv

(* Before the first request. *)
LEMMA InitInv == Init => Inv
<1> SUFFICES ASSUME Init PROVE Inv
  OBVIOUS
<1>1. AccountsInv
  BY DEF Init, AccountsInit, AccountsInv
<1>2. Idle = [NewContext(NoInput) EXCEPT !.pc = "idle"]
  BY DEF Idle, NoInput
<1>3. Good(Idle, users)
  <2> DEFINE d == NewContext(NoInput)
  <2>1. d \in Contexts /\ Fresh(d) /\ d.in.route # "slash"
    BY NewFresh DEF TheInputs, NoInput
  <2>2. "idle" \in Progress
    BY DEF Progress
  <2> HIDE DEF d
  <2>3. /\ [d EXCEPT !.pc = "idle"] \in Contexts /\ [d EXCEPT !.pc = "idle"].pc = "idle"
        /\ [d EXCEPT !.pc = "idle"].in.route # "slash"
    BY <2>1, <2>2 DEF Contexts
  <2>4. Fresh([d EXCEPT !.pc = "idle"])
    BY <2>1 DEF Contexts, Fresh
  <2>5. QED
    BY <1>2, <2>3, <2>4, FreshGood DEF d
<1>4. DOMAIN ctx = Requests /\ \A r \in Requests : ctx[r] = Idle
  BY DEF Init
<1>5. QED
  BY <1>1, <1>3, <1>4 DEF Inv

(* No step breaks the invariant. *)
LEMMA NextInv == Inv /\ [Next]_vars => Inv'
<1> SUFFICES ASSUME Inv, [Next]_vars PROVE Inv'
  OBVIOUS
<1>1. CASE UNCHANGED vars
  <2>1. users' = users /\ tokens' = tokens /\ ctx' = ctx
    BY <1>1 DEF vars, accounts
  <2>2. QED
    BY <2>1 DEF Inv, AccountsInv
<1>2. CASE TokensAge /\ UNCHANGED ctx
  BY <1>2, TokensAgeInv
<1>3. ASSUME NEW r \in Requests, Arrive(r) \/ Redirect(r) \/ Finish(r) PROVE Inv'
  BY <1>3, ArriveInv, RedirectInv, FinishInv
<1>4. ASSUME NEW r \in Requests, Middleware(r) PROVE Inv'
  BY <1>4, RecoveryInv, RequestLoggerInv, CORSInv, APIKeyValidatorInv, RateLimitInv,
     RequireAuthInv DEF Middleware
<1>5. ASSUME NEW r \in Requests, Handler(r) PROVE Inv'
  BY <1>5, PlainInv, RegisterFindInv, RegisterCreateInv, LoginInv, PanicInv DEF Handler
<1>6. QED
  BY <1>1, <1>2, <1>3, <1>4, <1>5 DEF Next

(* The invariant holds in every state. *)
LEMMA Invariance == Spec => []Inv
BY InitInv, NextInv, PTL DEF Spec

-----------------------------------------------------------------------------
(* Every request gets an answer, and a second body only after a panic in the *)
(* proxy's handler, for any number of requests.                              *)
THEOREM Answered == Spec => []AnsweredOnce
<1>1. Inv => AnsweredOnce
  BY DEF Inv, Good, Answering, AnsweredOnce, Done
<1>2. QED
  BY <1>1, Invariance, PTL

(* The limiter is called once for a request that is served, with the key or  *)
(* the address it came with, and never for one refused for its key.          *)
THEOREM Charged == Spec => []ChargedOnce
<1>1. Inv => ChargedOnce
  BY DEF Inv, Good, Charging, ChargedTo, ChargedOnce, Done
<1>2. QED
  BY <1>1, Invariance, PTL

(* RequestLogger records every request of the chain that does not panic as   *)
(* it was answered, and no request that gin redirects.                       *)
THEOREM Logged == Spec => []LoggedAsAnswered
<1>1. Inv => LoggedAsAnswered
  BY DEF Inv, Good, Logging, LoggedAsAnswered, Done
<1>2. QED
  BY <1>1, Invariance, PTL

(* A 201 of Register and a 200 of Login stay true, for any number of         *)
(* registrations of an email at a time.                                      *)
THEOREM AsTold == Spec => []AccountsAsTold
<1>1. Inv => AccountsAsTold
  <2> SUFFICES ASSUME Inv, NEW r \in Requests, Done(r),
                      \/ ctx[r].in.route = "register" /\ ctx[r].status = 201
                      \/ ctx[r].in.route = "login" /\ ctx[r].status = 200
               PROVE  PasswordMatches(ctx[r].in.body.email, ctx[r].in.body.password)
    BY DEF AccountsAsTold
  <2>1. Good(ctx[r], users) /\ ctx[r].pc = "done"
    BY DEF Inv, Done
  <2>2. ctx[r].writes > 0
    BY <2>1 DEF Good, Answering
  <2>3. QED
    BY <2>1, <2>2 DEF Good, Told, PasswordMatches, FindByEmail
<1>2. QED
  BY <1>1, Invariance, PTL

(* RequireAuth lets no one below /admin who has no account.                  *)
THEOREM AdminGuarded == Spec => []AdminHasUser
<1>1. Inv => AdminHasUser
  BY DEF Inv, Good, Authorized, AdminHasUser
<1>2. QED
  BY <1>1, Invariance, PTL
=============================================================================

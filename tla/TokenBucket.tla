----------------------------- MODULE TokenBucket -----------------------------
(***************************************************************************)
(* The token-bucket limiter of internal/ratelimit for the requests of one  *)
(* client.  Allow reads the bucket from Redis, reads the clock, refills    *)
(* and takes a token on its own copy, and writes the copy back: nothing    *)
(* keeps two requests from doing so at the same time.                      *)
(*                                                                         *)
(* Tokens are fractions in the code; here a token is Token parts, and the  *)
(* bucket gains refillRate parts in a clock unit.  The one-hour expiry of  *)
(* the key is left out: NewLimiter's rate fills a bucket within two        *)
(* windows, and a full bucket and a missing one are the same to Allow.     *)
(* Remaining and Reset only read the bucket.                               *)
(***************************************************************************)
EXTENDS Integers

CONSTANTS
    Requests,       \* requests of the client that may be in Allow at once
    Limit,          \* requests per window, the capacity in tokens
    WindowSeconds,
    Token,          \* parts in a token; a second is Token clock units
    MaxTime         \* bound: where the clock of the model stops

(* NewLimiter *)
refillRate == IF Limit \div WindowSeconds = 0 THEN 1 ELSE Limit \div WindowSeconds
capacity == Limit * Token

VARIABLES
    now,
    exists,       \* ratelimit:bucket:<key> is there
    tokens, lastRefill,
    pc,
    held,         \* state.Tokens in Allow
    heldRefill,   \* state.LastRefill in Allow
    at            \* now in Allow

bucket == <<exists, tokens, lastRefill>>
vars == <<now, bucket, pc, held, heldRefill, at>>

Init ==
    /\ now = 0
    /\ exists = FALSE
    /\ tokens = 0
    /\ lastRefill = 0
    /\ pc = [r \in Requests |-> "idle"]
    /\ held = [r \in Requests |-> 0]
    /\ heldRefill = [r \in Requests |-> 0]
    /\ at = [r \in Requests |-> 0]

Goto(r, place) == pc' = [pc EXCEPT ![r] = place]

-----------------------------------------------------------------------------
(* A missing bucket is a full one, refilled now. *)
Get(r) ==
    /\ pc[r] = "idle"
    /\ held' = [held EXCEPT ![r] = IF exists THEN tokens ELSE capacity]
    /\ heldRefill' = [heldRefill EXCEPT ![r] = IF exists THEN lastRefill ELSE now]
    /\ Goto(r, "clock")
    /\ UNCHANGED <<now, bucket, at>>

ReadClock(r) ==
    /\ pc[r] = "clock"
    /\ at' = [at EXCEPT ![r] = now]
    /\ Goto(r, "set")
    /\ UNCHANGED <<now, bucket, held, heldRefill>>

Refilled(r) ==
    LET full == held[r] + (at[r] - heldRefill[r]) * refillRate
    IN  IF full < capacity THEN full ELSE capacity

Allowed(r) == Refilled(r) >= Token
Left(r) == IF Allowed(r) THEN Refilled(r) - Token ELSE Refilled(r)

(* Fault: a denied request does not save the time of its refill. *)
SetKeepingRefillTime(r) ==
    /\ pc[r] = "set"
    /\ exists' = TRUE
    /\ tokens' = Left(r)
    /\ lastRefill' = IF Allowed(r) THEN at[r] ELSE heldRefill[r]
    /\ Goto(r, "idle")
    /\ UNCHANGED <<now, held, heldRefill, at>>

Set(r) ==
    /\ pc[r] = "set"
    /\ exists' = TRUE
    /\ tokens' = Left(r)
    /\ lastRefill' = at[r]
    /\ Goto(r, "idle")
    /\ UNCHANGED <<now, held, heldRefill, at>>

(* The result of Set is not looked at: the request is answered all the same. *)
SetFails(r) ==
    /\ pc[r] = "set"
    /\ Goto(r, "idle")
    /\ UNCHANGED <<now, bucket, held, heldRefill, at>>

Tick ==
    /\ now < MaxTime
    /\ now' = now + 1
    /\ UNCHANGED <<bucket, pc, held, heldRefill, at>>

(* Fault: the clock is read before the bucket. *)
AllowClockFirst(r) ==
    \/ /\ pc[r] = "idle"
       /\ at' = [at EXCEPT ![r] = now]
       /\ Goto(r, "clock")
       /\ UNCHANGED <<now, bucket, held, heldRefill>>
    \/ /\ pc[r] = "clock"
       /\ held' = [held EXCEPT ![r] = IF exists THEN tokens ELSE capacity]
       /\ heldRefill' = [heldRefill EXCEPT ![r] = IF exists THEN lastRefill ELSE at[r]]
       /\ Goto(r, "set")
       /\ UNCHANGED <<now, bucket, at>>
    \/ Set(r) \/ SetFails(r)

(* A failing Get is answered with a 500 and changes nothing. *)
Allow(r) == Get(r) \/ ReadClock(r) \/ Set(r) \/ SetFails(r)

Next == (\E r \in Requests : Allow(r)) \/ Tick

Spec == Init /\ [][Next]_vars

-----------------------------------------------------------------------------
(* Type invariant.  The bucket is never overfull or overdrawn, even when      *)
(* requests overwrite each other's state.                                     *)
TypeOK ==
    /\ now \in 0..MaxTime
    /\ exists \in BOOLEAN
    /\ tokens \in 0..capacity
    /\ lastRefill \in 0..now
    /\ pc \in [Requests -> {"idle", "clock", "set"}]
    /\ held \in [Requests -> 0..capacity]
    /\ heldRefill \in [Requests -> 0..now]
    /\ at \in [Requests -> 0..now]

(* Allow reads the clock after the bucket, so the elapsed time is never       *)
(* negative and a refill never takes tokens away, although the bucket may     *)
(* have been saved by a request that started later.                           *)
RefillAdds == \A r \in Requests : pc[r] = "set" => heldRefill[r] <= at[r]
=============================================================================

----------------------------- MODULE RateLimiter -----------------------------
(***************************************************************************)
(* RateLimitWithTier of internal/middleware for the requests of one        *)
(* client: NewLimiter makes the limiter that the tier's algorithm names,   *)
(* and each request goes through it.  The algorithms keep their state in   *)
(* Redis keys of their own, and share the clock.                           *)
(***************************************************************************)
EXTENDS Integers, FiniteSets

CONSTANTS
    Algorithms,      \* those the tiers are configured with
    Requests,        \* requests of the client that may be in a limiter at once
    Limit,
    Window,          \* for the window limiters, in clock units
    WindowSeconds,   \* for the token bucket, in seconds
    Token,           \* parts in a token, clock units in a second
    MaxTime          \* bound: where the clock of the model stops

ASSUME LimiterAssumption ==
    /\ IsFiniteSet(Requests)
    /\ Requests # {}
    /\ Limit \in Nat \ {0}
    /\ Window \in Nat \ {0}
    /\ WindowSeconds \in Nat \ {0}
    /\ Token \in Nat \ {0}
    /\ MaxTime \in Nat

VARIABLES
    algorithm,
    now, pc, at,
    count, expires, window, allowed, remaining, reset,
    entries, expiry,
    exists, tokens, lastRefill, held, heldRefill

fixedVars == <<count, expires, window, allowed, remaining, reset>>
slidingVars == <<entries, expiry>>
bucketVars == <<exists, tokens, lastRefill, held, heldRefill>>
vars == <<algorithm, now, pc, at, fixedVars, slidingVars, bucketVars>>

Fixed == INSTANCE FixedWindow
Sliding == INSTANCE SlidingWindow
Bucket == INSTANCE TokenBucket

(* The tier of the client's API key, or the first one, names the algorithm. *)
Init ==
    /\ algorithm \in Algorithms
    /\ Fixed!Init
    /\ Sliding!Init
    /\ Bucket!Init

(* The fixed window is also NewLimiter's default. *)
UsesFixedWindow == algorithm \notin {"sliding_window", "token_bucket"}

FixedStep ==
    /\ UsesFixedWindow
    /\ Fixed!Next
    /\ UNCHANGED <<algorithm, at, slidingVars, bucketVars>>

SlidingStep ==
    /\ algorithm = "sliding_window"
    /\ Sliding!Next
    /\ UNCHANGED <<algorithm, fixedVars, bucketVars>>

BucketStep ==
    /\ algorithm = "token_bucket"
    /\ Bucket!Next
    /\ UNCHANGED <<algorithm, fixedVars, slidingVars>>

Next == FixedStep \/ SlidingStep \/ BucketStep

Spec == Init /\ [][Next]_vars

-----------------------------------------------------------------------------
(* Type invariant: that of the algorithm in use. *)
TypeOK ==
    /\ algorithm \in Algorithms
    /\ UsesFixedWindow => Fixed!TypeOK
    /\ algorithm = "sliding_window" => Sliding!TypeOK
    /\ algorithm = "token_bucket" => Bucket!TypeOK

(* A client that waits until X-RateLimit-Reset has left the fixed window in   *)
(* which Allow counted it, and never waits longer than one window.            *)
ResetLeavesWindow == Fixed!ResetLeavesWindow

(* The fixed window's counter is never dropped while the window lasts. *)
CounterOutlivesWindow == Fixed!CounterOutlivesWindow

(* The token bucket's Allow never computes a negative elapsed time. *)
RefillAdds == Bucket!RefillAdds
=============================================================================

----------------------------- MODULE FixedWindow -----------------------------
(***************************************************************************)
(* The fixed-window limiter of internal/ratelimit, as RateLimitWithTier    *)
(* runs it for the requests of one client: Allow, then Remaining and Reset *)
(* for the headers.  The counter of each window is a Redis key of its own. *)
(* The clock is read before the counter is incremented, and the expiry is  *)
(* set by a command of its own, so time and other requests pass between.   *)
(* A counter saturates at Limit + 1: it is compared with 1 and with limit. *)
(***************************************************************************)
EXTENDS Integers

CONSTANTS
    Requests,   \* requests of the client that may be in the limiter at once
    Limit,
    Window,     \* length of a window, in clock units
    MaxTime     \* bound: where the clock of the model stops

windowOf(t) == t \div Window
Windows == 0..windowOf(MaxTime)
Never == -1

VARIABLES
    now,
    count,      \* ratelimit:fixed:<key>:<window>, 0 where there is no key
    expires,    \* when Redis drops the key, Never without an expiry
    pc,
    window,     \* currentWindow in Allow
    allowed,
    remaining,  \* X-RateLimit-Remaining
    reset       \* X-RateLimit-Reset

redis == <<count, expires>>
answer == <<allowed, remaining, reset>>
vars == <<now, redis, pc, window, answer>>

Init ==
    /\ now = 0
    /\ count = [w \in Windows |-> 0]
    /\ expires = [w \in Windows |-> Never]
    /\ pc = [r \in Requests |-> "idle"]
    /\ window = [r \in Requests |-> 0]
    /\ allowed = [r \in Requests |-> FALSE]
    /\ remaining = [r \in Requests |-> 0]
    /\ reset = [r \in Requests |-> 0]

Goto(r, place) == pc' = [pc EXCEPT ![r] = place]
Counted(n) == IF n <= Limit THEN n + 1 ELSE n

-----------------------------------------------------------------------------
(* Allow *)

(* Fault: the number of the window is rounded up. *)
ReadClockRoundingUp(r) ==
    /\ pc[r] = "idle"
    /\ window' = [window EXCEPT ![r] = windowOf(now) + 1]
    /\ Goto(r, "incr")
    /\ UNCHANGED <<now, redis, answer>>

ReadClock(r) ==
    /\ pc[r] = "idle"
    /\ window' = [window EXCEPT ![r] = windowOf(now)]
    /\ Goto(r, "incr")
    /\ UNCHANGED <<now, redis, answer>>

(* Fault: the request over the limit is let through. *)
IncrOneMore(r) ==
    /\ pc[r] = "incr"
    /\ count' = [count EXCEPT ![window[r]] = Counted(@)]
    /\ allowed' = [allowed EXCEPT ![r] = count[window[r]] <= Limit]
    /\ Goto(r, IF count'[window[r]] = 1 THEN "expire" ELSE "remaining")
    /\ UNCHANGED <<now, expires, window, remaining, reset>>

Incr(r) ==
    /\ pc[r] = "incr"
    /\ count' = [count EXCEPT ![window[r]] = Counted(@)]
    /\ allowed' = [allowed EXCEPT ![r] = count'[window[r]] <= Limit]
    /\ Goto(r, IF count'[window[r]] = 1 THEN "expire" ELSE "remaining")
    /\ UNCHANGED <<now, expires, window, remaining, reset>>

(* An error, before or after Redis has counted, is answered with a 500. *)
IncrFails(r) ==
    /\ pc[r] = "incr"
    /\ count' \in {count, [count EXCEPT ![window[r]] = Counted(@)]}
    /\ Goto(r, "idle")
    /\ UNCHANGED <<now, expires, window, answer>>

(* The result of Expire is not looked at; a key that is gone gets no expiry. *)
Expire(r) ==
    /\ pc[r] = "expire"
    /\ expires' \in {expires, [expires EXCEPT ![window[r]] =
                        IF count[window[r]] > 0 THEN now + Window ELSE Never]}
    /\ Goto(r, "remaining")
    /\ UNCHANGED <<now, count, window, answer>>

-----------------------------------------------------------------------------
(* The headers.  Remaining looks up ratelimit:<key>:<window>, a key that no   *)
(* one writes, and takes redis.Nil for an unused limit; its error is 0.       *)
Remaining(r) ==
    /\ pc[r] = "remaining"
    /\ \E n \in {Limit, 0} : remaining' = [remaining EXCEPT ![r] = n]
    /\ Goto(r, "reset")
    /\ UNCHANGED <<now, redis, window, allowed, reset>>

(* Fault: the reset time is that of the current window. *)
ResetThisWindow(r) ==
    /\ pc[r] = "reset"
    /\ reset' = [reset EXCEPT ![r] = windowOf(now) * Window]
    /\ Goto(r, "answered")
    /\ UNCHANGED <<now, redis, window, allowed, remaining>>

Reset(r) ==
    /\ pc[r] = "reset"
    /\ reset' = [reset EXCEPT ![r] = (windowOf(now) + 1) * Window]
    /\ Goto(r, "answered")
    /\ UNCHANGED <<now, redis, window, allowed, remaining>>

(* The request leaves with its headers; another takes its place. *)
Leave(r) ==
    /\ pc[r] = "answered"
    /\ Goto(r, "idle")
    /\ window' = [window EXCEPT ![r] = 0]
    /\ allowed' = [allowed EXCEPT ![r] = FALSE]
    /\ remaining' = [remaining EXCEPT ![r] = 0]
    /\ reset' = [reset EXCEPT ![r] = 0]
    /\ UNCHANGED <<now, redis>>

(* Time passes, and Redis drops the keys that are due. *)
Due(w) == expires[w] # Never /\ expires[w] <= now + 1
Tick ==
    /\ now < MaxTime
    /\ now' = now + 1
    /\ count' = [w \in Windows |-> IF Due(w) THEN 0 ELSE count[w]]
    /\ expires' = [w \in Windows |-> IF Due(w) THEN Never ELSE expires[w]]
    /\ UNCHANGED <<pc, window, answer>>

Handle(r) ==
    \/ ReadClock(r) \/ Incr(r) \/ IncrFails(r) \/ Expire(r)
    \/ Remaining(r) \/ Reset(r) \/ Leave(r)

Next == (\E r \in Requests : Handle(r)) \/ Tick

Spec == Init /\ [][Next]_vars

-----------------------------------------------------------------------------
(* Type invariant. *)
TypeOK ==
    /\ now \in 0..MaxTime
    /\ count \in [Windows -> 0..Limit + 1]
    /\ expires \in [Windows -> {Never} \cup 0..MaxTime + Window]
    /\ pc \in [Requests -> {"idle", "incr", "expire", "remaining", "reset", "answered"}]
    /\ window \in [Requests -> Windows]
    /\ allowed \in [Requests -> BOOLEAN]
    /\ remaining \in [Requests -> 0..Limit]
    /\ reset \in [Requests -> 0..MaxTime + Window]

(* The counter of a window is never dropped while the window lasts, whichever *)
(* request's Incr came first and however late its Expire was, so inside a     *)
(* window Allow cannot start to count anew.                                   *)
CounterOutlivesWindow ==
    [][count'[windowOf(now')] >= count[windowOf(now')]]_vars

(* A client that waits until X-RateLimit-Reset has left the window in which   *)
(* Allow counted it, and is never told to wait longer than one window, though *)
(* Reset reads the clock again some time after Allow did.                     *)
ResetLeavesWindow ==
    \A r \in Requests :
        pc[r] = "answered" =>
            /\ windowOf(reset[r]) > window[r]
            /\ reset[r] <= now + Window

(* "Get remaining count": the remaining count of a request that was let       *)
(* through leaves out that request at least.                                  *)
RemainingCountsRequest ==
    \A r \in Requests :
        pc[r] = "answered" /\ allowed[r] /\ windowOf(now) = window[r] => remaining[r] < Limit
=============================================================================

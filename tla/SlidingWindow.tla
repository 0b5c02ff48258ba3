---------------------------- MODULE SlidingWindow ----------------------------
(***************************************************************************)
(* The sliding-window limiter of internal/ratelimit for the requests of    *)
(* one client.  Allow prunes and counts a sorted set of time stamps in a   *)
(* pipeline, which is not a transaction, and adds its own time stamp with  *)
(* later commands, so other requests and time come between any two of      *)
(* them.  A member of the set is its time stamp: two requests that read    *)
(* the same time share one.  Remaining and Reset only read the set.        *)
(***************************************************************************)
EXTENDS Integers, FiniteSets

CONSTANTS
    Requests,   \* requests of the client that may be in Allow at once
    Limit,
    Window,
    MaxTime     \* bound: where the clock of the model stops

Never == -1

VARIABLES
    now,
    entries,    \* ratelimit:sliding:<key>
    expiry,     \* when Redis drops the key, Never without an expiry
    pc,
    at          \* now in Allow

vars == <<now, entries, expiry, pc, at>>

Init ==
    /\ now = 0
    /\ entries = {}
    /\ expiry = Never
    /\ pc = [r \in Requests |-> "idle"]
    /\ at = [r \in Requests |-> 0]

Goto(r, place) == pc' = [pc EXCEPT ![r] = place]

(* Redis drops a sorted set, and its expiry, when its last member goes. *)
SetEntries(set) ==
    /\ entries' = set
    /\ expiry' = IF set = {} THEN Never ELSE expiry

-----------------------------------------------------------------------------
ReadClock(r) ==
    /\ pc[r] = "idle"
    /\ at' = [at EXCEPT ![r] = now]
    /\ Goto(r, "prune")
    /\ UNCHANGED <<now, entries, expiry>>

(* Fault: entries are dropped one unit before they leave the window. *)
PruneEarly(r) ==
    /\ pc[r] = "prune"
    /\ SetEntries({e \in entries : e > at[r] - Window + 1})
    /\ Goto(r, "count")
    /\ UNCHANGED <<now, at>>

(* ZRemRangeByScore up to and including windowStart. *)
Prune(r) ==
    /\ pc[r] = "prune"
    /\ SetEntries({e \in entries : e > at[r] - Window})
    /\ Goto(r, "count")
    /\ UNCHANGED <<now, at>>

(* Fault: the limit is compared with <=. *)
CountOneMore(r) ==
    /\ pc[r] = "count"
    /\ Goto(r, IF Cardinality(entries) <= Limit THEN "add" ELSE "idle")
    /\ UNCHANGED <<now, entries, expiry, at>>

(* ZCard: over the limit the request is denied. *)
Count(r) ==
    /\ pc[r] = "count"
    /\ Goto(r, IF Cardinality(entries) < Limit THEN "add" ELSE "idle")
    /\ UNCHANGED <<now, entries, expiry, at>>

(* The pipeline fails before or after it has pruned: an error, not a denial. *)
PipelineFails(r) ==
    /\ pc[r] \in {"prune", "count"}
    /\ Goto(r, "idle")
    /\ UNCHANGED <<now, entries, expiry, at>>

(* ZAdd and Expire, whose results are not looked at. *)
Add(r) ==
    /\ pc[r] = "add"
    /\ entries' = entries \cup {at[r]}
    /\ Goto(r, "expire")
    /\ UNCHANGED <<now, expiry, at>>

AddFails(r) ==
    /\ pc[r] = "add"
    /\ Goto(r, "expire")
    /\ UNCHANGED <<now, entries, expiry, at>>

Expire(r) ==
    /\ pc[r] = "expire"
    /\ expiry' = IF entries # {} THEN now + Window ELSE Never
    /\ Goto(r, "idle")
    /\ UNCHANGED <<now, entries, at>>

ExpireFails(r) ==
    /\ pc[r] = "expire"
    /\ Goto(r, "idle")
    /\ UNCHANGED <<now, entries, expiry, at>>

Due == expiry # Never /\ expiry <= now + 1
Tick ==
    /\ now < MaxTime
    /\ now' = now + 1
    /\ entries' = IF Due THEN {} ELSE entries
    /\ expiry' = IF Due THEN Never ELSE expiry
    /\ UNCHANGED <<pc, at>>

Allow(r) ==
    \/ ReadClock(r) \/ Prune(r) \/ Count(r) \/ PipelineFails(r)
    \/ Add(r) \/ AddFails(r) \/ Expire(r) \/ ExpireFails(r)

Next == (\E r \in Requests : Allow(r)) \/ Tick

Spec == Init /\ [][Next]_vars

-----------------------------------------------------------------------------
(* Type invariant; a key without members does not exist, so has no expiry.    *)
TypeOK ==
    /\ now \in 0..MaxTime
    /\ entries \subseteq 0..now
    /\ expiry \in {Never} \cup 0..MaxTime + Window
    /\ entries = {} => expiry = Never
    /\ pc \in [Requests -> {"idle", "prune", "count", "add", "expire"}]
    /\ at \in [Requests -> 0..now]
=============================================================================

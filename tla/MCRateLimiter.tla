---------------------------- MODULE MCRateLimiter ----------------------------
(* Adds what the limiters do not remember: whom they let through, which      *)
(* commands Redis failed to carry out, and whether requests overlapped.      *)
EXTENDS RateLimiter

CONSTANT MaxPassed   \* bound: where the count of the bucket's requests stops

VARIABLES
    inside,      \* fixed window: let through while the window lasted
    granted,     \* sliding window: the time stamps of those let through
    unseen,      \* sliding window: those that share one, or that lost theirs
    uncovered,   \* sliding window: entries whose Expire has failed
    passed,      \* token bucket: let through
    failed,      \* token bucket: a Set has failed
    overlapped   \* token bucket: requests were in Allow at the same time

history == <<inside, granted, unseen, uncovered, passed, failed, overlapped>>

MCInit ==
    /\ Init
    /\ inside = [w \in Fixed!Windows |-> 0]
    /\ granted = {}
    /\ unseen = {}
    /\ uncovered = {}
    /\ passed = 0
    /\ failed = FALSE
    /\ overlapped = FALSE

InWindow(w) ==
    /\ w = Fixed!windowOf(now)
    /\ \E r \in Requests : pc[r] = "incr" /\ allowed'[r] /\ window[r] = w

RecordFixed ==
    /\ FixedStep
    /\ inside' = [w \in Fixed!Windows |->
        IF InWindow(w) /\ inside[w] <= Limit THEN inside[w] + 1 ELSE inside[w]]
    /\ UNCHANGED <<granted, unseen, uncovered, passed, failed, overlapped>>

(* Count lets r through. *)
LetsThrough(r) == pc[r] = "count" /\ pc'[r] = "add"

(* r leaves no entry of its own in the set: another request was let through   *)
(* with its time stamp, its ZAdd fails, or the key expires before its Expire. *)
LosesEntry(r) ==
    \/ LetsThrough(r) /\ at[r] \in granted
    \/ Sliding!AddFails(r)
    \/ pc[r] = "expire" /\ now' # now /\ Sliding!Due

RecordSliding ==
    /\ SlidingStep
    /\ granted' = granted \cup {at[r] : r \in {q \in Requests : LetsThrough(q)}}
    /\ unseen' = unseen \cup {at[r] : r \in {q \in Requests : LosesEntry(q)}}
    /\ uncovered' = uncovered \cup
        {at[r] : r \in {q \in Requests : Sliding!ExpireFails(q)}}
    /\ UNCHANGED <<inside, passed, failed, overlapped>>

RecordBucket ==
    /\ BucketStep
    /\ passed' =
        IF /\ passed < MaxPassed
           /\ \E r \in Requests : pc[r] = "set" /\ pc'[r] = "idle" /\ Bucket!Allowed(r)
        THEN passed + 1 ELSE passed
    /\ failed' = (failed \/ \E r \in Requests : Bucket!SetFails(r))
    /\ overlapped' =
        (overlapped \/ \E r, q \in Requests : r # q /\ pc'[r] # "idle" /\ pc'[q] # "idle")
    /\ UNCHANGED <<inside, granted, unseen, uncovered>>

MCNext == RecordFixed \/ RecordSliding \/ RecordBucket

MCSpec == MCInit /\ [][MCNext]_<<vars, history>>

-----------------------------------------------------------------------------
(* While a fixed window lasts Allow lets at most limit requests through in    *)
(* it, whatever delays, failed Expires and lost replies there were before.    *)
WithinWindowLimit == \A w \in Fixed!Windows : inside[w] <= Limit

(* An entry leaves the sliding window's set inside its window only if its own *)
(* Expire failed or is still to come: neither another request's pruning,      *)
(* whose clock may be behind, nor the expiry of the key, which each request   *)
(* moves on, forgets a request too early.                                     *)
EntriesLastWindow ==
    [][\A e \in entries \ entries' :
        \/ e <= now' - Window
        \/ e \in uncovered
        \/ \E r \in Requests : pc[r] = "expire" /\ at[r] = e]_<<vars, history>>

(* Of the requests that read the clock in the last window Allow has let fewer *)
(* through than the limit plus those that may be in it at once, although its  *)
(* check and its ZAdd are apart.  This takes that each of them left an entry  *)
(* of its own that lasts: one that shares a time stamp, or whose ZAdd or      *)
(* Expire fails, is let through and need not be counted against the limit.    *)
LetThroughBounded ==
    LET Last == {s \in granted : s > now - Window} IN
    Last \cap (unseen \cup uncovered) = {} =>
        Cardinality(Last) <= Limit + Cardinality(Requests) - 1

(* As long as requests come to a token bucket one at a time and every Set     *)
(* succeeds, no more have been let through than the bucket held at first and  *)
(* has been refilled with since; denied requests gain no fraction of a token. *)
SequentialSupply ==
    ~failed /\ ~overlapped =>
        passed * Token + (IF exists THEN tokens ELSE 0)
            <= Bucket!capacity + now * Bucket!refillRate
=============================================================================

-------------------------- MODULE RateLimiterProofs --------------------------
(***************************************************************************)
(* What the three limiters guarantee for any limit, window and number of   *)
(* requests.  A client has one limiter, so the invariant has a part for    *)
(* each algorithm, and each part is kept by the steps of that algorithm.   *)
(***************************************************************************)
EXTENDS RateLimiter, FiniteSetTheorems, TLAPS

-----------------------------------------------------------------------------
(* Windows: the number of a window, and where it begins and ends. *)

(* A time lies in the window it is given the number of. *)
LEMMA InItsWindow ==
    ASSUME NEW w \in Nat \ {0}, NEW t \in Nat
    PROVE  /\ t \div w \in Nat
           /\ (t \div w) * w <= t
           /\ t < (t \div w + 1) * w
BY SMT

(* Window numbers grow with time. *)
LEMMA LaterWindow ==
    ASSUME NEW w \in Nat \ {0}, NEW t \in Nat, NEW u \in Nat, t <= u
    PROVE  t \div w <= u \div w
BY SMT

(* A window begins at its number times the length. *)
LEMMA WindowBegins ==
    ASSUME NEW w \in Nat \ {0}, NEW n \in Nat
    PROVE  (n * w) \div w = n
BY SMT

(* A product of natural numbers is one, and grows with its first factor. *)
LEMMA Products ==
    ASSUME NEW w \in Nat, NEW m \in Nat, NEW n \in Nat, m <= n
    PROVE  m * w \in Nat /\ n * w \in Nat /\ m * w <= n * w
BY SMT

(* The next window begins one length later. *)
LEMMA NextWindow ==
    ASSUME NEW w \in Nat, NEW n \in Nat
    PROVE  (n + 1) * w = n * w + w
BY SMT

-----------------------------------------------------------------------------
(* The fixed window.  A request counts in a window that has begun, and the    *)
(* expiry of a counter is never before the end of its window.                 *)
Begun ==
    \A r \in Requests : pc[r] # "idle" => window[r] <= Fixed!windowOf(now)

ExpiresAfterWindow ==
    \A w \in Fixed!Windows : expires[w] # Fixed!Never => (w + 1) * Window <= expires[w]

FixedInv == Fixed!TypeOK /\ Begun /\ ExpiresAfterWindow /\ Fixed!ResetLeavesWindow

(* The clock is always in a window of the model. *)
LEMMA ClockInWindows ==
    ASSUME NEW t \in 0..MaxTime
    PROVE  /\ Fixed!windowOf(t) \in Fixed!Windows
           /\ Fixed!windowOf(t) \in Nat
           /\ Fixed!windowOf(MaxTime) \in Nat
<1>1. t \in Nat /\ MaxTime \in Nat /\ t <= MaxTime /\ Window \in Nat \ {0}
  BY LimiterAssumption
<1>2. t \div Window \in Nat /\ MaxTime \div Window \in Nat
  BY <1>1, InItsWindow
<1>3. t \div Window <= MaxTime \div Window
  BY <1>1, LaterWindow
<1>4. QED
  BY <1>2, <1>3 DEF Fixed!windowOf, Fixed!Windows

(* ReadClock starts in the current window. *)
LEMMA FixedReadClock ==
    ASSUME FixedInv, NEW r \in Requests, Fixed!ReadClock(r)
    PROVE  FixedInv'
<1>1. now \in 0..MaxTime
  BY DEF FixedInv, Fixed!TypeOK
<1>2. Fixed!windowOf(now) \in Fixed!Windows /\ Fixed!windowOf(now) \in Nat
  BY <1>1, ClockInWindows
<1>3. Fixed!TypeOK'
  BY <1>2 DEF FixedInv, Fixed!TypeOK, Fixed!ReadClock, Fixed!Goto, Fixed!redis, Fixed!answer
<1>4. Begun'
  BY <1>2 DEF FixedInv, Fixed!TypeOK, Begun, Fixed!ReadClock, Fixed!Goto, Fixed!redis, Fixed!answer,
     Fixed!windowOf
<1>5. ExpiresAfterWindow'
  BY DEF FixedInv, ExpiresAfterWindow, Fixed!ReadClock, Fixed!redis
<1>6. Fixed!ResetLeavesWindow'
  BY DEF FixedInv, Fixed!TypeOK, Fixed!ResetLeavesWindow, Fixed!ReadClock, Fixed!Goto, Fixed!redis,
     Fixed!answer
<1>7. QED
  BY <1>3, <1>4, <1>5, <1>6 DEF FixedInv

(* Incr and IncrFails change a counter and no expiry. *)
LEMMA FixedIncr ==
    ASSUME FixedInv, NEW r \in Requests, Fixed!Incr(r) \/ Fixed!IncrFails(r)
    PROVE  FixedInv'
<1>1. Limit \in Nat /\ window[r] \in Fixed!Windows
  BY LimiterAssumption DEF FixedInv, Fixed!TypeOK
<1>2. count' \in [Fixed!Windows -> 0..Limit + 1]
  <2>1. Fixed!Counted(count[window[r]]) \in 0..Limit + 1
    BY <1>1 DEF FixedInv, Fixed!TypeOK, Fixed!Counted
  <2>2. QED
    BY <1>1, <2>1 DEF FixedInv, Fixed!TypeOK, Fixed!Incr, Fixed!IncrFails
<1>3. /\ pc[r] = "incr"
      /\ UNCHANGED <<now, expires, window, remaining, reset>>
      /\ \E place \in {"idle", "expire", "remaining"} : Fixed!Goto(r, place)
  BY DEF Fixed!Incr, Fixed!IncrFails, Fixed!answer
<1>4. allowed' \in [Requests -> BOOLEAN]
  <2>1. (count'[window[r]] <= Limit) \in BOOLEAN
    BY <1>1, <1>2
  <2>2. \/ allowed' = allowed
        \/ allowed' = [allowed EXCEPT ![r] = count'[window[r]] <= Limit]
    BY DEF Fixed!Incr, Fixed!IncrFails, Fixed!answer
  <2>3. allowed \in [Requests -> BOOLEAN]
    BY DEF FixedInv, Fixed!TypeOK
  <2>4. QED
    BY <2>1, <2>2, <2>3, Zenon
<1>5. /\ pc' \in [Requests -> {"idle", "incr", "expire", "remaining", "reset", "answered"}]
      /\ pc'[r] # "answered"
      /\ \A q \in Requests \ {r} : pc'[q] = pc[q]
  BY <1>3 DEF FixedInv, Fixed!TypeOK, Fixed!Goto
<1>6. Fixed!TypeOK'
  BY <1>2, <1>3, <1>4, <1>5 DEF FixedInv, Fixed!TypeOK
<1>7. Begun'
  BY <1>3, <1>5 DEF FixedInv, Begun, Fixed!windowOf
<1>8. ExpiresAfterWindow'
  BY <1>3 DEF FixedInv, ExpiresAfterWindow
<1>9. Fixed!ResetLeavesWindow'
  BY <1>3, <1>5 DEF FixedInv, Fixed!ResetLeavesWindow
<1>10. QED
  BY <1>6, <1>7, <1>8, <1>9 DEF FixedInv

(* Expire gives a counter a whole window from now, and its window has begun.  *)
LEMMA FixedExpire ==
    ASSUME FixedInv, NEW r \in Requests, Fixed!Expire(r)
    PROVE  FixedInv'
<1> DEFINE w == window[r]
<1>1. /\ Window \in Nat \ {0} /\ MaxTime \in Nat /\ now \in 0..MaxTime /\ now \in Nat
      /\ w \in Fixed!Windows
  BY LimiterAssumption DEF FixedInv, Fixed!TypeOK
<1>2. /\ expires \in [Fixed!Windows -> {Fixed!Never} \cup 0..MaxTime + Window]
      /\ \/ expires' = expires
         \/ expires' = [expires EXCEPT ![w] = now + Window]
         \/ expires' = [expires EXCEPT ![w] = Fixed!Never]
  BY DEF FixedInv, Fixed!TypeOK, Fixed!Expire
<1>3. expires' \in [Fixed!Windows -> {Fixed!Never} \cup 0..MaxTime + Window]
  BY <1>1, <1>2
<1>4. /\ pc' \in [Requests -> {"idle", "incr", "expire", "remaining", "reset", "answered"}]
      /\ UNCHANGED <<now, count, window, allowed, remaining, reset>>
      /\ pc[r] = "expire" /\ pc'[r] # "answered"
      /\ \A q \in Requests \ {r} : pc'[q] = pc[q]
  BY DEF FixedInv, Fixed!TypeOK, Fixed!Expire, Fixed!Goto, Fixed!answer
<1>5. Fixed!TypeOK'
  BY <1>3, <1>4 DEF FixedInv, Fixed!TypeOK
<1>6. Begun'
  BY <1>4 DEF FixedInv, Begun, Fixed!windowOf
<1>7. (w + 1) * Window <= now + Window
  <2>1. w \in Nat /\ w <= now \div Window
    BY <1>1, <1>4, ClockInWindows DEF FixedInv, Begun, Fixed!windowOf, Fixed!Windows
  <2>2. now \div Window \in Nat /\ (now \div Window) * Window <= now
    BY <1>1, InItsWindow
  <2>3. w * Window <= (now \div Window) * Window /\ w * Window \in Nat
        /\ (now \div Window) * Window \in Nat
    BY <1>1, <2>1, <2>2, Products
  <2>4. (w + 1) * Window = w * Window + Window
    BY <1>1, <2>1, NextWindow
  <2>5. QED
    BY <1>1, <2>2, <2>3, <2>4
<1>8. ExpiresAfterWindow'
  BY <1>1, <1>2, <1>7 DEF FixedInv, ExpiresAfterWindow
<1>9. Fixed!ResetLeavesWindow'
  BY <1>4 DEF FixedInv, Fixed!ResetLeavesWindow
<1>10. QED
  BY <1>5, <1>6, <1>8, <1>9 DEF FixedInv

(* Remaining changes nothing that a window depends on. *)
LEMMA FixedRemaining ==
    ASSUME FixedInv, NEW r \in Requests, Fixed!Remaining(r)
    PROVE  FixedInv'
<1>1. /\ pc' \in [Requests -> {"idle", "incr", "expire", "remaining", "reset", "answered"}]
      /\ remaining' \in [Requests -> 0..Limit]
      /\ UNCHANGED <<now, count, expires, window, allowed, reset>>
      /\ pc[r] = "remaining" /\ pc'[r] # "answered"
      /\ \A q \in Requests \ {r} : pc'[q] = pc[q]
  BY LimiterAssumption DEF FixedInv, Fixed!TypeOK, Fixed!Remaining, Fixed!Goto, Fixed!redis
<1>2. Fixed!TypeOK'
  BY <1>1 DEF FixedInv, Fixed!TypeOK
<1>3. Begun'
  BY <1>1 DEF FixedInv, Begun, Fixed!windowOf
<1>4. ExpiresAfterWindow'
  BY <1>1 DEF FixedInv, ExpiresAfterWindow
<1>5. Fixed!ResetLeavesWindow'
  BY <1>1 DEF FixedInv, Fixed!ResetLeavesWindow
<1>6. QED
  BY <1>2, <1>3, <1>4, <1>5 DEF FixedInv

(* Reset answers with the beginning of the window after the current one, and  *)
(* the request was counted in the current window or an earlier one.           *)
LEMMA FixedReset ==
    ASSUME FixedInv, NEW r \in Requests, Fixed!Reset(r)
    PROVE  FixedInv'
<1> DEFINE n == now \div Window
<1>1. /\ Window \in Nat \ {0} /\ MaxTime \in Nat /\ now \in 0..MaxTime /\ now \in Nat
  BY LimiterAssumption DEF FixedInv, Fixed!TypeOK
<1>2. n \in Nat /\ n * Window <= now
  BY <1>1, InItsWindow
<1>3. n * Window \in Nat /\ (n + 1) * Window = n * Window + Window
  BY <1>1, <1>2, Products, NextWindow
<1>4. (n + 1) * Window \in 0..now + Window /\ (n + 1) * Window \in 0..MaxTime + Window
  BY <1>1, <1>2, <1>3
<1>5. ((n + 1) * Window) \div Window = n + 1
  BY <1>1, <1>2, WindowBegins
<1>6. /\ pc' \in [Requests -> {"idle", "incr", "expire", "remaining", "reset", "answered"}]
      /\ UNCHANGED <<now, count, expires, window, allowed, remaining>>
      /\ pc[r] = "reset"
      /\ reset' = [reset EXCEPT ![r] = (n + 1) * Window]
      /\ \A q \in Requests \ {r} : pc'[q] = pc[q]
  BY DEF FixedInv, Fixed!TypeOK, Fixed!Reset, Fixed!Goto, Fixed!redis, Fixed!windowOf
<1>7. Fixed!TypeOK'
  BY <1>4, <1>6 DEF FixedInv, Fixed!TypeOK
<1>8. Begun'
  BY <1>6 DEF FixedInv, Begun, Fixed!windowOf
<1>9. ExpiresAfterWindow'
  BY <1>6 DEF FixedInv, ExpiresAfterWindow
<1>10. window[r] \in Nat /\ window[r] <= n
  BY <1>1, <1>6, ClockInWindows DEF FixedInv, Fixed!TypeOK, Begun, Fixed!windowOf, Fixed!Windows
<1>11. reset'[r] = (n + 1) * Window /\ \A q \in Requests \ {r} : reset'[q] = reset[q]
  BY <1>6 DEF FixedInv, Fixed!TypeOK
<1>12. reset'[r] \div Window > window'[r] /\ reset'[r] <= now' + Window
  BY <1>1, <1>2, <1>4, <1>5, <1>6, <1>10, <1>11
<1>13. Fixed!ResetLeavesWindow'
  BY <1>6, <1>11, <1>12 DEF FixedInv, Fixed!ResetLeavesWindow, Fixed!windowOf
<1>14. QED
  BY <1>7, <1>8, <1>9, <1>13 DEF FixedInv

(* Leave hands the place on to another request. *)
LEMMA FixedLeave ==
    ASSUME FixedInv, NEW r \in Requests, Fixed!Leave(r)
    PROVE  FixedInv'
<1>1. 0 \in Fixed!Windows /\ 0 \in 0..Limit /\ 0 \in 0..MaxTime + Window
  BY LimiterAssumption, ClockInWindows DEF Fixed!Windows
<1>2. allowed' \in [Requests -> BOOLEAN]
  BY Zenon DEF FixedInv, Fixed!TypeOK, Fixed!Leave
<1>3. /\ pc' \in [Requests -> {"idle", "incr", "expire", "remaining", "reset", "answered"}]
      /\ window' \in [Requests -> Fixed!Windows]
      /\ remaining' \in [Requests -> 0..Limit]
      /\ reset' \in [Requests -> 0..MaxTime + Window]
      /\ UNCHANGED <<now, count, expires>>
      /\ pc'[r] = "idle"
      /\ \A q \in Requests \ {r} : /\ pc'[q] = pc[q]
                                    /\ window'[q] = window[q]
                                    /\ reset'[q] = reset[q]
  BY <1>1 DEF FixedInv, Fixed!TypeOK, Fixed!Leave, Fixed!Goto, Fixed!redis
<1>4. Fixed!TypeOK'
  BY <1>2, <1>3 DEF FixedInv, Fixed!TypeOK
<1>5. Begun'
  BY <1>3 DEF FixedInv, Begun, Fixed!windowOf
<1>6. ExpiresAfterWindow'
  BY <1>3 DEF FixedInv, ExpiresAfterWindow
<1>7. Fixed!ResetLeavesWindow'
  BY <1>3 DEF FixedInv, Fixed!ResetLeavesWindow, Fixed!windowOf
<1>8. QED
  BY <1>4, <1>5, <1>6, <1>7 DEF FixedInv

(* Time only moves the clock on, and drops keys with their expiry. *)
LEMMA FixedTick ==
    ASSUME FixedInv, Fixed!Tick
    PROVE  FixedInv'
<1>1. /\ Window \in Nat \ {0} /\ MaxTime \in Nat /\ Limit \in Nat
      /\ now \in 0..MaxTime /\ now' = now + 1 /\ now' \in 0..MaxTime
      /\ now \in Nat /\ now' \in Nat
      /\ UNCHANGED <<pc, window, allowed, remaining, reset>>
  BY LimiterAssumption DEF FixedInv, Fixed!TypeOK, Fixed!Tick, Fixed!answer
<1>2. \A w \in Fixed!Windows : expires'[w] \in {Fixed!Never, expires[w]}
  BY DEF Fixed!Tick
<1>3. count' \in [Fixed!Windows -> 0..Limit + 1]
  BY <1>1 DEF FixedInv, Fixed!TypeOK, Fixed!Tick
<1>4. expires' \in [Fixed!Windows -> {Fixed!Never} \cup 0..MaxTime + Window]
  BY <1>1 DEF FixedInv, Fixed!TypeOK, Fixed!Tick
<1>5. Fixed!TypeOK'
  BY <1>1, <1>3, <1>4 DEF FixedInv, Fixed!TypeOK
<1>6. /\ now \div Window <= now' \div Window
      /\ now \div Window \in Nat /\ now' \div Window \in Nat
  BY <1>1, LaterWindow, InItsWindow
<1>7. \A r \in Requests : window[r] \in Nat
  BY <1>1, ClockInWindows DEF FixedInv, Fixed!TypeOK, Fixed!Windows
<1>8. Begun'
  BY <1>1, <1>6, <1>7 DEF FixedInv, Begun, Fixed!windowOf
<1>9. ExpiresAfterWindow'
  BY <1>2 DEF FixedInv, ExpiresAfterWindow
<1>10. Fixed!ResetLeavesWindow'
  BY <1>1 DEF FixedInv, Fixed!TypeOK, Fixed!ResetLeavesWindow, Fixed!windowOf
<1>11. QED
  BY <1>5, <1>8, <1>9, <1>10 DEF FixedInv

(* The fixed window keeps its invariant. *)
LEMMA FixedNext ==
    ASSUME FixedInv, Fixed!Next
    PROVE  FixedInv'
BY FixedReadClock, FixedIncr, FixedExpire, FixedRemaining, FixedReset, FixedLeave, FixedTick
   DEF Fixed!Next, Fixed!Handle

(* Redis drops a counter only after its window. *)
LEMMA FixedKeepsCounter ==
    ASSUME FixedInv, Fixed!Next, NEW w \in Fixed!Windows, w >= Fixed!windowOf(now')
    PROVE  count'[w] >= count[w]
<1>1. /\ Window \in Nat \ {0} /\ MaxTime \in Nat /\ Limit \in Nat
      /\ now \in 0..MaxTime /\ now' \in 0..MaxTime
      /\ count \in [Fixed!Windows -> 0..Limit + 1]
      /\ expires \in [Fixed!Windows -> {Fixed!Never} \cup 0..MaxTime + Window]
  BY FixedNext, LimiterAssumption DEF FixedInv, Fixed!TypeOK
<1>2. count[w] \in Nat /\ w \in Nat
  BY <1>1, ClockInWindows DEF Fixed!Windows
<1>3. CASE Fixed!Tick
  <2> DEFINE n == now' \div Window
  <2>1. now' = now + 1 /\ now' \in Nat
    BY <1>1, <1>3 DEF Fixed!Tick
  <2>2. n \in Nat /\ now' < (n + 1) * Window
    BY <1>1, <2>1, InItsWindow
  <2>3. w + 1 \in Nat /\ n + 1 \in Nat /\ n + 1 <= w + 1
    BY <1>2, <2>2 DEF Fixed!windowOf
  <2>4. /\ (n + 1) * Window \in Nat /\ (w + 1) * Window \in Nat
        /\ (n + 1) * Window <= (w + 1) * Window
    BY <1>1, <2>3, Products
  <2>5. expires[w] # Fixed!Never => (w + 1) * Window <= expires[w]
    BY DEF FixedInv, ExpiresAfterWindow
  <2>6. ~Fixed!Due(w)
    BY <1>1, <2>1, <2>2, <2>4, <2>5 DEF Fixed!Due
  <2>7. QED
    BY <1>2, <1>3, <2>6 DEF Fixed!Tick
<1>4. CASE \E r \in Requests : Fixed!Incr(r) \/ Fixed!IncrFails(r)
  BY <1>1, <1>2, <1>4 DEF Fixed!Incr, Fixed!IncrFails, Fixed!Counted
<1>5. CASE \E r \in Requests : \/ Fixed!ReadClock(r) \/ Fixed!Expire(r) \/ Fixed!Remaining(r)
                               \/ Fixed!Reset(r) \/ Fixed!Leave(r)
  BY <1>2, <1>5 DEF Fixed!ReadClock, Fixed!Expire, Fixed!Remaining, Fixed!Reset, Fixed!Leave,
     Fixed!redis
<1>6. QED
  BY <1>3, <1>4, <1>5 DEF Fixed!Next, Fixed!Handle

-----------------------------------------------------------------------------
(* The sliding window.  The set has room for the requests that passed the     *)
(* check and are still to add their time stamps: a request joins them only    *)
(* below the limit, and there are no more of them than requests.              *)
Adding == {r \in Requests : pc[r] = "add"}

SetBound == Cardinality(entries) + Cardinality(Adding) <= Limit + Cardinality(Requests) - 1

SlidingInv == Sliding!TypeOK /\ SetBound

(* The limiter's cardinality is the one the library's theorems are about. *)
LEMMA SameCardinality ==
    ASSUME NEW S
    PROVE  Sliding!Cardinality(S) = Cardinality(S)
BY Zenon DEF Cardinality, Sliding!Cardinality

(* The entries and the adding requests are finitely many. *)
LEMMA SlidingFinite ==
    ASSUME Sliding!TypeOK
    PROVE  /\ IsFiniteSet(entries) /\ Cardinality(entries) \in Nat
           /\ IsFiniteSet(Adding) /\ Cardinality(Adding) \in Nat
           /\ Cardinality(Requests) \in Nat
           /\ Cardinality(Adding) <= Cardinality(Requests)
<1>1. now \in Int /\ entries \in SUBSET (0..now)
  BY LimiterAssumption DEF Sliding!TypeOK
<1>2. IsFiniteSet(0..now)
  BY <1>1, FS_Interval
<1>3. IsFiniteSet(entries)
  BY <1>1, <1>2, FS_Subset
<1>4. Adding \in SUBSET Requests
  BY DEF Adding
<1>5. /\ IsFiniteSet(Adding)
      /\ Cardinality(Adding) <= Cardinality(Requests)
  BY <1>4, LimiterAssumption, FS_Subset
<1>6. QED
  BY <1>3, <1>5, LimiterAssumption, FS_CardinalityType

(* Fewer entries, or fewer requests that are adding, keep the bound. *)
LEMMA SlidingShrinks ==
    ASSUME SlidingInv, Sliding!TypeOK', entries' \subseteq entries,
           Adding' \subseteq Adding
    PROVE  SlidingInv'
<1>1. /\ IsFiniteSet(entries) /\ Cardinality(entries) \in Nat
      /\ IsFiniteSet(Adding) /\ Cardinality(Adding) \in Nat
      /\ Cardinality(Requests) \in Nat /\ Limit \in Nat
  BY SlidingFinite, LimiterAssumption DEF SlidingInv
<1>2. Cardinality(entries') <= Cardinality(entries) /\ IsFiniteSet(entries')
  BY <1>1, FS_Subset
<1>3. /\ Cardinality(Adding') <= Cardinality(Adding)
      /\ IsFiniteSet(Adding')
  BY <1>1, FS_Subset
<1>4. Cardinality(entries') \in Nat /\ Cardinality(Adding') \in Nat
  BY <1>2, <1>3, FS_CardinalityType
<1>5. QED
  BY <1>1, <1>2, <1>3, <1>4 DEF SlidingInv, SetBound

(* The sliding window keeps its types. *)
LEMMA SlidingTyped ==
    ASSUME Sliding!TypeOK, Sliding!Next
    PROVE  Sliding!TypeOK'
<1>1. Window \in Nat \ {0} /\ MaxTime \in Nat /\ now \in 0..MaxTime /\ now \in Nat
  BY LimiterAssumption DEF Sliding!TypeOK
<1>2. CASE Sliding!Tick
  <2>1. now' = now + 1 /\ now' \in 0..MaxTime /\ UNCHANGED <<pc, at>>
    BY <1>1, <1>2 DEF Sliding!Tick
  <2>2. /\ entries' \subseteq 0..now'
        /\ expiry' \in {Sliding!Never} \cup 0..MaxTime + Window
        /\ entries' = {} => expiry' = Sliding!Never
    <3>1. CASE Sliding!Due
      BY <1>2, <3>1 DEF Sliding!Tick
    <3>2. CASE ~Sliding!Due
      BY <1>1, <1>2, <2>1, <3>2 DEF Sliding!Tick, Sliding!TypeOK
    <3>3. QED
      BY <3>1, <3>2
  <2>3. at' \in [Requests -> 0..now']
    BY <1>1, <2>1 DEF Sliding!TypeOK
  <2>4. QED
    BY <2>1, <2>2, <2>3 DEF Sliding!TypeOK
<1>3. ASSUME NEW r \in Requests, Sliding!ReadClock(r) PROVE Sliding!TypeOK'
  BY <1>1, <1>3 DEF Sliding!ReadClock, Sliding!Goto, Sliding!TypeOK
<1>4. ASSUME NEW r \in Requests, Sliding!Prune(r) PROVE Sliding!TypeOK'
  BY <1>1, <1>4 DEF Sliding!Prune, Sliding!SetEntries, Sliding!Goto, Sliding!TypeOK
<1>5. ASSUME NEW r \in Requests,
             \/ Sliding!Count(r) \/ Sliding!PipelineFails(r)
             \/ Sliding!AddFails(r) \/ Sliding!ExpireFails(r)
      PROVE  Sliding!TypeOK'
  BY <1>1, <1>5 DEF Sliding!Count, Sliding!PipelineFails, Sliding!AddFails, Sliding!ExpireFails,
     Sliding!Goto, Sliding!TypeOK
<1>6. ASSUME NEW r \in Requests, Sliding!Add(r) PROVE Sliding!TypeOK'
  BY <1>1, <1>6 DEF Sliding!Add, Sliding!Goto, Sliding!TypeOK
<1>7. ASSUME NEW r \in Requests, Sliding!Expire(r) PROVE Sliding!TypeOK'
  <2>1. expiry' \in {Sliding!Never} \cup 0..MaxTime + Window
    BY <1>1, <1>7 DEF Sliding!Expire
  <2>2. QED
    BY <1>7, <2>1 DEF Sliding!Expire, Sliding!Goto, Sliding!TypeOK
<1>8. QED
  BY <1>2, <1>3, <1>4, <1>5, <1>6, <1>7 DEF Sliding!Next, Sliding!Allow

(* A request that passes the check finds fewer entries than the limit. *)
LEMMA SlidingCount ==
    ASSUME SlidingInv, Sliding!TypeOK', NEW r \in Requests, Sliding!Count(r)
    PROVE  SlidingInv'
<1>1. /\ pc \in [Requests -> {"idle", "prune", "count", "add", "expire"}]
      /\ UNCHANGED entries /\ pc[r] = "count"
  BY DEF SlidingInv, Sliding!TypeOK, Sliding!Count
<1>2. CASE Cardinality(entries) < Limit
  <2>1. /\ Cardinality(entries') = Cardinality(entries) /\ Cardinality(entries) \in Nat
        /\ Cardinality(Adding') \in Nat /\ Cardinality(Requests) \in Nat
        /\ Cardinality(Adding') <= Cardinality(Requests)
    <3>1. Cardinality(entries) \in Nat /\ Cardinality(Requests) \in Nat
      BY SlidingFinite DEF SlidingInv
    <3>2. Adding' \in SUBSET Requests
      BY DEF Adding
    <3>3. /\ IsFiniteSet(Adding')
          /\ Cardinality(Adding') <= Cardinality(Requests)
      BY <3>2, LimiterAssumption, FS_Subset
    <3>4. Cardinality(Adding') \in Nat
      BY <3>3, FS_CardinalityType
    <3>5. QED
      BY <1>1, <3>1, <3>3, <3>4
  <2>2. QED
    BY <1>2, <2>1, LimiterAssumption DEF SlidingInv, SetBound
<1>3. CASE ~(Cardinality(entries) < Limit)
  <2>1. Adding' \subseteq Adding
    BY <1>1, <1>3, SameCardinality DEF Adding, Sliding!Count, Sliding!Goto
  <2>2. QED
    BY <1>1, <2>1, SlidingShrinks
<1>4. QED
  BY <1>2, <1>3

(* A request that adds its entry is no longer one of those to come. *)
LEMMA SlidingAdd ==
    ASSUME SlidingInv, Sliding!TypeOK', NEW r \in Requests, Sliding!Add(r)
    PROVE  SlidingInv'
<1>1. /\ pc \in [Requests -> {"idle", "prune", "count", "add", "expire"}]
      /\ pc[r] = "add" /\ Limit \in Nat
      /\ entries' = entries \cup {at[r]}
  BY LimiterAssumption DEF SlidingInv, Sliding!TypeOK, Sliding!Add
<1>2. r \in Adding /\ Adding' = Adding \ {r}
  BY <1>1 DEF Adding, Sliding!Add, Sliding!Goto
<1>3. /\ IsFiniteSet(entries) /\ Cardinality(entries) \in Nat
      /\ IsFiniteSet(Adding) /\ Cardinality(Adding) \in Nat
      /\ Cardinality(Requests) \in Nat
  BY SlidingFinite DEF SlidingInv
<1>4. /\ Cardinality(entries') <= Cardinality(entries) + 1
      /\ Cardinality(entries') \in Nat
  <2>1. Cardinality(entries') = IF at[r] \in entries THEN Cardinality(entries)
                                ELSE Cardinality(entries) + 1
    BY <1>1, <1>3, FS_AddElement
  <2>2. QED
    BY <1>3, <2>1
<1>5. Cardinality(Adding') = Cardinality(Adding) - 1
  BY <1>2, <1>3, FS_RemoveElement
<1>6. QED
  BY <1>1, <1>3, <1>4, <1>5 DEF SlidingInv, SetBound

(* The sliding window keeps its invariant. *)
LEMMA SlidingNext ==
    ASSUME SlidingInv, Sliding!Next
    PROVE  SlidingInv'
<1>1. Sliding!TypeOK' /\ pc \in [Requests -> {"idle", "prune", "count", "add", "expire"}]
  BY SlidingTyped DEF SlidingInv, Sliding!TypeOK
<1>2. CASE Sliding!Tick
  BY <1>1, <1>2, SlidingShrinks DEF Sliding!Tick, Adding
<1>3. ASSUME NEW r \in Requests,
             \/ Sliding!ReadClock(r) \/ Sliding!Prune(r) \/ Sliding!PipelineFails(r)
             \/ Sliding!AddFails(r) \/ Sliding!Expire(r) \/ Sliding!ExpireFails(r)
      PROVE  SlidingInv'
  <2>1. entries' \subseteq entries
    BY <1>3 DEF Sliding!ReadClock, Sliding!Prune, Sliding!SetEntries, Sliding!PipelineFails,
       Sliding!AddFails, Sliding!Expire, Sliding!ExpireFails
  <2>2. \E place \in {"idle", "prune", "count", "expire"} : Sliding!Goto(r, place)
    BY <1>3 DEF Sliding!ReadClock, Sliding!Prune, Sliding!PipelineFails,
       Sliding!AddFails, Sliding!Expire, Sliding!ExpireFails
  <2>3. Adding' \subseteq Adding
    BY <1>1, <2>2 DEF Adding, Sliding!Goto
  <2>4. QED
    BY <1>1, <2>1, <2>3, SlidingShrinks
<1>4. QED
  BY <1>1, <1>2, <1>3, SlidingCount, SlidingAdd DEF Sliding!Next, Sliding!Allow

-----------------------------------------------------------------------------
(* The token bucket.  What a request holds was saved before it read the       *)
(* clock, so its refill adds tokens, and the minimum with the capacity keeps  *)
(* them in range whichever request saves last.                                *)
BucketInv == Bucket!TypeOK /\ Bucket!RefillAdds

(* NewLimiter's rate and capacity. *)
LEMMA BucketConstants ==
    /\ Bucket!refillRate \in Nat
    /\ Bucket!capacity \in Nat
    /\ Token \in Nat
<1>1. Limit \in Nat /\ WindowSeconds \in Nat \ {0} /\ Token \in Nat
  BY LimiterAssumption
<1>2. Limit \div WindowSeconds \in Nat
  BY <1>1, InItsWindow
<1>3. Limit * Token \in Nat
  BY <1>1, Products
<1>4. QED
  BY <1>1, <1>2, <1>3 DEF Bucket!refillRate, Bucket!capacity

(* A refill that does not go back in time leaves what the bucket can hold. *)
LEMMA RefillInRange ==
    ASSUME NEW full \in Nat, NEW top \in Nat, NEW part \in Nat
    PROVE  LET refilled == IF full < top THEN full ELSE top
               left == IF refilled >= part THEN refilled - part ELSE refilled
           IN  left \in 0..top
OBVIOUS

(* What Allow saves is neither overdrawn nor overfull. *)
LEMMA LeftInRange ==
    ASSUME BucketInv, NEW r \in Requests, pc[r] = "set"
    PROVE  Bucket!Left(r) \in 0..Bucket!capacity
<1>1. /\ held[r] \in Nat /\ at[r] \in Nat /\ heldRefill[r] \in Nat
      /\ heldRefill[r] <= at[r]
  BY BucketConstants, LimiterAssumption DEF BucketInv, Bucket!TypeOK, Bucket!RefillAdds
<1>2. (at[r] - heldRefill[r]) * Bucket!refillRate \in Nat
  <2>1. at[r] - heldRefill[r] \in Nat
    BY <1>1
  <2>2. QED
    BY <2>1, BucketConstants, Products
<1>3. held[r] + (at[r] - heldRefill[r]) * Bucket!refillRate \in Nat
  BY <1>1, <1>2
<1>4. QED
  BY <1>3, BucketConstants, RefillInRange DEF Bucket!Left, Bucket!Allowed, Bucket!Refilled

(* The token bucket keeps its invariant. *)
LEMMA BucketNext ==
    ASSUME BucketInv, Bucket!Next
    PROVE  BucketInv'
<1>1. /\ MaxTime \in Nat /\ now \in 0..MaxTime /\ now \in Nat
      /\ Bucket!capacity \in Nat /\ 0 \in 0..Bucket!capacity
      /\ Bucket!capacity \in 0..Bucket!capacity
  BY LimiterAssumption, BucketConstants DEF BucketInv, Bucket!TypeOK
<1>2. ASSUME NEW r \in Requests, Bucket!Get(r) PROVE BucketInv'
  <2>1. (IF exists THEN tokens ELSE Bucket!capacity) \in 0..Bucket!capacity
    BY <1>1 DEF BucketInv, Bucket!TypeOK
  <2>2. (IF exists THEN lastRefill ELSE now) \in 0..now
    BY <1>1 DEF BucketInv, Bucket!TypeOK
  <2>3. Bucket!TypeOK'
    BY <1>2, <2>1, <2>2 DEF BucketInv, Bucket!TypeOK, Bucket!Get, Bucket!Goto, Bucket!bucket
  <2>4. Bucket!RefillAdds'
    BY <1>2 DEF BucketInv, Bucket!TypeOK, Bucket!RefillAdds, Bucket!Get, Bucket!Goto
  <2>5. QED
    BY <2>3, <2>4 DEF BucketInv
<1>3. ASSUME NEW r \in Requests, Bucket!ReadClock(r) PROVE BucketInv'
  <2>1. Bucket!TypeOK'
    BY <1>1, <1>3 DEF BucketInv, Bucket!TypeOK, Bucket!ReadClock, Bucket!Goto, Bucket!bucket
  <2>2. Bucket!RefillAdds'
    BY <1>1, <1>3 DEF BucketInv, Bucket!TypeOK, Bucket!RefillAdds, Bucket!ReadClock, Bucket!Goto
  <2>3. QED
    BY <2>1, <2>2 DEF BucketInv
<1>4. ASSUME NEW r \in Requests, Bucket!Set(r) \/ Bucket!SetFails(r) PROVE BucketInv'
  <2>1. Bucket!Left(r) \in 0..Bucket!capacity
    BY <1>4, LeftInRange DEF Bucket!Set, Bucket!SetFails
  <2>2. /\ tokens' \in 0..Bucket!capacity
        /\ lastRefill' \in 0..now
        /\ pc' = [pc EXCEPT ![r] = "idle"]
        /\ UNCHANGED <<now, held, heldRefill, at>>
    BY <1>4, <2>1 DEF BucketInv, Bucket!TypeOK, Bucket!Set, Bucket!SetFails, Bucket!Goto,
       Bucket!bucket
  <2>3. exists' \in BOOLEAN
    BY <1>4, Zenon DEF BucketInv, Bucket!TypeOK, Bucket!Set, Bucket!SetFails, Bucket!bucket
  <2>4. Bucket!TypeOK'
    BY <2>2, <2>3 DEF BucketInv, Bucket!TypeOK
  <2>5. Bucket!RefillAdds'
    BY <2>2 DEF BucketInv, Bucket!TypeOK, Bucket!RefillAdds
  <2>6. QED
    BY <2>4, <2>5 DEF BucketInv
<1>5. CASE Bucket!Tick
  <2>1. now' = now + 1 /\ now' \in 0..MaxTime
    BY <1>1, <1>5 DEF Bucket!Tick
  <2>2. Bucket!TypeOK'
    BY <1>1, <1>5, <2>1 DEF BucketInv, Bucket!TypeOK, Bucket!Tick, Bucket!bucket
  <2>3. QED
    BY <1>5, <2>2 DEF BucketInv, Bucket!RefillAdds, Bucket!Tick
<1>6. QED
  BY <1>2, <1>3, <1>4, <1>5 DEF Bucket!Next, Bucket!Allow

-----------------------------------------------------------------------------
(* The limiter of a client: the invariant of the algorithm in use; the        *)
(* others' Redis keys do not exist.                                           *)
Inv ==
    /\ algorithm \in Algorithms
    /\ now \in 0..MaxTime
    /\ count \in [Fixed!Windows -> 0..Limit + 1]
    /\ algorithm # "sliding_window" => entries = {}
    /\ UsesFixedWindow => FixedInv
    /\ algorithm = "sliding_window" => SlidingInv
    /\ algorithm = "token_bucket" => BucketInv

(* A client without requests satisfies it. *)
LEMMA InitInv == Init => Inv
<1> SUFFICES ASSUME Init PROVE Inv
  OBVIOUS
<1>1. /\ Limit \in Nat \ {0} /\ Window \in Nat /\ MaxTime \in Nat
      /\ 0 \in 0..MaxTime /\ 0 \in 0..0
      /\ Fixed!windowOf(MaxTime) \in Nat
  BY LimiterAssumption, ClockInWindows
<1>2. 0 \in Fixed!Windows
  BY <1>1 DEF Fixed!Windows
<1>3. FixedInv
  <2>1. Fixed!TypeOK
    BY <1>1, <1>2 DEF Init, Fixed!Init, Fixed!TypeOK
  <2>2. QED
    BY <2>1 DEF Init, Fixed!Init, FixedInv, Begun, ExpiresAfterWindow, Fixed!ResetLeavesWindow
<1>4. SlidingInv
  <2>1. Sliding!TypeOK
    BY <1>1 DEF Init, Sliding!Init, Sliding!TypeOK
  <2>2. entries = {} /\ Adding = {}
    BY DEF Init, Sliding!Init, Adding
  <2>3. Cardinality(entries) = 0 /\ Cardinality(Adding) = 0
    BY <2>2, FS_EmptySet
  <2>4. Cardinality(Requests) \in Nat
    BY LimiterAssumption, FS_CardinalityType
  <2>5. QED
    BY <1>1, <2>1, <2>3, <2>4 DEF SlidingInv, SetBound
<1>5. BucketInv
  <2>1. 0 \in 0..Bucket!capacity
    BY BucketConstants
  <2>2. QED
    BY <1>1, <2>1 DEF Init, Bucket!Init, BucketInv, Bucket!TypeOK, Bucket!RefillAdds
<1>6. QED
  BY <1>3, <1>4, <1>5 DEF Init, Sliding!Init, Inv, FixedInv, Fixed!TypeOK

(* Every step of the algorithm in use keeps it. *)
LEMMA NextInv == Inv /\ Next => Inv'
<1> SUFFICES ASSUME Inv, Next PROVE Inv'
  OBVIOUS
<1>1. CASE FixedStep
  <2>1. /\ FixedInv /\ FixedInv' /\ UNCHANGED <<algorithm, entries>>
    BY <1>1, FixedNext DEF Inv, FixedStep, slidingVars
  <2>2. QED
    BY <1>1, <2>1 DEF Inv, FixedStep, UsesFixedWindow, FixedInv, Fixed!TypeOK
<1>2. CASE SlidingStep
  <2>1. SlidingInv' /\ UNCHANGED <<algorithm, count>>
    BY <1>2, SlidingNext DEF Inv, SlidingStep, fixedVars
  <2>2. QED
    BY <1>2, <2>1 DEF Inv, SlidingStep, UsesFixedWindow, SlidingInv, Sliding!TypeOK
<1>3. CASE BucketStep
  <2>1. BucketInv' /\ UNCHANGED <<algorithm, count, entries>>
    BY <1>3, BucketNext DEF Inv, BucketStep, fixedVars, slidingVars
  <2>2. QED
    BY <1>3, <2>1 DEF Inv, BucketStep, UsesFixedWindow, BucketInv, Bucket!TypeOK
<1>4. QED
  BY <1>1, <1>2, <1>3 DEF Next

(* A stutter keeps it too. *)
LEMMA StutterInv == Inv /\ UNCHANGED vars => Inv'
<1> SUFFICES ASSUME Inv, UNCHANGED vars PROVE Inv'
  OBVIOUS
<1>1. FixedInv => FixedInv'
  BY DEF vars, fixedVars, FixedInv, Fixed!TypeOK, Begun, ExpiresAfterWindow,
     Fixed!ResetLeavesWindow, Fixed!windowOf
<1>2. SlidingInv => SlidingInv'
  <2>1. Sliding!TypeOK => Sliding!TypeOK'
    BY DEF vars, slidingVars, Sliding!TypeOK
  <2>2. Adding' = Adding /\ entries' = entries
    BY DEF vars, slidingVars, Adding
  <2>3. QED
    BY <2>1, <2>2 DEF SlidingInv, SetBound
<1>3. BucketInv => BucketInv'
  BY DEF vars, bucketVars, BucketInv, Bucket!TypeOK, Bucket!RefillAdds
<1>4. QED
  BY <1>1, <1>2, <1>3 DEF vars, fixedVars, slidingVars, Inv, UsesFixedWindow

(* The invariant of the client's limiter. *)
LEMMA Invariance == Spec => []Inv
<1>1. Inv /\ [Next]_vars => Inv'
  BY NextInv, StutterInv
<1>2. QED
  BY <1>1, InitInv, PTL DEF Spec

-----------------------------------------------------------------------------
(* The limiters keep their types; the token bucket is never overdrawn or      *)
(* overfull, whatever requests overwrite each other's state in Redis.         *)
THEOREM TypeCorrect == Spec => []TypeOK
<1>1. Inv => TypeOK
  BY DEF Inv, TypeOK, FixedInv, SlidingInv, BucketInv
<1>2. QED
  BY <1>1, Invariance, PTL

(* A client that waits until X-RateLimit-Reset has left the fixed window in   *)
(* which Allow counted it, and never waits longer than one window.            *)
THEOREM ResetHonoured == Spec => []ResetLeavesWindow
<1>1. Inv => ResetLeavesWindow
  <2> SUFFICES ASSUME Inv PROVE Fixed!ResetLeavesWindow
    BY DEF ResetLeavesWindow
  <2>1. CASE UsesFixedWindow
    BY <2>1 DEF Inv, FixedInv
  <2>2. CASE algorithm = "sliding_window"
    BY <2>2 DEF Inv, SlidingInv, Sliding!TypeOK, Fixed!ResetLeavesWindow
  <2>3. CASE algorithm = "token_bucket"
    BY <2>3 DEF Inv, BucketInv, Bucket!TypeOK, Fixed!ResetLeavesWindow
  <2>4. QED
    BY <2>1, <2>2, <2>3 DEF UsesFixedWindow
<1>2. QED
  BY <1>1, Invariance, PTL

(* Inside a fixed window Allow never starts to count anew: Redis keeps the    *)
(* window's counter until the window is over, however late its expiry was set. *)
THEOREM CounterKept == Spec => CounterOutlivesWindow
<1>1. Inv /\ [Next]_vars =>
        [count'[Fixed!windowOf(now')] >= count[Fixed!windowOf(now')]]_(Fixed!vars)
  <2> SUFFICES ASSUME Inv, Next
               PROVE  count'[Fixed!windowOf(now')] >= count[Fixed!windowOf(now')]
    BY DEF vars, fixedVars, Fixed!vars, Fixed!redis, Fixed!answer
  <2>1. CASE FixedStep
    <3>1. now' \in 0..MaxTime
      BY NextInv DEF Inv
    <3>2. Fixed!windowOf(now') \in Fixed!Windows /\ Fixed!windowOf(now') \in Nat
      BY <3>1, ClockInWindows
    <3>3. QED
      BY <2>1, <3>2, FixedKeepsCounter DEF Inv, FixedStep
  <2>2. CASE SlidingStep \/ BucketStep
    <3>1. count' = count /\ now' \in 0..MaxTime
      BY <2>2, NextInv DEF Inv, SlidingStep, BucketStep, fixedVars
    <3>2. count[Fixed!windowOf(now')] \in 0..Limit + 1
      BY <3>1, ClockInWindows DEF Inv
    <3>3. QED
      BY <3>1, <3>2, LimiterAssumption
  <2>3. QED
    BY <2>1, <2>2 DEF Next
<1>2. QED
  BY <1>1, Invariance, PTL DEF Spec, CounterOutlivesWindow, Fixed!CounterOutlivesWindow

(* The token bucket's Allow never computes a negative elapsed time, although  *)
(* the bucket may have been saved by a request that started later.            *)
THEOREM RefillNeverNegative == Spec => []RefillAdds
<1>1. Inv => RefillAdds
  <2> SUFFICES ASSUME Inv PROVE Bucket!RefillAdds
    BY DEF RefillAdds
  <2>1. CASE algorithm = "token_bucket"
    BY <2>1 DEF Inv, BucketInv
  <2>2. CASE algorithm # "token_bucket"
    BY <2>2 DEF Inv, UsesFixedWindow, FixedInv, Fixed!TypeOK, SlidingInv, Sliding!TypeOK,
       Bucket!RefillAdds
  <2>3. QED
    BY <2>1, <2>2
<1>2. QED
  BY <1>1, Invariance, PTL
=============================================================================

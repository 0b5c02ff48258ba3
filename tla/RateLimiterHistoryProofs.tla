----------------------- MODULE RateLimiterHistoryProofs -----------------------
(***************************************************************************)
(* What the three limiters let through and remember, for any limit, window *)
(* and number of requests: the properties that speak of the history which  *)
(* MCRateLimiter keeps.  MaxPassed only stops a counter of the history,    *)
(* and may be anything.                                                    *)
(***************************************************************************)
EXTENDS MCRateLimiter, RateLimiterProofs

-----------------------------------------------------------------------------
(* With the history: the steps are those of the limiters. *)
LEMMA HistoryRecords ==
    /\ MCInit => Init
    /\ [MCNext]_<<vars, history>> => [Next]_vars
BY DEF MCInit, MCNext, RecordFixed, RecordSliding, RecordBucket, Next

(* So the invariant holds with the history too. *)
LEMMA HistoryInvariance == MCSpec => []Inv
<1>1. Inv /\ [Next]_vars => Inv'
  BY NextInv, StutterInv
<1>2. QED
  BY <1>1, InitInv, HistoryRecords, PTL DEF MCSpec

-----------------------------------------------------------------------------
(* The fixed window.  Those let through in a window that still lasts are no   *)
(* more than its counter has counted.                                         *)
Undecided ==
    \A r \in Requests : pc[r] \in {"idle", "incr"} => ~allowed[r]

CountedIn ==
    \A w \in Fixed!Windows : w >= Fixed!windowOf(now) => inside[w] <= count[w]

PassedInv ==
    /\ inside \in [Fixed!Windows -> 0..Limit]
    /\ UsesFixedWindow => Undecided /\ CountedIn

(* A request is let through, or not, by Incr alone. *)
LEMMA UndecidedNext ==
    ASSUME FixedInv, Undecided, Fixed!Next
    PROVE  Undecided'
<1>1. /\ pc \in [Requests -> {"idle", "incr", "expire", "remaining", "reset", "answered"}]
      /\ allowed \in [Requests -> BOOLEAN]
  BY DEF FixedInv, Fixed!TypeOK
<1>2. CASE Fixed!Tick
  BY <1>2 DEF Undecided, Fixed!Tick, Fixed!answer
<1>3. ASSUME NEW r \in Requests, Fixed!Incr(r) PROVE Undecided'
  <2>1. /\ pc'[r] \notin {"idle", "incr"}
        /\ \A q \in Requests \ {r} : pc'[q] = pc[q]
    BY <1>1, <1>3 DEF Fixed!Incr, Fixed!Goto
  <2>2. \A q \in Requests \ {r} : allowed'[q] = allowed[q]
    BY <1>1, <1>3 DEF Fixed!Incr
  <2>3. QED
    BY <2>1, <2>2 DEF Undecided
<1>4. ASSUME NEW r \in Requests, Fixed!Leave(r) PROVE Undecided'
  <2>1. \A q \in Requests \ {r} : pc'[q] = pc[q] /\ allowed'[q] = allowed[q]
    BY <1>1, <1>4 DEF Fixed!Leave, Fixed!Goto
  <2>2. ~allowed'[r]
    BY <1>1, <1>4, Zenon DEF Fixed!Leave
  <2>3. QED
    BY <2>1, <2>2 DEF Undecided
<1>5. ASSUME NEW r \in Requests,
             \/ Fixed!ReadClock(r) \/ Fixed!IncrFails(r) \/ Fixed!Expire(r)
             \/ Fixed!Remaining(r) \/ Fixed!Reset(r)
      PROVE  Undecided'
  <2>1. allowed' = allowed
    BY <1>5 DEF Fixed!ReadClock, Fixed!IncrFails, Fixed!Expire, Fixed!Remaining, Fixed!Reset,
       Fixed!answer
  <2>2. /\ \A q \in Requests \ {r} : pc'[q] = pc[q]
        /\ pc'[r] \in {"idle", "incr"} => pc[r] \in {"idle", "incr"}
    BY <1>1, <1>5 DEF Fixed!ReadClock, Fixed!IncrFails, Fixed!Expire, Fixed!Remaining,
       Fixed!Reset, Fixed!Goto
  <2>3. QED
    BY <2>1, <2>2 DEF Undecided
<1>6. QED
  BY <1>2, <1>3, <1>4, <1>5 DEF Fixed!Next, Fixed!Handle

(* One that is let through was counted, within the limit, by the same Incr. *)
LEMMA LetThrough ==
    ASSUME FixedInv, Undecided, Fixed!Next, NEW w \in Fixed!Windows, InWindow(w)
    PROVE  count'[w] = count[w] + 1 /\ count'[w] <= Limit /\ now' = now
<1>1. /\ allowed \in [Requests -> BOOLEAN]
      /\ count \in [Fixed!Windows -> 0..Limit + 1] /\ Limit \in Nat
  BY LimiterAssumption DEF FixedInv, Fixed!TypeOK
<1>2. PICK r \in Requests : pc[r] = "incr" /\ allowed'[r] /\ window[r] = w
  BY DEF InWindow
<1>3. ~allowed[r]
  BY <1>2 DEF Undecided
<1>4. Fixed!Incr(r)
  <2>1. allowed' # allowed
    BY <1>2, <1>3
  <2>2. PICK q \in Requests : Fixed!Incr(q) \/ Fixed!Leave(q)
    BY <2>1 DEF Fixed!Next, Fixed!Handle, Fixed!Tick, Fixed!ReadClock, Fixed!IncrFails,
       Fixed!Expire, Fixed!Remaining, Fixed!Reset, Fixed!answer
  <2>3. q = r
    BY <1>1, <1>2, <1>3, <2>2 DEF Fixed!Incr, Fixed!Leave
  <2>4. QED
    BY <1>2, <2>2, <2>3 DEF Fixed!Leave
<1>5. count' = [count EXCEPT ![w] = Fixed!Counted(count[w])] /\ now' = now
  BY <1>2, <1>4 DEF Fixed!Incr
<1>6. count'[w] <= Limit
  <2>1. allowed' = [allowed EXCEPT ![r] = count'[w] <= Limit]
    BY <1>2, <1>4 DEF Fixed!Incr
  <2>2. QED
    BY <1>1, <1>2, <2>1
<1>7. QED
  BY <1>1, <1>5, <1>6 DEF Fixed!Counted

(* The limiters keep the invariant of the window's passes. *)
LEMMA PassedNext ==
    ASSUME Inv, PassedInv, [MCNext]_<<vars, history>>
    PROVE  PassedInv'
<1>1. CASE RecordFixed
  <2>1. /\ FixedInv /\ FixedInv' /\ Undecided /\ CountedIn /\ Fixed!Next /\ UsesFixedWindow
        /\ inside' = [w \in Fixed!Windows |->
                        IF InWindow(w) /\ inside[w] <= Limit THEN inside[w] + 1 ELSE inside[w]]
    BY <1>1, FixedNext DEF Inv, PassedInv, RecordFixed, FixedStep
  <2>2. /\ Limit \in Nat /\ Window \in Nat \ {0} /\ now \in 0..MaxTime /\ now' \in 0..MaxTime
        /\ count \in [Fixed!Windows -> 0..Limit + 1] /\ count' \in [Fixed!Windows -> 0..Limit + 1]
        /\ inside \in [Fixed!Windows -> 0..Limit]
    BY <2>1, LimiterAssumption DEF FixedInv, Fixed!TypeOK, PassedInv
  <2>3. /\ Fixed!windowOf(now) \in Nat /\ Fixed!windowOf(now') \in Nat
        /\ Fixed!windowOf(now) <= Fixed!windowOf(now')
    <3>1. now' = now \/ now' = now + 1
      BY <2>1 DEF Fixed!Next, Fixed!Handle, Fixed!Tick, Fixed!ReadClock,
         Fixed!Incr, Fixed!IncrFails, Fixed!Expire, Fixed!Remaining, Fixed!Reset, Fixed!Leave
    <3>2. now \in Nat /\ now' \in Nat /\ now <= now'
      BY <2>2, <3>1, LimiterAssumption
    <3>3. QED
      BY <2>2, <3>2, LaterWindow, InItsWindow DEF Fixed!windowOf
  <2>4. ASSUME NEW w \in Fixed!Windows
        PROVE  /\ inside'[w] \in 0..Limit
               /\ w >= Fixed!windowOf(now') => inside'[w] <= count'[w]
    <3>1. w \in Nat /\ inside[w] \in 0..Limit /\ count[w] \in Nat /\ count'[w] \in Nat
      BY <2>2, ClockInWindows DEF Fixed!Windows
    <3>2. CASE InWindow(w)
      <4>1. count'[w] = count[w] + 1 /\ count'[w] <= Limit
        BY <2>1, <3>2, LetThrough
      <4>2. w = Fixed!windowOf(now)
        BY <3>2 DEF InWindow
      <4>3. inside[w] <= count[w]
        BY <2>1, <3>1, <4>2 DEF CountedIn
      <4>4. inside'[w] = inside[w] + 1
        BY <2>1, <2>2, <3>1, <3>2
      <4>5. QED
        BY <2>2, <3>1, <4>1, <4>3, <4>4
    <3>3. CASE ~InWindow(w)
      <4>1. inside'[w] = inside[w]
        BY <2>1, <3>3
      <4>2. w >= Fixed!windowOf(now') => inside[w] <= count[w]
        BY <2>1, <2>3, <3>1 DEF CountedIn
      <4>3. w >= Fixed!windowOf(now') => count'[w] >= count[w]
        BY <2>1, FixedKeepsCounter
      <4>4. QED
        BY <3>1, <4>1, <4>2, <4>3
    <3>4. QED
      BY <3>2, <3>3
  <2>5. inside' \in [Fixed!Windows -> 0..Limit]
    BY <2>1, <2>4
  <2>6. CountedIn'
    BY <2>4 DEF CountedIn, Fixed!windowOf, Fixed!Windows
  <2>7. Undecided'
    BY <2>1, UndecidedNext
  <2>8. QED
    BY <2>5, <2>6, <2>7 DEF PassedInv
<1>2. CASE RecordSliding \/ RecordBucket
  BY <1>2 DEF PassedInv, RecordSliding, RecordBucket, SlidingStep, BucketStep, UsesFixedWindow
<1>3. CASE UNCHANGED <<vars, history>>
  BY <1>3 DEF PassedInv, Undecided, CountedIn, UsesFixedWindow, vars, fixedVars, history,
     Fixed!windowOf
<1>4. QED
  BY <1>1, <1>2, <1>3 DEF MCNext

(* While a fixed window lasts Allow lets at most limit requests through in    *)
(* it, for any number of requests, delays, failed Expires and lost replies.   *)
THEOREM WindowLimitKept == MCSpec => []WithinWindowLimit
<1>1. MCInit => PassedInv
  BY LimiterAssumption DEF MCInit, Init, Fixed!Init, PassedInv, Undecided, CountedIn
<1>2. PassedInv => WithinWindowLimit
  BY LimiterAssumption DEF PassedInv, WithinWindowLimit
<1>3. QED
  BY <1>1, <1>2, PassedNext, HistoryInvariance, PTL DEF MCSpec

-----------------------------------------------------------------------------
(* The sliding window.  An entry's own Expire, or a later one, gives the set  *)
(* an expiry that covers the entry's window.                                  *)
Covered(e) ==
    \/ e \in uncovered
    \/ \E r \in Requests : pc[r] = "expire" /\ at[r] = e
    \/ expiry # Sliding!Never => e + Window <= expiry

CoverInv == algorithm = "sliding_window" => \A e \in entries : Covered(e)

(* Every step of the sliding window keeps its entries covered. *)
LEMMA CoverNext ==
    ASSUME Inv, CoverInv, [MCNext]_<<vars, history>>
    PROVE  CoverInv'
<1>1. CASE RecordSliding
  <2>1. /\ Sliding!TypeOK /\ Sliding!TypeOK' /\ Sliding!Next /\ uncovered \subseteq uncovered'
        /\ \A e \in entries : Covered(e)
    BY <1>1, SlidingNext DEF Inv, SlidingInv, CoverInv, RecordSliding, SlidingStep
  <2>2. /\ now \in Nat /\ Window \in Nat /\ entries \subseteq 0..now /\ entries' \subseteq 0..now'
        /\ pc \in [Requests -> {"idle", "prune", "count", "add", "expire"}]
        /\ at \in [Requests -> 0..now]
        /\ expiry \in {Sliding!Never} \cup 0..MaxTime + Window
        /\ expiry' \in {Sliding!Never} \cup 0..MaxTime + Window
    BY <2>1, LimiterAssumption DEF Sliding!TypeOK
  <2>3. CASE Sliding!Tick
    <3>1. \A e \in entries' : e \in entries
      BY <2>3 DEF Sliding!Tick
    <3>2. UNCHANGED <<pc, at>> /\ expiry' \in {Sliding!Never, expiry}
      BY <2>3 DEF Sliding!Tick
    <3>3. QED
      BY <2>1, <3>1, <3>2 DEF CoverInv, Covered
  <2>4. ASSUME NEW r \in Requests,
               \/ Sliding!ReadClock(r) \/ Sliding!Prune(r) \/ Sliding!Count(r)
               \/ Sliding!PipelineFails(r) \/ Sliding!AddFails(r)
        PROVE  CoverInv'
    <3>1. entries' \subseteq entries
      BY <2>4 DEF Sliding!ReadClock, Sliding!Prune, Sliding!SetEntries, Sliding!Count,
         Sliding!PipelineFails, Sliding!AddFails
    <3>2. expiry' \in {Sliding!Never, expiry}
      BY <2>4 DEF Sliding!ReadClock, Sliding!Prune, Sliding!SetEntries, Sliding!Count,
         Sliding!PipelineFails, Sliding!AddFails
    <3>3. \A q \in Requests : pc[q] = "expire" => pc'[q] = "expire" /\ at'[q] = at[q]
      BY <2>2, <2>4 DEF Sliding!ReadClock, Sliding!Prune, Sliding!Count,
         Sliding!PipelineFails, Sliding!AddFails, Sliding!Goto
    <3>4. QED
      BY <2>1, <3>1, <3>2, <3>3 DEF CoverInv, Covered
  <2>5. ASSUME NEW r \in Requests, Sliding!Add(r) PROVE CoverInv'
    <3>1. /\ entries' = entries \cup {at[r]} /\ UNCHANGED <<expiry, at>>
          /\ pc'[r] = "expire"
          /\ \A q \in Requests : pc[q] = "expire" => pc'[q] = "expire"
      BY <2>2, <2>5 DEF Sliding!Add, Sliding!Goto
    <3>2. QED
      BY <2>1, <3>1 DEF CoverInv, Covered
  <2>6. ASSUME NEW r \in Requests, Sliding!Expire(r) PROVE CoverInv'
    <3>1. entries' = entries /\ (entries # {} => expiry' = now + Window)
      BY <2>6 DEF Sliding!Expire
    <3>2. \A e \in entries' : e + Window <= expiry'
      BY <2>2, <3>1
    <3>3. QED
      BY <3>2 DEF CoverInv, Covered
  <2>7. ASSUME NEW r \in Requests, Sliding!ExpireFails(r) PROVE CoverInv'
    <3>1. at[r] \in uncovered'
      BY <1>1, <2>7 DEF RecordSliding
    <3>2. /\ UNCHANGED <<entries, expiry, at>>
          /\ \A q \in Requests \ {r} : pc'[q] = pc[q]
      BY <2>2, <2>7 DEF Sliding!ExpireFails, Sliding!Goto
    <3>3. QED
      BY <2>1, <3>1, <3>2 DEF CoverInv, Covered
  <2>8. QED
    BY <2>1, <2>3, <2>4, <2>5, <2>6, <2>7 DEF Sliding!Next, Sliding!Allow
<1>2. CASE RecordFixed \/ RecordBucket
  BY <1>2 DEF CoverInv, RecordFixed, RecordBucket, FixedStep, BucketStep, UsesFixedWindow
<1>3. CASE UNCHANGED <<vars, history>>
  BY <1>3 DEF CoverInv, Covered, vars, slidingVars, history
<1>4. QED
  BY <1>1, <1>2, <1>3 DEF MCNext

(* The sliding window forgets a request inside its window only if its own     *)
(* Expire failed or is still to come.                                         *)
THEOREM EntriesKept == MCSpec => EntriesLastWindow
<1> DEFINE Kept == \A e \in entries \ entries' :
                     \/ e <= now' - Window
                     \/ e \in uncovered
                     \/ \E r \in Requests : pc[r] = "expire" /\ at[r] = e
<1>1. MCInit => CoverInv
  BY DEF MCInit, Init, Sliding!Init, CoverInv
<1>2. ASSUME Inv, CoverInv, [MCNext]_<<vars, history>> PROVE [Kept]_<<vars, history>>
  <2>1. CASE RecordSliding
    <3>1. /\ Sliding!Next /\ Sliding!TypeOK /\ \A e \in entries : Covered(e)
      BY <1>2, <2>1 DEF Inv, SlidingInv, CoverInv, RecordSliding, SlidingStep
    <3>2. /\ now \in Nat /\ Window \in Nat /\ entries \subseteq 0..now /\ MaxTime \in Nat
          /\ at \in [Requests -> 0..now]
          /\ expiry \in {Sliding!Never} \cup 0..MaxTime + Window
      BY <3>1, LimiterAssumption DEF Sliding!TypeOK
    <3>3. CASE Sliding!Tick
      <4>1. now' = now + 1
        BY <3>3 DEF Sliding!Tick
      <4>2. ASSUME NEW e \in entries \ entries' PROVE expiry # Sliding!Never /\ expiry <= now + 1
        BY <3>3, <4>2 DEF Sliding!Tick, Sliding!Due
      <4>3. QED
        BY <3>1, <3>2, <4>1, <4>2 DEF Covered
    <3>4. ASSUME NEW r \in Requests, Sliding!Prune(r) PROVE Kept
      BY <3>2, <3>4 DEF Sliding!Prune, Sliding!SetEntries
    <3>5. CASE ~(Sliding!Tick \/ \E r \in Requests : Sliding!Prune(r))
      <4>1. entries \subseteq entries'
        BY <3>1, <3>5 DEF Sliding!Next, Sliding!Allow, Sliding!ReadClock, Sliding!Count,
           Sliding!PipelineFails, Sliding!Add, Sliding!AddFails, Sliding!Expire,
           Sliding!ExpireFails
      <4>2. QED
        BY <4>1
    <3>6. QED
      BY <3>3, <3>4, <3>5
  <2>2. CASE RecordFixed \/ RecordBucket
    BY <2>2 DEF RecordFixed, RecordBucket, FixedStep, BucketStep, slidingVars
  <2>3. QED
    BY <1>2, <2>1, <2>2 DEF MCNext
<1>3. QED
  BY <1>1, <1>2, CoverNext, HistoryInvariance, PTL DEF MCSpec, EntriesLastWindow

(* A time stamp in the last window that was let through, and was not shared   *)
(* or lost, is in the set or is about to be added to it.                      *)
Seen(s) ==
    \/ s <= now - Window
    \/ s \in unseen \cup uncovered
    \/ s \in entries
    \/ \E r \in Adding : at[r] = s

GrantInv ==
    /\ granted \subseteq Nat
    /\ IF algorithm = "sliding_window" THEN \A s \in granted : Seen(s) ELSE granted = {}

(* What is out of the window stays out of it. *)
LEMMA StaysOut ==
    ASSUME NEW a \in Nat, NEW b \in Nat, NEW w \in Nat, NEW s \in Nat, a <= b, s <= a - w
    PROVE  s <= b - w
OBVIOUS

(* Time goes on, and what the history has put aside stays there. *)
LEMMA SeenStays ==
    ASSUME Inv, RecordSliding, NEW s \in Nat,
           s <= now - Window \/ s \in unseen \cup uncovered
    PROVE  Seen(s)'
<1>1. now \in Nat /\ now' \in Nat /\ Window \in Nat /\ now <= now'
  <2>1. Sliding!TypeOK /\ Sliding!Next
    BY DEF Inv, SlidingInv, RecordSliding, SlidingStep
  <2>2. now' = now \/ now' = now + 1
    BY <2>1 DEF Sliding!Next, Sliding!Allow, Sliding!ReadClock, Sliding!Prune, Sliding!Count,
       Sliding!PipelineFails, Sliding!Add, Sliding!AddFails, Sliding!Expire,
       Sliding!ExpireFails, Sliding!Tick
  <2>3. now \in Nat /\ Window \in Nat
    BY <2>1, LimiterAssumption DEF Sliding!TypeOK
  <2>4. QED
    BY <2>2, <2>3
<1>2. unseen \subseteq unseen' /\ uncovered \subseteq uncovered'
  BY DEF RecordSliding
<1>3. CASE s <= now - Window
  <2>1. s <= now' - Window
    BY <1>1, <1>3, StaysOut, Zenon
  <2>2. QED
    BY <2>1 DEF Seen
<1>4. CASE s \in unseen \cup uncovered
  BY <1>2, <1>4 DEF Seen
<1>5. QED
  BY <1>3, <1>4

(* An entry that a step drops is out of the window or is put aside. *)
LEMMA EntrySeen ==
    ASSUME Inv, CoverInv, RecordSliding, NEW s \in entries
    PROVE  Seen(s)'
<1>1. /\ Sliding!Next /\ Sliding!TypeOK /\ Covered(s)
      /\ unseen' = unseen \cup {at[r] : r \in {q \in Requests : LosesEntry(q)}}
  BY DEF Inv, SlidingInv, CoverInv, RecordSliding, SlidingStep
<1>2. /\ now \in Nat /\ Window \in Nat /\ s \in Nat /\ s <= now /\ MaxTime \in Nat
      /\ at \in [Requests -> 0..now]
      /\ expiry \in {Sliding!Never} \cup 0..MaxTime + Window
  BY <1>1, LimiterAssumption DEF Sliding!TypeOK
<1>3. CASE Sliding!Tick /\ Sliding!Due
  <2>1. now' = now + 1 /\ expiry # Sliding!Never /\ expiry <= now + 1
    BY <1>3 DEF Sliding!Tick, Sliding!Due
  <2>2. CASE s \in uncovered
    BY <1>2, <2>2, SeenStays
  <2>3. CASE \E r \in Requests : pc[r] = "expire" /\ at[r] = s
    <3>1. PICK r \in Requests : pc[r] = "expire" /\ at[r] = s
      BY <2>3
    <3>2. now' # now
      BY <1>2, <2>1
    <3>3. LosesEntry(r)
      BY <1>3, <3>1, <3>2 DEF LosesEntry
    <3>4. s \in unseen'
      BY <1>1, <3>1, <3>3
    <3>5. QED
      BY <3>4 DEF Seen
  <2>4. CASE expiry # Sliding!Never => s + Window <= expiry
    <3>1. s <= now' - Window
      BY <1>2, <2>1, <2>4 DEF Sliding!Never
    <3>2. QED
      BY <3>1 DEF Seen
  <2>5. QED
    BY <1>1, <2>2, <2>3, <2>4 DEF Covered
<1>4. ASSUME NEW r \in Requests, Sliding!Prune(r), s \notin entries' PROVE Seen(s)'
  <2>1. s <= at[r] - Window /\ at[r] \in 0..now /\ now' = now
    BY <1>2, <1>4 DEF Sliding!Prune, Sliding!SetEntries
  <2>2. s <= now' - Window
    BY <1>2, <2>1
  <2>3. QED
    BY <2>2 DEF Seen
<1>5. CASE s \in entries'
  BY <1>5 DEF Seen
<1>6. CASE ~((Sliding!Tick /\ Sliding!Due) \/ \E r \in Requests : Sliding!Prune(r))
  <2>1. entries \subseteq entries'
    BY <1>1, <1>6 DEF Sliding!Next, Sliding!Allow, Sliding!ReadClock, Sliding!Count,
       Sliding!PipelineFails, Sliding!Add, Sliding!AddFails, Sliding!Expire,
       Sliding!ExpireFails, Sliding!Tick
  <2>2. QED
    BY <1>5, <2>1
<1>7. QED
  BY <1>3, <1>4, <1>5, <1>6

(* A request that is adding goes on to add its entry, or its ZAdd fails. *)
LEMMA AddingSeen ==
    ASSUME Inv, RecordSliding, NEW r \in Adding, NEW s, at[r] = s
    PROVE  Seen(s)'
<1>1. /\ Sliding!Next /\ pc \in [Requests -> {"idle", "prune", "count", "add", "expire"}]
      /\ at \in [Requests -> 0..now]
      /\ unseen' = unseen \cup {at[q] : q \in {p \in Requests : LosesEntry(p)}}
  BY DEF Inv, SlidingInv, RecordSliding, SlidingStep, Sliding!TypeOK
<1>2. r \in Requests /\ pc[r] = "add"
  BY DEF Adding
<1>3. CASE Sliding!Add(r)
  BY <1>3 DEF Sliding!Add, Seen
<1>4. CASE Sliding!AddFails(r)
  <2>1. LosesEntry(r)
    BY <1>4 DEF LosesEntry
  <2>2. s \in unseen'
    BY <1>1, <1>2, <2>1
  <2>3. QED
    BY <2>2 DEF Seen
<1>5. CASE ~(Sliding!Add(r) \/ Sliding!AddFails(r))
  <2>1. pc'[r] = "add" /\ at'[r] = at[r]
    <3>1. CASE Sliding!Tick
      BY <1>2, <3>1 DEF Sliding!Tick
    <3>2. ASSUME NEW q \in Requests, Sliding!Allow(q) PROVE pc'[r] = "add" /\ at'[r] = at[r]
      <4>1. q # r
        BY <1>2, <1>5, <3>2 DEF Sliding!Allow, Sliding!ReadClock, Sliding!Prune, Sliding!Count,
           Sliding!PipelineFails, Sliding!Expire, Sliding!ExpireFails
      <4>2. QED
        BY <1>1, <1>2, <3>2, <4>1 DEF Sliding!Allow, Sliding!ReadClock, Sliding!Prune,
           Sliding!Count, Sliding!PipelineFails, Sliding!Add, Sliding!AddFails, Sliding!Expire,
           Sliding!ExpireFails, Sliding!Goto
    <3>3. QED
      BY <1>1, <3>1, <3>2 DEF Sliding!Next
  <2>2. QED
    BY <1>2, <2>1 DEF Adding, Seen
<1>6. QED
  BY <1>3, <1>4, <1>5

(* The limiters keep sight of those they let through. *)
LEMMA GrantNext ==
    ASSUME Inv, CoverInv, GrantInv, [MCNext]_<<vars, history>>
    PROVE  GrantInv'
<1>1. CASE RecordSliding
  <2>1. /\ algorithm = "sliding_window" /\ algorithm' = algorithm /\ Sliding!TypeOK
        /\ granted' = granted \cup {at[r] : r \in {q \in Requests : LetsThrough(q)}}
        /\ granted \subseteq Nat /\ \A s \in granted : Seen(s)
    BY <1>1 DEF Inv, SlidingInv, GrantInv, RecordSliding, SlidingStep
  <2>2. \A r \in Requests : at[r] \in Nat
    BY <2>1, LimiterAssumption DEF Sliding!TypeOK
  <2>3. granted' \subseteq Nat
    BY <2>1, <2>2
  <2>4. ASSUME NEW s \in granted PROVE Seen(s)'
    <3>1. s \in Nat /\ Seen(s)
      BY <2>1
    <3>2. CASE s <= now - Window \/ s \in unseen \cup uncovered
      BY <1>1, <3>1, <3>2, SeenStays
    <3>3. CASE s \in entries
      BY <1>1, <3>3, EntrySeen
    <3>4. CASE \E r \in Adding : at[r] = s
      BY <1>1, <3>4, AddingSeen
    <3>5. QED
      BY <3>1, <3>2, <3>3, <3>4 DEF Seen
  <2>5. ASSUME NEW s, NEW r \in Requests, LetsThrough(r), at[r] = s PROVE Seen(s)'
    <3>1. pc[r] = "count" /\ pc'[r] = "add"
      BY <2>5 DEF LetsThrough
    <3>2. r \in Adding'
      BY <3>1 DEF Adding
    <3>3. at'[r] = s
      <4>1. Sliding!Next /\ at \in [Requests -> 0..now]
        BY <1>1, <2>1 DEF RecordSliding, SlidingStep, Sliding!TypeOK
      <4>2. \A q \in Requests : Sliding!ReadClock(q) => q # r
        BY <3>1 DEF Sliding!ReadClock
      <4>3. QED
        BY <2>5, <4>1, <4>2 DEF Sliding!Next, Sliding!Allow, Sliding!ReadClock, Sliding!Prune,
           Sliding!Count, Sliding!PipelineFails, Sliding!Add, Sliding!AddFails,
           Sliding!Expire, Sliding!ExpireFails, Sliding!Tick
    <3>4. QED
      BY <3>2, <3>3 DEF Seen
  <2>6. \A s \in granted' : Seen(s)'
    <3> SUFFICES ASSUME NEW s \in granted' PROVE Seen(s)'
      OBVIOUS
    <3>1. s \in granted \/ \E r \in Requests : LetsThrough(r) /\ at[r] = s
      BY <2>1
    <3>2. QED
      BY <2>4, <2>5, <3>1
  <2>7. (\A s \in granted : Seen(s))'
    BY <2>6
  <2>8. QED
    BY <2>1, <2>3, <2>7 DEF GrantInv
<1>2. CASE RecordFixed \/ RecordBucket
  BY <1>2 DEF GrantInv, RecordFixed, RecordBucket, FixedStep, BucketStep, UsesFixedWindow
<1>3. CASE UNCHANGED <<vars, history>>
  BY <1>3 DEF GrantInv, Seen, Adding, vars, slidingVars, history
<1>4. QED
  BY <1>1, <1>2, <1>3 DEF MCNext

(* In the last window the sliding window lets fewer requests through than the *)
(* limit plus those that may be in Allow at once, as long as each leaves an   *)
(* entry of its own that lasts, for any limit, window and number of requests. *)
THEOREM LetThroughLimited == MCSpec => []LetThroughBounded
<1>1. MCInit => CoverInv /\ GrantInv
  BY DEF MCInit, Init, Sliding!Init, CoverInv, GrantInv
<1>2. Inv /\ GrantInv => LetThroughBounded
  <2> DEFINE Last == {s \in granted : s > now - Window}
             Stamps == {at[r] : r \in Adding}
             stamp == [r \in Adding |-> at[r]]
  <2> SUFFICES ASSUME Inv, GrantInv, Last \cap (unseen \cup uncovered) = {}
               PROVE  Cardinality(Last) <= Limit + Cardinality(Requests) - 1
    BY DEF LetThroughBounded
  <2>1. Limit \in Nat \ {0} /\ Cardinality(Requests) \in Nat
    BY LimiterAssumption, FS_CardinalityType
  <2>2. CASE algorithm = "sliding_window"
    <3>1. Sliding!TypeOK /\ SetBound /\ granted \subseteq Nat /\ \A s \in granted : Seen(s)
      BY <2>2 DEF Inv, SlidingInv, GrantInv
    <3>2. /\ IsFiniteSet(entries) /\ Cardinality(entries) \in Nat
          /\ IsFiniteSet(Adding) /\ Cardinality(Adding) \in Nat
      BY <3>1, SlidingFinite
    <3>3. Last \subseteq entries \cup Stamps
      <4>1. now \in Nat /\ Window \in Nat
        BY <3>1, LimiterAssumption DEF Sliding!TypeOK
      <4>2. \A s \in Last : s \in Nat /\ Seen(s) /\ s > now - Window
        BY <3>1
      <4>3. \A s \in Last : ~(s <= now - Window)
        BY <4>1, <4>2
      <4>4. QED
        BY <4>2, <4>3 DEF Seen
    <3>4. /\ IsFiniteSet(Stamps) /\ Cardinality(Stamps) <= Cardinality(Adding)
      <4>1. stamp \in Surjection(Adding, Stamps)
        BY DEF Surjection
      <4>2. QED
        BY <3>2, <4>1, FS_Surjection
    <3>5. Cardinality(Stamps) \in Nat
      BY <3>4, FS_CardinalityType
    <3> HIDE DEF Last, Stamps
    <3>6. /\ IsFiniteSet(entries \cup Stamps)
          /\ Cardinality(entries \cup Stamps) <= Cardinality(entries) + Cardinality(Stamps)
      <4>1. IsFiniteSet(entries \cap Stamps)
        BY <3>2, FS_Intersection
      <4>2. Cardinality(entries \cap Stamps) \in Nat
        BY <4>1, FS_CardinalityType
      <4>3. /\ IsFiniteSet(entries \cup Stamps)
            /\ Cardinality(entries \cup Stamps) =
                   Cardinality(entries) + Cardinality(Stamps) - Cardinality(entries \cap Stamps)
        BY <3>2, <3>4, FS_Union
      <4>4. QED
        BY <3>2, <3>5, <4>2, <4>3
    <3>7. /\ Cardinality(Last) <= Cardinality(entries \cup Stamps)
          /\ IsFiniteSet(Last)
      BY <3>3, <3>6, FS_Subset
    <3>8. Cardinality(Last) \in Nat /\ Cardinality(entries \cup Stamps) \in Nat
      BY <3>6, <3>7, FS_CardinalityType
    <3>9. QED
      BY <2>1, <3>1, <3>2, <3>4, <3>5, <3>6, <3>7, <3>8 DEF SetBound
  <2>3. CASE algorithm # "sliding_window"
    <3>1. Last = {}
      BY <2>3 DEF GrantInv
    <3>2. Cardinality(Last) = 0
      BY <3>1, FS_EmptySet
    <3>3. QED
      BY <2>1, <3>2
  <2>4. QED
    BY <2>2, <2>3
<1>3. QED
  BY <1>1, <1>2, CoverNext, GrantNext, HistoryInvariance, PTL DEF MCSpec

-----------------------------------------------------------------------------
(* The token bucket.  While requests come one at a time and every Set         *)
(* succeeds, a request holds what is stored, and those let through and the    *)
(* stored tokens are paid for up to the last refill.                          *)
InTurn == \A r, q \in Requests : pc[r] # "idle" /\ pc[q] # "idle" => r = q

HoldsStored ==
    \A r \in Requests : pc[r] # "idle" /\ exists =>
        held[r] = tokens /\ heldRefill[r] = lastRefill

PaidFor ==
    IF exists
    THEN passed * Token + tokens <= Bucket!capacity + lastRefill * Bucket!refillRate
    ELSE passed = 0

SupplyInv ==
    /\ passed \in Nat
    /\ algorithm = "token_bucket" /\ ~failed /\ ~overlapped => InTurn /\ HoldsStored /\ PaidFor
    /\ algorithm # "token_bucket" => exists = FALSE /\ passed = 0

(* What a request may leave in the bucket that held p parts at time b: c is   *)
(* the capacity, k the rate, t the parts of a token and m the passes so far.  *)
LEMMA Supply ==
    ASSUME NEW c \in Nat, NEW k \in Nat, NEW t \in Nat, NEW m \in Nat, NEW p \in Nat,
           NEW a \in Nat, NEW b \in Nat, b <= a,
           m * t + p <= c + b * k
    PROVE  /\ m * t + (p + (a - b) * k) <= c + a * k
           /\ (m + 1) * t = m * t + t
           /\ m * t \in Nat /\ a * k \in Nat /\ (a - b) * k \in Nat
<1>1. (a - b) * k = a * k - b * k
  BY SMT
<1>2. m * t \in Nat /\ a * k \in Nat /\ b * k \in Nat /\ b * k <= a * k
  BY Products
<1>3. (m + 1) * t = m * t + t
  BY NextWindow
<1>4. QED
  BY <1>1, <1>2, <1>3

(* Taking a token from what is paid for, with or without counting a pass. *)
LEMMA TakeToken ==
    ASSUME NEW m \in Nat, NEW p \in Nat, NEW t \in Nat, NEW u \in Nat, m + p <= u
    PROVE  (m + t) + (p - t) <= u /\ m + (p - t) <= u
OBVIOUS

(* A refill that the capacity cuts short adds no more than is paid for, and a *)
(* new bucket holds no more than its capacity.                                *)
LEMMA CutShort ==
    ASSUME NEW m \in Nat, NEW f \in Nat, NEW c \in Nat, NEW n \in Nat,
           NEW g, g = IF f < c THEN f ELSE c,
           m = 0 \/ m + f <= c + n
    PROVE  m + g <= c + n
OBVIOUS

(* Set saves what is paid for. *)
LEMMA SetPaid ==
    ASSUME BucketInv, passed \in Nat, InTurn, HoldsStored, PaidFor,
           NEW r \in Requests, Bucket!Set(r),
           passed' \in {passed, passed + 1},
           passed' = passed + 1 => Bucket!Allowed(r)
    PROVE  PaidFor'
<1> DEFINE c == Bucket!capacity
           k == Bucket!refillRate
           full == held[r] + (at[r] - heldRefill[r]) * k
<1>1. /\ c \in Nat /\ k \in Nat /\ Token \in Nat /\ passed \in Nat
      /\ held[r] \in Nat /\ at[r] \in Nat /\ heldRefill[r] \in Nat /\ heldRefill[r] <= at[r]
      /\ tokens \in Nat /\ lastRefill \in Nat
  BY BucketConstants, LimiterAssumption
     DEF BucketInv, Bucket!TypeOK, Bucket!RefillAdds, Bucket!Set
<1>2. exists' = TRUE /\ tokens' = Bucket!Left(r) /\ lastRefill' = at[r]
  BY DEF Bucket!Set
<1>3. Bucket!Refilled(r) = IF full < c THEN full ELSE c
  BY DEF Bucket!Refilled
<1>4. /\ at[r] * k \in Nat /\ passed * Token \in Nat
      /\ (passed + 1) * Token = passed * Token + Token
  BY <1>1, Products, NextWindow
<1>5. full \in Nat
  <2>1. at[r] - heldRefill[r] \in Nat
    BY <1>1
  <2>2. (at[r] - heldRefill[r]) * k \in Nat
    BY <1>1, <2>1, Products
  <2>3. QED
    BY <1>1, <2>2
<1> HIDE DEF c, k, full
<1>6. passed * Token + Bucket!Refilled(r) <= c + at[r] * k
  <2>1. CASE exists
    <3>1. held[r] = tokens /\ heldRefill[r] = lastRefill
      BY <2>1 DEF HoldsStored, Bucket!Set
    <3>2. passed * Token + held[r] <= c + heldRefill[r] * k
      BY <2>1, <3>1 DEF PaidFor, c, k
    <3>3. passed * Token + full <= c + at[r] * k
      <4>1. passed * Token + (held[r] + (at[r] - heldRefill[r]) * k) <= c + at[r] * k
        BY <1>1, <3>2, Supply, Zenon
      <4>2. QED
        BY <4>1, Zenon DEF full
    <3>4. QED
      BY <1>1, <1>3, <1>4, <1>5, <3>3, CutShort, Zenon
  <2>2. CASE ~exists
    <3>1. passed * Token = 0
      BY <1>1, <2>2 DEF PaidFor
    <3>2. QED
      BY <1>1, <1>3, <1>4, <1>5, <3>1, CutShort, Zenon
  <2>3. QED
    BY <2>1, <2>2
<1>7. Bucket!Refilled(r) \in Nat
  BY <1>1, <1>3, <1>5
<1>8. passed' * Token + Bucket!Left(r) <= c + at[r] * k
  <2>1. c + at[r] * k \in Nat
    BY <1>1, <1>4
  <2>2. /\ (passed * Token + Token) + (Bucket!Refilled(r) - Token) <= c + at[r] * k
        /\ passed * Token + (Bucket!Refilled(r) - Token) <= c + at[r] * k
    BY <1>1, <1>4, <1>6, <1>7, <2>1, TakeToken, Zenon
  <2>3. CASE passed' = passed + 1
    <3>1. Bucket!Left(r) = Bucket!Refilled(r) - Token
      BY <2>3, Zenon DEF Bucket!Left
    <3>2. passed' * Token = passed * Token + Token
      BY <1>4, <2>3, Zenon
    <3>3. QED
      BY <2>2, <3>1, <3>2, Zenon
  <2>4. CASE passed' = passed
    <3>1. Bucket!Left(r) = Bucket!Refilled(r) - Token \/ Bucket!Left(r) = Bucket!Refilled(r)
      BY Zenon DEF Bucket!Left
    <3>2. QED
      BY <1>6, <2>2, <2>4, <3>1, Zenon
  <2>5. QED
    BY <2>3, <2>4
<1>9. QED
  BY <1>2, <1>8 DEF PaidFor, Bucket!capacity, Bucket!refillRate, c, k

(* The bucket's steps keep the account, as long as requests come in turn. *)
LEMMA SupplyNext ==
    ASSUME Inv, SupplyInv, [MCNext]_<<vars, history>>
    PROVE  SupplyInv'
<1>1. CASE RecordBucket
  <2> DEFINE Passes == \E x \in Requests : pc[x] = "set" /\ pc'[x] = "idle" /\ Bucket!Allowed(x)
  <2>1. /\ algorithm = "token_bucket" /\ algorithm' = algorithm /\ Bucket!Next
        /\ BucketInv /\ passed \in Nat
    BY <1>1 DEF RecordBucket, BucketStep, Inv, SupplyInv
  <2>2. /\ passed' \in {passed, passed + 1} /\ passed' \in Nat
        /\ passed' # passed => Passes
    <3>1. passed' = IF passed < MaxPassed /\ Passes THEN passed + 1 ELSE passed
      BY <1>1, Zenon DEF RecordBucket
    <3>2. passed + 1 \in Nat
      BY <2>1
    <3>3. QED
      BY <2>1, <3>1, <3>2, Zenon
  <2>3. pc \in [Requests -> {"idle", "clock", "set"}]
    BY <2>1 DEF BucketInv, Bucket!TypeOK
  <2>4. ASSUME ~failed', ~overlapped' PROVE InTurn' /\ HoldsStored' /\ PaidFor'
    <3>1. ~failed /\ ~overlapped /\ ~(\E r \in Requests : Bucket!SetFails(r))
      BY <1>1, <2>4, Zenon DEF RecordBucket
    <3>2. InTurn /\ HoldsStored /\ PaidFor
      BY <2>1, <3>1 DEF SupplyInv
    <3>3. InTurn'
      BY <1>1, <2>4 DEF RecordBucket, InTurn
    <3>4. ASSUME NEW r \in Requests, Bucket!Get(r) PROVE HoldsStored' /\ PaidFor'
      <4>1. /\ pc'[r] = "clock" /\ \A q \in Requests \ {r} : pc'[q] = pc[q]
            /\ UNCHANGED <<exists, tokens, lastRefill>>
        BY <2>3, <3>4 DEF Bucket!Get, Bucket!Goto, Bucket!bucket
      <4>2. exists => held'[r] = tokens /\ heldRefill'[r] = lastRefill
        BY <2>1, <3>4 DEF Bucket!Get, BucketInv, Bucket!TypeOK
      <4>3. ~Passes
        BY <4>1
      <4>4. HoldsStored'
        BY <3>3, <4>1, <4>2 DEF HoldsStored, InTurn
      <4>5. PaidFor'
        BY <2>2, <3>2, <4>1, <4>3 DEF PaidFor, Bucket!capacity, Bucket!refillRate
      <4>6. QED
        BY <4>4, <4>5
    <3>5. ASSUME NEW r \in Requests, Bucket!ReadClock(r) PROVE HoldsStored' /\ PaidFor'
      <4>1. /\ pc[r] = "clock" /\ pc'[r] = "set" /\ \A q \in Requests \ {r} : pc'[q] = pc[q]
            /\ UNCHANGED <<exists, tokens, lastRefill, held, heldRefill>>
        BY <2>3, <3>5 DEF Bucket!ReadClock, Bucket!Goto, Bucket!bucket
      <4>2. ~Passes
        BY <4>1
      <4>3. HoldsStored'
        BY <3>2, <4>1 DEF HoldsStored
      <4>4. PaidFor'
        BY <2>2, <3>2, <4>1, <4>2 DEF PaidFor, Bucket!capacity, Bucket!refillRate
      <4>5. QED
        BY <4>3, <4>4
    <3>6. ASSUME NEW r \in Requests, Bucket!Set(r) PROVE HoldsStored' /\ PaidFor'
      <4>1. /\ pc[r] = "set" /\ pc'[r] = "idle" /\ \A q \in Requests \ {r} : pc'[q] = pc[q]
        BY <2>3, <3>6 DEF Bucket!Set, Bucket!Goto
      <4>2. \A q \in Requests : pc'[q] = "idle"
        BY <3>2, <4>1 DEF InTurn
      <4>3. passed' = passed + 1 => Bucket!Allowed(r)
        <5>1. Passes => Bucket!Allowed(r)
          BY <3>2, <4>1 DEF InTurn
        <5>2. passed + 1 # passed
          BY <2>1
        <5>3. QED
          BY <2>2, <5>1, <5>2
      <4>4. PaidFor'
        BY <2>1, <2>2, <3>2, <3>6, <4>3, SetPaid
      <4>5. QED
        BY <4>2, <4>4 DEF HoldsStored
    <3>7. CASE Bucket!Tick
      <4>1. UNCHANGED <<pc, exists, tokens, lastRefill, held, heldRefill>>
        BY <3>7 DEF Bucket!Tick, Bucket!bucket
      <4>2. ~Passes
        BY <4>1
      <4>3. HoldsStored'
        BY <3>2, <4>1 DEF HoldsStored
      <4>4. PaidFor'
        BY <2>2, <3>2, <4>1, <4>2 DEF PaidFor, Bucket!capacity, Bucket!refillRate
      <4>5. QED
        BY <3>3, <4>3, <4>4
    <3>8. QED
      BY <2>1, <3>1, <3>3, <3>4, <3>5, <3>6, <3>7 DEF Bucket!Next, Bucket!Allow
  <2>5. QED
    BY <2>1, <2>2, <2>4, Zenon DEF SupplyInv
<1>2. CASE RecordFixed \/ RecordSliding
  <2>1. algorithm # "token_bucket" /\ UNCHANGED <<algorithm, exists, passed>>
    BY <1>2 DEF RecordFixed, RecordSliding, FixedStep, SlidingStep, UsesFixedWindow, bucketVars
  <2>2. QED
    BY <2>1 DEF SupplyInv
<1>3. CASE UNCHANGED <<vars, history>>
  BY <1>3 DEF SupplyInv, InTurn, HoldsStored, PaidFor, vars, bucketVars, history,
     Bucket!capacity, Bucket!refillRate
<1>4. QED
  BY <1>1, <1>2, <1>3 DEF MCNext

(* As long as requests come to a token bucket one at a time and every Set     *)
(* succeeds, no more are let through than the bucket held at first and has    *)
(* been refilled with since, for any capacity, rate and fraction of a token.  *)
THEOREM SupplyKept == MCSpec => []SequentialSupply
<1>1. MCInit => SupplyInv
  BY DEF MCInit, Init, Bucket!Init, SupplyInv, InTurn, HoldsStored, PaidFor
<1>2. Inv /\ SupplyInv => SequentialSupply
  <2> SUFFICES ASSUME Inv, SupplyInv, ~failed, ~overlapped
               PROVE  passed * Token + (IF exists THEN tokens ELSE 0)
                          <= Bucket!capacity + now * Bucket!refillRate
    BY DEF SequentialSupply
  <2>1. /\ now \in Nat /\ passed \in Nat /\ Token \in Nat
        /\ Bucket!capacity \in Nat /\ Bucket!refillRate \in Nat
    BY LimiterAssumption, BucketConstants DEF Inv, SupplyInv
  <2>2. now * Bucket!refillRate \in Nat
    BY <2>1, Products
  <2>3. CASE ~exists
    <3>1. passed = 0
      BY <2>3 DEF SupplyInv, PaidFor
    <3>2. QED
      BY <2>1, <2>2, <2>3, <3>1
  <2>4. CASE exists
    <3>1. algorithm = "token_bucket" /\ PaidFor /\ BucketInv
      BY <2>4 DEF SupplyInv, Inv
    <3>2. lastRefill \in Nat /\ lastRefill <= now /\ tokens \in Nat
      BY <2>1, <3>1 DEF BucketInv, Bucket!TypeOK
    <3>3. /\ lastRefill * Bucket!refillRate <= now * Bucket!refillRate
          /\ lastRefill * Bucket!refillRate \in Nat /\ passed * Token \in Nat
      BY <2>1, <3>2, Products
    <3>4. passed * Token + tokens <= Bucket!capacity + lastRefill * Bucket!refillRate
      BY <2>4, <3>1 DEF PaidFor
    <3>5. QED
      BY <2>1, <2>2, <2>4, <3>2, <3>3, <3>4
  <2>5. QED
    BY <2>3, <2>4
<1>3. QED
  BY <1>1, <1>2, SupplyNext, HistoryInvariance, PTL DEF MCSpec
=============================================================================

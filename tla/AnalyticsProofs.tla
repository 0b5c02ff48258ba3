--------------------------- MODULE AnalyticsProofs ---------------------------
(***************************************************************************)
(* The request logger and the reports on its table, for any number of      *)
(* requests, any buffer, batch and page, and any timestamps: no entry is   *)
(* lost in silence, batch and channel are one bounded queue, a summary is  *)
(* true of the table as it grows, and paging skips nothing.                *)
(***************************************************************************)
EXTENDS MCAnalytics, SequenceTheorems, FiniteSetTheorems, TLAPS

-----------------------------------------------------------------------------
(* Sequences: the entries of two sequences that are joined, and of a prefix. *)

(* Joining two sequences joins their entries. *)
LEMMA JoinedEntries ==
    ASSUME NEW S, NEW s \in Seq(S), NEW t \in Seq(S)
    PROVE  s \o t \in Seq(S) /\ Range(s \o t) = Range(s) \cup Range(t)
BY ConcatProperties, RangeConcatenation

(* Nothing is repeated in two joined sequences when nothing is in either and  *)
(* they share nothing.                                                        *)
LEMMA JoinedInjective ==
    ASSUME NEW S, NEW s \in Seq(S), NEW t \in Seq(S)
    PROVE  IsInjective(s \o t) <=>
               IsInjective(s) /\ IsInjective(t) /\ Range(s) \cap Range(t) = {}
<1> DEFINE m == Len(s)
           n == Len(t)
           j == s \o t
<1>1. /\ m \in Nat /\ n \in Nat
      /\ DOMAIN s = 1..m /\ DOMAIN t = 1..n /\ DOMAIN j = 1..(m + n)
  BY ConcatProperties, LenProperties
<1>2. /\ \A i \in 1..m : i \in 1..(m + n) /\ j[i] = s[i]
      /\ \A i \in 1..n : m + i \in 1..(m + n) /\ j[m + i] = t[i]
  BY <1>1, ConcatProperties
<1>3. \A i \in 1..(m + n) : i \in 1..m \/ \E k \in 1..n : i = m + k
  <2>1. \A i \in 1..(m + n) : i \in 1..m \/ (i - m \in 1..n /\ i = m + (i - m))
    BY <1>1
  <2>2. QED
    BY <2>1, Zenon
<1>4. \A i \in 1..m, k \in 1..n : i # m + k
  BY <1>1
<1>5. \A i, k \in 1..n : m + i = m + k => i = k
  BY <1>1
<1> HIDE DEF j
<1>6. ASSUME IsInjective(j)
      PROVE  IsInjective(s) /\ IsInjective(t) /\ Range(s) \cap Range(t) = {}
  <2>1. IsInjective(s)
    BY <1>1, <1>2, <1>6 DEF IsInjective
  <2>2. IsInjective(t)
    BY <1>1, <1>2, <1>5, <1>6 DEF IsInjective
  <2>3. Range(s) \cap Range(t) = {}
    BY <1>1, <1>2, <1>4, <1>6 DEF IsInjective, Range
  <2>4. QED
    BY <2>1, <2>2, <2>3
<1>7. ASSUME IsInjective(s), IsInjective(t), Range(s) \cap Range(t) = {}
      PROVE  IsInjective(j)
  <2> SUFFICES ASSUME NEW a \in 1..(m + n), NEW b \in 1..(m + n), j[a] = j[b]
               PROVE  a = b
    BY <1>1 DEF IsInjective
  <2>1. \A i \in 1..m, k \in 1..n : s[i] # t[k]
    BY <1>1, <1>7, Zenon DEF Range
  <2>2. CASE a \in 1..m /\ b \in 1..m
    BY <1>1, <1>2, <1>7, <2>2 DEF IsInjective
  <2>3. CASE \E i, k \in 1..n : a = m + i /\ b = m + k
    <3>1. PICK i \in 1..n, k \in 1..n : a = m + i /\ b = m + k
      BY <2>3
    <3>2. t[i] = t[k]
      BY <1>2, <3>1
    <3>3. QED
      BY <1>1, <1>7, <3>1, <3>2 DEF IsInjective
  <2>4. CASE a \in 1..m /\ \E k \in 1..n : b = m + k
    BY <1>2, <2>1, <2>4
  <2>5. CASE b \in 1..m /\ \E k \in 1..n : a = m + k
    BY <1>2, <2>1, <2>5
  <2>6. QED
    BY <1>3, <2>2, <2>3, <2>4, <2>5, Zenon
<1>8. QED
  BY <1>6, <1>7 DEF j

(* The empty sequence holds nothing. *)
LEMMA NoEntries == Range(<<>>) = {} /\ IsInjective(<<>>)
BY DEF Range, IsInjective

(* One entry more. *)
LEMMA AppendedEntry ==
    ASSUME NEW S, NEW s \in Seq(S), NEW e \in S
    PROVE  /\ Append(s, e) \in Seq(S)
           /\ Len(Append(s, e)) = Len(s) + 1
           /\ Append(s, e) = s \o <<e>>
           /\ Range(<<e>>) = {e} /\ IsInjective(<<e>>) /\ <<e>> \in Seq(S)
<1>1. Range(<<e>>) = {e} /\ IsInjective(<<e>>)
  <2>1. DOMAIN <<e>> = {1} /\ <<e>>[1] = e
    OBVIOUS
  <2>2. QED
    BY <2>1 DEF Range, IsInjective
<1>2. QED
  BY <1>1, AppendProperties, AppendIsConcat

(* The first entry and the rest. *)
LEMMA HeadOfTail ==
    ASSUME NEW S, NEW s \in Seq(S), s # <<>>
    PROVE  /\ Head(s) \in S /\ Tail(s) \in Seq(S)
           /\ Len(Tail(s)) = Len(s) - 1
           /\ <<Head(s)>> \in Seq(S)
           /\ s = <<Head(s)>> \o Tail(s)
<1>1. Head(s) \in S /\ Tail(s) \in Seq(S) /\ Len(Tail(s)) = Len(s) - 1
  BY HeadTailProperties
<1>2. QED
  BY <1>1

(* Three sequences joined: what they hold, and when nothing is repeated. *)
LEMMA ThreeJoined ==
    ASSUME NEW S, NEW a \in Seq(S), NEW b \in Seq(S), NEW c \in Seq(S)
    PROVE  /\ Range(a \o b \o c) = Range(a) \cup Range(b) \cup Range(c)
           /\ IsInjective(a \o b \o c) <=>
                /\ IsInjective(a) /\ IsInjective(b) /\ IsInjective(c)
                /\ Range(a) \cap Range(b) = {}
                /\ (Range(a) \cup Range(b)) \cap Range(c) = {}
<1>1. a \o b \in Seq(S) /\ Range(a \o b) = Range(a) \cup Range(b)
  BY JoinedEntries
<1>2. \A u \in Seq(S) : Range(u \o c) = Range(u) \cup Range(c)
  BY JoinedEntries
<1>3. IsInjective(a \o b) <=>
        IsInjective(a) /\ IsInjective(b) /\ Range(a) \cap Range(b) = {}
  BY JoinedInjective
<1>4. \A u \in Seq(S) : IsInjective(u \o c) <=>
        IsInjective(u) /\ IsInjective(c) /\ Range(u) \cap Range(c) = {}
  BY JoinedInjective
<1>5. QED
  BY <1>1, <1>2, <1>3, <1>4, Zenon

-----------------------------------------------------------------------------
(* The request logger: types. *)

(* The sequences of the initial state. *)
LEMMA NothingYet == <<>> \in Seq(Requests) /\ Len(<<>>) = 0
OBVIOUS

(* A new logger is well typed. *)
LEMMA InitTyped == Init => TypeOK
<1>1. BufferSize \in Nat /\ BatchSize \in Nat /\ 0 < BatchSize /\ 0 <= BufferSize
  BY LoggerAssumption
<1>2. SUFFICES ASSUME Init PROVE TypeOK
  OBVIOUS
<1>3. pc \in [Requests -> {"handling", "logged", "recovered"}]
  BY <1>2 DEF Init
<1>4. Len(logChannel) <= BufferSize /\ Len(batch) < BatchSize /\ Len(batch) <= BatchSize
  BY <1>1, <1>2, NothingYet DEF Init
<1>5. QED
  BY <1>2, <1>3, <1>4, NothingYet, Zenon DEF Init, TypeOK

(* Every step keeps the types: the worker goes to insert as soon as the batch *)
(* is full, and never with an empty one.                                      *)
LEMMA NextTyped == TypeOK /\ [Next]_vars => TypeOK'
<1> SUFFICES ASSUME TypeOK, [Next]_vars PROVE TypeOK'
  OBVIOUS
<1> USE DEF TypeOK
<1>1. BufferSize \in Nat /\ BatchSize \in Nat /\ 0 < BatchSize
  BY LoggerAssumption
<1>2. /\ Len(logChannel) \in Nat /\ Len(batch) \in Nat
  BY LenProperties
<1>3. ASSUME NEW r \in Requests, Queue(r) PROVE TypeOK'
  <2>1. /\ logChannel' \in Seq(Requests) /\ Len(logChannel') = Len(logChannel) + 1
    BY <1>3, AppendedEntry DEF Queue
  <2>2. Len(logChannel') <= BufferSize
    BY <1>1, <1>2, <1>3, <2>1 DEF Queue
  <2>3. QED
    BY <1>3, <2>1, <2>2 DEF Queue
<1>4. ASSUME NEW r \in Requests, Skip(r) \/ HandlerPanics(r) PROVE TypeOK'
  BY <1>4 DEF Skip, HandlerPanics
<1>5. CASE Receive
  <2>1. /\ Head(logChannel) \in Requests
        /\ Tail(logChannel) \in Seq(Requests)
        /\ Len(Tail(logChannel)) = Len(logChannel) - 1
    BY <1>5, HeadOfTail DEF Receive
  <2>2. /\ batch' \in Seq(Requests) /\ Len(batch') = Len(batch) + 1
        /\ batch' # <<>>
    BY <1>5, <2>1, AppendProperties DEF Receive
  <2>3. /\ Len(batch') <= BatchSize
        /\ worker' = "select" => Len(batch') < BatchSize
        /\ worker' \in {"select", "insert"}
    BY <1>1, <1>2, <1>5, <2>2 DEF Receive
  <2>4. logChannel' \in Seq(Requests) /\ Len(logChannel') <= BufferSize
    BY <1>1, <1>2, <1>5, <2>1 DEF Receive
  <2>5. QED
    BY <1>5, <2>2, <2>3, <2>4 DEF Receive
<1>6. CASE Tick
  BY <1>6 DEF Tick
<1>7. CASE FlushOnTick
  BY <1>7, Zenon DEF FlushOnTick
<1>8. CASE InsertSucceeds
  <2>1. requestLogs' \in Seq(Requests)
    BY <1>8, JoinedEntries DEF InsertSucceeds
  <2>2. QED
    BY <1>1, <1>8, <2>1, NothingYet DEF InsertSucceeds
<1>9. CASE InsertFails
  <2>1. reported' \subseteq Requests
    <3>1. Range(batch) \subseteq Requests
      BY LenProperties DEF Range
    <3>2. QED
      BY <1>9, <3>1 DEF InsertFails
  <2>2. requestLogs' \in Seq(Requests)
    <3>1. requestLogs \in Seq(Requests) /\ requestLogs \o batch \in Seq(Requests)
      BY JoinedEntries
    <3>2. requestLogs' \in {requestLogs, requestLogs \o batch}
      BY <1>9 DEF InsertFails
    <3>3. QED
      BY <3>1, <3>2, Zenon
  <2>3. QED
    BY <1>1, <1>9, <2>1, <2>2, NothingYet DEF InsertFails
<1>10. CASE Exit
  BY <1>1, <1>10, NothingYet DEF Exit
<1>11. CASE UNCHANGED vars
  BY <1>11 DEF vars
<1> HIDE DEF TypeOK
<1>12. QED
  BY <1>3, <1>4, <1>5, <1>6, <1>7, <1>8, <1>9, <1>10, <1>11 DEF Next

(* Type correctness of the logger: the channel keeps to its capacity and the  *)
(* batch to its own, and insertBatch is never called with an empty batch.     *)
THEOREM LoggerTypeCorrect == Spec => []TypeOK
BY InitTyped, NextTyped, PTL DEF Spec

-----------------------------------------------------------------------------
(* The request logger: no entry is lost in silence, none is written twice. *)

LoggerInv == TypeOK /\ NoSilentLoss

(* Every step accounts for the entries: a request still being handled is not  *)
(* among them, so that queueing or skipping it adds one; the worker only      *)
(* moves them on; and a batch that is given up was reported nowhere before.   *)
LEMMA NextLossless == LoggerInv /\ [Next]_vars => NoSilentLoss'
<1> SUFFICES ASSUME LoggerInv, [Next]_vars PROVE NoSilentLoss'
  OBVIOUS
<1>1. TypeOK /\ TypeOK'
  BY NextTyped DEF LoggerInv
<1>2. /\ requestLogs \in Seq(Requests) /\ batch \in Seq(Requests) /\ logChannel \in Seq(Requests)
      /\ requestLogs' \in Seq(Requests) /\ batch' \in Seq(Requests) /\ logChannel' \in Seq(Requests)
      /\ pc \in [Requests -> {"handling", "logged", "recovered"}]
  BY <1>1 DEF TypeOK
<1>3. /\ Range(Kept) = Range(requestLogs) \cup Range(batch) \cup Range(logChannel)
      /\ IsInjective(requestLogs) /\ IsInjective(batch) /\ IsInjective(logChannel)
      /\ Range(requestLogs) \cap Range(batch) = {}
      /\ (Range(requestLogs) \cup Range(batch)) \cap Range(logChannel) = {}
  BY <1>2, ThreeJoined DEF LoggerInv, NoSilentLoss, Kept
<1>4. /\ (Range(batch) \cup Range(logChannel)) \cap reported = {}
      /\ worker # "gone" =>
            {r \in Requests : pc[r] = "logged"} = Range(Kept) \cup reported
  BY <1>2, JoinedEntries DEF LoggerInv, NoSilentLoss
<1>5. /\ Range(Kept') = Range(requestLogs') \cup Range(batch') \cup Range(logChannel')
      /\ IsInjective(Kept') <=>
            /\ IsInjective(requestLogs') /\ IsInjective(batch') /\ IsInjective(logChannel')
            /\ Range(requestLogs') \cap Range(batch') = {}
            /\ (Range(requestLogs') \cup Range(batch')) \cap Range(logChannel') = {}
  <2>1. Kept' = requestLogs' \o batch' \o logChannel'
    BY DEF Kept
  <2>2. requestLogs' \in Seq(Requests) /\ batch' \in Seq(Requests) /\ logChannel' \in Seq(Requests)
    BY <1>2
  <2>3. QED
    BY <2>1, <2>2, ThreeJoined
<1>6. Range((batch \o logChannel)') = Range(batch') \cup Range(logChannel')
  BY <1>2, JoinedEntries
<1>7. ASSUME NEW r \in Requests, Queue(r) PROVE NoSilentLoss'
  <2>1. /\ Range(logChannel') = Range(logChannel) \cup {r}
        /\ IsInjective(logChannel') <=> IsInjective(logChannel) /\ r \notin Range(logChannel)
    <3>1. logChannel' = logChannel \o <<r>> /\ <<r>> \in Seq(Requests)
          /\ Range(<<r>>) = {r} /\ IsInjective(<<r>>)
      BY <1>2, <1>7, AppendedEntry DEF Queue
    <3>2. \A t \in Seq(Requests) :
            /\ Range(logChannel \o t) = Range(logChannel) \cup Range(t)
            /\ IsInjective(logChannel \o t) <=>
                IsInjective(logChannel) /\ IsInjective(t) /\ Range(logChannel) \cap Range(t) = {}
      BY <1>2, JoinedEntries, JoinedInjective
    <3>3. /\ Range(logChannel \o <<r>>) = Range(logChannel) \cup {r}
          /\ IsInjective(logChannel \o <<r>>) <=>
                IsInjective(logChannel) /\ Range(logChannel) \cap {r} = {}
      BY <3>1, <3>2, Zenon
    <3>4. QED
      BY <3>1, <3>3
  <2>2. /\ worker # "gone" /\ r \notin Range(Kept) /\ r \notin reported
        /\ {q \in Requests : pc'[q] = "logged"} = {q \in Requests : pc[q] = "logged"} \cup {r}
        /\ UNCHANGED <<requestLogs, batch, reported>>
    BY <1>2, <1>4, <1>7 DEF Queue
  <2>3. IsInjective(Kept')
    BY <1>3, <1>5, <2>1, <2>2
  <2>4. Range(Kept') = Range(Kept) \cup {r}
    BY <1>3, <1>5, <2>1, <2>2
  <2>5. (Range(batch') \cup Range(logChannel')) \cap reported' = {}
    BY <1>4, <2>1, <2>2
  <2>6. QED
    BY <1>4, <1>6, <2>2, <2>3, <2>4, <2>5 DEF NoSilentLoss
<1>8. ASSUME NEW r \in Requests, Skip(r) PROVE NoSilentLoss'
  <2>1. /\ worker # "gone" /\ r \notin Range(Kept) /\ r \notin reported
        /\ {q \in Requests : pc'[q] = "logged"} = {q \in Requests : pc[q] = "logged"} \cup {r}
        /\ reported' = reported \cup {r}
        /\ UNCHANGED <<requestLogs, batch, logChannel>>
    BY <1>2, <1>4, <1>8 DEF Skip
  <2>2. Kept' = Kept /\ IsInjective(Kept)
    BY <2>1 DEF Kept, LoggerInv, NoSilentLoss
  <2>3. (Range(batch') \cup Range(logChannel')) \cap reported' = {}
    BY <1>3, <1>4, <2>1
  <2>4. QED
    BY <1>4, <1>6, <2>1, <2>2, <2>3 DEF NoSilentLoss
<1>9. ASSUME NEW r \in Requests, HandlerPanics(r) PROVE NoSilentLoss'
  <2>1. /\ {q \in Requests : pc'[q] = "logged"} = {q \in Requests : pc[q] = "logged"}
        /\ UNCHANGED <<requestLogs, batch, logChannel, reported, worker>>
    BY <1>2, <1>9 DEF HandlerPanics
  <2>2. Kept' = Kept /\ IsInjective(Kept)
    BY <2>1 DEF Kept, LoggerInv, NoSilentLoss
  <2>3. QED
    BY <1>4, <1>6, <2>1, <2>2 DEF NoSilentLoss
<1>10. CASE Receive
  <2> DEFINE e == Head(logChannel)
             rest == Tail(logChannel)
  <2>1. /\ rest \in Seq(Requests) /\ <<e>> \in Seq(Requests) /\ e \in Requests
        /\ logChannel = <<e>> \o rest
    BY <1>2, <1>10, HeadOfTail DEF Receive
  <2>2. batch' = batch \o <<e>> /\ logChannel' = rest
    BY <1>2, <1>10, <2>1, AppendedEntry DEF Receive
  <2>3. UNCHANGED <<pc, requestLogs, reported>> /\ worker # "gone" /\ worker' # "gone"
    BY <1>10 DEF Receive
  <2> HIDE DEF e, rest
  <2>4. Kept' = Kept
    BY <1>2, <2>1, <2>2, <2>3, ConcatAssociative, ConcatProperties DEF Kept
  <2>5. batch' \o logChannel' = batch \o logChannel
    BY <1>2, <2>1, <2>2, ConcatAssociative
  <2>6. QED
    BY <2>3, <2>4, <2>5 DEF LoggerInv, NoSilentLoss
<1>11. CASE InsertSucceeds
  <2>1. /\ requestLogs' = requestLogs \o batch /\ batch' = <<>>
        /\ UNCHANGED <<pc, logChannel, reported>> /\ worker # "gone" /\ worker' # "gone"
    BY <1>11 DEF InsertSucceeds
  <2>2. requestLogs' \o batch' = requestLogs \o batch
    BY <1>2, <2>1, ConcatEmptySeq
  <2>3. Kept' = Kept
    BY <2>1, <2>2 DEF Kept
  <2>4. (Range(batch') \cup Range(logChannel')) \cap reported' = {}
    BY <1>4, <2>1, NoEntries
  <2>5. QED
    BY <1>6, <2>1, <2>3, <2>4 DEF LoggerInv, NoSilentLoss
<1>12. CASE InsertFails
  <2>1. /\ requestLogs' \in {requestLogs, requestLogs \o batch}
        /\ batch' = <<>> /\ reported' = reported \cup Range(batch)
        /\ UNCHANGED <<pc, logChannel>> /\ worker # "gone" /\ worker' # "gone"
    BY <1>12 DEF InsertFails
  <2>2. (Range(batch') \cup Range(logChannel')) \cap reported' = {}
    BY <1>3, <1>4, <2>1, NoEntries
  <2>3. CASE requestLogs' = requestLogs
    <3>1. IsInjective(Kept')
      BY <1>3, <1>5, <2>1, <2>3, NoEntries
    <3>2. Range(Kept') = Range(requestLogs) \cup Range(logChannel)
      BY <1>5, <2>1, <2>3, NoEntries
    <3>3. QED
      BY <1>3, <1>4, <1>6, <2>1, <2>2, <3>1, <3>2 DEF NoSilentLoss
  <2>4. CASE requestLogs' = requestLogs \o batch
    <3>1. requestLogs' \o batch' = requestLogs \o batch
      BY <1>2, <2>1, <2>4, ConcatEmptySeq
    <3>2. Kept' = Kept /\ IsInjective(Kept)
      BY <2>1, <3>1 DEF Kept, LoggerInv, NoSilentLoss
    <3>3. QED
      BY <1>3, <1>4, <1>6, <2>1, <2>2, <3>2 DEF NoSilentLoss
  <2>5. QED
    BY <2>1, <2>3, <2>4
<1>13. CASE Exit
  <2>1. /\ batch' = <<>> /\ logChannel' = <<>> /\ worker' = "gone"
        /\ UNCHANGED <<requestLogs, reported>>
    BY <1>13 DEF Exit
  <2>2. IsInjective(Kept') /\ Range(Kept') = Range(requestLogs)
    BY <1>3, <1>5, <2>1, NoEntries
  <2>3. (Range(batch') \cup Range(logChannel')) \cap reported' = {}
    BY <2>1, NoEntries
  <2>4. QED
    BY <1>6, <2>1, <2>2, <2>3 DEF NoSilentLoss
<1>14. CASE Tick \/ FlushOnTick \/ UNCHANGED vars
  <2>1. /\ UNCHANGED <<pc, requestLogs, batch, logChannel, reported>>
        /\ worker' # "gone" => worker # "gone"
    BY <1>14 DEF Tick, FlushOnTick, vars
  <2>2. Kept' = Kept
    BY <2>1 DEF Kept
  <2>3. QED
    BY <2>1, <2>2 DEF LoggerInv, NoSilentLoss
<1>15. QED
  BY <1>7, <1>8, <1>9, <1>10, <1>11, <1>12, <1>13, <1>14 DEF Next

(* A new logger keeps nothing and has given up nothing. *)
LEMMA InitLossless == Init => LoggerInv
<1> SUFFICES ASSUME Init PROVE LoggerInv
  OBVIOUS
<1>1. Kept = <<>> /\ batch \o logChannel = <<>>
  BY NothingYet, ConcatEmptySeq DEF Init, Kept
<1>2. {r \in Requests : pc[r] = "logged"} = {} /\ reported = {}
  BY DEF Init
<1>3. QED
  BY <1>1, <1>2, InitTyped, NoEntries DEF LoggerInv, NoSilentLoss

(* Both parts of the invariant hold always. *)
LEMMA LoggerInvariance == Spec => []LoggerInv
<1>1. LoggerInv /\ [Next]_vars => LoggerInv'
  BY NextTyped, NextLossless DEF LoggerInv
<1>2. QED
  BY <1>1, InitLossless, PTL DEF Spec

(* While the process lives every entry that RequestLogger got to is in the    *)
(* table, the batch or the channel, once, or was reported, and of the         *)
(* reported ones none can still be written: an entry is in the table and      *)
(* reported only when the answer to its INSERT was lost.                      *)
THEOREM NothingLostInSilence == Spec => []NoSilentLoss
<1>1. LoggerInv => NoSilentLoss
  BY DEF LoggerInv
<1>2. QED
  BY <1>1, LoggerInvariance, PTL

-----------------------------------------------------------------------------
(* Batch and channel are one bounded queue. *)

(* Taking the front of one sequence to the end of the other changes nothing   *)
(* in the two of them together.                                               *)
LEMMA MovedEntry ==
    ASSUME NEW S, NEW s \in Seq(S), NEW t \in Seq(S), t # <<>>
    PROVE  Append(s, Head(t)) \o Tail(t) = s \o t
<1> DEFINE e == Head(t)
           rest == Tail(t)
<1>1. rest \in Seq(S) /\ <<e>> \in Seq(S) /\ e \in S /\ t = <<e>> \o rest
  BY HeadOfTail
<1>2. Append(s, e) = s \o <<e>>
  BY <1>1, AppendedEntry
<1> HIDE DEF e, rest
<1>3. (s \o <<e>>) \o rest = s \o (<<e>> \o rest)
  BY <1>1, ConcatAssociative
<1>4. QED
  BY <1>1, <1>2, <1>3 DEF e, rest

(* Joined sequences come apart where they were joined. *)
LEMMA TakenApart ==
    ASSUME NEW S, NEW s \in Seq(S), NEW t \in Seq(S)
    PROVE  /\ SubSeq(s \o t, 1, Len(s)) = s
           /\ SubSeq(s \o t, Len(s) + 1, Len(s \o t)) = t
<1> DEFINE j == s \o t
           m == Len(s)
           n == Len(t)
<1>1. /\ m \in Nat /\ n \in Nat /\ Len(j) = m + n
      /\ \A i \in 1..m : i \in 1..(m + n) /\ j[i] = s[i] /\ s[i] \in S
      /\ \A i \in 1..n : m + i \in 1..(m + n) /\ j[m + i] = t[i] /\ t[i] \in S
  BY ConcatProperties, LenProperties
<1> HIDE DEF j
<1>2. SubSeq(j, 1, m) = s
  <2>1. /\ SubSeq(j, 1, m) \in Seq(S) /\ Len(SubSeq(j, 1, m)) = m
        /\ \A i \in 1..m : SubSeq(j, 1, m)[i] = j[i]
    BY <1>1, SubSeqProperties
  <2>2. QED
    BY <1>1, <2>1, SeqEqual
<1>3. SubSeq(j, m + 1, m + n) = t
  <2>1. \A i \in (m + 1)..(m + n) : j[i] \in S
    <3>1. \A i \in (m + 1)..(m + n) : i - m \in 1..n /\ i = m + (i - m)
      BY <1>1
    <3>2. QED
      BY <1>1, <3>1, Zenon
  <2>2. /\ SubSeq(j, m + 1, m + n) \in Seq(S) /\ Len(SubSeq(j, m + 1, m + n)) = n
        /\ \A i \in 1..n : SubSeq(j, m + 1, m + n)[i] = j[m + i]
    <3>1. m + 1 \in Int /\ m + n \in Int /\ (m + n) - (m + 1) + 1 = n
      BY <1>1
    <3>2. /\ SubSeq(j, m + 1, m + n) \in Seq(S)
          /\ Len(SubSeq(j, m + 1, m + n)) =
                IF m + 1 <= m + n THEN (m + n) - (m + 1) + 1 ELSE 0
          /\ \A i \in 1..((m + n) - (m + 1) + 1) :
                SubSeq(j, m + 1, m + n)[i] = j[(m + 1) + i - 1]
      BY <2>1, <3>1, SubSeqProperties
    <3>3. Len(SubSeq(j, m + 1, m + n)) = n
      BY <1>1, <3>2
    <3>4. \A i \in 1..n : (m + 1) + i - 1 = m + i
      BY <1>1
    <3>5. QED
      BY <3>1, <3>2, <3>3, <3>4
  <2>3. QED
    BY <1>1, <2>2, SeqEqual
<1>4. QED
  BY <1>1, <1>2, <1>3 DEF j

(* Every step of the logger is a step of the queue or a stutter of it.  That  *)
(* there is room in the queue rests on the bounds of channel and batch, that  *)
(* a flush takes something on insertBatch never being called in vain.         *)
LEMMA StepOfQueue ==
    TypeOK /\ [Next]_vars => [Abstract!QueueNext]_(Abstract!queueVars)
<1> SUFFICES ASSUME TypeOK, [Next]_vars
             PROVE  [Abstract!QueueNext]_(Abstract!queueVars)
  OBVIOUS
<1> DEFINE offered == {r \in Requests : pc[r] # "handling"}
           pending == batch \o logChannel
<1>1. /\ requestLogs \in Seq(Requests) /\ batch \in Seq(Requests) /\ logChannel \in Seq(Requests)
      /\ pc \in [Requests -> {"handling", "logged", "recovered"}]
      /\ Len(logChannel) \in Nat /\ Len(batch) \in Nat /\ Len(batch) <= BatchSize
      /\ BufferSize \in Nat /\ BatchSize \in Nat
  BY LenProperties, LoggerAssumption DEF TypeOK
<1>2. pending \in Seq(Requests) /\ Len(pending) = Len(batch) + Len(logChannel)
  BY <1>1, ConcatProperties
<1>3. ASSUME NEW r \in Requests, Queue(r) \/ Skip(r) \/ HandlerPanics(r)
      PROVE  Abstract!Offer(r)
  <2>1. r \notin offered /\ offered' = offered \cup {r} /\ requestLogs' = requestLogs
    BY <1>1, <1>3 DEF Queue, Skip, HandlerPanics
  <2>2. CASE Queue(r)
    <3>1. batch' = batch /\ logChannel' = Append(logChannel, r)
          /\ Len(logChannel) < BufferSize
      BY <2>2 DEF Queue
    <3>2. batch \o Append(logChannel, r) = Append(batch \o logChannel, r)
      BY <1>1
    <3>3. Len(pending) < BufferSize + BatchSize
      BY <1>1, <1>2, <3>1
    <3>4. QED
      BY <2>1, <3>1, <3>2, <3>3 DEF Abstract!Offer
  <2>3. CASE Skip(r) \/ HandlerPanics(r)
    <3>1. batch' = batch /\ logChannel' = logChannel
      BY <2>3 DEF Skip, HandlerPanics
    <3>2. QED
      BY <2>1, <3>1 DEF Abstract!Offer
  <2>4. QED
    BY <1>3, <2>2, <2>3
<1>4. CASE Receive
  <2>1. pending' = pending
    BY <1>1, <1>4, MovedEntry DEF Receive
  <2>2. QED
    BY <1>4, <2>1 DEF Receive, Abstract!queueVars
<1>5. CASE InsertSucceeds \/ InsertFails
  <2>1. /\ SubSeq(pending, 1, Len(batch)) = batch
        /\ SubSeq(pending, Len(batch) + 1, Len(pending)) = logChannel
    BY <1>1, TakenApart
  <2>2. pending' = logChannel
    BY <1>1, <1>5, ConcatEmptySeq DEF InsertSucceeds, InsertFails
  <2>3. requestLogs' \in {requestLogs, requestLogs \o batch} /\ offered' = offered
    BY <1>5 DEF InsertSucceeds, InsertFails
  <2>4. Abstract!Flush(Len(batch))
    BY <2>1, <2>2, <2>3 DEF Abstract!Flush
  <2>5. Len(batch) \in 1..Len(pending)
    <3>1. batch # <<>>
      BY <1>5 DEF InsertSucceeds, InsertFails, TypeOK
    <3>2. Len(batch) # 0
      BY <1>1, <3>1
    <3>3. QED
      BY <1>1, <1>2, <3>2
  <2>6. QED
    BY <2>4, <2>5 DEF Abstract!QueueNext
<1>6. CASE Exit
  <2>1. pending' = <<>> /\ offered' = offered /\ requestLogs' = requestLogs
    BY <1>6, NothingYet, ConcatEmptySeq DEF Exit
  <2>2. QED
    BY <2>1 DEF Abstract!End, Abstract!QueueNext
<1>7. CASE Tick \/ FlushOnTick \/ UNCHANGED vars
  BY <1>7 DEF Tick, FlushOnTick, vars, Abstract!queueVars
<1>8. QED
  BY <1>3, <1>4, <1>5, <1>6, <1>7 DEF Next, Abstract!QueueNext

(* The logger implements LossyQueue: entries reach the table in the order in  *)
(* which they were queued, and what a failed insert loses is the front of the *)
(* queue.                                                                     *)
THEOREM QueueKept == Spec => IsLossyQueue
<1>1. Init => Abstract!QueueInit
  BY NothingYet, ConcatEmptySeq DEF Init, Abstract!QueueInit
<1>2. QED
  BY <1>1, StepOfQueue, LoggerTypeCorrect, PTL DEF Spec, IsLossyQueue, Abstract!QueueSpec

-----------------------------------------------------------------------------
(* The table and its rows, as the queries of the reports see them. *)

(* The reports leave the logger alone, so that all this holds beside them. *)
LEMMA ReportsOnlyRead ==
    /\ MCInit => Init
    /\ [MCNext]_<<vars, reportVars, present>> => [Next]_vars
BY DEF MCInit, AnalyticsInit, MCNext, AnalyticsNext

(* The logger beside the reports of internal/service/analytics.go is the      *)
(* logger: a query never changes the channel, the batch or the table.         *)
THEOREM LoggerBesideReports == MCSpec => Spec
BY ReportsOnlyRead, PTL DEF MCSpec, Spec

(* The logger's invariant while reports are made. *)
LEMMA TypedBesideReports == MCSpec => []TypeOK
BY LoggerBesideReports, LoggerTypeCorrect, PTL

(* The statistics of one key are ready after one query. *)
LEMMA OneQuery == GetAPIKeyStats => report' = "key stats" /\ UNCHANGED paging
BY Zenon DEF GetAPIKeyStats

(* The queries of a summary after the first come in their order and keep the  *)
(* total.                                                                     *)
LEMMA LaterQuery ==
    ASSUME Averages \/ CountClientErrors \/ CountServerErrors \/ GetTopEndpoints
    PROVE  /\ report \in {"averages", "client errors", "server errors", "top endpoints"}
           /\ total' = total
<1>1. CASE Averages
  BY <1>1, Zenon DEF Averages, counts
<1>2. CASE CountClientErrors
  BY <1>2, Zenon DEF CountClientErrors
<1>3. CASE CountServerErrors
  BY <1>3, Zenon DEF CountServerErrors
<1>4. CASE GetTopEndpoints
  BY <1>4, Zenon DEF GetTopEndpoints, counts
<1>5. QED
  BY <1>1, <1>2, <1>3, <1>4, Zenon

(* A sequence has finitely many entries. *)
LEMMA EntriesFinite ==
    ASSUME NEW S, NEW s \in Seq(S)
    PROVE  IsFiniteSet(Range(s)) /\ Range(s) \subseteq S
<1>1. Len(s) \in Nat /\ s \in [1..Len(s) -> S]
  BY LenProperties
<1>2. s \in Surjection(1..Len(s), Range(s)) /\ Range(s) \subseteq S
  BY <1>1 DEF Surjection, Range
<1>3. IsFiniteSet(1..Len(s))
  BY <1>1, FS_Interval
<1>4. QED
  BY <1>2, <1>3, FS_Surjection

(* So has the range that is asked about. *)
LEMMA RowsFinite ==
    ASSUME NEW s \in Seq(Requests)
    PROVE  IsFiniteSet(InRange(s)) /\ InRange(s) \subseteq Requests
<1>1. InRange(s) \subseteq Range(s)
  BY DEF InRange
<1>2. QED
  BY <1>1, EntriesFinite, FS_Subset

(* More rows, no smaller counts. *)
LEMMA CountsGrow ==
    ASSUME NEW A, NEW B, A \subseteq B, IsFiniteSet(B), NEW lo, NEW hi
    PROVE  /\ Cardinality(A) \in Nat /\ Cardinality(B) \in Nat
           /\ Cardinality(A) <= Cardinality(B)
           /\ Cardinality(WithStatus(A, lo, hi)) \in Nat
           /\ Cardinality(WithStatus(B, lo, hi)) \in Nat
           /\ Cardinality(WithStatus(A, lo, hi)) <= Cardinality(WithStatus(B, lo, hi))
<1>1. \A C \in SUBSET B : IsFiniteSet(C) /\ Cardinality(C) \in Nat
  BY FS_Subset, FS_CardinalityType
<1>2. WithStatus(B, lo, hi) \subseteq B /\ WithStatus(A, lo, hi) \subseteq WithStatus(B, lo, hi)
  BY DEF WithStatus
<1>3. IsFiniteSet(WithStatus(B, lo, hi))
  BY <1>1, <1>2
<1>4. Cardinality(WithStatus(A, lo, hi)) <= Cardinality(WithStatus(B, lo, hi))
  BY <1>2, <1>3, FS_Subset
<1>5. Cardinality(A) <= Cardinality(B)
  BY FS_Subset
<1>6. QED
  BY <1>1, <1>2, <1>4, <1>5

(* A prefix of the table holds some of its rows, and stays what it is when    *)
(* the table grows.                                                           *)
LEMMA PrefixStays ==
    ASSUME NEW s \in Seq(Requests), NEW t \in Seq(Requests), NEW k \in 0..Len(s)
    PROVE  /\ SubSeq(s, 1, k) \in Seq(Requests)
           /\ InRange(SubSeq(s, 1, k)) \subseteq InRange(s)
           /\ SubSeq(s \o t, 1, k) = SubSeq(s, 1, k)
           /\ k \in 0..Len(s \o t)
           /\ InRange(s) \subseteq InRange(s \o t)
<1>1. /\ Len(s) \in Nat /\ Len(t) \in Nat /\ DOMAIN s = 1..Len(s)
      /\ \A i \in 1..Len(s) : s[i] \in Requests
      /\ k \in Nat /\ k <= Len(s)
  BY LenProperties
<1>2. /\ s \o t \in Seq(Requests) /\ Len(s \o t) = Len(s) + Len(t)
      /\ Range(s \o t) = Range(s) \cup Range(t)
      /\ \A i \in 1..Len(s) : (s \o t)[i] = s[i]
  BY ConcatProperties, LenProperties, JoinedEntries
<1> DEFINE p == SubSeq(s, 1, k)
           q == SubSeq(s \o t, 1, k)
<1>3. p \in Seq(Requests) /\ Len(p) = k /\ \A i \in 1..k : p[i] = s[i]
  BY <1>1, SubSeqProperties
<1>4. q \in Seq(Requests) /\ Len(q) = k /\ \A i \in 1..k : q[i] = s[i]
  <2>1. \A i \in 1..k : (s \o t)[i] \in Requests /\ (s \o t)[i] = s[i]
    BY <1>1, <1>2
  <2>2. QED
    BY <1>1, <2>1, SubSeqProperties
<1> HIDE DEF p, q
<1>5. q = p
  BY <1>3, <1>4, SeqEqual
<1>6. Range(p) \subseteq Range(s)
  <2>1. DOMAIN p = 1..k
    BY <1>3, LenProperties
  <2>2. \A i \in 1..k : i \in DOMAIN s
    BY <1>1
  <2>3. QED
    BY <1>3, <2>1, <2>2 DEF Range
<1>7. k \in 0..Len(s \o t)
  BY <1>1, <1>2
<1>8. QED
  BY <1>2, <1>3, <1>5, <1>6, <1>7 DEF InRange, p, q

(* A step of the logger leaves the table or adds to it. *)
LEMMA TableGrows ==
    ASSUME TypeOK, [Next]_vars
    PROVE  \E t \in Seq(Requests) : requestLogs' = requestLogs \o t
<1>1. requestLogs' = requestLogs \/ requestLogs' = requestLogs \o batch
  BY DEF Next, vars, Queue, Skip, HandlerPanics, Receive, Tick, FlushOnTick,
    InsertSucceeds, InsertFails, Exit
<1>2. requestLogs \in Seq(Requests) /\ batch \in Seq(Requests)
  BY DEF TypeOK
<1>3. requestLogs \o <<>> = requestLogs
  BY <1>2, ConcatEmptySeq
<1>4. QED
  BY <1>1, <1>2, <1>3, NothingYet, Zenon

(* The orders that rows may come in: each row once. *)
LEMMA OrderOfRows ==
    ASSUME NEW S, IsFiniteSet(S), NEW s \in Orders(S)
    PROVE  /\ Cardinality(S) \in Nat
           /\ s \in [1..Cardinality(S) -> S]
           /\ s \in Seq(S) /\ Len(s) = Cardinality(S)
           /\ \A i, j \in 1..Cardinality(S) : s[i] = s[j] => i = j
           /\ \A x \in S : \E i \in 1..Cardinality(S) : s[i] = x
<1> DEFINE n == Cardinality(S)
<1>1. n \in Nat
  BY FS_CardinalityType
<1>2. s \in Bijection(1..n, S)
  BY DEF Orders
<1> HIDE DEF n
<1>3. /\ s \in [1..n -> S]
      /\ \A i, j \in 1..n : s[i] = s[j] => i = j
      /\ \A x \in S : \E i \in 1..n : s[i] = x
  BY <1>2 DEF Bijection, Injection, Surjection, IsInjective
<1>4. s \in Seq(S) /\ Len(s) = n
  BY <1>1, <1>3
<1>5. QED
  BY <1>1, <1>3, <1>4 DEF n

(* A stretch of an order holds as many rows as it is long. *)
LEMMA StretchSize ==
    ASSUME NEW s, NEW a \in Nat, NEW b \in Nat, a <= b,
           \A i, j \in (a + 1)..b : s[i] = s[j] => i = j,
           NEW T, \A x : x \in T <=> \E i \in (a + 1)..b : x = s[i]
    PROVE  Cardinality(T) = b - a
<1> DEFINE D == (a + 1)..b
           f == [i \in D |-> s[i]]
<1>1. \A i, j \in D : s[i] = s[j] => i = j
  OBVIOUS
<1>2. IsFiniteSet(D) /\ Cardinality(D) = b - a
  <2>1. a + 1 \in Int /\ b \in Int
    OBVIOUS
  <2>2. IsFiniteSet(D) /\ Cardinality(D) = IF a + 1 > b THEN 0 ELSE b - (a + 1) + 1
    BY <2>1, FS_Interval
  <2>3. QED
    BY <2>2
<1>3. f \in Injection(D, T) /\ f \in Surjection(D, T)
  <2>0. \A x : x \in T <=> \E i \in D : x = s[i]
    OBVIOUS
  <2> HIDE DEF D
  <2>1. f \in [D -> T] /\ \A i \in D : f[i] = s[i]
    BY <2>0
  <2> HIDE DEF f
  <2>2. QED
    BY <1>1, <2>0, <2>1 DEF Injection, Surjection, IsInjective
<1> HIDE DEF D, f
<1>4. Cardinality(T) = Cardinality(D)
  BY <1>2, <1>3, FS_Surjection
<1>5. QED
  BY <1>2, <1>4

(* The rows of an order of n whose places lie in a page. *)
PageOf(s, n, from, limit) == {s[i] : i \in {j \in 1..n : from < j /\ j <= from + limit}}

(* LIMIT and OFFSET take such rows, of one of the orders. *)
LEMMA PageOfOrder ==
    ASSUME NEW S, IsFiniteSet(S), NEW orders \in SUBSET Orders(S),
           NEW from \in Nat, NEW limit \in Nat, NEW page \in Pages(orders, from, limit)
    PROVE  \E s \in orders : page = PageOf(s, Cardinality(S), from, limit)
<1>1. PICK s \in orders : page = Range(SubSeq(s, from + 1, Min({from + limit, Len(s)})))
  BY Zenon DEF Pages
<1> DEFINE n == Cardinality(S)
           hi == Min({from + limit, Len(s)})
           p == SubSeq(s, from + 1, hi)
<1>2. n \in Nat /\ s \in [1..n -> S] /\ Len(s) = n
  BY OrderOfRows
<1>3. /\ hi \in Nat /\ hi <= from + limit /\ hi <= n
      /\ hi = from + limit \/ hi = n
  <2>1. \E x \in {from + limit, n} : \A y \in {from + limit, n} : x <= y
    <3> HIDE DEF n
    <3>1. CASE from + limit <= n
      BY <1>2, <3>1
    <3>2. CASE n <= from + limit
      BY <1>2, <3>2
    <3>3. QED
      BY <1>2, <3>1, <3>2
  <2>2. hi \in {from + limit, n} /\ \A y \in {from + limit, n} : hi <= y
    BY <1>2, <2>1 DEF Min
  <2>3. QED
    BY <1>2, <2>2
<1> HIDE DEF n, hi
<1>4. \A i \in (from + 1)..hi : s[i] \in S
  BY <1>2, <1>3
<1>5. /\ p \in Seq(S)
      /\ Len(p) = IF from + 1 <= hi THEN hi - (from + 1) + 1 ELSE 0
      /\ \A i \in 1..(hi - (from + 1) + 1) : p[i] = s[(from + 1) + i - 1]
  BY <1>3, <1>4, SubSeqProperties
<1> HIDE DEF p
<1>6. DOMAIN p = 1..Len(p) /\ Len(p) \in Nat
  BY <1>5, LenProperties
<1>7. \A i \in 1..Len(p) : from + i \in (from + 1)..hi /\ p[i] = s[from + i]
  <2>1. \A i \in 1..Len(p) : i \in 1..(hi - (from + 1) + 1) /\ (from + 1) + i - 1 = from + i
                              /\ from + i \in (from + 1)..hi
    BY <1>3, <1>5, <1>6
  <2>2. QED
    BY <1>5, <2>1
<1>8. \A j \in (from + 1)..hi : j - from \in 1..Len(p) /\ j = from + (j - from)
  BY <1>3, <1>5, <1>6
<1>9. Range(p) = {s[j] : j \in (from + 1)..hi}
  <2>1. \A x : x \in Range(p) <=> \E i \in 1..Len(p) : x = p[i]
    BY <1>6 DEF Range
  <2>2. ASSUME NEW x \in Range(p) PROVE \E j \in (from + 1)..hi : x = s[j]
    BY <1>7, <2>1
  <2>3. ASSUME NEW j \in (from + 1)..hi PROVE s[j] \in Range(p)
    <3>1. p[j - from] = s[from + (j - from)]
      BY <1>7, <1>8
    <3>2. QED
      BY <1>8, <2>1, <3>1
  <2>4. QED
    BY <2>2, <2>3
<1>10. (from + 1)..hi = {j \in 1..n : from < j /\ j <= from + limit}
  BY <1>2, <1>3
<1>11. page = Range(p)
  BY <1>1 DEF p, hi
<1>12. QED
  BY <1>9, <1>10, <1>11 DEF n, PageOf

(* So a page holds some of the rows. *)
LEMMA PageHoldsRows ==
    ASSUME NEW S, IsFiniteSet(S), NEW orders \in SUBSET Orders(S),
           NEW from \in Nat, NEW limit \in Nat, NEW page \in Pages(orders, from, limit)
    PROVE  page \subseteq S
<1>1. PICK s \in orders : page = PageOf(s, Cardinality(S), from, limit)
  BY PageOfOrder
<1>2. s \in [1..Cardinality(S) -> S]
  BY OrderOfRows
<1>3. QED
  BY <1>1, <1>2 DEF PageOf

-----------------------------------------------------------------------------
(* The summary. *)

(* The rows that were counted first, and a count between what it would have   *)
(* been then and what it would be now.                                        *)
Then(table, k) == InRange(SubSeq(table, 1, k))

ClientBetween(count, table, k) ==
    count \in Cardinality(WithStatus(Then(table, k), 400, 499))
              ..Cardinality(WithStatus(InRange(table), 400, 499))

ServerBetween(count, table, k) ==
    count \in Cardinality(WithStatus(Then(table, k), 500, 599))
              ..Cardinality(WithStatus(InRange(table), 500, 599))

CountedSince(k) ==
    /\ total = Cardinality(Then(requestLogs, k))
    /\ total > 0 /\ report \in {"server errors", "top endpoints", "summary"} =>
        ClientBetween(clientErrors, requestLogs, k)
    /\ total > 0 /\ report \in {"top endpoints", "summary"} =>
        ServerBetween(serverErrors, requestLogs, k)

InSummary ==
    report \in {"averages", "client errors", "server errors", "top endpoints", "summary"}

(* The inductive invariant: the counts made so far belong to one prefix of    *)
(* the table.                                                                 *)
SummaryInv ==
    /\ report = "key stats" => clientErrors + serverErrors <= total
    /\ InSummary => \E k \in 0..Len(requestLogs) : CountedSince(k)

(* What is counted of a prefix of the table is no more than of the table. *)
LEMMA PrefixCounts ==
    ASSUME TypeOK, NEW k \in 0..Len(requestLogs), NEW lo, NEW hi
    PROVE  /\ Cardinality(Then(requestLogs, k)) \in Nat
           /\ Cardinality(WithStatus(Then(requestLogs, k), lo, hi)) \in Nat
           /\ Cardinality(WithStatus(InRange(requestLogs), lo, hi)) \in Nat
           /\ Cardinality(WithStatus(Then(requestLogs, k), lo, hi))
                <= Cardinality(WithStatus(InRange(requestLogs), lo, hi))
<1>1. requestLogs \in Seq(Requests)
  BY DEF TypeOK
<1>2. Then(requestLogs, k) \subseteq InRange(requestLogs)
  BY <1>1, NothingYet, PrefixStays DEF Then
<1>3. IsFiniteSet(InRange(requestLogs))
  BY <1>1, RowsFinite
<1>4. QED
  BY <1>2, <1>3, CountsGrow

(* Entries inserted meanwhile leave the rows that were counted first, and     *)
(* only raise what there is to count now.                                     *)
LEMMA LoggerKeepsSummary ==
    ASSUME TypeOK, SummaryInv, [Next]_vars, UNCHANGED reportVars
    PROVE  SummaryInv'
<1>1. PICK t \in Seq(Requests) : requestLogs' = requestLogs \o t
  BY TableGrows
<1>2. requestLogs \in Seq(Requests) /\ requestLogs' \in Seq(Requests)
  BY NextTyped DEF TypeOK
<1>3. /\ report' = report /\ total' = total
      /\ clientErrors' = clientErrors /\ serverErrors' = serverErrors
  BY DEF reportVars, counts
<1>4. ASSUME InSummary PROVE \E k \in 0..Len(requestLogs') : CountedSince(k)'
  <2>1. PICK k \in 0..Len(requestLogs) : CountedSince(k)
    BY <1>4, Zenon DEF SummaryInv
  <2>2. /\ k \in 0..Len(requestLogs')
        /\ Then(requestLogs', k) = Then(requestLogs, k)
        /\ InRange(requestLogs) \subseteq InRange(requestLogs')
    BY <1>1, <1>2, PrefixStays, Zenon DEF Then
  <2>3. \A lo, hi : /\ Cardinality(WithStatus(Then(requestLogs, k), lo, hi)) \in Nat
                    /\ Cardinality(WithStatus(InRange(requestLogs), lo, hi)) \in Nat
                    /\ Cardinality(WithStatus(InRange(requestLogs'), lo, hi)) \in Nat
                    /\ Cardinality(WithStatus(InRange(requestLogs), lo, hi))
                        <= Cardinality(WithStatus(InRange(requestLogs'), lo, hi))
    BY <1>2, <2>2, PrefixCounts, RowsFinite, CountsGrow, Zenon
  <2>4. /\ \A n : ClientBetween(n, requestLogs, k) => ClientBetween(n, requestLogs', k)
        /\ \A n : ServerBetween(n, requestLogs, k) => ServerBetween(n, requestLogs', k)
    <3>1. \A n : ClientBetween(n, requestLogs, k) => ClientBetween(n, requestLogs', k)
      <4> DEFINE low == Cardinality(WithStatus(Then(requestLogs, k), 400, 499))
                 high == Cardinality(WithStatus(InRange(requestLogs), 400, 499))
                 higher == Cardinality(WithStatus(InRange(requestLogs'), 400, 499))
      <4>1. low \in Nat /\ high \in Nat /\ higher \in Nat /\ high <= higher
        BY <2>3
      <4>2. SUFFICES ASSUME NEW n, ClientBetween(n, requestLogs, k)
                     PROVE  ClientBetween(n, requestLogs', k)
        OBVIOUS
      <4>3. n \in low..high
        BY <4>2 DEF ClientBetween
      <4>4. n \in low..higher
        <5> HIDE DEF low, high, higher
        <5>1. QED
          BY <4>1, <4>3
      <4>5. QED
        BY <2>2, <4>4 DEF ClientBetween
    <3>2. \A n : ServerBetween(n, requestLogs, k) => ServerBetween(n, requestLogs', k)
      <4> DEFINE low == Cardinality(WithStatus(Then(requestLogs, k), 500, 599))
                 high == Cardinality(WithStatus(InRange(requestLogs), 500, 599))
                 higher == Cardinality(WithStatus(InRange(requestLogs'), 500, 599))
      <4>1. low \in Nat /\ high \in Nat /\ higher \in Nat /\ high <= higher
        BY <2>3
      <4>2. SUFFICES ASSUME NEW n, ServerBetween(n, requestLogs, k)
                     PROVE  ServerBetween(n, requestLogs', k)
        OBVIOUS
      <4>3. n \in low..high
        BY <4>2 DEF ServerBetween
      <4>4. n \in low..higher
        <5> HIDE DEF low, high, higher
        <5>1. QED
          BY <4>1, <4>3
      <4>5. QED
        BY <2>2, <4>4 DEF ServerBetween
    <3>3. QED
      BY <3>1, <3>2
  <2>5. CountedSince(k)'
    <3>1. total' = Cardinality(Then(requestLogs', k))
      BY <1>3, <2>1, <2>2, Zenon DEF CountedSince
    <3>2. total' > 0 /\ report' \in {"server errors", "top endpoints", "summary"} =>
            ClientBetween(clientErrors', requestLogs', k)
      BY <1>3, <2>1, <2>4, Zenon DEF CountedSince
    <3>3. total' > 0 /\ report' \in {"top endpoints", "summary"} =>
            ServerBetween(serverErrors', requestLogs', k)
      BY <1>3, <2>1, <2>4, Zenon DEF CountedSince
    <3>4. QED
      BY <3>1, <3>2, <3>3, Zenon DEF CountedSince
  <2>6. QED
    BY <2>2, <2>5
<1>5. QED
  BY <1>3, <1>4, Zenon DEF SummaryInv, InSummary

(* The rows of a page are of one status class or the other, or of neither. *)
LEMMA ErrorsAreRows ==
    ASSUME NEW rows, IsFiniteSet(rows)
    PROVE  Cardinality(WithStatus(rows, 400, 499)) + Cardinality(WithStatus(rows, 500, 599))
            <= Cardinality(rows)
<1> DEFINE A == WithStatus(rows, 400, 499)
           B == WithStatus(rows, 500, 599)
<1>1. A \subseteq rows /\ B \subseteq rows /\ A \cap B = {}
  BY DEF WithStatus
<1> HIDE DEF A, B
<1>2. IsFiniteSet(A) /\ IsFiniteSet(B) /\ A \cup B \in SUBSET rows
  BY <1>1, FS_Subset
<1>3. Cardinality(A \cup B) = Cardinality(A) + Cardinality(B) - Cardinality(A \cap B)
  BY <1>2, FS_Union
<1>4. Cardinality(A \cup B) <= Cardinality(rows)
  BY <1>2, FS_Subset
<1>5. Cardinality(A) \in Nat /\ Cardinality(B) \in Nat /\ Cardinality(A \cap B) = 0
  BY <1>1, <1>2, FS_CardinalityType, FS_EmptySet, Zenon
<1>6. Cardinality(A) + Cardinality(B) <= Cardinality(rows)
  BY <1>3, <1>4, <1>5
<1>7. QED
  BY <1>6 DEF A, B

(* The queries of the reports: the first fixes the prefix, the others count   *)
(* no less than was in it and no more than is there.                          *)
LEMMA ReportKeepsSummary ==
    ASSUME TypeOK, SummaryInv, Report, UNCHANGED vars
    PROVE  SummaryInv'
<1>1. requestLogs \in Seq(Requests) /\ requestLogs' = requestLogs
  BY DEF TypeOK, vars
<1>3. CASE CountByTimeRange
  <2>1. total' = Cardinality(InRange(requestLogs))
        /\ report' = IF total' = 0 THEN "summary" ELSE "averages"
    BY <1>3 DEF CountByTimeRange
  <2>2. Len(requestLogs) \in 0..Len(requestLogs) /\ Then(requestLogs, Len(requestLogs)) = InRange(requestLogs)
    <3>1. SubSeq(requestLogs, 1, Len(requestLogs)) = requestLogs /\ Len(requestLogs) \in Nat
      BY <1>1, LenProperties, SubSeqFull
    <3>2. Len(requestLogs) \in 0..Len(requestLogs)
      BY <3>1
    <3>3. Then(requestLogs, Len(requestLogs)) = InRange(requestLogs)
      BY <3>1, Zenon DEF Then
    <3>4. QED
      BY <3>2, <3>3
  <2>3. CountedSince(Len(requestLogs))'
    BY <1>1, <2>1, <2>2 DEF CountedSince
  <2>4. QED
    BY <1>1, <2>1, <2>2, <2>3, Zenon DEF SummaryInv
<1>4. CASE Averages \/ CountClientErrors \/ CountServerErrors \/ GetTopEndpoints
  <2>1. PICK k \in 0..Len(requestLogs) : CountedSince(k)
    BY <1>4, LaterQuery, Zenon DEF SummaryInv, InSummary
  <2>2. /\ ClientBetween(Cardinality(WithStatus(InRange(requestLogs), 400, 499)), requestLogs, k)
        /\ ServerBetween(Cardinality(WithStatus(InRange(requestLogs), 500, 599)), requestLogs, k)
    BY PrefixCounts DEF ClientBetween, ServerBetween
  <2>3. total' = total
    BY <1>4, LaterQuery, Zenon
  <2>4. total' = Cardinality(Then(requestLogs', k))
    BY <1>1, <2>1, <2>3, Zenon DEF CountedSince
  <2>5. /\ clientErrors' = clientErrors =>
            (ClientBetween(clientErrors, requestLogs, k) => ClientBetween(clientErrors', requestLogs', k))
        /\ serverErrors' = serverErrors =>
            (ServerBetween(serverErrors, requestLogs, k) => ServerBetween(serverErrors', requestLogs', k))
    BY <1>1
  <2>6. CountedSince(k)' /\ report' # "key stats"
    <3>1. CASE Averages
      <4>1. report' = "client errors"
        BY <3>1, Zenon DEF Averages
      <4>2. QED
        BY <2>4, <4>1, Zenon DEF CountedSince
    <3>2. CASE CountClientErrors
      <4>1. clientErrors' = Cardinality(WithStatus(InRange(requestLogs), 400, 499))
        BY <3>2, Zenon DEF CountClientErrors
      <4>2. ClientBetween(clientErrors', requestLogs', k)
        BY <1>1, <2>2, <4>1
      <4>3. QED
        BY <2>4, <3>2, <4>2, Zenon DEF CountClientErrors, CountedSince
    <3>3. CASE CountServerErrors
      <4>1. serverErrors' = Cardinality(WithStatus(InRange(requestLogs), 500, 599))
        BY <3>3, Zenon DEF CountServerErrors
      <4>2. ServerBetween(serverErrors', requestLogs', k)
        BY <1>1, <2>2, <4>1
      <4>3. clientErrors' = clientErrors /\ report = "server errors" /\ report' = "top endpoints"
        BY <3>3, Zenon DEF CountServerErrors
      <4>4. QED
        <5>1. total > 0 => ClientBetween(clientErrors, requestLogs, k)
          BY <2>1, <4>3, Zenon DEF CountedSince
        <5>2. total' > 0 => ClientBetween(clientErrors', requestLogs', k)
          BY <2>3, <2>5, <4>3, <5>1, Zenon
        <5>3. QED
          BY <2>4, <4>2, <4>3, <5>2, Zenon DEF CountedSince
    <3>4. CASE GetTopEndpoints
      <4>1. /\ clientErrors' = clientErrors /\ serverErrors' = serverErrors
            /\ report = "top endpoints" /\ report' = "summary"
        BY <3>4, Zenon DEF GetTopEndpoints, counts
      <4>2. QED
        <5>1. total > 0 => ClientBetween(clientErrors, requestLogs, k)
          BY <2>1, <4>1, Zenon DEF CountedSince
        <5>2. total > 0 => ServerBetween(serverErrors, requestLogs, k)
          BY <2>1, <4>1, Zenon DEF CountedSince
        <5>3. total' > 0 => ClientBetween(clientErrors', requestLogs', k)
          BY <2>3, <2>5, <4>1, <5>1, Zenon
        <5>4. total' > 0 => ServerBetween(serverErrors', requestLogs', k)
          BY <2>3, <2>5, <4>1, <5>2, Zenon
        <5>5. QED
          BY <2>4, <4>1, <5>3, <5>4, Zenon DEF CountedSince
    <3>5. QED
      BY <1>4, <3>1, <3>2, <3>3, <3>4, Zenon
  <2>7. QED
    BY <1>1, <2>6, Zenon DEF SummaryInv
<1>5. CASE GetAPIKeyStats
  <2> DEFINE rows == InRange(requestLogs) \cap WithKey
  <2>1. PICK logs \in FindByAPIKey :
            /\ total' = Cardinality(logs)
            /\ clientErrors' = Cardinality(WithStatus(logs, 400, 499))
            /\ serverErrors' = Cardinality(WithStatus(logs, 500, 599))
    BY <1>5, Zenon DEF GetAPIKeyStats
  <2>2. IsFiniteSet(rows)
    BY <1>1, RowsFinite, FS_Subset
  <2>3. NewestFirst(rows) \in SUBSET Orders(rows) /\ logs \in Pages(NewestFirst(rows), 0, KeyLimit)
    BY <2>1 DEF NewestFirst, FindByAPIKey
  <2> HIDE DEF rows
  <2>4. logs \subseteq rows
    BY <2>2, <2>3, PageHoldsRows, AnalyticsAssumption
  <2>5. IsFiniteSet(logs)
    BY <2>2, <2>4, FS_Subset
  <2>6. clientErrors' + serverErrors' <= total'
    BY <2>1, <2>5, ErrorsAreRows
  <2>7. report' = "key stats"
    BY <1>5, OneQuery, Zenon
  <2>8. QED
    BY <2>6, <2>7, Zenon DEF SummaryInv, InSummary
<1>6. CASE GetLogs \/ EndReport
  BY <1>6, Zenon DEF GetLogs, EndReport, SummaryInv, InSummary
<1>7. QED
  BY <1>3, <1>4, <1>5, <1>6 DEF Report

(* The counts of a finished summary hold of the table between the first query *)
(* and now, and the errors of one key's statistics do not exceed its total.   *)
THEOREM SummaryTrue == MCSpec => []SummaryBracketed
<1>1. MCInit => SummaryInv
  BY DEF MCInit, AnalyticsInit, ReportInit, SummaryInv, InSummary
<1>2. TypeOK /\ SummaryInv /\ [MCNext]_<<vars, reportVars, present>> => SummaryInv'
  <2>1. ASSUME TypeOK, SummaryInv, [MCNext]_<<vars, reportVars, present>>
        PROVE  \/ [Next]_vars /\ UNCHANGED reportVars
               \/ Report /\ UNCHANGED vars
    BY <2>1 DEF MCNext, AnalyticsNext
  <2>2. QED
    BY <2>1, LoggerKeepsSummary, ReportKeepsSummary
<1>3. SummaryInv => SummaryBracketed
  <2>1. ASSUME SummaryInv, report = "summary"
        PROVE  \E k \in 0..Len(requestLogs) :
                    /\ total = Cardinality(Then(requestLogs, k))
                    /\ total > 0 => ClientBetween(clientErrors, requestLogs, k)
                                    /\ ServerBetween(serverErrors, requestLogs, k)
    BY <2>1 DEF SummaryInv, InSummary, CountedSince
  <2>2. QED
    BY <2>1, Zenon DEF SummaryInv, SummaryBracketed, ClientBetween, ServerBetween, Then
<1>4. QED
  BY <1>1, <1>2, <1>3, TypedBesideReports, PTL DEF MCSpec

-----------------------------------------------------------------------------
(* Reading the log. *)

Newer(r, rows) == {s \in rows : Timestamp[s] > Timestamp[r]}

Alone(r) == \A s \in Requests \ {r} : Timestamp[s] # Timestamp[r]

(* The inductive invariant: an entry that was there at the beginning is still *)
(* there, and has been listed unless enough entries are newer than it to fill *)
(* the pages so far.                                                          *)
PagingInv ==
    /\ offset \in Nat
    /\ report = "none" => offset = 0
    /\ report \in {"paging", "log"} => present \subseteq InRange(requestLogs)
    /\ report = "paging" /\ ~filtered =>
        \A r \in present :
            Alone(r) => r \in listed \/ Cardinality(Newer(r, InRange(requestLogs))) >= offset
    /\ PagesSkipNothing

(* ORDER BY timestamp DESC puts a row after exactly the newer ones, when no   *)
(* other has its Timestamp.                                                   *)
LEMMA PlaceOfRow ==
    ASSUME NEW S \in SUBSET Requests, IsFiniteSet(S), NEW s \in NewestFirst(S),
           NEW i \in 1..Cardinality(S), Alone(s[i])
    PROVE  Cardinality(Newer(s[i], S)) = i - 1
<1> DEFINE n == Cardinality(S)
           r == s[i]
           front == {s[j] : j \in (0 + 1)..(i - 1)}
<1>1. /\ s \in Orders(S)
      /\ \A j, k \in DOMAIN s : j < k => Timestamp[s[j]] >= Timestamp[s[k]]
  BY DEF NewestFirst
<1>2. /\ n \in Nat /\ s \in [1..n -> S]
      /\ \A j, k \in 1..n : s[j] = s[k] => j = k
      /\ \A x \in S : \E j \in 1..n : s[j] = x
  BY <1>1, OrderOfRows
<1> HIDE DEF n
<1>3. i \in 1..n /\ r \in S
  BY <1>2 DEF n
<1>4. \A x \in S : Timestamp[x] \in Nat
  BY AnalyticsAssumption
<1>5. ASSUME NEW j \in (0 + 1)..(i - 1) PROVE s[j] \in Newer(r, S)
  <2>1. j \in 1..n /\ j < i /\ j # i
    BY <1>2, <1>3
  <2>2. s[j] \in S /\ s[j] # r /\ Timestamp[s[j]] >= Timestamp[r]
    BY <1>1, <1>2, <1>3, <2>1
  <2>3. Timestamp[s[j]] # Timestamp[r]
    BY <2>2 DEF Alone
  <2>4. Timestamp[s[j]] > Timestamp[r]
    BY <1>3, <1>4, <2>2, <2>3
  <2>5. QED
    BY <2>2, <2>4 DEF Newer
<1>6. ASSUME NEW x \in Newer(r, S) PROVE x \in front
  <2>1. x \in S /\ Timestamp[x] > Timestamp[r]
    BY DEF Newer
  <2>2. PICK j \in 1..n : s[j] = x
    BY <1>2, <2>1
  <2>3. ~(i < j)
    <3>1. i < j => Timestamp[r] >= Timestamp[x]
      BY <1>1, <1>2, <1>3, <2>2
    <3>2. QED
      BY <1>3, <1>4, <2>1, <3>1
  <2>4. j # i
    BY <1>3, <1>4, <2>1, <2>2
  <2>5. j \in (0 + 1)..(i - 1)
    BY <1>2, <1>3, <2>3, <2>4
  <2>6. QED
    BY <2>2, <2>5
<1>7. Newer(r, S) = front
  <2>1. \A x \in front : x \in Newer(r, S)
    BY <1>5
  <2> HIDE DEF front
  <2>2. QED
    BY <1>6, <2>1, Zenon
<1>8. Cardinality(front) = (i - 1) - 0
  <2>1. 0 \in Nat /\ i - 1 \in Nat /\ 0 <= i - 1 /\ i - 1 <= n
    BY <1>2, <1>3
  <2> DEFINE a == 0
             b == i - 1
  <2>2. a \in Nat /\ b \in Nat /\ a <= b /\ b <= n
    BY <2>1
  <2> HIDE DEF a, b
  <2>3. \A x : x \in front <=> \E j \in (a + 1)..b : x = s[j]
    BY DEF a, b
  <2> HIDE DEF front
  <2>4. \A j, k \in (a + 1)..b : s[j] = s[k] => j = k
    BY <1>2, <2>1 DEF a, b
  <2>5. Cardinality(front) = b - a
    BY <2>2, <2>3, <2>4, StretchSize, Zenon
  <2>6. QED
    BY <2>5 DEF a, b
<1>9. QED
  BY <1>3, <1>7, <1>8

(* A row that as many newer ones precede as fill the pages so far is on the   *)
(* next page, or that page is full of newer ones too.                         *)
LEMMA NextPage ==
    ASSUME NEW S \in SUBSET Requests, IsFiniteSet(S), NEW from \in Nat,
           NEW page \in Pages(NewestFirst(S), from, PageLimit),
           NEW r \in S, Alone(r), r \notin page, Cardinality(Newer(r, S)) >= from
    PROVE  /\ Cardinality(Newer(r, S)) >= from + PageLimit
           /\ Cardinality(page) = PageLimit
<1> DEFINE n == Cardinality(S)
           orders == NewestFirst(S)
<1>1. PageLimit \in Nat /\ orders \in SUBSET Orders(S)
  BY AnalyticsAssumption DEF NewestFirst
<1>2. PICK s \in orders : page = PageOf(s, n, from, PageLimit)
  BY <1>1, PageOfOrder
<1>3. /\ n \in Nat /\ s \in [1..n -> S]
      /\ \A j, k \in 1..n : s[j] = s[k] => j = k
      /\ \A x \in S : \E j \in 1..n : s[j] = x
  <2>1. s \in Orders(S)
    BY <1>1, Zenon
  <2>2. QED
    BY <2>1, OrderOfRows
<1>4. PICK i \in 1..n : s[i] = r
  BY <1>3
<1>5. Cardinality(Newer(r, S)) = i - 1
  BY <1>4, PlaceOfRow
<1> HIDE DEF n
<1>6. i > from
  BY <1>3, <1>4, <1>5
<1>7. ~(i <= from + PageLimit)
  BY <1>2, <1>4, <1>6 DEF PageOf
<1>8. Cardinality(Newer(r, S)) >= from + PageLimit
  BY <1>1, <1>3, <1>4, <1>5, <1>7
<1>9. {j \in 1..n : from < j /\ j <= from + PageLimit} = (from + 1)..(from + PageLimit)
  BY <1>1, <1>3, <1>4, <1>7
<1>10. Cardinality(page) = (from + PageLimit) - from
  <2>1. /\ from + PageLimit \in Nat /\ from <= from + PageLimit
        /\ from + PageLimit <= n
    BY <1>1, <1>3, <1>4, <1>7
  <2> DEFINE b == from + PageLimit
  <2>2. b \in Nat /\ from <= b /\ b <= n
    BY <2>1
  <2> HIDE DEF b
  <2>3. \A x : x \in page <=> \E j \in (from + 1)..b : x = s[j]
    BY <1>2, <1>9 DEF b, PageOf
  <2>4. \A j, k \in (from + 1)..b : s[j] = s[k] => j = k
    BY <1>3, <2>2
  <2>5. Cardinality(page) = b - from
    BY <2>2, <2>3, <2>4, StretchSize
  <2>6. QED
    BY <2>5 DEF b
<1>11. QED
  BY <1>1, <1>8, <1>10

(* Entries inserted between two pages only add to the newer ones. *)
LEMMA LoggerKeepsPages ==
    ASSUME TypeOK, PagingInv, [Next]_vars, UNCHANGED reportVars,
           present' = IF report' \notin {"paging", "log"} THEN {}
                      ELSE IF report = "none" THEN InRange(requestLogs)
                      ELSE present
    PROVE  PagingInv'
<1>1. PICK t \in Seq(Requests) : requestLogs' = requestLogs \o t
  BY TableGrows
<1>2. requestLogs \in Seq(Requests) /\ requestLogs' \in Seq(Requests)
  BY NextTyped DEF TypeOK
<1>3. /\ report' = report /\ filtered' = filtered
      /\ offset' = offset /\ listed' = listed
  BY DEF reportVars, paging
<1>4. 0 \in 0..Len(requestLogs)
  BY <1>2, LenProperties
<1>5. InRange(requestLogs) \subseteq InRange(requestLogs')
  BY <1>1, <1>2, <1>4, PrefixStays
<1>6. report \in {"paging", "log"} => present' = present
  BY <1>3
<1>7. ASSUME NEW r
      PROVE  /\ Cardinality(Newer(r, InRange(requestLogs))) \in Nat
             /\ Cardinality(Newer(r, InRange(requestLogs'))) \in Nat
             /\ Cardinality(Newer(r, InRange(requestLogs)))
                    <= Cardinality(Newer(r, InRange(requestLogs')))
  <2>1. /\ Newer(r, InRange(requestLogs')) \subseteq InRange(requestLogs')
        /\ Newer(r, InRange(requestLogs)) \subseteq Newer(r, InRange(requestLogs'))
    BY <1>5 DEF Newer
  <2>2. IsFiniteSet(Newer(r, InRange(requestLogs')))
    BY <1>2, <2>1, RowsFinite, FS_Subset
  <2>3. QED
    BY <2>1, <2>2, CountsGrow, Zenon
<1>8. offset \in Nat /\ (report = "none" => offset = 0)
  BY DEF PagingInv
<1>9. report' \in {"paging", "log"} => present' \subseteq InRange(requestLogs')
  BY <1>3, <1>5, <1>6 DEF PagingInv
<1>10. ASSUME report = "paging", ~filtered, NEW r \in present, Alone(r), r \notin listed
       PROVE  Cardinality(Newer(r, InRange(requestLogs'))) >= offset
  <2>1. Cardinality(Newer(r, InRange(requestLogs))) >= offset
    BY <1>10 DEF PagingInv
  <2>2. QED
    BY <1>7, <1>8, <2>1
<1>11. report' = "paging" /\ ~filtered' =>
        \A r \in present' : Alone(r) =>
            r \in listed' \/ Cardinality(Newer(r, InRange(requestLogs'))) >= offset'
  BY <1>3, <1>6, <1>10
<1>12. PagesSkipNothing'
  BY <1>3, <1>6 DEF PagingInv, PagesSkipNothing
<1>13. QED
  BY <1>3, <1>8, <1>9, <1>11, <1>12 DEF PagingInv

(* A page that is asked for goes on where the last one ended. *)
LEMMA GetLogsKeepsPages ==
    ASSUME TypeOK, PagingInv, GetLogs, UNCHANGED vars,
           present' = IF report' \notin {"paging", "log"} THEN {}
                      ELSE IF report = "none" THEN InRange(requestLogs)
                      ELSE present
    PROVE  PagingInv'
<1> DEFINE rows == InRange(requestLogs)
<1>1. requestLogs \in Seq(Requests) /\ requestLogs' = requestLogs
  BY DEF TypeOK, vars
<1>2. rows \in SUBSET Requests /\ IsFiniteSet(rows)
  BY <1>1, RowsFinite
<1>3. /\ report \in {"none", "paging"} /\ report' \in {"log", "paging"}
      /\ offset' = offset + PageLimit
      /\ report = "paging" => filtered' = filtered
  BY DEF GetLogs
<1>4. PageLimit \in Nat /\ offset \in Nat /\ (report = "none" => offset = 0)
  BY AnalyticsAssumption DEF PagingInv
<1>5. present' \subseteq rows /\ (report = "paging" => present' = present)
  BY <1>3 DEF PagingInv
<1>6. ASSUME ~filtered', NEW r \in present', Alone(r), r \notin listed'
      PROVE  report' = "paging" /\ Cardinality(Newer(r, rows)) >= offset'
  <2>1. PICK page \in Pages(NewestFirst(rows), offset, PageLimit) :
            /\ listed' = listed \cup page
            /\ report' = IF Cardinality(page) < PageLimit THEN "log" ELSE "paging"
    BY <1>6 DEF GetLogs, FindByTimeRange
  <2>2. r \in rows /\ r \notin page /\ r \notin listed
    BY <1>5, <1>6, <2>1
  <2>3. Cardinality(Newer(r, rows)) >= offset
    <3>1. CASE report = "none"
      <4>1. Newer(r, rows) \subseteq rows
        BY DEF Newer
      <4>2. Cardinality(Newer(r, rows)) \in Nat
        BY <1>2, <4>1, FS_Subset, FS_CardinalityType
      <4>3. QED
        BY <1>4, <3>1, <4>2
    <3>2. CASE report = "paging"
      BY <1>3, <1>5, <1>6, <2>2, <3>2 DEF PagingInv
    <3>3. QED
      BY <1>3, <3>1, <3>2
  <2> HIDE DEF rows
  <2>4. /\ Cardinality(Newer(r, rows)) >= offset + PageLimit
        /\ Cardinality(page) = PageLimit
    BY <1>2, <1>4, <1>6, <2>1, <2>2, <2>3, NextPage
  <2>5. ~(Cardinality(page) < PageLimit)
    BY <1>4, <2>4
  <2>6. QED
    BY <1>3, <2>1, <2>4, <2>5
<1>7. offset' \in Nat /\ report' # "none"
  BY <1>3, <1>4
<1>8. PagesSkipNothing'
  BY <1>6 DEF PagesSkipNothing, Alone
<1>9. QED
  BY <1>1, <1>5, <1>6, <1>7, <1>8 DEF PagingInv

(* The other reports list nothing, and the last answer ends the reading. *)
LEMMA OthersKeepPages ==
    ASSUME TypeOK, PagingInv, Report, ~GetLogs, UNCHANGED vars,
           present' = IF report' \notin {"paging", "log"} THEN {}
                      ELSE IF report = "none" THEN InRange(requestLogs)
                      ELSE present
    PROVE  PagingInv'
<1>1. /\ report' \in {"none", "averages", "client errors", "server errors",
                       "top endpoints", "summary", "key stats"}
      /\ report' = "none" => offset' = 0
      /\ report' # "none" => offset' = offset
  <2>1. CASE EndReport
    BY <2>1 DEF EndReport
  <2>2. CASE CountByTimeRange
    BY <2>2 DEF CountByTimeRange, paging
  <2>3. CASE Averages \/ GetTopEndpoints
    BY <2>3, Zenon DEF Averages, GetTopEndpoints, paging
  <2>4. CASE CountClientErrors
    BY <2>4, Zenon DEF CountClientErrors, paging
  <2>5. CASE CountServerErrors
    BY <2>5, Zenon DEF CountServerErrors, paging
  <2>6. CASE GetAPIKeyStats
    BY <2>6, OneQuery, Zenon DEF paging
  <2>7. QED
    BY <2>1, <2>2, <2>3, <2>4, <2>5, <2>6, Zenon DEF Report
<1>2. report' \notin {"paging", "log"}
  BY <1>1, Zenon
<1>3. offset' \in Nat /\ (report' = "none" => offset' = 0)
  <2>1. offset \in Nat
    BY DEF PagingInv
  <2>2. offset' = 0 \/ offset' = offset
    BY <1>1, Zenon
  <2>3. offset' \in Nat
    BY <2>1, <2>2
  <2>4. QED
    BY <1>1, <2>3, Zenon
<1>4. QED
  BY <1>2, <1>3 DEF PagingInv, PagesSkipNothing

(* A client that reads the log by pages misses no entry that was there when   *)
(* it began, unless another has the entry's Timestamp.                        *)
THEOREM PagesComplete == MCSpec => []PagesSkipNothing
<1>1. MCInit => PagingInv
  BY DEF MCInit, AnalyticsInit, ReportInit, PagingInv, PagesSkipNothing
<1>2. TypeOK /\ PagingInv /\ [MCNext]_<<vars, reportVars, present>> => PagingInv'
  <2> SUFFICES ASSUME TypeOK, PagingInv, [MCNext]_<<vars, reportVars, present>>
               PROVE  PagingInv'
    OBVIOUS
  <2>1. CASE MCNext
    <3>1. present' = IF report' \notin {"paging", "log"} THEN {}
                     ELSE IF report = "none" THEN InRange(requestLogs)
                     ELSE present
      BY <2>1 DEF MCNext
    <3>2. \/ [Next]_vars /\ UNCHANGED reportVars
          \/ Report /\ UNCHANGED vars
      BY <2>1 DEF MCNext, AnalyticsNext
    <3>3. QED
      BY <3>1, <3>2, LoggerKeepsPages, GetLogsKeepsPages, OthersKeepPages
  <2>2. CASE UNCHANGED <<vars, reportVars, present>>
    <3>1. /\ report' = report /\ filtered' = filtered /\ offset' = offset
          /\ listed' = listed /\ present' = present /\ requestLogs' = requestLogs
      BY <2>2 DEF vars, reportVars, paging
    <3>2. QED
      BY <3>1 DEF PagingInv, PagesSkipNothing
  <2>3. QED
    BY <2>1, <2>2
<1>3. PagingInv => PagesSkipNothing
  BY DEF PagingInv
<1>4. QED
  BY <1>1, <1>2, <1>3, TypedBesideReports, PTL DEF MCSpec
=============================================================================

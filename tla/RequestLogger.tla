---------------------------- MODULE RequestLogger ----------------------------
(***************************************************************************)
(* The request logger of internal/middleware: handlers put an entry on a   *)
(* buffered channel when they are done, or skip it when the channel is     *)
(* full; one worker collects entries into a batch and inserts it when it   *)
(* is full or at a tick.  The worker receives nothing while it inserts.    *)
(* A request stands for its log entry.                                     *)
(***************************************************************************)
EXTENDS Naturals, Sequences, Functions

CONSTANTS
    Requests,
    BufferSize,   \* capacity of logChannel: 1000 in server.New
    BatchSize     \* length at which a batch is inserted: 100

ASSUME LoggerAssumption == BufferSize \in Nat \ {0} /\ BatchSize \in Nat \ {0}

VARIABLES
    pc,           \* the middleware of each request
    logChannel,
    batch,
    worker,       \* at its select, in insertBatch, or gone with the process
    ticked,       \* a tick waits in ticker.C
    requestLogs,  \* the table
    reported      \* entries given up with a message on stderr

vars == <<pc, logChannel, batch, worker, ticked, requestLogs, reported>>

Init ==
    /\ pc = [r \in Requests |-> "handling"]
    /\ logChannel = <<>>
    /\ batch = <<>>
    /\ worker = "select"
    /\ ticked = FALSE
    /\ requestLogs = <<>>
    /\ reported = {}

-----------------------------------------------------------------------------
(* RequestLogger, once c.Next has returned: a send that never blocks. *)

(* Fault: the message is left out. *)
SkipUnreported(r) ==
    /\ worker # "gone"
    /\ pc[r] = "handling"
    /\ Len(logChannel) >= BufferSize
    /\ pc' = [pc EXCEPT ![r] = "logged"]
    /\ UNCHANGED <<logChannel, batch, worker, ticked, requestLogs, reported>>

Queue(r) ==
    /\ worker # "gone"
    /\ pc[r] = "handling"
    /\ Len(logChannel) < BufferSize
    /\ logChannel' = Append(logChannel, r)
    /\ pc' = [pc EXCEPT ![r] = "logged"]
    /\ UNCHANGED <<batch, worker, ticked, requestLogs, reported>>

Skip(r) ==
    /\ worker # "gone"
    /\ pc[r] = "handling"
    /\ Len(logChannel) >= BufferSize
    /\ reported' = reported \cup {r}
    /\ pc' = [pc EXCEPT ![r] = "logged"]
    /\ UNCHANGED <<logChannel, batch, worker, ticked, requestLogs>>

(* c.Next panics: Recovery, registered before RequestLogger, answers, and the *)
(* rest of RequestLogger does not run.                                        *)
HandlerPanics(r) ==
    /\ worker # "gone"
    /\ pc[r] = "handling"
    /\ pc' = [pc EXCEPT ![r] = "recovered"]
    /\ UNCHANGED <<logChannel, batch, worker, ticked, requestLogs, reported>>

-----------------------------------------------------------------------------
(* The worker. *)

(* Fault: the batch is prepended to. *)
ReceiveInFront ==
    /\ worker = "select"
    /\ logChannel # <<>>
    /\ batch' = <<Head(logChannel)>> \o batch
    /\ logChannel' = Tail(logChannel)
    /\ worker' = IF Len(batch') >= BatchSize THEN "insert" ELSE "select"
    /\ UNCHANGED <<pc, ticked, requestLogs, reported>>

(* Fault: the batch is inserted when it is longer than its capacity. *)
ReceiveOneMore ==
    /\ worker = "select"
    /\ logChannel # <<>>
    /\ batch' = Append(batch, Head(logChannel))
    /\ logChannel' = Tail(logChannel)
    /\ worker' = IF Len(batch') > BatchSize THEN "insert" ELSE "select"
    /\ UNCHANGED <<pc, ticked, requestLogs, reported>>

Receive ==
    /\ worker = "select"
    /\ logChannel # <<>>
    /\ batch' = Append(batch, Head(logChannel))
    /\ logChannel' = Tail(logChannel)
    /\ worker' = IF Len(batch') >= BatchSize THEN "insert" ELSE "select"
    /\ UNCHANGED <<pc, ticked, requestLogs, reported>>

Tick ==
    /\ worker # "gone"
    /\ ticked' = TRUE
    /\ UNCHANGED <<pc, logChannel, batch, worker, requestLogs, reported>>

(* Fault: a tick only inserts a full batch. *)
FlushFullOnly ==
    /\ worker = "select"
    /\ ticked
    /\ ticked' = FALSE
    /\ worker' = IF Len(batch) >= BatchSize THEN "insert" ELSE "select"
    /\ UNCHANGED <<pc, logChannel, batch, requestLogs, reported>>

FlushOnTick ==
    /\ worker = "select"
    /\ ticked
    /\ ticked' = FALSE
    /\ worker' = IF batch # <<>> THEN "insert" ELSE "select"
    /\ UNCHANGED <<pc, logChannel, batch, requestLogs, reported>>

(* insertBatch is one INSERT: all of the batch is in the table or none is. *)
InsertSucceeds ==
    /\ worker = "insert"
    /\ requestLogs' = requestLogs \o batch
    /\ batch' = <<>>
    /\ worker' = "select"
    /\ UNCHANGED <<pc, logChannel, ticked, reported>>

(* Create returns an error: the statement failed, or it took effect and the    *)
(* connection was lost before the database's answer came.  Either way the      *)
(* batch is reported and dropped.                                              *)
InsertFails ==
    /\ worker = "insert"
    /\ requestLogs' \in {requestLogs, requestLogs \o batch}
    /\ reported' = reported \cup Range(batch)
    /\ batch' = <<>>
    /\ worker' = "select"
    /\ UNCHANGED <<pc, logChannel, ticked>>

(* main returns or log.Fatal ends the process: nothing drains the channel. *)
Exit ==
    /\ worker # "gone"
    /\ worker' = "gone"
    /\ logChannel' = <<>>
    /\ batch' = <<>>
    /\ UNCHANGED <<pc, ticked, requestLogs, reported>>

Next ==
    \/ \E r \in Requests : Queue(r) \/ Skip(r) \/ HandlerPanics(r)
    \/ Receive \/ Tick \/ FlushOnTick
    \/ InsertSucceeds \/ InsertFails
    \/ Exit

Spec == Init /\ [][Next]_vars

(* The ticker ticks and every insert ends; select chooses at random among the *)
(* ready branches, so neither is passed over for ever.                        *)
Fairness ==
    /\ SF_vars(Receive)
    /\ WF_vars(Tick)
    /\ SF_vars(FlushOnTick)
    /\ WF_vars(InsertSucceeds \/ InsertFails)

FairSpec == Spec /\ Fairness

-----------------------------------------------------------------------------
(* Type invariant.  The batch never outgrows the capacity it is made with,   *)
(* and insertBatch is never called with an empty one.                        *)
TypeOK ==
    /\ pc \in [Requests -> {"handling", "logged", "recovered"}]
    /\ logChannel \in Seq(Requests) /\ Len(logChannel) <= BufferSize
    /\ batch \in Seq(Requests) /\ Len(batch) <= BatchSize
    /\ worker \in {"select", "insert", "gone"}
    /\ worker = "insert" => batch # <<>>
    /\ worker = "select" => Len(batch) < BatchSize
    /\ ticked \in BOOLEAN
    /\ requestLogs \in Seq(Requests)
    /\ reported \subseteq Requests

(* Every entry on its way, in order: the table, the batch, the channel. *)
Kept == requestLogs \o batch \o logChannel

(* While the process lives no entry that RequestLogger got to is lost        *)
(* without a message or written twice, whether the channel was full, the     *)
(* insert failed, or a tick came just as the batch filled up.  A reported    *)
(* entry may be in the table, when the answer to its INSERT was lost, but    *)
(* none that is still on its way was reported: no batch is tried again.      *)
NoSilentLoss ==
    /\ IsInjective(Kept)
    /\ Range(batch \o logChannel) \cap reported = {}
    /\ worker # "gone" =>
        {r \in Requests : pc[r] = "logged"} = Range(Kept) \cup reported

(* Seen from outside, batch and channel are one bounded queue in front of    *)
(* the table: entries are inserted in the order they were queued in, and a   *)
(* failed insert loses at most a run of entries at the front, no others.     *)
Abstract == INSTANCE LossyQueue WITH
    Entries <- Requests, Capacity <- BufferSize + BatchSize,
    offered <- {r \in Requests : pc[r] # "handling"},
    pending <- batch \o logChannel,
    table <- requestLogs

IsLossyQueue == Abstract!QueueSpec

(* A queued entry does not wait for others to fill its batch: it is inserted *)
(* or reported, unless the process ends first.                               *)
QueuedIsFlushed ==
    \A r \in Requests :
        r \in Range(batch \o logChannel) ~>
            r \in Range(requestLogs) \cup reported \/ worker = "gone"
=============================================================================

----------------------------- MODULE LossyQueue -----------------------------
(***************************************************************************)
(* What the request logger promises of the entries handed to it: a bounded *)
(* first-in first-out queue in front of a table.  An entry is accepted or  *)
(* given up at once; accepted entries reach the table in order, several at *)
(* a time, each once; a group is written as a whole or given up as a       *)
(* whole, and the queue is lost when the process ends.                     *)
(***************************************************************************)
EXTENDS Naturals, Sequences

CONSTANTS Entries, Capacity

VARIABLES offered, pending, table

queueVars == <<offered, pending, table>>

QueueInit ==
    /\ offered = {}
    /\ pending = <<>>
    /\ table = <<>>

Offer(e) ==
    /\ e \notin offered
    /\ offered' = offered \cup {e}
    /\ \/ Len(pending) < Capacity /\ pending' = Append(pending, e)
       \/ UNCHANGED pending
    /\ UNCHANGED table

(* The first n entries leave the queue, for the table or for good. *)
Flush(n) ==
    /\ pending' = SubSeq(pending, n + 1, Len(pending))
    /\ table' \in {table, table \o SubSeq(pending, 1, n)}
    /\ UNCHANGED offered

End == pending' = <<>> /\ UNCHANGED <<offered, table>>

QueueNext ==
    \/ \E e \in Entries : Offer(e)
    \/ \E n \in 1..Len(pending) : Flush(n)
    \/ End

QueueSpec == QueueInit /\ [][QueueNext]_queueVars
=============================================================================

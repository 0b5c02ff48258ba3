------------------------------ MODULE Analytics ------------------------------
(***************************************************************************)
(* The reports of internal/service/analytics.go on the table that the      *)
(* request logger fills.  A report is one or more queries by an            *)
(* administrator's request; every query sees the table as it is at that    *)
(* moment, and the worker inserts batches between any two of them.         *)
(*                                                                         *)
(* An entry's Timestamp is when its request came in, not when the entry    *)
(* was inserted, and two entries may have the same.                        *)
(* Averages, percentiles and the most frequent paths are queried, but what *)
(* they come to is left out, as is the one query of the time series.       *)
(***************************************************************************)
EXTENDS RequestLogger, FiniteSetsExt

CONSTANTS
    Timestamp, StatusCode,   \* of each entry
    WithKey,      \* entries with the API key that is asked about
    From, To,     \* the time range that is asked about
    KeyLimit,     \* the 10000 entries that GetAPIKeyStats reads at most
    PageLimit     \* the limit that a client asks for the log with

ASSUME AnalyticsAssumption ==
    /\ Timestamp \in [Requests -> Nat] /\ From \in Nat /\ To \in Nat
    /\ StatusCode \in [Requests -> 100..599]
    /\ WithKey \subseteq Requests
    /\ KeyLimit \in Nat \ {0} /\ PageLimit \in Nat \ {0}

VARIABLES
    report,                             \* the query a report is at, or what is ready
    total, clientErrors, serverErrors,  \* the counts its rates are made of
    filtered, offset, listed            \* reading the log: what the pages so far held

counts == <<total, clientErrors, serverErrors>>
paging == <<filtered, offset, listed>>
reportVars == <<report, counts, paging>>

ReportInit ==
    /\ report = "none"
    /\ total = 0 /\ clientErrors = 0 /\ serverErrors = 0
    /\ filtered = FALSE /\ offset = 0 /\ listed = {}

(* The rows WHERE timestamp BETWEEN from AND to. *)
InRange(table) == {r \in Range(table) : Timestamp[r] \in From..To}
WithStatus(rows, lo, hi) == {r \in rows : StatusCode[r] \in lo..hi}

(* The orders that the database may give rows in: each row once. *)
Orders(rows) == Bijection(1..Cardinality(rows), rows)

(* ORDER BY timestamp DESC: entries with one Timestamp come in any order. *)
NewestFirst(rows) ==
    {s \in Orders(rows) :
        \A i, j \in DOMAIN s : i < j => Timestamp[s[i]] >= Timestamp[s[j]]}

(* LIMIT limit OFFSET from, of rows in one of the given orders *)
Pages(orders, from, limit) ==
    {Range(SubSeq(s, from + 1, Min({from + limit, Len(s)}))) : s \in orders}

(* A query fails and the report with it, or the answer has been sent. *)
EndReport ==
    /\ report # "none"
    /\ report' = "none"
    /\ total' = 0 /\ clientErrors' = 0 /\ serverErrors' = 0
    /\ filtered' = FALSE /\ offset' = 0 /\ listed' = {}

-----------------------------------------------------------------------------
(* GetSummary *)

(* An empty range is answered at once. *)
CountByTimeRange ==
    /\ report = "none"
    /\ total' = Cardinality(InRange(requestLogs))
    /\ report' = IF total' = 0 THEN "summary" ELSE "averages"
    /\ UNCHANGED <<clientErrors, serverErrors, paging>>

(* GetAverageResponseTime and the percentiles, whose errors are ignored. *)
Averages ==
    /\ report = "averages"
    /\ report' = "client errors"
    /\ UNCHANGED <<counts, paging>>

CountClientErrors ==
    /\ report = "client errors"
    /\ clientErrors' = Cardinality(WithStatus(InRange(requestLogs), 400, 499))
    /\ report' = "server errors"
    /\ UNCHANGED <<total, serverErrors, paging>>

(* Fault: the second count begins where the first one does. *)
CountAllErrors ==
    /\ report = "server errors"
    /\ serverErrors' = Cardinality(WithStatus(InRange(requestLogs), 400, 599))
    /\ report' = "top endpoints"
    /\ UNCHANGED <<total, clientErrors, paging>>

CountServerErrors ==
    /\ report = "server errors"
    /\ serverErrors' = Cardinality(WithStatus(InRange(requestLogs), 500, 599))
    /\ report' = "top endpoints"
    /\ UNCHANGED <<total, clientErrors, paging>>

GetTopEndpoints ==
    /\ report = "top endpoints"
    /\ report' = "summary"
    /\ UNCHANGED <<counts, paging>>

-----------------------------------------------------------------------------
(* GetAPIKeyStats: one query, and the counts are made from its rows. *)

FindByAPIKey == Pages(NewestFirst(InRange(requestLogs) \cap WithKey), 0, KeyLimit)

GetAPIKeyStats ==
    /\ report = "none"
    /\ \E logs \in FindByAPIKey :
        /\ total' = Cardinality(logs)
        /\ clientErrors' = Cardinality(WithStatus(logs, 400, 499))
        /\ serverErrors' = Cardinality(WithStatus(logs, 500, 599))
    /\ report' = "key stats"
    /\ UNCHANGED paging

-----------------------------------------------------------------------------
(* GetLogs: a client asks for one page after the other until one is not full. *)

(* Fault: no ORDER BY. *)
FindByTimeRangeUnordered(from) ==
    Pages(Orders(InRange(requestLogs)), from, PageLimit)

FindByTimeRange(from) == Pages(NewestFirst(InRange(requestLogs)), from, PageLimit)

(* There is no ORDER BY here, so the rows may come in any order.  The filter of *)
(* the model's client is the status 200.                                        *)
FindByStatusCode(from) ==
    Pages(Orders(WithStatus(InRange(requestLogs), 200, 200)), from, PageLimit)

GetLogs ==
    /\ report \in {"none", "paging"}
    /\ filtered' \in IF report = "none" THEN BOOLEAN ELSE {filtered}
    /\ \E page \in IF filtered' THEN FindByStatusCode(offset) ELSE FindByTimeRange(offset) :
        /\ listed' = listed \cup page
        /\ report' = IF Cardinality(page) < PageLimit THEN "log" ELSE "paging"
    /\ offset' = offset + PageLimit
    /\ UNCHANGED counts

-----------------------------------------------------------------------------
Report ==
    \/ CountByTimeRange \/ Averages \/ CountClientErrors \/ CountServerErrors
    \/ GetTopEndpoints
    \/ GetAPIKeyStats
    \/ GetLogs
    \/ EndReport

AnalyticsInit == Init /\ ReportInit

AnalyticsNext ==
    \/ Next /\ UNCHANGED reportVars
    \/ worker # "gone" /\ Report /\ UNCHANGED vars

(* The reports only read: fairness is the logger's. *)
AnalyticsSpec == AnalyticsInit /\ [][AnalyticsNext]_<<vars, reportVars>> /\ Fairness

-----------------------------------------------------------------------------
(* The counts of a summary are each true of the table at some moment between  *)
(* the first query and now, in the order of the queries: no error that was    *)
(* there when the total was counted is missed, and none is counted twice.  So *)
(* if no entry in the range was inserted meanwhile the rates are exact, and   *)
(* only then is ErrorRate sure not to exceed 100.  The statistics of one key  *)
(* come from one query: their rates are percentages in any case.              *)
SummaryBracketed ==
    /\ report = "key stats" => clientErrors + serverErrors <= total
    /\ report = "summary" =>
        \E k \in 0..Len(requestLogs) :
            LET then == InRange(SubSeq(requestLogs, 1, k))
                now == InRange(requestLogs)
            IN  /\ total = Cardinality(then)
                /\ total > 0 =>
                    /\ clientErrors \in Cardinality(WithStatus(then, 400, 499))
                                        ..Cardinality(WithStatus(now, 400, 499))
                    /\ serverErrors \in Cardinality(WithStatus(then, 500, 599))
                                        ..Cardinality(WithStatus(now, 500, 599))
=============================================================================

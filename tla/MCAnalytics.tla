----------------------------- MODULE MCAnalytics -----------------------------
(* A buffer of one and a batch of two: four requests fill both and more.  The
   second and the third came in at the same time, the first before and the last
   after them, and all may be inserted in any order; the key's entries exceed
   KeyLimit. *)
EXTENDS Analytics

MCTimestamp == <<1, 2, 2, 3>>
MCStatusCode == <<503, 404, 200, 200>>

VARIABLE present   \* the rows in range when a client began to read the log

MCInit == AnalyticsInit /\ present = {}

MCNext ==
    /\ AnalyticsNext
    /\ present' = IF report' \notin {"paging", "log"} THEN {}
                  ELSE IF report = "none" THEN InRange(requestLogs)
                  ELSE present

MCSpec == MCInit /\ [][MCNext]_<<vars, reportVars, present>> /\ Fairness

(* A client that reads the log by pages in a time range sees every entry that
   was there when it began and shares its Timestamp with no other: GetLogs sorts
   by Timestamp, so an entry inserted meanwhile, even one older than the last
   page, can only push others back.  Entries with one Timestamp may change places
   between two pages. *)
PagesSkipNothing ==
    report = "log" /\ ~filtered =>
        \A r \in present :
            r \in listed \/ \E s \in Requests \ {r} : Timestamp[s] = Timestamp[r]
=============================================================================

---------------------------- MODULE SystemTables ----------------------------
(***************************************************************************)
(* System Table Persistence (SystemTablePersistence/                       *)
(* snapshot_system_stats.py and lib/history_table_config.json): runs that  *)
(* copy what is new in the system logs to the HISTORY schema, unload it to *)
(* S3 and delete old rows.  Modelled are hist_stl_query and the tables of  *)
(* details that share its watermark (hist_stl_explain stands for both);    *)
(* the others are like hist_stl_query, each with a watermark of its own.   *)
(*                                                                         *)
(* A query is named by its start time.  It is logged when it ends, so that *)
(* a query may be logged after others that started later.                  *)
(***************************************************************************)
EXTENDS Naturals

CONSTANTS
  MaxQuery,      \* the queries of the cluster are 1 .. MaxQuery
  Settings,      \* [unload, cleanup : BOOLEAN]: what the configuration asks for
  MaxSnapshots,  \* bound on the number of runs
  MaxLapses      \* bound on statements that fail

Queries == 1 .. MaxQuery

SystemTablesAssumption ==
  /\ MaxQuery \in Nat /\ MaxSnapshots \in Nat /\ MaxLapses \in Nat
  /\ Settings \subseteq [unload : BOOLEAN, cleanup : BOOLEAN]

VARIABLES
  logged,     \* queries in STL_QUERY, with their plans in STL_EXPLAIN
  expired,    \* queries that the cluster has removed from its logs
  query,      \* query[q]: rows of q in history.hist_stl_query
  explain,    \* explain[q]: copies of q's plan in history.hist_stl_explain
  archive,    \* queries whose rows have been unloaded to S3
  spc,        \* where the run is
  setting,    \* its configuration
  cutoff,     \* rows of queries before this one are old enough to delete
  result,     \* "none", "ok" or "raised"
  runs, lapses,
  \* History:
  window,     \* queries logged or expired between the two inserts of a run
  overtaken,  \* queries logged below the watermark
  fresh       \* queries logged since the last insert into hist_stl_query

tablesVars ==
  <<logged, expired, query, explain, archive, spc, setting, cutoff, result, runs,
    lapses, window, overtaken, fresh>>

Steps == {"idle", "start", "explain", "query", "unload", "cleanExplain", "cleanQuery"}

TablesInit ==
  /\ logged = {} /\ expired = {} /\ archive = {}
  /\ query = [q \in Queries |-> 0] /\ explain = [q \in Queries |-> 0]
  /\ spc = "idle" /\ setting \in Settings /\ cutoff = 0 /\ result = "none"
  /\ runs = 0 /\ lapses = 0
  /\ window = {} /\ overtaken = {} /\ fresh = {}

\* Queries with a row in history.hist_stl_query.
Stored == {q \in Queries : query[q] > 0}

\* Mutant: the watermark is that of the details, which were inserted before.
MutWatermark ==
  LET planned == {q \in Queries : explain[q] > 0}
  IN  IF planned = {} THEN 0 ELSE CHOOSE q \in planned : \A r \in planned : r <= q

\* NVL(MAX(starttime), ...) of history.hist_stl_query.
Watermark == IF Stored = {} THEN 0 ELSE CHOOSE q \in Stored : \A r \in Stored : r <= q

\* Mutant: the row with the watermark itself is selected again.
MutNew == {q \in logged : q >= Watermark}

\* snapshotNew: what the logs hold above the watermark.
New == {q \in logged : q > Watermark}

---------------------------------------------------------------------------
(* A run: snapshot().                                                      *)

Goto(from, to) == spc = from /\ spc' = to

StartSnapshot ==
  /\ Goto("idle", "start") /\ runs < MaxSnapshots
  /\ runs' = runs + 1 /\ result' = "none"
  /\ UNCHANGED <<logged, expired, query, explain, archive, setting, cutoff, lapses,
                 window, overtaken, fresh>>

\* Connected; create_schema_objects() has verified the tables.
Verify ==
  /\ Goto("start", "explain")
  /\ UNCHANGED <<logged, expired, query, explain, archive, setting, cutoff, result, runs,
                 lapses, window, overtaken, fresh>>

\* insert into history.hist_stl_explain, in a transaction of its own.
InsertExplain ==
  /\ Goto("explain", "query")
  /\ explain' = [q \in Queries |-> IF q \in New THEN explain[q] + 1 ELSE explain[q]]
  /\ UNCHANGED <<logged, expired, query, archive, setting, cutoff, result, runs,
                 lapses, window, overtaken, fresh>>

AfterInsert ==
  IF setting.unload THEN "unload" ELSE IF setting.cleanup THEN "cleanExplain" ELSE "idle"

InsertQuery ==
  /\ Goto("query", AfterInsert)
  /\ query' = [q \in Queries |-> IF q \in New THEN query[q] + 1 ELSE query[q]]
  /\ result' = IF spc' = "idle" THEN "ok" ELSE result
  /\ fresh' = {}
  /\ UNCHANGED <<logged, expired, explain, archive, setting, cutoff, runs, lapses,
                 window, overtaken>>

\* unload_stats() runs the snapshotNew query again, after the insert.
AfterUnload ==
  /\ Goto("unload", IF setting.cleanup THEN "cleanExplain" ELSE "idle")
  /\ result' = IF spc' = "idle" THEN "ok" ELSE result

Unload ==
  /\ AfterUnload
  /\ archive' = archive \cup New
  /\ UNCHANGED <<logged, expired, query, explain, setting, cutoff, runs, lapses,
                 window, overtaken, fresh>>

\* "This will not prevent automated cleanup."
UnloadFails ==
  /\ AfterUnload /\ lapses < MaxLapses
  /\ lapses' = lapses + 1
  /\ UNCHANGED <<logged, expired, query, explain, archive, setting, cutoff, runs,
                 window, overtaken, fresh>>

Old(c) == {q \in Stored : q < c}

\* cleanup_snapshots(): the details of the queries that will be deleted next.
CleanExplain ==
  /\ Goto("cleanExplain", "cleanQuery")
  /\ cutoff' \in cutoff .. MaxQuery + 1
  /\ explain' = [q \in Queries |-> IF q \in Old(cutoff') THEN 0 ELSE explain[q]]
  /\ UNCHANGED <<logged, expired, query, archive, setting, result, runs, lapses,
                 window, overtaken, fresh>>

\* Mutant: the age limit is computed anew for every table.
MutCleanQuery ==
  /\ Goto("cleanQuery", "idle")
  /\ cutoff' \in cutoff .. MaxQuery + 1
  /\ query' = [q \in Queries |-> IF q \in Old(cutoff') THEN 0 ELSE query[q]]
  /\ result' = "ok"
  /\ UNCHANGED <<logged, expired, explain, archive, setting, runs, lapses,
                 window, overtaken, fresh>>

CleanQuery ==
  /\ Goto("cleanQuery", "idle")
  /\ query' = [q \in Queries |-> IF q \in Old(cutoff) THEN 0 ELSE query[q]]
  /\ result' = "ok"
  /\ UNCHANGED <<logged, expired, explain, archive, setting, cutoff, runs, lapses,
                 window, overtaken, fresh>>

\* Any other statement that fails ends the run; what it has inserted stays.
SnapshotFails ==
  /\ spc \notin {"idle", "unload"} /\ lapses < MaxLapses
  /\ lapses' = lapses + 1
  /\ spc' = "idle" /\ result' = "raised"
  /\ UNCHANGED <<logged, expired, query, explain, archive, setting, cutoff, runs,
                 window, overtaken, fresh>>

---------------------------------------------------------------------------
(* The cluster.                                                            *)

Between(q) == IF spc = "query" THEN window \cup {q} ELSE window

\* Query q ends and is logged.
Log(q) ==
  /\ q \notin logged \cup expired
  /\ logged' = logged \cup {q} /\ fresh' = fresh \cup {q}
  /\ window' = Between(q)
  /\ overtaken' = IF q < Watermark THEN overtaken \cup {q} ELSE overtaken
  /\ UNCHANGED <<expired, query, explain, archive, spc, setting, cutoff, result, runs, lapses>>

\* The logs are kept for some days: their oldest row is removed.
Expire(q) ==
  /\ q \in logged /\ \A r \in logged : q <= r
  /\ logged' = logged \ {q} /\ expired' = expired \cup {q}
  /\ window' = Between(q)
  /\ UNCHANGED <<query, explain, archive, spc, setting, cutoff, result, runs, lapses,
                 overtaken, fresh>>

Snapshot ==
  \/ Verify \/ InsertExplain \/ InsertQuery \/ Unload \/ UnloadFails
  \/ CleanExplain \/ CleanQuery \/ SnapshotFails

SystemLogs == \E q \in Queries : Log(q) \/ Expire(q)

TablesNext == StartSnapshot \/ Snapshot \/ SystemLogs

TablesSpec == TablesInit /\ [][TablesNext]_tablesVars

---------------------------------------------------------------------------
(* Properties.                                                             *)

TablesTypeOK ==
  /\ logged \subseteq Queries /\ expired \subseteq Queries /\ archive \subseteq Queries
  /\ query \in [Queries -> Nat] /\ explain \in [Queries -> Nat]
  /\ spc \in Steps /\ setting \in Settings /\ cutoff \in 0 .. MaxQuery + 1
  /\ result \in {"none", "ok", "raised"}
  /\ runs \in 0 .. MaxSnapshots /\ lapses \in 0 .. MaxLapses
  /\ window \subseteq Queries /\ overtaken \subseteq Queries /\ fresh \subseteq Queries

\* README: "This utility will insert only the new rows".  However often runs
\* fail, are repeated, and whatever cleanup deletes, no query is twice in
\* hist_stl_query.
QueryOnce == \A q \in Queries : query[q] <= 1

\* As long as no statement has failed, a query in the history has its plan
\* there exactly once, and a plan belongs to a query in the history, so that
\* cleanup can find it; but for queries that are logged or expire while a run
\* is between the inserts into the two tables.
DetailsMatch ==
  lapses = 0 /\ spc = "idle" =>
    \A q \in Queries \ window : explain[q] = query[q]

\* After a complete run, a query that is in the logs and not in the history is
\* one that ended since the insert, one that a query that started later had
\* overtaken, or one that cleanup found old.
NothingSkipped ==
  result = "ok" /\ spc = "idle" =>
    \A q \in logged : query[q] > 0 \/ q \in fresh \cup overtaken \/ q < cutoff

\* The history is that of the cluster: everything once, with its details, and
\* nothing skipped.
HistoryIsTrue == QueryOnce /\ DetailsMatch /\ NothingSkipped
===========================================================================

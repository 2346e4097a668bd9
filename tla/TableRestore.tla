---------------------------- MODULE TableRestore ----------------------------
(***************************************************************************)
(* Multiple Table Restore (MultipleTableRestoreUtility/                    *)
(* multitablerestore.py): the tables of a list are restored from a         *)
(* snapshot, one after the other; each request is followed up to its end   *)
(* by describing it again and again.  The restore itself is the cluster's, *)
(* and goes on when the utility has exited.                                *)
(***************************************************************************)
EXTENDS Naturals, FiniteSets

CONSTANTS
  NumTables,    \* length of TableRestoreList; the tables differ
  MaxCalls,     \* bound on the number of times that the utility is called
  MaxErrors     \* bound on calls of the Redshift API that fail

TableRestoreAssumption ==
  NumTables \in Nat /\ MaxCalls \in Nat /\ MaxErrors \in Nat

Entries == 1 .. NumTables

VARIABLES
  rpc,        \* "idle", "request", "poll", "summary", or "exited" without one
  entry,      \* the entry of the list that is being restored
  counts,     \* the counters that the summary prints
  status,     \* the last restore of each table, in the cluster
  asked,      \* tables requested by this call
  calls, errors

restoreVars == <<rpc, entry, counts, status, asked, calls, errors>>

Final == {"SUCCEEDED", "FAILED", "CANCELED"}
Statuses == {"none", "PENDING", "IN_PROGRESS"} \cup Final

RestoreInit ==
  /\ rpc = "idle" /\ entry = 1 /\ asked = {}
  /\ counts = [s \in Final |-> 0]
  /\ status = [t \in Entries |-> "none"]
  /\ calls = 0 /\ errors = 0

---------------------------------------------------------------------------
(* The utility.                                                            *)

Call ==
  /\ rpc \in {"idle", "summary", "exited"} /\ calls < MaxCalls
  /\ rpc' = "request" /\ entry' = 1 /\ asked' = {}
  /\ counts' = [s \in Final |-> 0]
  /\ calls' = calls + 1
  /\ UNCHANGED <<status, errors>>

\* restore_table_from_cluster_snapshot() is accepted, if no restore of the
\* same table is in progress or has succeeded.
Request ==
  /\ rpc = "request" /\ entry <= NumTables
  /\ status[entry] \in {"none", "FAILED", "CANCELED"}
  /\ status' = [status EXCEPT ![entry] = "PENDING"]
  /\ asked' = asked \cup {entry} /\ rpc' = "poll"
  /\ UNCHANGED <<entry, counts, calls, errors>>

\* ClientError: its message is printed, and exit().
RequestRefused ==
  /\ rpc = "request" /\ entry <= NumTables
  /\ \/ status[entry] \in {"PENDING", "IN_PROGRESS", "SUCCEEDED"} /\ UNCHANGED errors
     \/ errors < MaxErrors /\ errors' = errors + 1
  /\ rpc' = "exited"
  /\ UNCHANGED <<entry, counts, status, asked, calls>>

\* Mutant: "stuck if table restore status is in state CANCELED".
MutEnded == {"SUCCEEDED", "FAILED"}

\* Mutant: the loop only waits for the restore to begin.
MutEndedEarly == Final \cup {"IN_PROGRESS"}

\* The statuses at which the loop ends.
Ended == Final

\* Mutant: whatever is not SUCCEEDED is counted as a failure.
MutCounted(s) == IF s = "SUCCEEDED" THEN s ELSE "FAILED"

\* The counter of a status.
Counted(s) == s

\* The status is one at which the loop ends: count it, take the next entry.
Over ==
  /\ rpc = "poll" /\ status[entry] \in Ended
  /\ counts' = [counts EXCEPT ![Counted(status[entry])] = @ + 1]
  /\ entry' = entry + 1 /\ rpc' = "request"
  /\ UNCHANGED <<status, asked, calls, errors>>

\* describe_table_restore_status() raises, and nobody catches it.
DescribeFails ==
  /\ rpc = "poll" /\ errors < MaxErrors
  /\ errors' = errors + 1 /\ rpc' = "exited"
  /\ UNCHANGED <<entry, counts, status, asked, calls>>

Summary ==
  /\ rpc = "request" /\ entry > NumTables
  /\ rpc' = "summary"
  /\ UNCHANGED <<entry, counts, status, asked, calls, errors>>

Utility == Request \/ RequestRefused \/ Over \/ DescribeFails \/ Summary

---------------------------------------------------------------------------
(* The cluster.                                                            *)

Advance(t, from, to) ==
  /\ status[t] = from /\ status' = [status EXCEPT ![t] = to]
  /\ UNCHANGED <<rpc, entry, counts, asked, calls, errors>>

Begin(t) == Advance(t, "PENDING", "IN_PROGRESS")
Finish(t) == \E s \in Final : Advance(t, "IN_PROGRESS", s)
Cancel(t) == Advance(t, "PENDING", "CANCELED")

Cluster == \E t \in Entries : Begin(t) \/ Finish(t) \/ Cancel(t)

RestoreNext == Call \/ Utility \/ Cluster

RestoreSpec == RestoreInit /\ [][RestoreNext]_restoreVars

\* The process is scheduled, and every restore comes to an end.
Fairness == WF_restoreVars(Utility) /\ WF_restoreVars(Cluster)

---------------------------------------------------------------------------
(* Properties.                                                             *)

RestoreTypeOK ==
  /\ rpc \in {"idle", "request", "poll", "summary", "exited"}
  /\ entry \in 1 .. NumTables + 1 /\ asked \subseteq Entries
  /\ counts \in [Final -> 0 .. NumTables] /\ status \in [Entries -> Statuses]
  /\ calls \in 0 .. MaxCalls /\ errors \in 0 .. MaxErrors

\* multitablerestore.py:12, "Number of successful, canceled or Failed restores
\* will now be recorded": every table of the list was requested by this call, and
\* the summary counts them by what has become of them in the cluster.
SummaryIsTrue ==
  rpc = "summary" =>
    /\ asked = Entries
    /\ \A s \in Final : counts[s] = Cardinality({t \in Entries : status[t] = s})

\* A call has one restore in progress at a time, and goes on to the next table
\* only when the cluster is done with the last; also when an earlier call was
\* cut off and left its own behind.
OneAtATime ==
  \A t \in asked : status[t] \notin Final => rpc \in {"poll", "exited"} /\ t = entry

\* What the utility reports is what it did, one table after the other.
OneByOne == SummaryIsTrue /\ OneAtATime

\* multitablerestore.py:13, "Fixed issue where script would get stuck": every
\* call ends, with the summary or without it.
CallEnds == rpc \in {"request", "poll"} ~> rpc \in {"summary", "exited"}
===========================================================================

--------------------------- MODULE AnalyzeVacuum ---------------------------
(***************************************************************************)
(* The Analyze & Vacuum Utility (AnalyzeVacuumUtility/lib/                 *)
(* analyze_vacuum.py): up to five phases, each of which reads its          *)
(* candidate tables from the system tables and then works through their    *)
(* statements, while other users load and drop tables.                     *)
(***************************************************************************)
EXTENDS Naturals

CONSTANTS
  Tables,       \* tables of the schemas that schema_name matches
  Profiles,     \* the rows svv_table_info may hold at the start
  Options,      \* the arguments run_analyze_vacuum() may be called with
  MaxChanges,   \* bound on what other users do
  MaxFaults     \* bound on errors that the utility does not cause

\* size, unsorted and stats_off relative to the configured thresholds.
Below == 0      \* size < max_table_size_mb,   unsorted <= min_unsorted_pct
At == 1         \* size = max_table_size_mb,   unsorted between min and max
Above == 2      \* size > max_table_size_mb,   unsorted >= max_unsorted_pct
Grades == {Below, At, Above}

\* alerted: among the query_rank tables of the VACUUM alerts.
Row == [live : BOOLEAN, size : Grades, unsorted : Grades, stale : BOOLEAN,
        skewed : BOOLEAN, alerted : BOOLEAN]

\* mode: "table" when table_name is given, else "list" when blacklisted_tables
\* is, else "all"; only: that table, or the tables of the list.
Modes == {"table", "list", "all"}
Parameters == {"FULL", "DELETE_ONLY", "REINDEX"}
Option == [vacuum : BOOLEAN, analyze : BOOLEAN, ignore : BOOLEAN, mode : Modes,
           only : SUBSET Tables, param : Parameters]

AnalyzeVacuumAssumption ==
  /\ Profiles \subseteq Row /\ Options \subseteq Option
  /\ MaxChanges \in Nat /\ MaxFaults \in Nat

VARIABLES
  info,     \* svv_table_info: a row per table
  vpc,      \* where the utility is: "idle", "connect", "read" or "run"
  opts,     \* its arguments
  phase,    \* the phase of Phases it is in
  todo,     \* candidates of the phase whose statements have not been run
  current,  \* the candidates (at most one) that were vacuumed, analyze next
  outcome,  \* "none", "ok" or "raised"
  changes, faults,
  \* History of the call:
  since,    \* since[p]: tables loaded since phase p read its candidates
  failed,   \* tables with a statement that failed
  touched,  \* tables that a statement of the call was about
  bare      \* tables vacuumed and not analyzed since

vacuumVars ==
  <<info, vpc, opts, phase, todo, current, outcome, changes, faults, since, failed, touched, bare>>

Phases == 1 .. 5    \* vacuum: alerts, statistics, reindex; analyze: alerts, statistics
End == 6
VacuumPhases == {1, 2, 3}

VacuumInit ==
  /\ info \in [Tables -> Profiles]
  /\ vpc = "idle" /\ opts \in Options /\ phase = End
  /\ todo = {} /\ current = {} /\ outcome = "none"
  /\ changes = 0 /\ faults = 0
  /\ since = [p \in Phases |-> {}] /\ failed = {} /\ touched = {} /\ bare = {}

---------------------------------------------------------------------------
(* The candidates.                                                         *)

\* Mutant: the reindex phase forgets the list of excluded tables.
MutRuns(o, p) ==
  \/ p = 1 /\ o.vacuum
  \/ p = 2 /\ o.vacuum /\ o.mode = "all"
  \/ p = 3 /\ o.vacuum /\ o.mode # "table"
  \/ p = 4 /\ o.analyze
  \/ p = 5 /\ o.analyze /\ o.mode # "table"

Runs(o, p) ==
  \/ p = 1 /\ o.vacuum
  \/ p \in {2, 3} /\ o.vacuum /\ o.mode = "all"
  \/ p = 4 /\ o.analyze
  \/ p = 5 /\ o.analyze /\ o.mode # "table"

\* The phase that follows p.
After(o, p) ==
  IF \A q \in Phases : q > p => ~Runs(o, q) THEN End
  ELSE CHOOSE q \in Phases : q > p /\ Runs(o, q) /\ \A r \in p + 1 .. q - 1 : ~Runs(o, r)

\* Tables a call may touch.
InScope(o) ==
  CASE o.mode = "table" -> o.only [] o.mode = "list" -> Tables \ o.only [] OTHER -> Tables

NeedsVacuum(r) == r.unsorted > Below \/ r.stale

\* Mutant: analyze leaves large tables out, as vacuum does.
MutWantedSmall(p, r) ==
  CASE p = 1 -> NeedsVacuum(r) /\ r.size < At
    [] p = 2 -> (r.size < At /\ NeedsVacuum(r)) \/ (r.size > At /\ r.unsorted = At)
    [] p = 3 -> r.skewed
    [] OTHER -> r.stale /\ r.size < At

\* Mutant: phase 2 looks at the statistics of small tables only.
MutWanted(p, r) ==
  CASE p = 1 -> NeedsVacuum(r) /\ r.size < At
    [] p = 2 -> (r.size < At /\ r.stale) \/ (r.size > At /\ r.unsorted = At)
    [] p = 3 -> r.skewed
    [] OTHER -> r.stale

\* The WHERE clauses of the phases, but for names and alerts.
Wanted(p, r) ==
  CASE p = 1 -> NeedsVacuum(r) /\ r.size < At
    [] p = 2 -> (r.size < At /\ NeedsVacuum(r)) \/ (r.size > At /\ r.unsorted = At)
    [] p = 3 -> r.skewed
    [] OTHER -> r.stale

\* Phases 2 and 3 do not look at the table name and the list.
Candidates(o, p) ==
  {t \in IF p \in {2, 3} THEN Tables ELSE InScope(o) :
     /\ info[t].live /\ Wanted(p, info[t])
     /\ p = 1 /\ o.mode = "all" => info[t].alerted}

---------------------------------------------------------------------------
(* The call.                                                               *)

\* run_analyze_vacuum() is called with arguments o.
Start(o) ==
  /\ vpc = "idle"
  /\ vpc' = "connect" /\ opts' = o /\ phase' = 0 /\ outcome' = "none"
  /\ todo' = {} /\ current' = {}
  /\ since' = [p \in Phases |-> {}] /\ failed' = {} /\ touched' = {} /\ bare' = {}
  /\ UNCHANGED <<info, changes, faults>>

\* Mutant: the error is returned, and run_analyze_vacuum() returns it.
MutRaise ==
  /\ vpc' = "idle" /\ outcome' = "error" /\ phase' = End
  /\ todo' = {} /\ current' = {}

\* The call ends in an exception; its connection is left open.
Raise ==
  /\ vpc' = "idle" /\ outcome' = "raised" /\ phase' = End
  /\ todo' = {} /\ current' = {}

\* get_rs_conn(), or the end of a phase.
NextPhase ==
  /\ \/ vpc = "connect"
     \/ vpc = "run" /\ todo = {} /\ current = {}
  /\ phase' = After(opts, phase)
  /\ vpc' = IF phase' = End THEN "idle" ELSE "read"
  /\ outcome' = IF phase' = End THEN "ok" ELSE outcome
  /\ UNCHANGED <<info, opts, todo, current, changes, faults, since, failed, touched, bare>>

\* execute_query() of the phase's candidates.
Read ==
  /\ vpc = "read"
  /\ vpc' = "run"
  /\ todo' = Candidates(opts, phase)
  /\ since' = [since EXCEPT ![phase] = {}]
  /\ UNCHANGED <<info, opts, phase, current, outcome, changes, faults, failed, touched, bare>>

\* No connection, a set statement or a query of candidates that fails.
Fails ==
  /\ vpc \in {"connect", "read"} /\ faults < MaxFaults
  /\ faults' = faults + 1
  /\ Raise
  /\ UNCHANGED <<info, opts, changes, since, failed, touched, bare>>

\* The next candidate, the smallest where the query has an ORDER BY.
NextUp(t) ==
  /\ vpc = "run" /\ current = {} /\ t \in todo
  /\ (phase = 1 /\ opts.mode = "all") \/ phase = 2 \/ (phase > 3 /\ opts.mode # "table")
       => \A u \in todo : info[t].size <= info[u].size

Vacuumed(r) ==
  [r EXCEPT !.unsorted = IF phase = 3 \/ opts.param # "DELETE_ONLY" THEN Below ELSE @,
            !.skewed = @ /\ phase # 3 /\ opts.param # "REINDEX"]

Vacuum(t) ==
  /\ phase \in VacuumPhases /\ NextUp(t) /\ info[t].live
  /\ info' = [info EXCEPT ![t] = Vacuumed(@)]
  /\ todo' = todo \ {t} /\ current' = {t}
  /\ touched' = touched \cup {t} /\ bare' = bare \cup {t}
  /\ UNCHANGED <<vpc, opts, phase, outcome, changes, faults, since, failed>>

\* The statement analyze: after a vacuum, or of a candidate of phases 4 and 5.
AnalyzeNext(t) ==
  \/ vpc = "run" /\ current = {t}
  \/ phase \notin VacuumPhases /\ NextUp(t)

Analyze(t) ==
  /\ AnalyzeNext(t) /\ info[t].live
  /\ info' = [info EXCEPT ![t].stale = FALSE]
  /\ todo' = todo \ {t} /\ current' = {}
  /\ touched' = touched \cup {t} /\ bare' = bare \ {t}
  /\ UNCHANGED <<vpc, opts, phase, outcome, changes, faults, since, failed>>

\* Mutant: run_commands() swallows every error.
MutStatementFails(t) ==
  /\ \/ phase \in VacuumPhases /\ NextUp(t) /\ current' = {t}
     \/ AnalyzeNext(t) /\ current' = {}
  /\ info[t].live => faults < MaxFaults
  /\ faults' = IF info[t].live THEN faults + 1 ELSE faults
  /\ failed' = failed \cup {t} /\ touched' = touched \cup {t}
  /\ todo' = todo \ {t} /\ UNCHANGED <<vpc, outcome, phase>>
  /\ UNCHANGED <<info, opts, changes, since, bare>>

\* A statement fails, as it must when the table has been dropped since it was
\* read: rollback, then raise, or go on to the next statement.
StatementFails(t) ==
  /\ \/ phase \in VacuumPhases /\ NextUp(t)
     \/ AnalyzeNext(t)
  /\ info[t].live => faults < MaxFaults
  /\ faults' = IF info[t].live THEN faults + 1 ELSE faults
  /\ failed' = failed \cup {t} /\ touched' = touched \cup {t}
  /\ \/ ~opts.ignore /\ Raise
     \/ /\ opts.ignore
        /\ todo' = todo \ {t}
        /\ current' = IF current = {} /\ phase \in VacuumPhases THEN {t} ELSE {}
        /\ UNCHANGED <<vpc, outcome, phase>>
  /\ UNCHANGED <<info, opts, changes, since, bare>>

\* The connection is lost, and the rollback raises too, or the metric of the
\* statement cannot be put, which is not caught: ignore_errors does not help.
ConnectionLost ==
  /\ vpc = "run" /\ (todo # {} \/ current # {}) /\ faults < MaxFaults
  /\ faults' = faults + 1
  /\ Raise
  /\ UNCHANGED <<info, opts, changes, since, failed, touched, bare>>

---------------------------------------------------------------------------
(* Other users.                                                            *)

Load(t) ==
  /\ vpc # "idle" /\ changes < MaxChanges /\ info[t].live
  /\ changes' = changes + 1
  /\ \E g \in {At, Above} : info' = [info EXCEPT ![t].unsorted = g, ![t].stale = TRUE]
  /\ since' = [p \in Phases |-> since[p] \cup {t}]
  /\ UNCHANGED <<vpc, opts, phase, todo, current, outcome, faults, failed, touched, bare>>

Drop(t) ==
  /\ vpc # "idle" /\ changes < MaxChanges /\ info[t].live
  /\ changes' = changes + 1
  /\ info' = [info EXCEPT ![t].live = FALSE]
  /\ UNCHANGED <<vpc, opts, phase, todo, current, outcome, faults, since, failed, touched, bare>>

\* What the utility does once it is called, and what the others do.
Step ==
  \/ NextPhase \/ Read \/ Fails \/ ConnectionLost
  \/ \E t \in Tables : Vacuum(t) \/ Analyze(t) \/ StatementFails(t) \/ Load(t) \/ Drop(t)

VacuumNext == (phase = End /\ outcome = "none" /\ Start(opts)) \/ Step

VacuumSpec == VacuumInit /\ [][VacuumNext]_vacuumVars

---------------------------------------------------------------------------
(* Properties.                                                             *)

VacuumTypeOK ==
  /\ info \in [Tables -> Row] /\ opts \in Options
  /\ vpc \in {"idle", "connect", "read", "run"} /\ phase \in 0 .. End
  /\ todo \subseteq Tables /\ current \subseteq Tables
  /\ outcome \in {"none", "ok", "raised"}
  /\ changes \in 0 .. MaxChanges /\ faults \in 0 .. MaxFaults
  /\ since \in [Phases -> SUBSET Tables]
  /\ failed \subseteq Tables /\ touched \subseteq Tables /\ bare \subseteq Tables

\* Unless errors are ignored nothing has failed, and a table whose rows were
\* moved by vacuum has new statistics unless its analyze failed.
AllWasRun == outcome = "ok" => (failed # {} => opts.ignore) /\ bare \subseteq failed

\* README, "Analyze": after a call with analyze_flag every table in its scope
\* has fresh statistics, but for those that failed and those loaded after the
\* last reading of candidates.
NoStaleLeft ==
  outcome = "ok" /\ opts.analyze =>
    \A t \in InScope(opts) : info[t].live /\ info[t].stale =>
      t \in failed \cup since[IF opts.mode = "table" THEN 4 ELSE 5]

\* README, "Vacuum", phase 2: after a call for a schema with vacuum_flag every
\* table that is small, or large and moderately unsorted, is sorted, but for
\* those that failed or were loaded after the reading.  (A table of exactly
\* max_table_size_mb is on neither side, and is skipped: the README's promise
\* does not hold for it, so this says nothing of it.)
SortedUnlessTooLarge ==
  outcome = "ok" /\ opts.vacuum /\ opts.mode = "all" /\ opts.param # "DELETE_ONLY" =>
    \A t \in Tables :
      /\ info[t].live /\ info[t].unsorted > Below
      /\ info[t].size < At \/ (info[t].size > At /\ info[t].unsorted = At)
      => t \in failed \cup since[2]

\* run_analyze_vacuum() returns OK only when what it was called for is done,
\* whatever failed and whoever loaded tables meanwhile.
OkMeansDone == AllWasRun /\ NoStaleLeft /\ SortedUnlessTooLarge

\* blacklisted_tables and table_name hold for every statement of every phase; the
\* list's names are those that remain after split(','), blanks included, and the
\* list is not looked at when a table_name is given.
OffLimits == touched \subseteq InScope(opts)
===========================================================================

----------------------------- MODULE MCUtilities -----------------------------
(* Model of the utilities that run by themselves.  They share nothing, so that *)
(* a behaviour of the model is one of a single program.                        *)
EXTENDS UtilityPrograms

CONSTANTS t1, t2

VARIABLE program

Table(size, unsorted, stale, skewed) ==
  [live |-> TRUE, size |-> size, unsorted |-> unsorted, stale |-> stale,
   skewed |-> skewed, alerted |-> stale]

AnyTable ==
  {Table(0, 1, FALSE, FALSE), Table(0, 2, TRUE, FALSE), Table(1, 1, TRUE, FALSE),
   Table(2, 1, FALSE, TRUE)}

AnyOptions ==
  {[vacuum |-> v, analyze |-> n, ignore |-> i, mode |-> "all", only |-> {}, param |-> "FULL"] :
     v, n, i \in BOOLEAN}
  \cup {[vacuum |-> TRUE, analyze |-> TRUE, ignore |-> FALSE, mode |-> m, only |-> {t1},
         param |-> p] : m \in {"table", "list"}, p \in {"DELETE_ONLY", "REINDEX"}}

AnySettings == {[unload |-> FALSE, cleanup |-> FALSE], [unload |-> TRUE, cleanup |-> TRUE]}

\* The day has three hours of two units each.
Intervals(F, T) == [from : F, to : T, broken : {FALSE}]
AnySchedules ==
  {<<i, j>> : i \in Intervals(0 .. 5, {0, 1, 3, 4}), j \in Intervals({0, 1, 3}, {1, 4})}
    \cup {<<[from |-> 1, to |-> 4, broken |-> TRUE]>>, <<>>}

Settled(wrapped, hasList, listed, wlm) ==
  [wrapped |-> wrapped, hasList |-> hasList, listed |-> listed, wlm |-> wlm]
AnyFiles ==
  {Settled(TRUE, TRUE, {"AnalyzeVacuumUtility", "Monitoring"}, TRUE),
   Settled(FALSE, FALSE, {}, TRUE),
   Settled(FALSE, TRUE, {"ColumnEncodingUtility", "AnalyzeVacuumUtility", "Monitoring",
                         "SystemTablePersistence", "WlmScheduler"}, TRUE),
   Settled(FALSE, TRUE, {"Analyze", "Vacuum", "WlmScheduler"}, FALSE)}

ASSUME UtilitiesAssumption

\* The programs that do not run stay in one initial state.
MCInit ==
  /\ program \in Programs
  /\ program # "vacuum" =>
       /\ info = [t \in Tables |-> Table(0, 1, FALSE, FALSE)]
       /\ opts = [vacuum |-> TRUE, analyze |-> TRUE, ignore |-> TRUE, mode |-> "all",
                  only |-> {}, param |-> "FULL"]
  /\ program # "tables" => setting = [unload |-> TRUE, cleanup |-> TRUE]
  /\ program # "wlm" => rulesets = <<>>
  /\ program # "login" => exist = TRUE
  /\ program # "lambda" => file \in {f \in Files : f.wrapped}
  /\ Init

\* QmrNotification's actions and calls are numbered as they happen, which only
\* chooses one among equal behaviours.
Numbered ==
  /\ \A a, b \in Actions : a < b /\ at[a] = Unset => at[b] = Unset
  /\ \A c, d \in Calls : c < d /\ call[c] = "new" => call[d] = "new"

\* One of its actions is slow, and one of its calls is lost.
OneOfEach ==
  Cardinality(slow) <= 1 /\ Cardinality({c \in Calls : call[c] = "lost"}) <= 1

MCNext ==
  /\ UNCHANGED program /\ StepOf(program) /\ Still(program)
  /\ (Numbered /\ OneOfEach)'

FairSpec == MCInit /\ [][MCNext]_<<program, allVars>> /\ Fairness
===========================================================================

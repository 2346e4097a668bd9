---------------------------- MODULE ColumnEncoding ----------------------------
(***************************************************************************)
(* The column encoding utility with do_execute: worker processes rewrite   *)
(* the tables of a schema, each in one transaction, and the controlling    *)
(* process adds the foreign keys when all are done.                        *)
(*                                                                         *)
(* Tables are numbered in the order of their names.  A rewritten table has *)
(* two versions, the old one and the copy; `db' says what is committed     *)
(* about them, `tx' what a worker's open transaction has made of its       *)
(* table.  A foreign key is a pair of versions; its definition, as the     *)
(* catalog prints it, names the table that is referenced, not the version. *)
(***************************************************************************)
EXTENDS Naturals, Sequences, FiniteSets

CONSTANTS NumTables, Workers,
          KeySets,            \* the sets of foreign keys a schema may have
          MaxAttempts,        \* analyze_retry
          MaxFaults           \* errors of statements and interrupts

Tables == 1..NumTables

ASSUME ColumnAssumption ==
  /\ NumTables \in Nat \ {0} /\ Workers # {}
  /\ \A k \in KeySets : k \subseteq Tables \X Tables
  /\ MaxAttempts \in Nat \ {0} /\ MaxFaults \in Nat

VARIABLES config,             \* options, and the foreign keys there were at first
          master, code,       \* run() and what it returns
          taken,              \* the tables p.map() has handed out
          pc, job, step, attempts, tx, names,   \* of each worker
          result,             \* what analyze() returned for each table
          db, keys,           \* committed versions and foreign keys
          at, pending,        \* run() after the map: table, uncommitted keys
          faults

worker == <<pc, job, step, attempts, tx, names>>
vars == <<config, master, code, taken, worker, result, db, keys, at, pending, faults>>

Old(t) == <<t, "old">>
Copy(t) == <<t, "copy">>
Untouched == [old |-> "name", copy |-> "none", has |-> {}]

(* What analyze() returns: a code, and the foreign keys to be added.  *)
Answer(c, n) == [code |-> c, names |-> n]
OK == Answer("OK", {})
ERROR == Answer("ERROR", {})

Live(t) == IF db[t].copy = "name" THEN Copy(t) ELSE Old(t)

(* The name the catalog prints for a version.  *)
NameOf(v) == IF Live(v[1]) = v THEN <<v[1], "name">> ELSE <<v[1], "old_name">>

Init ==
  /\ config \in [ignoreErrors : BOOLEAN, dropOldData : BOOLEAN, otherSchema : BOOLEAN,
                 force : BOOLEAN, references : KeySets]
  /\ master = "mapping" /\ code = "none" /\ taken = {}
  /\ pc = [w \in Workers |-> "idle"] /\ job = [w \in Workers |-> 1]
  /\ step = [w \in Workers |-> 1] /\ attempts = [w \in Workers |-> 0]
  /\ tx = [w \in Workers |-> Untouched] /\ names = [w \in Workers |-> {}]
  /\ result = [t \in {} |-> OK]
  /\ db = [t \in Tables |-> Untouched]
  /\ keys = {<<Old(r[1]), Old(r[2])>> : r \in config.references}
  /\ at = 1 /\ pending = {} /\ faults = 0

At(w, label) == master = "mapping" /\ pc[w] = label
Goto(w, label) == pc' = [pc EXCEPT ![w] = label]
Fault == faults < MaxFaults /\ faults' = faults + 1

Return(w, r) ==
  /\ result' = [t \in DOMAIN result \cup {job[w]} |-> IF t = job[w] THEN r ELSE result[t]]
  /\ Goto(w, "idle")
  /\ tx' = [tx EXCEPT ![w] = Untouched]
  /\ attempts' = [attempts EXCEPT ![w] = 0]
  /\ step' = [step EXCEPT ![w] = 1]
  /\ UNCHANGED <<job, names>>

(***************************************************************************)
(* A worker: analyze() of one table after the other.                       *)
(***************************************************************************)
MutTakeSame(w) ==                        \* the table stays on the list
  /\ At(w, "idle")
  /\ \E t \in Tables \ taken : job' = [job EXCEPT ![w] = t]
  /\ Goto(w, "count")
  /\ UNCHANGED <<config, master, code, taken, step, attempts, tx, names, result, db, keys, at,
                 pending, faults>>

(* p.map() hands out the tables in chunks of neighbours, so that a later   *)
(* table may be taken before an earlier one: any table that is left.  With *)
(* one thread there is no pool and run() itself calls analyze(), which is  *)
(* one worker here: an exception or Control-C then leaves run() without an *)
(* answer, where a pool makes it return one.                               *)
Take(w) ==
  /\ At(w, "idle")
  /\ \E t \in Tables \ taken : taken' = taken \cup {t} /\ job' = [job EXCEPT ![w] = t]
  /\ Goto(w, "count")
  /\ UNCHANGED <<config, master, code, step, attempts, tx, names, result, db, keys, at, pending, faults>>

CountRawColumns(w) ==
  /\ At(w, "count")
  /\ \/ ~config.force /\ Return(w, OK)
     \/ Goto(w, "compress") /\ UNCHANGED <<job, step, attempts, tx, names, result>>
  /\ UNCHANGED <<config, master, code, taken, db, keys, at, pending, faults>>

(* This query is outside of the try: its exception reaches p.map().  *)
CountRaises(w) ==
  /\ At(w, "count") /\ Fault
  /\ Return(w, Answer("raised", {}))
  /\ UNCHANGED <<config, master, code, taken, db, keys, at, pending>>

AnalyzeCompression(w) ==
  /\ At(w, "compress")
  /\ Goto(w, "describe")
  /\ UNCHANGED <<config, master, code, taken, job, step, attempts, tx, names, result, db, keys, at,
                 pending, faults>>

MutAnalyzeOnceMore(w) ==                 \* the last failure is not the end
  /\ At(w, "compress") /\ Fault
  /\ IF attempts[w] + 1 <= MaxAttempts
     THEN /\ attempts' = [attempts EXCEPT ![w] = @ + 1]
          /\ UNCHANGED <<pc, job, step, tx, names, result>>
     ELSE Return(w, ERROR)
  /\ UNCHANGED <<config, master, code, taken, db, keys, at, pending>>

AnalyzeFails(w) ==
  /\ At(w, "compress") /\ Fault
  /\ IF attempts[w] + 1 < MaxAttempts
     THEN /\ attempts' = [attempts EXCEPT ![w] = @ + 1]
          /\ UNCHANGED <<pc, job, step, tx, names, result>>
     ELSE Return(w, ERROR)
  /\ UNCHANGED <<config, master, code, taken, db, keys, at, pending>>

(* Columns, primary key and grants are read, and compared with the advice. *)
Describe(w) ==
  /\ At(w, "describe")
  /\ \/ ~config.force /\ Return(w, OK)
     \/ Goto(w, "read_keys") /\ UNCHANGED <<job, step, attempts, tx, names, result>>
  /\ UNCHANGED <<config, master, code, taken, db, keys, at, pending, faults>>

DescribeFails(w) ==
  /\ At(w, "describe") /\ Fault
  /\ Return(w, ERROR)
  /\ UNCHANGED <<config, master, code, taken, db, keys, at, pending>>

(* get_foreign_keys(): statements kept until all tables are done.  *)
\* Reads the keys that reference the table.
MutDefinitionsIncoming(t) == {NameOf(c[1]) : c \in {d \in keys : d[2] = Live(t)}}

DefinitionsOf(t) == {NameOf(c[2]) : c \in {d \in keys : d[1] = Live(t)}}

ReadKeys(w) ==
  /\ At(w, "read_keys")
  /\ Goto(w, "run_commands")
  /\ names' = [names EXCEPT ![w] = DefinitionsOf(job[w])]
  /\ UNCHANGED <<config, master, code, taken, job, step, attempts, tx, result, db, keys, at,
                 pending, faults>>

(***************************************************************************)
(* run_commands(): the statements of a rewrite, without autocommit.        *)
(***************************************************************************)
\* Sends the retire statement for a target schema, too.
MutStatements == <<"create", "primary_key", "insert", "retire", "rename", "grants", "commit">>

Statements ==
  IF config.otherSchema
  THEN <<"create", "primary_key", "insert", "grants", "commit">>
  ELSE <<"create", "primary_key", "insert", "retire", "rename", "grants", "commit">>

\* The grants are those get_grants() reads, and they are issued on the name of
\* the source: they are not given to a copy in another schema.
Effect(statement, v) ==
  CASE statement = "create" -> [v EXCEPT !.copy = IF config.otherSchema THEN "target" ELSE "mig"]
    [] statement = "primary_key" -> [v EXCEPT !.has = @ \cup {"primary_key"}]
    [] statement = "insert" -> [v EXCEPT !.has = @ \cup {"rows"}]
    [] statement = "retire" -> [v EXCEPT !.old = IF config.dropOldData THEN "dropped"
                                                 ELSE "old_name"]
    [] statement = "rename" -> [v EXCEPT !.copy = "name"]
    [] statement = "grants" -> IF config.otherSchema THEN v
                               ELSE [v EXCEPT !.has = @ \cup {"grants"}]

\* DROP TABLE ... CASCADE drops the foreign keys from and to the table.
Cascade(t) == IF config.dropOldData /\ ~config.otherSchema
              THEN {c \in keys : Old(t) \notin {c[1], c[2]}}
              ELSE keys

\* autocommit is left on, so that every statement is committed.
MutRunAutocommit(w) ==
  /\ At(w, "run_commands") /\ Statements[step[w]] # "commit"
  /\ tx' = [tx EXCEPT ![w] = Effect(Statements[step[w]], @)]
  /\ db' = [db EXCEPT ![job[w]] = Effect(Statements[step[w]], tx[w])]
  /\ step' = [step EXCEPT ![w] = @ + 1]
  /\ UNCHANGED <<config, master, code, taken, pc, job, attempts, names, result, keys, at,
                 pending, faults>>

RunStatement(w) ==
  /\ At(w, "run_commands") /\ Statements[step[w]] # "commit"
  /\ tx' = [tx EXCEPT ![w] = Effect(Statements[step[w]], @)]
  /\ step' = [step EXCEPT ![w] = @ + 1]
  /\ UNCHANGED <<config, master, code, taken, pc, job, attempts, names, result, db, keys, at,
                 pending, faults>>

\* The transaction is committed; analyze() returns r.
Rewrite(w, r) ==
  /\ At(w, "run_commands") /\ Statements[step[w]] = "commit"
  /\ db' = [db EXCEPT ![job[w]] = tx[w]]
  /\ keys' = Cascade(job[w])
  /\ Return(w, r)
  /\ UNCHANGED <<config, master, code, taken, at, pending>>

Commit(w) == Rewrite(w, Answer("OK", names[w])) /\ UNCHANGED faults

(* The metric is put after the commit, and may be what fails.  *)
MetricFails(w) == Rewrite(w, ERROR) /\ Fault

(* The transaction is rolled back; with ignore_errors the table counts as  *)
(* done, unless the metric cannot be put either.                           *)
StatementFails(w) ==
  /\ At(w, "run_commands") /\ Fault
  /\ \/ Return(w, ERROR)
     \/ config.ignoreErrors /\ Return(w, Answer("OK", names[w]))
  /\ UNCHANGED <<config, master, code, taken, db, keys, at, pending>>

(***************************************************************************)
(* run(): the map, then the foreign keys of each table in turn.            *)
(***************************************************************************)
Mapped == /\ master = "mapping" /\ DOMAIN result = Tables
          /\ \A w \in Workers : pc[w] = "idle"

Raised == \E t \in DOMAIN result : result[t].code = "raised"

StopMaster(c) == master' = "done" /\ code' = c

MapReturns ==
  /\ Mapped /\ ~Raised
  /\ master' = "adding_keys" /\ pending' = keys
  /\ UNCHANGED <<config, code, taken, worker, result, db, keys, at, faults>>

MapRaises ==
  /\ Mapped /\ Raised
  /\ StopMaster("ERROR")
  /\ UNCHANGED <<config, taken, worker, result, db, keys, at, pending, faults>>

(* Control-C: the pool is terminated, open transactions are lost.  *)
Interrupt ==
  /\ master = "mapping" /\ Fault
  /\ StopMaster("TERMINATED_BY_USER")
  /\ UNCHANGED <<config, taken, worker, result, db, keys, at, pending>>

(* The version a name in a statement stands for; none if there is no such table. *)
Resolve(n) ==
  IF config.otherSchema
  THEN {v \in {Copy(n[1])} : n[2] = "name" /\ db[n[1]].copy = "target"}
  ELSE {v \in {Old(n[1]), Copy(n[1])} : NameOf(v) = n /\ (v = Old(n[1]) => db[n[1]].old # "dropped")
                                         /\ (v = Copy(n[1]) => db[n[1]].copy = "name")}

Altered(t) == Resolve(<<t, "name">>)
CanAdd(t, n) == /\ Altered(t) # {} /\ Resolve(n) # {}
                /\ \A v \in Altered(t), u \in {Old(n[1]), Copy(n[1])} : <<v, u>> \notin pending
Added(t) == UNION {Altered(t) \X Resolve(n) : n \in result[t].names}

Adding == master = "adding_keys" /\ at <= NumTables

MutAddKeysStay ==                        \* does not go on to the next table
  /\ Adding /\ result[at].code = "OK" /\ \A n \in result[at].names : CanAdd(at, n)
  /\ pending' = pending \cup Added(at)
  /\ UNCHANGED <<config, master, code, taken, worker, result, db, keys, at, faults>>

AddKeys ==
  /\ Adding /\ result[at].code = "OK" /\ \A n \in result[at].names : CanAdd(at, n)
  /\ pending' = pending \cup Added(at)
  /\ at' = at + 1
  /\ UNCHANGED <<config, master, code, taken, worker, result, db, keys, faults>>

(* run_commands() rolls back everything the controlling process has added. *)
KeysFail ==
  /\ Adding /\ result[at].code = "OK" /\ result[at].names # {}
  /\ \/ (\E n \in result[at].names : ~CanAdd(at, n)) /\ UNCHANGED faults
     \/ Fault
  /\ pending' = keys
  /\ IF config.ignoreErrors THEN at' = at + 1 /\ UNCHANGED <<master, code>>
     ELSE StopMaster("ERROR") /\ UNCHANGED at
  /\ UNCHANGED <<config, taken, worker, result, db, keys>>

MutSkipError ==                          \* a failed table is passed over
  /\ Adding /\ result[at].code # "OK"
  /\ at' = at + 1
  /\ UNCHANGED <<config, master, code, taken, worker, result, db, keys, pending, faults>>

StopAtError ==
  /\ Adding /\ result[at].code # "OK"
  /\ StopMaster(result[at].code)
  /\ UNCHANGED <<config, taken, worker, result, db, keys, at, pending, faults>>

(* commit() returns None, which run() takes for a failure.  *)
Finish ==
  /\ master = "adding_keys" /\ at > NumTables
  /\ keys' = pending
  /\ StopMaster("ERROR")
  /\ UNCHANGED <<config, taken, worker, result, db, at, pending, faults>>

Progress(w) ==
  \/ Take(w) \/ CountRawColumns(w) \/ AnalyzeCompression(w) \/ Describe(w) \/ ReadKeys(w)
  \/ RunStatement(w) \/ Commit(w)
Failure(w) ==
  CountRaises(w) \/ AnalyzeFails(w) \/ DescribeFails(w) \/ StatementFails(w) \/ MetricFails(w)
Run == MapReturns \/ MapRaises \/ AddKeys \/ KeysFail \/ StopAtError \/ Finish

Next == (\E w \in Workers : Progress(w) \/ Failure(w)) \/ Run \/ Interrupt
Spec == Init /\ [][Next]_vars
FairSpec == Spec /\ WF_vars(Run) /\ \A w \in Workers : WF_vars(Progress(w))

(***************************************************************************)
(* Properties.                                                             *)
(***************************************************************************)
(* Variables are well-typed.  *)
TypeOK ==
  /\ master \in {"mapping", "adding_keys", "done"}
  /\ code \in {"none", "ERROR", "TERMINATED_BY_USER"}
  /\ taken \subseteq Tables /\ at \in 1..(NumTables + 1) /\ faults \in 0..MaxFaults
  /\ \A w \in Workers : step[w] \in 1..Len(Statements) /\ attempts[w] \in 0..(MaxAttempts - 1)
  /\ \A c \in keys \cup pending : <<c[1][1], c[2][1]>> \in config.references

(* Whatever statement of a rewrite fails, whenever the user interrupts:    *)
(* the name of a table denotes a table with its rows, its primary key and  *)
(* the grants that get_grants() finds (none to PUBLIC or to the user).     *)
AlwaysWhole ==
  \A t \in Tables :
    \/ db[t].old = "name" /\ db[t].copy # "name"
    \/ /\ db[t].old # "name" /\ db[t].copy = "name"
       /\ db[t].has = {"primary_key", "rows", "grants"}

(* With a target schema the source is not changed, and without the option  *)
(* to drop old data the old version and its foreign keys remain.           *)
OldDataRetained ==
  /\ config.otherSchema => \A t \in Tables : db[t].old = "name"
  /\ ~config.dropOldData \/ config.otherSchema =>
       {<<Old(r[1]), Old(r[2])>> : r \in config.references} \subseteq keys

(* A rewrite loses nothing: neither its failure nor its success.           *)
NothingLost == AlwaysWhole /\ OldDataRetained

(* What analyze() returned for a table is final: no table is analyzed and  *)
(* rewritten a second time, by the same worker or by another.              *)
AnalyzedOnce ==
  [][\A t \in DOMAIN result : t \in DOMAIN result' /\ result'[t] = result[t]]_vars

Rewritten(t) == db[t] # Untouched
Best(t) == IF config.otherSchema THEN Copy(t) ELSE Live(t)

(* The definition of a foreign key was read too late: it names the retired *)
(* version of another table, or is not there since that one was dropped.   *)
ReadTooLate(r) ==
  \/ <<r[2], "old_name">> \in result[r[1]].names
  \/ r[2] # r[1] /\ db[r[2]].old = "dropped" /\ <<r[2], "name">> \notin result[r[1]].names

(* When run() gets to its end, each foreign key of a rewritten table leads *)
(* from the new version to the new version of the table it references,     *)
(* also when that one was rewritten, renamed or dropped later; except for  *)
(* definitions that were read after the referenced table had been retired, *)
(* which name its old version or, where it was dropped, are gone.          *)
KeysFollow ==
  master = "done" /\ at > NumTables /\ ~config.ignoreErrors =>
    \A r \in config.references :
      Rewritten(r[1]) => <<Best(r[1]), Best(r[2])>> \in keys \/ ReadTooLate(r)

(* Foreign keys of new versions are committed together, and only if the    *)
(* analysis of every table has succeeded.                                  *)
KeysOnlyAfterSuccess ==
  (\E c \in keys : c[1][2] = "copy") =>
    /\ at > NumTables
    /\ \A t \in Tables : t \in DOMAIN result /\ result[t].code = "OK"

(* run() returns, whatever fails: retries are bounded and no worker waits  *)
(* for another.                                                            *)
Terminates == <>(master = "done")

(* "A new table with the same structure": after a rewrite in place without *)
(* any error, foreign keys lead from tables to tables as they did before.  *)
ForeignKeysKept ==
  master = "done" /\ ~config.otherSchema =>
    \A r \in config.references : <<Live(r[1]), Live(r[2])>> \in keys
=============================================================================

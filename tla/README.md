# Verification of the Redshift utilities

The repository collects independent programs around Amazon Redshift. Each is run by
hand or by a scheduler against a cluster; none keeps a server running. What can go
wrong in them is not one algorithm but the order of steps: pools of processes and
threads that share counters and semaphores, tables that are rewritten statement by
statement, plans of dependent tasks, log files read in pieces. This directory holds
TLA+ models of these steps, TLC runs that check them on small instances, and TLAPS
proofs of what matters most for instances of every size.

## Parts of the system

| part | state it keeps | operations | what is hard | what makes it correct |
|---|---|---|---|---|
| Simple Replay, worker pool (`replay.py`) | job queue, connection semaphore, worker processes, their threads, shared counters | start workers, put jobs, take a job, start and join threads, open and close a connection, wait, stop on Control-C | processes and threads interleave; permits travel from worker to thread; exceptions between any two steps | every connection is replayed at most once, none is lost silently, the limit on connections holds, the replay ends |
| Simple Replay, session of a connection (`replay.py`) | position in the transactions, thread statistics, error log | run the queries of a transaction, commit, record the outcome | failures of a query, of a commit and of the connection; counters that outlive a transaction | what is reported is what happened |
| Simple Replay, credentials (`replay.py`) | cache of temporary credentials per process | look up, request, retry | expiry; one key for several databases; copies made by fork | a connection uses credentials that are valid for its user and database |
| Simple Replay, workload preparation (`replay.py`) | connections and transactions read from files | filter, sort, match transactions to connections | equal keys, truncated time stamps, transactions without a connection | each transaction is replayed in the connection it came from |
| Simple Replay, extraction (`extract/`) | open log entries, connections, last connection per client | parse audit logs line by line, save | entries cut by file borders, missing or repeated lines, time ranges | no statement is lost or doubled, each connection spans its statements |
| Unload/Copy, task manager (`util/tasks.py`) | waiting, succeeded and failed tasks, dependencies | add, run, mark | order of passes, failed dependencies | dependencies first, each task once |
| Unload/Copy, migration plan (`redshift_unload_copy.py`) | target tables, sessions, staging area | test, create, unload, copy, clean up | six configuration flags, failures, transactions | no data moves before the tests, staged data is kept until loaded |
| Column encoding (`analyze-schema-compression.py`) | tables, constraints, one connection per process | analyse, rewrite a table, add foreign keys | worker processes rewrite tables of one schema; a rewrite is many statements | rows, keys and grants survive a rewrite |
| Analyze/vacuum (`analyze_vacuum.py`) | candidates of a phase, the answer of the call | five phases, each reads candidates and runs their statements | thresholds, errors that are ignored, other users who load and drop tables | OK means that statistics are fresh and tables sorted; excluded tables stay untouched |
| System table persistence (`snapshot_system_stats.py`) | history tables and their watermark | insert new rows, unload, delete old ones | queries end out of order while statements run; a run that fails is repeated | nothing is stored twice, nothing is skipped, a query keeps its details |
| WLM scheduler (`wlm_scheduler.py`) | the parameter group | test one ruleset after the other, write the first that is active | intervals over midnight; a clock that goes on between the tests and before the write | what is written was meant for the time at which it was tested |
| User last login (`user_last_login.py`) | stage table, target table | statements through the Data API, polled | calls that fail while the statement goes on; errors that are only logged | one row per user, the latest login |
| QMR notification (`lambda_function.py`) | none | select the actions of the last interval, publish the first page | early, late and overlapping invocations, lost publications, more rows than a page | no action is missed while the schedule holds and a page is enough |
| Multiple table restore (`multitablerestore.py`) | entry of the list, counters | request, poll, count | a call that exits leaves its restore behind | one restore at a time, a true summary |
| Redshift automation (`RedshiftAutomation/lambda_function.py`) | configuration, results | run the utilities an event or the configuration names | a utility that raises ends the invocation | results are returned only when all have run |
| Metadata transfer, IDC migration, manifest generator, external object replicator (not modelled) | none beyond one run | read, generate, execute | a statement that fails in the middle | a second run completes the first |

Simple Replay's parts work on one workload: extraction writes `connections.json` and
`SQLs.json.gz`, replay reads and matches them, and the pool hands each connection to
a thread that asks for credentials and runs the session. `RedshiftAutomation`
calls column encoding, analyze/vacuum, system table persistence and the WLM scheduler
with one configuration. The other utilities share only connection parameters
(`config_constants.py`).

## Modules

| module | models |
|---|---|
| `ReplayPool` | the worker pool of Simple Replay (`replay.py`) |
| `ThrottledReplay` | what the pool promises: the abstract specification |
| `ReplayPoolProofs` | theorems about the pool |
| `ReplaySession`, `ReplaySessionProofs` | the session of one connection, its statistics, the credentials cache |
| `ExtractLogs` | audit logs, their parsers, and the workload that is saved |
| `ReplayWorkload` | extends `ExtractLogs`: filters, sorting, transactions to connections |
| `ReplayWorkloadProofs` | theorems about extraction and preparation |
| `ColumnEncoding`, `ColumnEncodingProofs` | the column encoding utility and theorems about it |
| `TaskManager`, `TaskManagerProofs` | the task manager of Unload/Copy and theorems about it |
| `UnloadCopy`, `UnloadCopyProofs` | the migration plan on top of the task manager, and theorems about it |
| `AnalyzeVacuum`, `AnalyzeVacuumProofs` | the analyze and vacuum utility and theorems about it |
| `SystemTables` | the persistence of system tables |
| `WlmScheduler` | the WLM scheduler |
| `LastLogin` | the last login of every user |
| `QmrNotification` | the notification of rule actions |
| `TableRestore` | the restore of several tables |
| `Automation` | the Lambda function that runs utilities |
| `UtilityPrograms` | the seven above as one specification: their steps interleave |
| `UtilityProofs` | theorems about all of them but analyze/vacuum, and about their composition |
| `MCUtilities` | `UtilityPrograms` for TLC: a behaviour is one of them |
| other `MC...` | instances for TLC |

Operators called `Mut...` are variants of the definition below them with a bug in it.
No behaviour uses them; replacing the definition by the variant shows that a property
can tell the two apart.

### ReplayPool, ThrottledReplay: the worker pool of Simple Replay

`ReplayPool` models `start_replay()`, `put_and_retry()`, `sigint_handler()`,
`replay_worker()`, `join_finished_threads()`, `ConnectionThread.run()` and
`initiate_connection()`. The main process, each worker and each connection thread has
its control state (`main`, `pc[w]`, `thread[j]`), and every step is one access to
something shared: the queue, the semaphore `sem`, the counter `num` (read and written in two
steps, as a manager proxy does). Jobs are numbered in the order of the connection
log; `0` is the `False` that ends a worker. `held`, `owner`, `collected`, `ran` and
`errored` say where a job and its statistics are. `faults` counts what the environment
does: an exception, a failing connection, a killed process, Control-C. Time is left
out: a sleep or a timeout is the freedom of the others to go first. What a connection
executes is one step, `Execute`.

`ThrottledReplay` is the abstract promise: connections are waiting, open or done,
at most `Limit` are open, and nothing happens after the end. `KeepsPromise` is the
refinement.

### ReplaySession: what one connection does

The step `Execute` of the pool, in detail: `get_connection_credentials()` with its
cache per process and its ten attempts, `initiate_connection()`,
`execute_transactions()` and `execute_transaction()`. A connection is a sequence of
transactions, a transaction a sequence of queries, a query a sequence of statements (`split_multi`). The database
side is what a session has executed, whether a failed statement has aborted its
transaction, and what is committed. Failures are a query's, the commit's, the
connection's, and an empty answer to the request for credentials. Waiting times are
left out, and so is the text of a statement except its kind: COPY, UNLOAD,
COMMIT, ROLLBACK or another.

### ExtractLogs, ReplayWorkload: from audit logs to connections

A cluster (external) runs sessions for a few clients. A client is a triple of database,
user and process id, and process ids are used again, but not within the second
in which they were released. The cluster writes the connection log and files of user
activity; drivers log a statement twice, and a restart ends sessions without a line.
When the time of the instance is over, `parse_log()` reads the connection log line by line
and then the activity files entry by entry; an entry is stored when the next one of its file
is met. Then `save_logs()` merges entries into transactions and adds missing connections. `ReplayWorkload` continues
with the filters, the sort orders and the loop in `main()` that gives each transaction
to the latest connection of its client. Time is counted in ticks, two to a second:
activity is stamped in seconds, sessions in ticks. A text is a word, its case, a semicolon
at its end, the length of the comment in front of it, and a name for the rest: enough to
decide `is_valid_log()`, the FETCH rule, and `is_duplicate()`, which finds a word only
where it expects it. A FETCH after another of its transaction and second becomes a comment
and is not sent again, so it does not count as replayed (`IsReplayed`). A range has, besides the
times of `extract.yaml`, the time since which there are logs, as these expire. `history`
keeps what was executed by whom; parsers do not read its `session`.

### TaskManager, UnloadCopy: the Unload/Copy Utility

`TaskManager` models `util/tasks.py`: passes over the tasks that are left, clearing of
dependencies, the two marks and `failOnError`. A plan is a function from tasks to the
tasks they depend on; whether `execute()` raises is open. The sleep between passes is
left out.

`UnloadCopy` builds the plan of `UnloadCopyTool` for a list of tables and a
configuration, instantiates the task manager with it, and gives each task its effect
on the target tables, on the sessions' transactions and on the staging area. `target` is
what the utility's own session sees, `durable` what is committed; `aborted` holds the
sessions a failed statement has aborted. The cleanup lists the staging area once, and S3
lists a thousand keys at most: of a table in `LargeTables` it leaves a part. Keys that S3
refuses to delete are `left`, and the task succeeds. A column, a row or a statement text is not
modelled: a table is absent, empty, holds old rows, the data, or both.

### ColumnEncoding: rewriting tables in parallel

`ColumnEncoding` models `run()` and `analyze()` with `do_execute`. `p.map()` hands the
tables to workers in chunks, so that a worker may take any table that is left (`taken`);
with one thread `run()` calls `analyze()` itself, which is one worker. It counts raw columns, analyzes
the compression (and tries again), reads the table and its foreign keys, and runs the
statements of the rewrite in one transaction. `tx` is what this transaction has
done, `db` what is committed. Grants are issued on the name of the source, also when the
copy is in another schema. The metric is put after the commit; when that fails, the answer is ERROR
for a table that was rewritten (`MetricFails`). Then the controlling process adds the foreign keys
table by table and commits. A foreign key is a pair of versions of tables; its
definition, as the catalog prints it, names the referenced table, and the name is
looked up when the key is added. A definition that was read when the referenced table had
been renamed or dropped is `ReadTooLate`. Column types, sort keys and the emitted script are
left out.

### AnalyzeVacuum: five phases of candidates

`AnalyzeVacuum` models `run_analyze_vacuum()`, `run_vacuum()`, `run_analyze()`,
`run_commands()` and the connection they ask for. A phase reads its candidates in one
query (`Read`), then runs a statement per step; a vacuum is followed by the analyze of
its table. The thresholds on size and sorting are kept as order relations (below, at,
above), so that the gap between `<` and `>` is there. Other users load and drop tables
at any step. Statements fail, and are ignored or end the call; a connection that is
lost ends it. `since[p]` and `failed` say which tables a promise cannot be about.

### SystemTables: copying logs that keep changing

`SystemTables` models `snapshot()`: two inserts, unload, two deletions, each a statement
that may fail, in runs that are repeated. One table of details stands for those that
share the watermark of `hist_stl_query`. A query is named by its start, and is logged
when it ends, after others that started later; old rows of the log expire.

### WlmScheduler, LastLogin, QmrNotification, TableRestore: runs by a schedule

`WlmScheduler` is `run_scheduler()` at any time of the day for any pair of intervals,
with the comparisons of hours and minutes of `get_active_ruleset()`. A run tests one
ruleset per step, each at the time the clock then shows (`looked`), and writes the parameter group in a
later step; the clock ticks at any time. A call to Redshift whose answer is lost may have
written. `Covers` is the reference the tests are checked against.

`LastLogin` is `update_user_last_login()`: statements sent through
`execute_api_sql()` and polled until they are over. A call that fails after the
statement was sent leaves it to be executed later (`late`); users log in, are dropped,
and the query history forgets them meanwhile. A user is a name as `SPLIT_PART` leaves it: accounts
whose extracted names are equal (`IAM:bob`, `bob`) are one user of the model, as they are
one row of the table.

`QmrNotification` has any number of invocations at any time, that may overlap and fail at
the query or at the publication. Rows may become visible late (`slow`), or stand beyond the
first page of a query's result, which is the only one that is read (`beyond`). `gap` and `close`
say whether the successful invocations kept the rhythm of the schedule.

`TableRestore` is the loop over the list with its polling, and the cluster that
goes on when the utility has exited.

### Automation: which utilities run

`Automation` models `event_handler()`, `get_config()` and `normalise_config()`: a
configuration, an event that may name a utility, the fixed order of tests, what each
utility returns or raises, and a time limit that cuts an invocation off. Without an event and
without a list of utilities nothing runs. What runs
inside is the subject of the other modules.

### UtilityPrograms, MCUtilities: one of them at a time

These seven programs share no state but the cluster. `UtilityPrograms` extends their modules
(each has names of its own for its `Init`, `Next` and `TypeOK`) and lets a step of
any of them follow a step of any other. A behaviour of `MCUtilities` is one of the programs
while the rest keep an initial state, so that one run checks all.

## Runs

Deadlock checking is off where the program ends.

| run | instance | what it shows |
|---|---|---|
| `pool_jobs` | 2 workers, 2 jobs, 2 permits, queue of 1, 1 fault | jobs stay in one place; permits are accounted for; nothing runs after a replay is reported complete, and then every job is accounted for; the refinement of `ThrottledReplay`, and with it the limit on open connections; a replay without a fault ends |
| `pool_signal` | as small as the question allows | a worker that is told to stop keeps its permit, and the others wait for ever |
| `session_stats` | 2 connections, multi-statement queries, COPY and UNLOAD on and off, 2 attempts, 2 faults | counters add up; a transaction counted as a success is committed; a failed one leaves nothing; no error is hidden |
| `session_database` | one user, two databases | the second connection runs in the first one's database |
| `workload` | 2 clients, 2 sessions, 2 statements of 2 texts (a CREATE in upper case with its semicolon, a FETCH), 2 files, 1 driver repetition or restart, a range with an end, one without, and one without a start for logs that begin late, filters that pass all or none | each transaction is replayed in its own session and in order; a repetition that is recognised is not kept; what is lost is lost for a named reason; a connection spans its statements; loading fails only where a start is missing |
| `workload_order` | transaction ids 9 and 10 | two transactions of one second are swapped |
| `task_plans` | all 543 plans of 4 tasks without cycles, with and without `failOnError` | once each, in order, flags exact, nothing after the first failure where the flag says so, and the manager ends |
| `unload_tables` | 2 tables, one of them large, every configuration, 1 fault | order of tests, moves and cleanup; a table whose tasks succeeded was loaded, and its staging area is empty but for what the cleanup cannot see or S3 keeps |
| `columns` | 2 workers, 2 tables, every set of foreign keys between them, every combination of options, 2 attempts, 2 faults | a table is never half rewritten; old data is kept; foreign keys follow to the new versions unless they were read too late; `run()` ends |
| `columns_keys` | 1 worker, 1 foreign key, no fault | a foreign key leads to the old version of a table |
| `unload_full` | the defaults | a load that succeeded is discarded when the session closes without a commit |
| `utilities` | each of the seven programs, bounds below | OK of analyze/vacuum is true and excluded tables stay untouched; the history of system tables has every query once with its details; what the WLM scheduler writes was meant for the time of its test; last logins are recorded once and never go back; actions on a first page are published once or twice while the schedule holds; restores run one by one, every call ends and its summary is true; an invocation returns results only when all utilities have run |

A property that is a conjunction of named parts (`OnceEach`, `OutcomesAreTrue`,
`NothingLost`, `OkMeansDone`, `HistoryIsTrue` and others) has a mutant for each of the parts.
`TypeOK` of the pool and of the task manager is proved for all instances and is in no run.

**Bounds.** Two workers and two jobs make every hand-over of a permit and a job
possible between different processes. One fault is enough to reach every exception
path of the pool, since each path ends a thread or a worker; a session goes on after a
failed query, so it has two. Two connections of one worker are what the
credentials cache and the merged statistics need. Two sessions of one client give the
reuse of a process id, the ranges cut sessions at their begin and at their end, the
one that ends in the middle of a second has sessions after it in that second, and the one without
a start meets sessions whose begin is not in the logs, so that loading does fail; two
statements are a pair in order, a repetition, and one on each side of a
file border; the ticks 1 to 4 have a whole second and a part of the ones before and after it.
The other texts that `is_duplicate()` treats differently are for the proofs, which hold for all. Four tasks give
plans with chains, diamonds and tasks added before what they depend on. Two tables are
needed for what one table's tasks do to another's.

In `utilities`, analyze/vacuum has two tables of four profiles, below, at and above
`max_table_size_mb`, with and without an alert, twelve sets of options, one failure and one change by another user: enough
for a table to change between its reading and its statement, and for the other one to
show what the failure of the first does. Three queries are two that end in the wrong order
and one that is new in the second of two runs. A day of three hours with two units each has
times before, in and after the hour of an end; 144 pairs of intervals are tried, over
midnight and within a day, that meet, overlap or leave a gap, besides a schedule of no
ruleset and one of a malformed ruleset.
Two users, two logins and two runs of the last login let a late statement of one run meet
those of the next. Three invocations and a window of two ticks in four are what a third
publication needs, and two actions with pages of one row are what a second page needs; one
action is late and one invocation is lost at most, and actions and invocations are numbered as they happen. Three tables and two calls restore a
list past the first failure and meet what the first call left. Four configurations
and two invocations reach both forms of the configuration file, with a list and without.

**Fairness.** `ReplayPool!FairSpec` has weak fairness of the main process, of each
worker and of each thread: the operating system schedules them, and each step is a
call with a timeout or an end. Faults and Control-C are not fair. `TaskManager!FairSpec`
is weak fairness of `Next`: `run()` is one thread. `ColumnEncoding!FairSpec` has weak
fairness of `run()` and of each worker process. `TableRestore!Fairness` is weak fairness of
the utility, one process that polls, and of the cluster, which brings every restore to
an end. `Termination` of the pool is claimed for replays without a fault: a worker whose
thread died with its permit leaves the others waiting.

## Proofs

`ReplayPoolProofs` proves seven theorems for any number of workers, jobs, permits and
faults. The invariant is built in layers. `TypeInv` adds to the types that a worker
about to start a thread holds a job nobody has taken. `PermitAccounting` counts
the permits free, held by workers and held by threads; each step moves one permit at
most, so the sum never grows, and open connections are among the holders
(`LimitHolds`). `PlaceInv` says that a job is on the queue, held or owned, in one
place, that an owned job was put before, and that what ran has a thread. `NobodyLeft`
says that after the end no worker is alive, hence no thread moves (`ReportIsFinal`).
`CompleteIsAccounted` needs `AccountInv`: without faults a worker drops no job and returns
with nothing to join (`WorkersInv`), each job that was put has a place (`DroppedInv`), and
the main process puts all jobs or meets a full queue that nobody will ever empty
(`AllPut`), so an empty queue at the end means that every connection ran.
`PoolImplementsPromise` maps each action to a step of the promise or to a stutter.
The limit itself, `ConcurrencyLimit`, is in no run: it follows from `KeepsPromise`.

`ReplaySessionProofs` proves all five properties of the sessions for any number of
connections, transactions and statements. What a step does to one connection is first
reduced to one of eight cases (`LocalStep`), since the threads share only the cache; the
invariant is then about one connection. `CountInv` relates the counters to the position:
while no query has failed no error is logged, so a transaction is counted as successful
only before the first failure. `EffectInv` says that in an open transaction exactly the
statements passed and sent are pending, and in an aborted one none, hence a commit writes
all or nothing; `SuccessInv` that, while nothing failed, whatever was passed and is not
undone by the workload is pending or durable. `SessionAssumption` asks that a workload is
a sequence of statements, queries and transactions with a first connection.

`TaskManagerProofs` proves the five safety properties for every plan. They are
inductive with `Cleared` (what a task no longer waits for has completed) and
`NoFailureYet` (with `failOnError`, while the manager runs nothing has failed).

`UnloadCopyProofs` instantiates these theorems with the plans of the utility, which
satisfy their assumption (`PlansFit`), for any number of tables, any configurations and
any failures. The executed tasks hold what they depend on, so that an executed cleanup
has the copy, the unload and all pre-tests behind it (`Chain`). With `StagedInv`, that
staged data comes from an executed unload, this gives `NothingMovesBeforeTests` and
`DeletedAfterCopy`. An unload waits for the tests and creations of tables, and these for the
tests of connections (`ResourceTestsWait`). Without tests and creations of tables nothing is
between, and `NothingMovesBeforeTests` claims nothing of the other tables' connections. `TargetInv` says of each table what its target holds until it is
created, until it is copied to, and afterwards, as long as the session is open.

`ColumnEncodingProofs` proves all safety properties for every number of tables and workers and
every set of foreign keys. `AlwaysWhole` is about what is committed, and the invariant
must say more: that a worker's open transaction has done exactly what the statements
before its step do (`Reached`), so that only a complete rewrite is ever committed.
`AnalyzedOnce` needs `JobInv`: the tables of busy workers differ, and none of them has an
answer. With it, `KeyInv` says that `run()` passes a table only on the answer OK and
commits a key only when past all of them. `KeysFollow` exempts only `ReadTooLate` and needs what was read and when:
`NamesInv` says that a table's definitions were read before it was rewritten, one for each
of its foreign keys, and that a rewritten table has them in its answer; `FollowInv` that
`run()` has added the keys of the tables it has passed. `DefsInv` says that definitions
and keys never relate other tables than the schema does.

`AnalyzeVacuumProofs` proves `OffLimits` and `OkMeansDone` for any set of tables and any
options, failures and changes. `PhaseInv` says where the call can be; `ScopeInv` that
work at hand and work done are in scope; `WorkInv` that a vacuumed table is about to be
analyzed or an error has come between; `FreshInv` and `SortedInv` that a table which is
stale or unsorted after the reading of the last phase for it is still to be worked on, has
failed, or was loaded since.

`UtilityProofs` proves the other six programs for any values of their constants, and that
the composition adds nothing: a step of `UtilityPrograms` is a step of one program and a
stutter of the others (`StepsApart`), so that each behaves as by itself
(`ProgramsAreApart`) and is well typed there (`UtilitiesTypeCorrect`).

- System tables, `HistoryIsKept`: `DetailsInv` says that, while no statement has failed,
  the plans are those of the stored queries, but ahead of them between the two inserts and
  between the two deletions, and `SkippedInv` what the watermark,
  the start of the latest stored query, can have left behind: one that
  was still running when a later one was stored, was logged since, or is old.
- WLM scheduler, `ScheduleIsKept`: the comparisons of hours and minutes against the
  reference `Covers`, for any division of the day (`ActiveFact`); the work is arithmetic of hours
  and remainders. `SearchInv` says of a run under way that every ruleset it has passed was
  not active at the time of its own test, and the one it has found was.
- Last login, `LoginsAreRecorded` and `LoginsNeverGoBack`: `TidyInv` says that, as long as
  every truncate and load was seen to finish, no other is executed late and the stage has one
  row per user, no older than the target's; `LoginInv` that no row is of a login later than the
  user's last one; `LoadedInv` what the statements of a run without errors have made of both
  tables.
- QMR notification, `PublishedOnceOrTwice`: nothing is missed while successful invocations
  follow each other within the interval, but rows that came late or stood beyond a first page, and nothing is published three times while they
  are an interval apart. `WindowInv` says what a query can have selected; `LastInv` is the
  first property with the time of the last published query; `Apart` keeps the
  published queries an interval apart, and `CountInv` counts the publications of an action
  by the calls that selected it: three would be three times within one window.
- Table restore, `RestoredOneByOne`: `ProgressInv` says that the tables asked for are those
  before the current entry and perhaps the entry itself, and that those before have come
  to an end; `CountInv` that the counters are the cardinalities of the tables
  before the entry.
- Automation, `AllHaveRun`: `RunInv` says that the utilities to run and those that returned
  make up the list that the configuration and the event ask for, in the fixed order.

Where an argument is an induction over steps or times, it is by the least counterexample
(`LeastNat`), as the library's induction theorems cannot be instantiated here.

The theorems of these programs assume the constants' assumptions, which are
definitions (`AnalyzeVacuumAssumption` and so on) since the modules are composed;
`MCUtilities` assumes them, and TLC evaluates them.

`ReplayWorkloadProofs` proves every property of the run `workload` for any clients, texts,
ranges and filters, and any number of sessions, statements, files and faults. Its
invariant follows the data through the programs:

- the cluster: sessions of a client follow each other in different seconds (`SessionsInv`);
  statements are in their session, and the transactions of a session in the order of their
  ids (`HistoryInv`); the connection log has the begin of every session, before its end
  and after the client's earlier ones (`LinesInv`); the activity log is in the order of
  execution, across files (`FilesInv`);
- the connection log: `ConnectionsInv`. Each line that is kept writes the connection of its
  own session (`KeptLine`). This is what the reuse of process ids puts in doubt, because a line
  that ends a session looks up its client's last connection. It holds because a session
  whose begin is not kept is older than the range, and then no earlier session of its
  client was kept;
- the activity log: `EntriesInv` says that what is stored bears the name of its transaction and
  second, in the order of execution, and that only comments and texts whose repetition is
  not recognised (`Unrecognised`) can be there twice; `KeptInv` that what was read is stored, repeats an earlier
  statement, or is a FETCH that became a comment. The first needs that
  nothing not yet read is older than what is stored;
- the loop in `main()`: `MatchInv`. Transactions were given to connections in their order
  (`Given`), every candidate connection belongs to the transaction's client, and the
  transaction went to the latest one begun by its second.

`EachInItsSession` then is a statement about times: the latest connection of the client
begun by the second of the first statement is that of the session, as the next session
begins in a later second (`OwnConnection`). `HasCandidate` says that there is one, and
`LoadFails` that the loop fails only on the time of a connection whose session begins before the
logs or the range do, when no start was given. `OriginalOrder` follows from
`TransactionOrder`: of two transactions in one connection the earlier one comes first.

One of these theorems has a hypothesis, and the code is the reason.
`OrderIsKept` assumes `XidsInOrder`: the ids in use are ordered as strings as they are as
numbers, for example when all have as many digits (`LongXids`). Without it the
property is false, as the run `workload_order` shows. `ReplayedOnce` holds for all ranges: where
loading can fail, the property says so.

Only model-checked is liveness, which is out of the prover's reach: `Termination` of the pool,
`Terminates` of the task manager and of column encoding, and `CallEnds` of the restore.
Every other property of the passing runs is stated by a theorem.

## Observed in the code

Statements of the code's own docs and comments that a run refutes are the findings
of `PROJECT.json`. The following was seen while modelling; the models do what the
code does, and no run asks about it.

- Pool: `num_connections` is decremented also for a connection that failed before the
  increment, and the two accesses of the proxy are not atomic (`replay.py`:299, 318).
  The peak is overwritten, not maximised (1290). `start_replay()` returns True with
  jobs left when all workers have died (1308). Errors before the `try` are not saved
  (231).
- Session: the outcome of a transaction is read from a counter of the whole thread, so
  that everything after a failed query counts as failed (512). Two failed connections
  with one key are reported as one (307). An error path names an undefined variable
  (338).
- Workload: without `start_time`, which `extract_template.yaml` calls optional, a
  session older than the logs gets an empty start time, and `main()` fails on it with
  an AttributeError (2069). It also fails with an `end_time` alone, on a session that begins in
  the last second of the range and after its end. `Loads` allows for both.
- Extraction: a FETCH that differs from an earlier one of the same transaction and second is
  made a comment (`extract_parser.py`:68) which `extractor.py`:203 removes: it is lost,
  though it asked for other rows. `is_duplicate()` looks for lower case words, and for
  definitions that end with a semicolon, so that it misses repetitions, which are replayed again;
  the README of Simple Replay (300) names this. The branch of `set application_name` for a client that is not known is
  never reached (`extract_parser.py`:180). The last entry of every activity file is
  lost (59); `LossIsBounded` names it.
- Tasks: a task runs also when what it depends on has failed (`tasks.py`:83, 87);
  staged data of a failed import is deleted by the cleanup that depends on it.
- Migration: with connection tests and no test for tables, nothing orders the unload of one
  table after the connection tests of the others (`redshift_unload_copy.py`:123), where
  `global_config_parameters.json`:3 has "Before starting any work make a connection to
  each cluster". The cleanup deletes the first page of keys and ignores the keys S3 names as not
  deleted (`s3_utils.py`:54), and succeeds.
- Column encoding: the metric is put after the commit (`analyze-schema-compression.py`:850): if that
  fails, the table is rewritten, the answer is ERROR, and `run()` stops before the foreign keys of
  the others.
- Analyze/vacuum: a table of exactly `max_table_size_mb` is vacuumed by no phase (331);
  the command line's `ignore_errors` is True unless given, where the README says False, and
  any text given is true; `--slot-count` is stored under a name that is not read. The
  blacklist is split at its commas with the blanks kept (229), and ignored when a table is named (246).
- System tables: the unload selects what is new after the insert has just
  stored it, so that a run archives nothing of what it copied
  (`snapshot_system_stats.py`:141), where the README announces an archive of the
  HISTORY tables. The connection is closed only when cleanup is configured.
- WLM scheduler: the clock is read anew for each ruleset (41): of two intervals that meet, the
  one that begins may be tested just before the boundary and the one that ends, if it is
  listed later, just after it, so that none is found. The group is written after two more
  calls (144), by when another ruleset may be meant. The rules of an interval over midnight are not applied after
  midnight, nor if it ends in the hour it starts in (`GapsAfterMidnight` says so);
  `get_wlm_config()` reads the ruleset before it tests for None (103), and `basestring`
  does not exist in Python 3.
- Last login: the README says that the target is truncated, which it is not; the row of
  a dropped user, whose name is NULL, keeps `NOT IN` from inserting anyone
  (`queries.py`:48); success is logged also when statements failed; a statement that is
  ABORTED is polled for ever (`user_last_login.py`:71). Two accounts that differ by their
  prefix only share a row (`queries.py`:25).
- QMR notification: an invocation whose query or publication failed is a success. Rows
  after the first page of a result are dropped (`lambda_function.py`:107).
- Table restore: an error ends the process without the summary, and a second call
  stops at the first table that the first one restored.
- Automation: with `configuration` and `utilities` side by side, as the README shows,
  `utilities` is dropped, as are `rulesets` and the flags of analyze and vacuum:
  "No Utilities configured". The `Analyze` and `Vacuum` utilities set options that
  `run_analyze_vacuum()` does not read, and return OK without doing anything
  (`lambda_function.py`:127, 136).

## Not modelled

Reports, statistics and SQL texts; the GUI and the web API; SQL scripts, stored
procedures and views, which have no state of their own between statements; benchmarks and
articles; programs that make one pass of calls and keep nothing (metadata transfer, IDC
migration, manifest generator, object replicator). Of the extraction: start node logs,
the choice of S3 files by name (`log_validation.py`:122 compares the time a file was
written with the range of what it contains) and the paging of CloudWatch. Of
the column encoding: other users' statements between a reading and the lock of a table,
a worker process that is killed, for which `p.map()` waits for ever, and the exception that
leaves `run()` when there is one thread and no pool. Of the system
tables: tables with a watermark of their own, which behave like `hist_stl_query`, two
queries that start at the same moment, one of them at the watermark, and runs that overlap. Runs that overlap
are not modelled for the last login and the WLM scheduler either. Of the table restore: two
calls at once; a call that is made again meets what the first one left, and the property
is about each call.
The components in `PROJECT.json` give the reason for each.

## Plan

Done: all modules above, and a theorem for every safety property that a run checks. What is
left, in this order:

1. An abstract specification of the extraction and preparation, a workload that keeps each
   session's statements in their order, as a refinement of `ReplayWorkload`; its proof
   rests on `ConnectionsInv`, `EntriesInv` and `MatchInv`.
2. The same for the column encoding: a schema whose tables are replaced one by one.
3. The S3 and CloudWatch sides of the extraction, as pure functions against a
   reference definition.
4. The metadata transfer and the IDC migration with failures between their statements.

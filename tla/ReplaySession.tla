--------------------------- MODULE ReplaySession ---------------------------
(***************************************************************************)
(* What the connection threads of one replay worker do (SimpleReplay/      *)
(* replay.py): ask for credentials, connect, replay the transactions of    *)
(* the connection statement by statement, commit each, and keep the        *)
(* statistics the summary is made of.  The threads share the credentials   *)
(* cache of their process; each has a database session of its own.         *)
(*                                                                         *)
(* A statement is what decides about its execution: "sql", "copy" from S3, *)
(* "unload" to S3, or a recorded "commit" or "rollback".  Waiting times    *)
(* are left out.  ReplayPool models how threads are started and joined.    *)
(***************************************************************************)
EXTENDS Naturals, Sequences, FiniteSets

CONSTANTS
  Workloads,    \* sequences of connections the worker may be given
  MaxAttempts,  \* attempts to get credentials
  MaxFaults     \* bound on refused, failed and lost calls

Kinds == {"sql", "copy", "unload", "commit", "rollback"}

ASSUME SessionAssumption ==
  /\ MaxAttempts \in Nat \ {0} /\ MaxFaults \in Nat
  /\ \A w \in Workloads :
       1 \in DOMAIN w /\ \A c \in DOMAIN w : w[c].transactions \in Seq(Seq(Seq(Kinds)))

VARIABLES
  workload,     \* the connections of this replay
  options,      \* execute_copy_statements and execute_unload_statements
  cache,        \* g_credentials_cache: for a user, the database of the record
  pc,           \* where a thread is
  attempt,      \* attempts of a thread to get credentials
  database,     \* the database in the credentials of a thread
  server,       \* transaction state of a session: none, open, aborted, or lost
  at,           \* transaction, query and statement a thread is at
  success,      \* no statement of the current query has failed
  errors,       \* errors of the current transaction
  stats,        \* thread_stats
  reported,     \* what transaction_error_log holds
  errorLogger,  \* every statement that failed, as parse_error() logs it
  pending,      \* effects of the open transaction of a session
  durable,      \* committed effects
  faults

cacheVars == <<cache, attempt, database>>
dataVars == <<server, pending, durable>>
statVars == <<success, errors, stats, reported, errorLogger>>
vars == <<workload, options, cacheVars, pc, at, dataVars, statVars, faults>>

Connections == DOMAIN workload
Users == {workload[c].user : c \in Connections}
Databases == {workload[c].database : c \in Connections}
NoRecord == "no record"

Transaction(c, t) == workload[c].transactions[t]
Statements(c, t) ==
  UNION {{<<t, q, s>> : s \in DOMAIN Transaction(c, t)[q]} : q \in DOMAIN Transaction(c, t)}
KindOf(c, p) == Transaction(c, p[1])[p[2]][p[3]]

\* Statements that are sent; the others are logged as "Not Replayed".
Replayed(kind) ==
  CASE kind = "copy" -> options.executeCopy
    [] kind = "unload" -> options.executeUnload
    [] OTHER -> TRUE

Init ==
  /\ workload \in Workloads
  /\ options \in [executeCopy : BOOLEAN, executeUnload : BOOLEAN]
  \* main() asks for the credentials of the first connection, then forks.
  /\ cache = [u \in Users |-> IF u = workload[1].user THEN workload[1].database ELSE NoRecord]
  /\ pc = [c \in Connections |-> "start"]
  /\ attempt = [c \in Connections |-> 0]
  /\ database = [c \in Connections |-> NoRecord]
  /\ server = [c \in Connections |-> "none"]
  /\ at = [c \in Connections |-> <<1, 1, 1>>]
  /\ success = [c \in Connections |-> TRUE]
  /\ errors = [c \in Connections |-> {}]
  /\ stats = [c \in Connections |->
       [query_success |-> 0, query_error |-> 0, transaction_success |-> 0,
        transaction_error |-> 0, connection_error |-> FALSE]]
  /\ reported = [c \in Connections |-> {}]
  /\ errorLogger = [c \in Connections |-> {}]
  /\ pending = [c \in Connections |-> {}]
  /\ durable = [c \in Connections |-> {}]
  /\ faults = 0

Fault == faults < MaxFaults /\ faults' = faults + 1

Goto(c, from, to) == pc[c] = from /\ pc' = [pc EXCEPT ![c] = to]

---------------------------------------------------------------------------
(* get_connection_credentials().                                           *)

\* cache_timeout_sec have passed: the next look-up deletes the record.
Expire(u) ==
  /\ cache[u] # NoRecord
  /\ cache' = [cache EXCEPT ![u] = NoRecord]
  /\ UNCHANGED <<attempt, database, pc, at, dataVars, statVars, faults>>

\* The cache is looked up by the name of the user.
LookUp(c) ==
  LET found == cache[workload[c].user] IN
  /\ IF found # NoRecord
     THEN /\ Goto(c, "start", "dial")
          /\ database' = [database EXCEPT ![c] = found]
          /\ UNCHANGED attempt
     ELSE /\ Goto(c, "start", "request")
          /\ attempt' = [attempt EXCEPT ![c] = 1]
          /\ UNCHANGED database
  /\ UNCHANGED <<cache, at, dataVars, statVars, faults>>

Granted(c) ==
  /\ Goto(c, "request", "dial")
  /\ database' = [database EXCEPT ![c] = workload[c].database]
  /\ cache' = [cache EXCEPT ![workload[c].user] = workload[c].database]
  /\ UNCHANGED <<attempt, at, dataVars, statVars, faults>>

\* Mutant: one attempt too many.
MutNoAnswerOnceMore(c) ==
  /\ pc[c] = "request"
  /\ IF attempt[c] <= MaxAttempts
     THEN attempt' = [attempt EXCEPT ![c] = @ + 1] /\ UNCHANGED pc
     ELSE pc' = [pc EXCEPT ![c] = "over"] /\ UNCHANGED attempt
  /\ UNCHANGED <<cache, database, at, dataVars, statVars, faults>>

\* An answer without a password: try again, and after the last attempt read
\* DbUser of no response, which raises and ends the thread.
NoAnswer(c) ==
  /\ pc[c] = "request"
  /\ IF attempt[c] < MaxAttempts
     THEN attempt' = [attempt EXCEPT ![c] = @ + 1] /\ UNCHANGED pc
     ELSE pc' = [pc EXCEPT ![c] = "over"] /\ UNCHANGED attempt
  /\ UNCHANGED <<cache, database, at, dataVars, statVars, faults>>

\* A ClientError is raised; expired IAM credentials end the thread by exit().
Refused(c) ==
  /\ Goto(c, "request", "over") /\ Fault
  /\ UNCHANGED <<cacheVars, at, dataVars, statVars>>

---------------------------------------------------------------------------
(* initiate_connection() and execute_transactions().                       *)

Connect(c) ==
  /\ Goto(c, "dial", "run")
  /\ UNCHANGED <<cacheVars, at, dataVars, statVars, faults>>

ConnectFails(c) ==
  /\ Goto(c, "dial", "over") /\ Fault
  /\ stats' = [stats EXCEPT ![c].connection_error = TRUE]
  /\ UNCHANGED <<cacheVars, at, dataVars, success, errors, reported, errorLogger>>

InTransaction(c) == pc[c] = "run" /\ at[c][1] \in DOMAIN workload[c].transactions
InQuery(c) == InTransaction(c) /\ at[c][2] \in DOMAIN Transaction(c, at[c][1])
InStatement(c) == InQuery(c) /\ at[c][3] \in DOMAIN Transaction(c, at[c][1])[at[c][2]]

NextStatement(c) == at' = [at EXCEPT ![c] = <<@[1], @[2], @[3] + 1>>]

\* A COPY or UNLOAD that is not to be executed counts as a success.
Skip(c) ==
  /\ InStatement(c) /\ ~Replayed(KindOf(c, at[c]))
  /\ NextStatement(c)
  /\ UNCHANGED <<cacheVars, pc, dataVars, statVars, faults>>

\* Mutant: the connection is left in autocommit mode.
MutSucceedAutocommit(c) ==
  /\ InStatement(c) /\ Replayed(KindOf(c, at[c])) /\ server[c] \in {"none", "open"}
  /\ durable' = [durable EXCEPT ![c] = @ \cup {at[c]}]
  /\ NextStatement(c)
  /\ UNCHANGED <<cacheVars, pc, server, pending, statVars, faults>>

\* The server executes the statement.  The end of a transaction that was
\* aborted before is a rollback whatever it is called.
Succeed(c) ==
  LET kind == KindOf(c, at[c]) IN
  /\ InStatement(c) /\ Replayed(kind)
  /\ \/ /\ kind \in {"sql", "copy", "unload"} /\ server[c] \in {"none", "open"}
        /\ server' = [server EXCEPT ![c] = "open"]
        /\ pending' = [pending EXCEPT ![c] = @ \cup {at[c]}]
        /\ UNCHANGED durable
     \/ /\ kind \in {"commit", "rollback"} /\ server[c] # "lost"
        /\ server' = [server EXCEPT ![c] = "none"]
        /\ pending' = [pending EXCEPT ![c] = {}]
        /\ durable' = IF kind = "commit"
                      THEN [durable EXCEPT ![c] = @ \cup pending[c]] ELSE durable
  /\ NextStatement(c)
  /\ UNCHANGED <<cacheVars, pc, statVars, faults>>

\* execute() raises: refused in an aborted transaction or on a lost connection,
\* or for a reason of its own, which aborts the transaction.
Fail(c) ==
  LET kind == KindOf(c, at[c]) IN
  /\ InStatement(c) /\ Replayed(kind)
  /\ \/ server[c] = "aborted" /\ kind \notin {"commit", "rollback"} /\ UNCHANGED <<server, faults>>
     \/ server[c] = "lost" /\ UNCHANGED <<server, faults>>
     \/ server[c] \in {"none", "open"} /\ Fault /\ server' = [server EXCEPT ![c] = "aborted"]
     \/ server[c] # "lost" /\ Fault /\ server' = [server EXCEPT ![c] = "lost"]
  /\ pending' = [pending EXCEPT ![c] = {}]
  /\ success' = [success EXCEPT ![c] = FALSE]
  /\ errors' = [errors EXCEPT ![c] = @ \cup {at[c]}]
  /\ errorLogger' = [errorLogger EXCEPT ![c] = @ \cup {at[c]}]
  /\ NextStatement(c)
  /\ UNCHANGED <<cacheVars, pc, durable, stats, reported>>

\* Mutant: the list of errors is started anew with every query.
MutEndQueryForgets(c) ==
  /\ InQuery(c) /\ ~InStatement(c)
  /\ stats' = IF success[c] THEN [stats EXCEPT ![c].query_success = @ + 1]
                            ELSE [stats EXCEPT ![c].query_error = @ + 1]
  /\ success' = [success EXCEPT ![c] = TRUE]
  /\ errors' = [errors EXCEPT ![c] = {}]
  /\ at' = [at EXCEPT ![c] = <<@[1], @[2] + 1, 1>>]
  /\ UNCHANGED <<cacheVars, pc, dataVars, reported, errorLogger, faults>>

EndQuery(c) ==
  /\ InQuery(c) /\ ~InStatement(c)
  /\ stats' = IF success[c] THEN [stats EXCEPT ![c].query_success = @ + 1]
                            ELSE [stats EXCEPT ![c].query_error = @ + 1]
  /\ success' = [success EXCEPT ![c] = TRUE]
  /\ at' = [at EXCEPT ![c] = <<@[1], @[2] + 1, 1>>]
  /\ UNCHANGED <<cacheVars, pc, dataVars, errors, reported, errorLogger, faults>>

\* The outcome of a transaction is decided by the errors of the thread so far.
CountTransaction(c) ==
  /\ IF stats[c].query_error = 0
     THEN /\ stats' = [stats EXCEPT ![c].transaction_success = @ + 1]
          /\ UNCHANGED reported
     ELSE /\ stats' = [stats EXCEPT ![c].transaction_error = @ + 1]
          /\ reported' = [reported EXCEPT ![c] = @ \cup errors[c]]
  /\ errors' = [errors EXCEPT ![c] = {}]

\* Mutant: there is no commit between transactions.
MutCommitNot(c) ==
  /\ InTransaction(c) /\ ~InQuery(c) /\ server[c] # "lost"
  /\ CountTransaction(c)
  /\ at' = [at EXCEPT ![c] = <<@[1] + 1, 1, 1>>]
  /\ UNCHANGED <<cacheVars, pc, dataVars, success, errorLogger, faults>>

Commit(c) ==
  /\ InTransaction(c) /\ ~InQuery(c) /\ server[c] # "lost"
  /\ durable' = [durable EXCEPT ![c] = @ \cup pending[c]]
  /\ pending' = [pending EXCEPT ![c] = {}]
  /\ server' = [server EXCEPT ![c] = "none"]
  /\ CountTransaction(c)
  /\ at' = [at EXCEPT ![c] = <<@[1] + 1, 1, 1>>]
  /\ UNCHANGED <<cacheVars, pc, success, errorLogger, faults>>

\* Mutant: the transaction is counted before it is committed.
MutCommitRaisesCounted(c) ==
  /\ InTransaction(c) /\ ~InQuery(c)
  /\ IF server[c] = "lost" THEN UNCHANGED faults ELSE Fault
  /\ pc' = [pc EXCEPT ![c] = "over"]
  /\ pending' = [pending EXCEPT ![c] = {}]
  /\ server' = [server EXCEPT ![c] = "none"]
  /\ CountTransaction(c)
  /\ UNCHANGED <<cacheVars, at, durable, success, errorLogger>>

\* commit() raises: the transactions that are left are dropped and the session
\* is closed.
CommitRaises(c) ==
  /\ InTransaction(c) /\ ~InQuery(c)
  /\ IF server[c] = "lost" THEN UNCHANGED faults ELSE Fault
  /\ pc' = [pc EXCEPT ![c] = "over"]
  /\ pending' = [pending EXCEPT ![c] = {}]
  /\ server' = [server EXCEPT ![c] = "none"]
  /\ UNCHANGED <<cacheVars, at, durable, statVars>>

\* What is not committed is lost.  Waiting for the recorded time of the
\* disconnection fails on an undefined name, which changes nothing here.
Close(c) ==
  /\ pc[c] = "run" /\ ~InTransaction(c)
  /\ pc' = [pc EXCEPT ![c] = "over"]
  /\ pending' = [pending EXCEPT ![c] = {}]
  /\ server' = [server EXCEPT ![c] = "none"]
  /\ UNCHANGED <<cacheVars, at, durable, statVars, faults>>

---------------------------------------------------------------------------
Thread(c) ==
  \/ LookUp(c) \/ Granted(c) \/ NoAnswer(c) \/ Refused(c)
  \/ Connect(c) \/ ConnectFails(c)
  \/ Skip(c) \/ Succeed(c) \/ Fail(c) \/ EndQuery(c)
  \/ Commit(c) \/ CommitRaises(c) \/ Close(c)

Next ==
  /\ (\E c \in Connections : Thread(c)) \/ (\E u \in Users : Expire(u))
  /\ UNCHANGED <<workload, options>>

Spec == Init /\ [][Next]_vars

---------------------------------------------------------------------------
(* Properties.                                                             *)

Effects(c) == UNION {Statements(c, t) : t \in DOMAIN workload[c].transactions}

TypeOK ==
  /\ workload \in Workloads /\ options \in [executeCopy : BOOLEAN, executeUnload : BOOLEAN]
  /\ cache \in [Users -> Databases \cup {NoRecord}]
  /\ pc \in [Connections -> {"start", "request", "dial", "run", "over"}]
  /\ attempt \in [Connections -> 0 .. MaxAttempts]
  /\ database \in [Connections -> Databases \cup {NoRecord}]
  /\ server \in [Connections -> {"none", "open", "aborted", "lost"}]
  /\ at \in [Connections -> Nat \X Nat \X Nat]
  /\ success \in [Connections -> BOOLEAN]
  /\ stats \in [Connections -> [query_success : Nat, query_error : Nat,
       transaction_success : Nat, transaction_error : Nat, connection_error : BOOLEAN]]
  /\ \A c \in Connections : \A S \in {errors[c], reported[c], errorLogger[c], pending[c], durable[c]} :
       S \subseteq Effects(c)
  /\ faults \in 0 .. MaxFaults

Committed(c) == 1 .. at[c][1] - 1
Failed(c, t) == {p \in errorLogger[c] : p[1] = t}

\* Every transaction that was committed is counted once, and none is counted as
\* successful while one of its statements failed.
CountsAddUp ==
  \A c \in Connections :
    /\ stats[c].transaction_success + stats[c].transaction_error = Cardinality(Committed(c))
    /\ stats[c].transaction_success <= Cardinality({t \in Committed(c) : Failed(c, t) = {}})

\* The transactions counted as successful, the first of their connection, have
\* left all the effects of their statements in the database, but for those
\* that were not to be replayed or that the workload itself rolled back.
SuccessIsDurable ==
  \A c \in Connections : \A t \in 1 .. stats[c].transaction_success :
    LET kinds == {KindOf(c, p) : p \in Statements(c, t)}
        replayed == {p \in Statements(c, t) : /\ Replayed(KindOf(c, p))
                                              /\ KindOf(c, p) \notin {"commit", "rollback"}}
    IN "rollback" \in kinds \/ replayed \subseteq durable[c]

\* A transaction that does not end itself takes effect as a whole or not at all:
\* the statements around a failed one leave nothing behind.
AllOrNothing ==
  \A c \in Connections : \A t \in DOMAIN workload[c].transactions :
    LET kinds == {KindOf(c, p) : p \in Statements(c, t)}
        replayed == {p \in Statements(c, t) : Replayed(KindOf(c, p))}
    IN kinds \cap {"commit", "rollback"} = {} =>
         Statements(c, t) \cap durable[c] \in {{}, replayed}

\* The error log of a transaction that was committed names every statement of
\* it that failed, also when statements after it succeeded.
NoErrorHidden ==
  \A c \in Connections : \A t \in Committed(c) : Failed(c, t) \subseteq reported[c]

---------------------------------------------------------------------------
(* What the code says, and does not do.                                    *)

\* replay.py:478 "Replayed DB={transaction.database_name}, USER=...".
RunsInRecordedDatabase ==
  \A c \in Connections : pc[c] = "run" => database[c] = workload[c].database
============================================================================

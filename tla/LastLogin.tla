------------------------------ MODULE LastLogin ------------------------------
(***************************************************************************)
(* User Last Login (UserLastLogin/user_last_login.py and lib/queries.py):  *)
(* runs that copy every user's last login from the query history to        *)
(* history.user_last_login, by way of a stage table.  Each statement is    *)
(* sent to the Data API of Redshift and polled until it is over; when a    *)
(* call of the API fails, execute_api_sql() logs it and returns None, and  *)
(* the statement may still be executed while the next ones are sent.       *)
(***************************************************************************)
EXTENDS Naturals, FiniteSets

CONSTANTS
  Users,          \* users, by the names that LOAD_STAGE_TABLE extracts
  Nobody,         \* the NULL name of users that have been dropped
  MaxLogins,      \* bound on the logins
  MaxTurns,       \* bound on the runs
  MaxFailures     \* bound on failures

LastLoginAssumption ==
  /\ Nobody \notin Users
  /\ MaxLogins \in Nat /\ MaxTurns \in Nat /\ MaxFailures \in Nat

VARIABLES
  time,       \* the last login so far
  login,      \* login[u]: the last login of u in sys_query_history, 0: none
  dropped,    \* users that are no more in pg_user_info
  exist,      \* both tables of the history schema exist
  stage,      \* rows of history.stg_user_last_login
  target,     \* rows of history.user_last_login
  step,       \* the statement of the run that is being executed
  late,       \* statements whose outcome was never seen
  loads,      \* how often the stage table was loaded
  turn,       \* number of runs
  failures,
  \* History:
  untidy,     \* a truncate or a load was not seen to finish
  incomplete, \* a statement of the current run failed or was not seen to finish
  loaded,     \* login at the last load
  known       \* users not dropped at the last load

loginVars ==
  <<time, login, dropped, exist, stage, target, step, late, loads, turn, failures,
    untidy, incomplete, loaded, known>>

\* The statements of a run, in their order; set application_name is left out.
Statements == {"check", "create", "truncate", "load", "update", "insert"}
Following == [check |-> "truncate", create |-> "truncate", truncate |-> "load",
              load |-> "update", update |-> "insert", insert |-> "done"]
Outside == {"idle", "done", "raised", "polling"}

\* A row of the tables; load tells rows apart that are equal.
LoginRow == [user : Users \cup {Nobody}, at : 0 .. MaxLogins, load : Nat]

LoginInit ==
  /\ time = 0 /\ login = [u \in Users |-> 0] /\ dropped = {}
  /\ exist \in BOOLEAN /\ stage = {} /\ target = {}
  /\ step = "idle" /\ late = {} /\ loads = 0 /\ turn = 0 /\ failures = 0
  /\ untidy = FALSE /\ incomplete = FALSE
  /\ loaded = login /\ known = Users

---------------------------------------------------------------------------
(* What the statements do (lib/queries.py).                                *)

SeenUsers == {u \in Users : login[u] > 0}

\* LOAD_STAGE_TABLE: a left join with the users, grouped by the names that are
\* extracted ("IAM:bob" and "bob" are both bob: accounts that share a name are one
\* user here, whose login is the latest of theirs, and dropped together).
Recorded ==
  {[user |-> u, at |-> login[u], load |-> loads + 1] : u \in SeenUsers \ dropped}
    \cup {[user |-> Nobody, at |-> login[u], load |-> loads + 1] :
            u \in {v \in SeenUsers \cap dropped :
                     \A w \in SeenUsers \cap dropped : login[w] <= login[v]}}

\* Mutant: an update without the condition on the names.
MutMatchesAny(r) == {s \in stage : s.at # r.at}

\* Mutant: the logins are compared the wrong way round.
MutMatchesEarlier(r) == {s \in stage : s.user = r.user /\ r.user # Nobody /\ s.at < r.at}

\* The rows of the stage table that match a row in a join: NULL matches nothing.
Matches(r) == {s \in stage : s.user = r.user /\ r.user # Nobody /\ s.at # r.at}

\* Mutant: the target takes any login of the stage table for a new one.
MutInsertable == stage

\* INSERT_TARGET_TABLE_FROM_STAGE: NOT IN is true when the target is empty, and
\* else true for names that differ from all others, unless a NULL is among these.
Insertable ==
  {s \in stage : target = {} \/ (s.user # Nobody /\ \A r \in target : r.user \notin {s.user, Nobody})}

\* Statement s is executed.
Execute(s) ==
  CASE s = "create" ->
         /\ exist' = TRUE
         /\ UNCHANGED <<stage, target, loads, loaded, known>>
    [] s = "truncate" /\ exist ->
         /\ stage' = {}
         /\ UNCHANGED <<exist, target, loads, loaded, known>>
    [] s = "load" /\ exist ->
         /\ stage' = stage \cup Recorded /\ loads' = loads + 1
         /\ loaded' = login /\ known' = Users \ dropped
         /\ UNCHANGED <<exist, target>>
    [] s = "update" /\ exist ->   \* any of a row's matches
         /\ \E at \in [target -> 0 .. MaxLogins] :
              /\ \A r \in target :
                   IF Matches(r) = {} THEN at[r] = r.at
                   ELSE \E m \in Matches(r) : at[r] = m.at
              /\ target' = {[r EXCEPT !.at = at[r]] : r \in target}
         /\ UNCHANGED <<exist, stage, loads, loaded, known>>
    [] s = "insert" /\ exist ->
         /\ target' = target \cup Insertable
         /\ UNCHANGED <<exist, stage, loads, loaded, known>>
    [] OTHER -> UNCHANGED <<exist, stage, target, loads, loaded, known>>

---------------------------------------------------------------------------
(* A run: update_user_last_login().                                        *)

BeginRun ==
  /\ step \in {"idle", "done", "raised"} /\ turn < MaxTurns
  /\ step' = "check" /\ turn' = turn + 1 /\ incomplete' = FALSE
  /\ UNCHANGED <<time, login, dropped, exist, stage, target, late, loads, failures,
                 untidy, loaded, known>>

\* describe_statement() answers FINISHED: the statement was executed.
Finished ==
  /\ step \in Statements /\ (step \in {"check", "create"} \/ exist)
  /\ Execute(step)
  /\ step' = IF step = "check" /\ ~exist THEN "create" ELSE Following[step]
  /\ UNCHANGED <<time, login, dropped, late, turn, failures, untidy, incomplete>>

\* No result for the first query: None cannot be indexed.  All others go on.
GoOn ==
  /\ step' = IF step = "check" THEN "raised" ELSE Following[step]
  /\ incomplete' = TRUE
  /\ untidy' = (untidy \/ step \in {"truncate", "load"})

\* The statement FAILED, or was never accepted.
Failed ==
  /\ step \in Statements
  /\ failures < MaxFailures
  /\ failures' = failures + 1
  /\ GoOn
  /\ UNCHANGED <<time, login, dropped, exist, stage, target, late, loads, turn, loaded, known>>

\* The tables do not exist, since create failed.
NoTables ==
  /\ step \in Statements \ {"check", "create"} /\ ~exist
  /\ GoOn
  /\ UNCHANGED <<time, login, dropped, exist, stage, target, late, loads, turn, failures,
                 loaded, known>>

\* A call of the Data API fails after the statement was accepted.
Unseen ==
  /\ step \in Statements /\ failures < MaxFailures
  /\ failures' = failures + 1
  /\ late' = late \cup {step}
  /\ GoOn
  /\ UNCHANGED <<time, login, dropped, exist, stage, target, loads, turn, loaded, known>>

\* The statement is ABORTED, a status that the polling loop does not know.
Aborted ==
  /\ step \in Statements /\ failures < MaxFailures
  /\ failures' = failures + 1
  /\ step' = "polling"
  /\ UNCHANGED <<time, login, dropped, exist, stage, target, late, loads, turn, untidy,
                 incomplete, loaded, known>>

\* A statement whose outcome was never seen is executed.
LateExecuted(s) ==
  /\ s \in late /\ late' = late \ {s}
  /\ Execute(s)
  /\ UNCHANGED <<time, login, dropped, step, turn, failures, untidy, incomplete>>

---------------------------------------------------------------------------
(* The users.                                                              *)

Login(u) ==
  /\ time < MaxLogins /\ u \notin dropped
  /\ time' = time + 1 /\ login' = [login EXCEPT ![u] = time']
  /\ UNCHANGED <<dropped, exist, stage, target, step, late, loads, turn, failures, untidy,
                 incomplete, loaded, known>>

\* The history keeps some days: the queries of u are too old.
Forget(u) ==
  /\ login[u] > 0
  /\ login' = [login EXCEPT ![u] = 0]
  /\ UNCHANGED <<time, dropped, exist, stage, target, step, late, loads, turn, failures,
                 untidy, incomplete, loaded, known>>

DropUser(u) ==
  /\ u \notin dropped
  /\ dropped' = dropped \cup {u}
  /\ UNCHANGED <<time, login, exist, stage, target, step, late, loads, turn, failures,
                 untidy, incomplete, loaded, known>>

Run == Finished \/ Failed \/ NoTables \/ Unseen \/ Aborted

LoginNext ==
  \/ BeginRun \/ Run
  \/ \E s \in Statements : LateExecuted(s)
  \/ \E u \in Users : Login(u) \/ Forget(u) \/ DropUser(u)

LoginSpec == LoginInit /\ [][LoginNext]_loginVars

---------------------------------------------------------------------------
(* Properties.                                                             *)

LoginTypeOK ==
  /\ time \in 0 .. MaxLogins /\ login \in [Users -> 0 .. MaxLogins] /\ dropped \subseteq Users
  /\ exist \in BOOLEAN /\ stage \subseteq LoginRow /\ target \subseteq LoginRow
  /\ step \in Statements \cup Outside /\ late \subseteq Statements
  /\ loads \in Nat /\ turn \in 0 .. MaxTurns /\ failures \in 0 .. MaxFailures
  /\ untidy \in BOOLEAN /\ incomplete \in BOOLEAN
  /\ loaded \in [Users -> 0 .. MaxLogins] /\ known \subseteq Users

\* A user has one row in history.user_last_login however often the utility
\* runs and whatever else fails, if every truncate and load of the stage table
\* was seen to finish: a second set of rows in the stage table is what doubles
\* a user.
OneRowPerUser ==
  ~untidy => \A r, s \in target : r.user = s.user => r = s

\* A run that ends without an error in any statement has recorded, for every
\* user that existed when the stage table was loaded, the last login up to that
\* moment; unless the row of a dropped user, which has no name, is in the table.
RecordsEveryUser ==
  step = "done" /\ ~incomplete /\ ~untidy /\ (\A r \in target : r.user # Nobody) =>
    \A u \in known : loaded[u] > 0 => \E r \in target : r.user = u /\ r.at = loaded[u]

\* A run without errors leaves a table with one row for every user, the true one.
LoginsRecorded == OneRowPerUser /\ RecordsEveryUser

\* A recorded login is never replaced by an earlier one, even if statements
\* are executed late, unless the stage table was not truncated.
NeverBackwards ==
  [][~untidy' => \A u \in Users : \A r \in {q \in target : q.user = u} :
        \E s \in target' : s.user = u /\ s.at >= r.at]_loginVars
===========================================================================

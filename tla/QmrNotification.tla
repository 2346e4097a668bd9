--------------------------- MODULE QmrNotification ---------------------------
(***************************************************************************)
(* QMR Notification (QMRNotificationUtility/lambda/lambda_function.py):    *)
(* a scheduled function that selects the rule actions of the last Interval *)
(* and publishes them.  It keeps no state: whether every action is         *)
(* published depends on when it happens to be invoked, on queries and      *)
(* publications that fail, on rows that appear late in the system log, and *)
(* on how many rows one page of the Data API's answer has.                 *)
(***************************************************************************)
EXTENDS Naturals, FiniteSets

CONSTANTS
  Actions,      \* rule actions, the rows of stl_wlm_rule_action
  Calls,        \* the invocations
  Interval,     \* '5 minutes'
  PageRows,     \* rows on a page of get_statement_result(); no other page is asked for
  MaxTime       \* bound on the time

QmrNotificationAssumption ==
  Interval \in Nat \ {0} /\ PageRows \in Nat \ {0} /\ MaxTime \in Nat

VARIABLES
  now,        \* GETDATE()
  at,         \* at[a]: recordtime of action a
  log,        \* actions whose rows can be selected
  call,       \* call[c]: "new", "selected", "published" or "lost"
  asOf,       \* asOf[c]: the time of c's query
  rows,       \* rows[c]: what it selected
  times,      \* times[a]: how often a was published
  \* History:
  slow,       \* actions that were in the log later than at their recordtime
  beyond,     \* actions that stood beyond the first page of a query
  last,       \* the latest time whose query was published, or was empty
  gap,        \* such a time came more than Interval after the one before
  close       \* two such times were less than Interval apart

qmrVars == <<now, at, log, call, asOf, rows, times, slow, beyond, last, gap, close>>

Times == 0 .. MaxTime
Happened == {a \in Actions : at[a] <= now}
Unset == MaxTime + 1

QmrInit ==
  /\ now = 0 /\ at = [a \in Actions |-> Unset] /\ log = {}
  /\ call = [c \in Calls |-> "new"]
  /\ asOf = [c \in Calls |-> 0] /\ rows = [c \in Calls |-> {}]
  /\ times = [a \in Actions |-> 0]
  /\ slow = {} /\ beyond = {} /\ last = 0 /\ gap = FALSE /\ close = FALSE

---------------------------------------------------------------------------
(* The function.                                                           *)

\* Mutant: the time at which the interval begins is not in it.
MutInWindow(a) == at[a] + Interval > now

\* Mutant: the interval of the query is longer than that of the schedule.
MutInLongWindow(a) == at[a] + 2 * Interval >= now

\* recordtime >= GETDATE() - INTERVAL '{interval}'
InWindow(a) == at[a] + Interval >= now

\* The first page of rows W, which come in descending order of recordtime.
FirstPage(P, W) ==
  /\ P \subseteq W /\ \A a \in P, b \in W \ P : at[b] <= at[a]
  /\ IF Cardinality(W) <= PageRows THEN P = W ELSE Cardinality(P) = PageRows

\* The statement is FINISHED, and the first page of its rows has been fetched.
Select(c) ==
  LET window == {a \in log : InWindow(a)} IN
  /\ call[c] = "new"
  /\ call' = [call EXCEPT ![c] = "selected"]
  /\ asOf' = [asOf EXCEPT ![c] = now]
  /\ \E page \in SUBSET window :
       /\ FirstPage(page, window)
       /\ rows' = [rows EXCEPT ![c] = page]
       /\ beyond' = beyond \cup (window \ page)
  /\ UNCHANGED <<now, at, log, times, slow, last, gap, close>>

\* The statement fails: "No results", and Success.
SelectFails(c) ==
  /\ call[c] = "new"
  /\ call' = [call EXCEPT ![c] = "lost"]
  /\ UNCHANGED <<now, at, log, asOf, rows, times, slow, beyond, last, gap, close>>

\* The published (or empty) queries whose times are less than Interval from t.
Near(t) ==
  {c \in Calls : call[c] = "published" /\ asOf[c] < t + Interval /\ t < asOf[c] + Interval}

\* publish_to_sns(), unless there are no rows.
Publish(c) ==
  /\ call[c] = "selected"
  /\ call' = [call EXCEPT ![c] = "published"]
  /\ times' = [a \in Actions |-> IF a \in rows[c] THEN times[a] + 1 ELSE times[a]]
  /\ last' = IF asOf[c] > last THEN asOf[c] ELSE last
  /\ gap' = (gap \/ asOf[c] > last + Interval)
  /\ close' = (close \/ Near(asOf[c]) # {})
  /\ UNCHANGED <<now, at, log, asOf, rows, slow, beyond>>

\* publish_to_sns() swallows what goes wrong; or the function is cut off.
PublishFails(c) ==
  /\ call[c] = "selected"
  /\ call' = [call EXCEPT ![c] = "lost"]
  /\ UNCHANGED <<now, at, log, asOf, rows, times, slow, beyond, last, gap, close>>

---------------------------------------------------------------------------
(* The cluster.                                                            *)

\* A rule action is taken; its row may be visible at once or later.
Act(a) ==
  /\ at[a] = Unset
  /\ at' = [at EXCEPT ![a] = now]
  /\ \/ log' = log \cup {a} /\ UNCHANGED slow
     \/ slow' = slow \cup {a} /\ UNCHANGED log
  /\ UNCHANGED <<now, call, asOf, rows, times, beyond, last, gap, close>>

Appear(a) ==
  /\ a \in slow \ log
  /\ log' = log \cup {a}
  /\ UNCHANGED <<now, at, call, asOf, rows, times, slow, beyond, last, gap, close>>

Tick ==
  /\ now < MaxTime /\ now' = now + 1
  /\ UNCHANGED <<at, log, call, asOf, rows, times, slow, beyond, last, gap, close>>

QmrNext ==
  \/ Tick
  \/ \E c \in Calls : Select(c) \/ SelectFails(c) \/ Publish(c) \/ PublishFails(c)
  \/ \E a \in Actions : Act(a) \/ Appear(a)

QmrSpec == QmrInit /\ [][QmrNext]_qmrVars

---------------------------------------------------------------------------
(* Properties.                                                             *)

QmrTypeOK ==
  /\ now \in Times /\ at \in [Actions -> Times \cup {Unset}]
  /\ log \subseteq Actions /\ slow \subseteq Actions /\ beyond \subseteq Actions
  /\ call \in [Calls -> {"new", "selected", "published", "lost"}]
  /\ asOf \in [Calls -> Times] /\ rows \in [Calls -> SUBSET Actions]
  /\ times \in [Actions -> Nat]
  /\ last \in Times /\ gap \in BOOLEAN /\ close \in BOOLEAN

\* README, "Goals": the function "reads events ... and publishes them".
\* As long as successful invocations follow each other within Interval, every
\* action from before the last of them has been published, if its row was
\* visible at once and on the first page of every query that found it: however
\* late, out of order or overlapping they ran.  (Rows on a second page are never
\* asked for, and are not even missed as "No results".)
NoneMissed ==
  ~gap => \A a \in Actions \ (slow \cup beyond) : at[a] < last => times[a] > 0

\* As long as successful invocations are at least Interval apart, no action is
\* published more than twice.
AtMostTwice ==
  ~close => \A a \in Actions : times[a] <= 2

\* Invocations that follow each other as the schedule should, neither too early
\* nor too late, publish every action once or twice.
OnceOrTwice == NoneMissed /\ AtMostTwice
===========================================================================

------------------------ MODULE ReplaySessionProofs ------------------------
(* What is proved about the sessions of a worker for any workload, any         *)
(* interleaving of its connections and any failures.                           *)
EXTENDS ReplaySession, FiniteSetTheorems, TLAPS

\* The statements of the current transaction that the thread has passed.
Passed(c) ==
  {p \in Statements(c, at[c][1]) :
     p[2] < at[c][2] \/ (p[2] = at[c][2] /\ p[3] < at[c][3])}

Sent(c, p) == Replayed(KindOf(c, p))
Ending(c, p) == KindOf(c, p) \in {"commit", "rollback"}
EndsItself(c, t) == \E p \in Statements(c, t) : Ending(c, p)
RollsBack(c, t) == \E p \in Statements(c, t) : KindOf(c, p) = "rollback"

\* Where a thread is: at a transaction of its connection, or behind the last.
PositionInv(c) ==
  /\ at[c][1] >= 1 /\ at[c][2] >= 1 /\ at[c][3] >= 1
  /\ 1 .. at[c][1] - 1 \subseteq DOMAIN workload[c].transactions

Busy(c) == pc[c] # "over" /\ at[c][1] \in DOMAIN workload[c].transactions

\* The counters, and the errors that have been logged but not reported.
CountAt(c, i, inQuery, ok, ts, te, qe, errs, rep, logged) ==
  /\ ts + te = i - 1
  /\ qe = 0 => te = 0
  /\ ok = TRUE \/ inQuery
  /\ logged # {} => qe > 0 \/ ok = FALSE
  /\ \A p \in logged : p[1] > ts
  /\ logged \subseteq rep \cup errs
  /\ \A p \in errs : p[1] = i

CountInv(c) ==
  CountAt(c, at[c][1], InQuery(c), success[c], stats[c].transaction_success,
          stats[c].transaction_error, stats[c].query_error, errors[c], reported[c],
          errorLogger[c])

\* Where the effects of the current transaction are; the ones before it have
\* all of theirs in the database, or none.
Whole(c, t, dur) ==
  \/ \A p \in Statements(c, t) : p \notin dur
  \/ \A p \in Statements(c, t) : p \in dur <=> Sent(c, p)

EffectAt(c, i, busy, passed, srv, pen, dur) ==
  /\ srv # "open" => pen = {}
  /\ \A p \in pen : p[1] = i /\ Sent(c, p)
  /\ \A p \in dur : p[1] <= i /\ Sent(c, p)
  /\ ~EndsItself(c, i) => \A p \in dur : p[1] # i
  /\ busy /\ ~EndsItself(c, i) =>
       /\ srv = "none" => \A p \in passed : ~Sent(c, p)
       /\ srv = "open" => \A p \in passed : p \in pen <=> Sent(c, p)
  /\ \A t \in 1 .. i - 1 : ~EndsItself(c, t) => Whole(c, t, dur)

EffectInv(c) ==
  EffectAt(c, at[c][1], Busy(c), Passed(c), server[c], pending[c], durable[c])

\* While nothing has failed, what was sent is in the transaction or committed.
Kept(c, p) == Sent(c, p) /\ ~Ending(c, p)

SuccessAt(c, i, n, busy, passed, srv, pen, dur, logged) ==
  /\ logged = {} => srv \in {"none", "open"}
  /\ logged = {} /\ busy /\ ~RollsBack(c, i) =>
       \A p \in passed : Kept(c, p) => p \in pen \cup dur
  /\ \A t \in 1 .. n :
       RollsBack(c, t) \/ \A p \in Statements(c, t) : Kept(c, p) => p \in dur

SuccessInv(c) ==
  SuccessAt(c, at[c][1], stats[c].transaction_success, Busy(c), Passed(c),
            server[c], pending[c], durable[c], errorLogger[c])

---------------------------------------------------------------------------
(* The statements of a transaction.                                        *)

LEMMA Members ==
  ASSUME NEW c, NEW t, NEW p
  PROVE  p \in Statements(c, t) <=>
           \E q \in DOMAIN Transaction(c, t) :
             \E s \in DOMAIN Transaction(c, t)[q] : p = <<t, q, s>>
BY DEF Statements

LEMMA Shape ==
  ASSUME workload \in Workloads, NEW c \in Connections,
         NEW t \in DOMAIN workload[c].transactions
  PROVE  /\ DOMAIN workload[c].transactions \subseteq Nat \ {0}
         /\ DOMAIN Transaction(c, t) = 1 .. Len(Transaction(c, t))
         /\ Len(Transaction(c, t)) \in Nat
         /\ \A q \in DOMAIN Transaction(c, t) :
              /\ DOMAIN Transaction(c, t)[q] = 1 .. Len(Transaction(c, t)[q])
              /\ Len(Transaction(c, t)[q]) \in Nat
              /\ \A s \in DOMAIN Transaction(c, t)[q] : Transaction(c, t)[q][s] \in Kinds
<1>1. workload[c].transactions \in Seq(Seq(Seq(Kinds)))
  BY SessionAssumption DEF Connections
<1>2. Transaction(c, t) \in Seq(Seq(Kinds))
  BY <1>1 DEF Transaction
<1>3. \A q \in DOMAIN Transaction(c, t) : Transaction(c, t)[q] \in Seq(Kinds)
  BY <1>2
<1>4. QED
  BY <1>1, <1>2, <1>3

LEMMA Parts ==
  ASSUME TypeOK, NEW c \in Connections, NEW t \in DOMAIN workload[c].transactions,
         NEW p \in Statements(c, t)
  PROVE  /\ p = <<t, p[2], p[3]>> /\ p[1] = t
         /\ p[2] \in Nat /\ p[2] >= 1 /\ p[2] \in DOMAIN Transaction(c, t)
         /\ p[3] \in Nat /\ p[3] >= 1 /\ p[3] \in DOMAIN Transaction(c, t)[p[2]]
<1>1. PICK q \in DOMAIN Transaction(c, t) : \E s \in DOMAIN Transaction(c, t)[q] : p = <<t, q, s>>
  BY Members
<1>2. PICK s \in DOMAIN Transaction(c, t)[q] : p = <<t, q, s>>
  BY <1>1
<1>3. p[1] = t /\ p[2] = q /\ p[3] = s
  BY <1>2
<1>4. workload \in Workloads
  BY DEF TypeOK
<1>5. /\ DOMAIN Transaction(c, t) = 1 .. Len(Transaction(c, t)) /\ Len(Transaction(c, t)) \in Nat
      /\ DOMAIN Transaction(c, t)[q] = 1 .. Len(Transaction(c, t)[q])
      /\ Len(Transaction(c, t)[q]) \in Nat
  BY <1>4, Shape
<1>6. q \in Nat /\ q >= 1 /\ s \in Nat /\ s >= 1
  BY <1>5
<1>7. QED
  BY <1>2, <1>3, <1>6

\* The statement a thread is at.
LEMMA Current ==
  ASSUME TypeOK, NEW c \in Connections, InStatement(c)
  PROVE  /\ at[c] \in Statements(c, at[c][1]) /\ at[c] \in Effects(c)
         /\ KindOf(c, at[c]) \in Kinds
<1>1. at[c] = <<at[c][1], at[c][2], at[c][3]>>
  BY DEF TypeOK
<1>2. at[c] \in Statements(c, at[c][1])
  BY <1>1, Members DEF InStatement, InQuery
<1>3. QED
  BY <1>1, <1>2, Shape DEF TypeOK, Effects, InStatement, InQuery, InTransaction, KindOf

LEMMA EffectOf ==
  ASSUME NEW c, NEW p \in Effects(c)
  PROVE  p[1] \in DOMAIN workload[c].transactions /\ p \in Statements(c, p[1])
<1>1. PICK t \in DOMAIN workload[c].transactions : p \in Statements(c, t)
  BY DEF Effects
<1>2. p[1] = t
  BY <1>1, Members
<1>3. QED
  BY <1>1, <1>2

\* How the statements that were passed grow.
LEMMA PassOne ==
  ASSUME TypeOK, NEW c \in Connections, InStatement(c), workload' = workload,
         at'[c] = <<at[c][1], at[c][2], at[c][3] + 1>>
  PROVE  /\ Passed(c)' = Passed(c) \cup {at[c]} /\ at[c] \notin Passed(c)
<1>1. at[c] = <<at[c][1], at[c][2], at[c][3]>> /\ at[c][2] \in Nat /\ at[c][3] \in Nat
  BY DEF TypeOK
<1>2. at[c] \in Statements(c, at[c][1])
  BY Current
<1>3. Statements(c, at[c][1])' = Statements(c, at'[c][1])
  BY DEF Statements, Transaction
<1>4. at'[c][1] = at[c][1] /\ at'[c][2] = at[c][2] /\ at'[c][3] = at[c][3] + 1
  OBVIOUS
<1>5. \A p \in Statements(c, at[c][1]) :
        p = <<at[c][1], p[2], p[3]>> /\ p[2] \in Nat /\ p[3] \in Nat
  BY Parts DEF InStatement, InQuery, InTransaction
<1>6. ASSUME NEW p \in Statements(c, at[c][1])
      PROVE  \/ p[2] < at[c][2] \/ (p[2] = at[c][2] /\ p[3] < at[c][3] + 1)
             <=> p \in Passed(c) \/ p = at[c]
  BY <1>1, <1>5 DEF Passed
<1>7. QED
  BY <1>1, <1>2, <1>3, <1>4, <1>6 DEF Passed

LEMMA PassQuery ==
  ASSUME TypeOK, NEW c \in Connections, PositionInv(c), InQuery(c), ~InStatement(c),
         workload' = workload, at'[c] = <<at[c][1], at[c][2] + 1, 1>>
  PROVE  Passed(c)' = Passed(c)
<1>1. at[c][1] \in Nat /\ at[c][2] \in Nat /\ at[c][3] \in Nat
  BY DEF TypeOK
<1>2. Statements(c, at[c][1])' = Statements(c, at'[c][1])
  BY DEF Statements, Transaction
<1>3. at'[c][1] = at[c][1] /\ at'[c][2] = at[c][2] + 1 /\ at'[c][3] = 1
  OBVIOUS
<1>4. ASSUME NEW p \in Statements(c, at[c][1])
      PROVE  p[2] \in Nat /\ p[3] \in Nat /\ p[3] >= 1 /\ (p[2] = at[c][2] => p[3] < at[c][3])
  <2>1. /\ p[2] \in Nat /\ p[3] \in Nat /\ p[3] >= 1
        /\ p[3] \in DOMAIN Transaction(c, at[c][1])[p[2]]
    BY Parts DEF InQuery, InTransaction
  <2>2. /\ DOMAIN Transaction(c, at[c][1])[at[c][2]]
             = 1 .. Len(Transaction(c, at[c][1])[at[c][2]])
        /\ Len(Transaction(c, at[c][1])[at[c][2]]) \in Nat
    BY Shape DEF InQuery, InTransaction, TypeOK
  <2>3. at[c][3] \notin 1 .. Len(Transaction(c, at[c][1])[at[c][2]])
    BY <2>2, InQuery(c), ~InStatement(c) DEF InStatement
  <2>4. p[2] = at[c][2] => p[3] \in 1 .. Len(Transaction(c, at[c][1])[at[c][2]])
    BY <2>1, <2>2
  <2>5. at[c][3] > Len(Transaction(c, at[c][1])[at[c][2]])
    BY <1>1, <2>2, <2>3 DEF PositionInv
  <2>6. QED
    BY <1>1, <2>1, <2>2, <2>4, <2>5
<1>5. ASSUME NEW p \in Statements(c, at[c][1])
      PROVE  p[2] < at[c][2] + 1 \/ (p[2] = at[c][2] + 1 /\ p[3] < 1)
             <=> p[2] < at[c][2] \/ (p[2] = at[c][2] /\ p[3] < at[c][3])
  BY <1>1, <1>4
<1>6. QED
  BY <1>2, <1>3, <1>5 DEF Passed

LEMMA PassTransaction ==
  ASSUME TypeOK, NEW c \in Connections, PositionInv(c), InTransaction(c), ~InQuery(c)
  PROVE  Passed(c) = Statements(c, at[c][1])
<1>1. ASSUME NEW p \in Statements(c, at[c][1])
      PROVE  p[2] < at[c][2]
  <2>1. p[2] \in 1 .. Len(Transaction(c, at[c][1])) /\ Len(Transaction(c, at[c][1])) \in Nat
    BY Members, Shape DEF InTransaction, TypeOK
  <2>2. at[c][2] \in Nat /\ at[c][2] >= 1 /\ at[c][2] \notin 1 .. Len(Transaction(c, at[c][1]))
    BY Shape DEF InQuery, InTransaction, TypeOK, PositionInv
  <2>3. QED
    BY <2>1, <2>2
<1>2. QED
  BY <1>1 DEF Passed

\* Nothing has been passed at the begin of a transaction.
LEMMA PassNothing ==
  ASSUME TypeOK, NEW c \in Connections, at[c][2] = 1, at[c][3] = 1,
         at[c][1] \in DOMAIN workload[c].transactions
  PROVE  Passed(c) = {}
<1>1. ASSUME NEW p \in Statements(c, at[c][1])
      PROVE  p[2] \in Nat /\ p[2] >= 1 /\ p[3] \in Nat /\ p[3] >= 1
  BY Parts
<1>2. QED
  BY <1>1 DEF Passed

LEMMA PassNext ==
  ASSUME TypeOK, NEW c \in Connections, NEW t \in DOMAIN workload[c].transactions,
         workload' = workload, at'[c] = <<t, 1, 1>>
  PROVE  Passed(c)' = {}
<1>1. ASSUME NEW p \in Statements(c, t)
      PROVE  p[2] \in Nat /\ p[2] >= 1 /\ p[3] \in Nat /\ p[3] >= 1
  BY Parts
<1>2. Statements(c, at[c][1])' = Statements(c, at'[c][1])
  BY DEF Statements, Transaction
<1>3. at'[c][1] = t /\ at'[c][2] = 1 /\ at'[c][3] = 1
  OBVIOUS
<1>4. QED
  BY <1>1, <1>2, <1>3 DEF Passed

---------------------------------------------------------------------------
(* What a step does to one connection.                                     *)

SameData(c) ==
  server'[c] = server[c] /\ pending'[c] = pending[c] /\ durable'[c] = durable[c]

SameTransactionStats(c) ==
  /\ stats'[c].transaction_success = stats[c].transaction_success
  /\ stats'[c].transaction_error = stats[c].transaction_error

SameStats(c) ==
  /\ SameTransactionStats(c) /\ stats'[c].query_error = stats[c].query_error
  /\ success'[c] = success[c] /\ errors'[c] = errors[c]
  /\ reported'[c] = reported[c] /\ errorLogger'[c] = errorLogger[c]

Idles(c) ==
  /\ pc'[c] = pc[c] \/ pc[c] \notin {"run", "over"}
  /\ at'[c] = at[c] /\ SameData(c) /\ SameStats(c)

PassesOne(c) ==
  InStatement(c) /\ pc'[c] = pc[c] /\ at'[c] = <<at[c][1], at[c][2], at[c][3] + 1>>

Skips(c) == PassesOne(c) /\ ~Sent(c, at[c]) /\ SameData(c) /\ SameStats(c)

Sends(c) ==
  /\ PassesOne(c) /\ Sent(c, at[c]) /\ ~Ending(c, at[c]) /\ SameStats(c)
  /\ server[c] \in {"none", "open"} /\ server'[c] = "open"
  /\ pending'[c] = pending[c] \cup {at[c]} /\ durable'[c] = durable[c]

Ends(c) ==
  /\ PassesOne(c) /\ Sent(c, at[c]) /\ Ending(c, at[c]) /\ SameStats(c)
  /\ server'[c] = "none" /\ pending'[c] = {}
  /\ \/ durable'[c] = durable[c] \cup pending[c]
     \/ KindOf(c, at[c]) = "rollback" /\ durable'[c] = durable[c]

Fails(c) ==
  /\ PassesOne(c) /\ Sent(c, at[c]) /\ server'[c] \in {"aborted", "lost"}
  /\ pending'[c] = {} /\ durable'[c] = durable[c]
  /\ success'[c] = FALSE /\ reported'[c] = reported[c]
  /\ errors'[c] = errors[c] \cup {at[c]} /\ errorLogger'[c] = errorLogger[c] \cup {at[c]}
  /\ SameTransactionStats(c) /\ stats'[c].query_error = stats[c].query_error

EndsQuery(c) ==
  /\ InQuery(c) /\ ~InStatement(c) /\ pc'[c] = pc[c]
  /\ at'[c] = <<at[c][1], at[c][2] + 1, 1>> /\ SameData(c) /\ SameTransactionStats(c)
  /\ \/ success[c] = TRUE /\ stats'[c].query_error = stats[c].query_error
     \/ success[c] = FALSE /\ stats'[c].query_error = stats[c].query_error + 1
  /\ success'[c] = TRUE /\ errors'[c] = errors[c]
  /\ reported'[c] = reported[c] /\ errorLogger'[c] = errorLogger[c]

Counts(c) ==
  \/ /\ stats[c].query_error = 0 /\ reported'[c] = reported[c]
     /\ stats'[c].transaction_success = stats[c].transaction_success + 1
     /\ stats'[c].transaction_error = stats[c].transaction_error
  \/ /\ stats[c].query_error # 0 /\ reported'[c] = reported[c] \cup errors[c]
     /\ stats'[c].transaction_success = stats[c].transaction_success
     /\ stats'[c].transaction_error = stats[c].transaction_error + 1

Commits(c) ==
  /\ InTransaction(c) /\ ~InQuery(c) /\ pc'[c] = pc[c]
  /\ at'[c] = <<at[c][1] + 1, 1, 1>>
  /\ server'[c] = "none" /\ pending'[c] = {} /\ durable'[c] = durable[c] \cup pending[c]
  /\ Counts(c) /\ stats'[c].query_error = stats[c].query_error
  /\ errors'[c] = {} /\ success'[c] = success[c] /\ errorLogger'[c] = errorLogger[c]

Leaves(c) ==
  /\ pc[c] = "run" /\ ~InQuery(c) /\ pc'[c] = "over" /\ at'[c] = at[c]
  /\ server'[c] = "none" /\ pending'[c] = {} /\ durable'[c] = durable[c] /\ SameStats(c)

LocalStep(c) ==
  \/ Idles(c) \/ Skips(c) \/ Sends(c) \/ Ends(c) \/ Fails(c)
  \/ EndsQuery(c) \/ Commits(c) \/ Leaves(c)

Domains ==
  /\ DOMAIN errors = Connections /\ DOMAIN reported = Connections
  /\ DOMAIN errorLogger = Connections /\ DOMAIN pending = Connections
  /\ DOMAIN durable = Connections

\* The threads have nothing in common but the credentials cache.
LEMMA OthersIdle ==
  ASSUME TypeOK, Domains, NEW e \in Connections, Thread(e), NEW c \in Connections, c # e
  PROVE  Idles(c)
<1> USE DEF TypeOK, Domains, Idles, SameData, SameStats, SameTransactionStats,
            cacheVars, dataVars, statVars, Goto
<1>1. CASE LookUp(e)
  BY <1>1 DEF LookUp
<1>2. CASE Granted(e)
  BY <1>2 DEF Granted
<1>3. CASE NoAnswer(e)
  BY <1>3 DEF NoAnswer
<1>4. CASE Refused(e)
  BY <1>4 DEF Refused
<1>5. CASE Connect(e)
  BY <1>5 DEF Connect
<1>6. CASE ConnectFails(e)
  BY <1>6 DEF ConnectFails
<1>7. CASE Skip(e)
  BY <1>7 DEF Skip, NextStatement
<1>8. CASE Succeed(e)
  BY <1>8 DEF Succeed, NextStatement
<1>9. CASE Fail(e)
  BY <1>9 DEF Fail, NextStatement
<1>10. CASE EndQuery(e)
  BY <1>10 DEF EndQuery
<1>11. CASE Commit(e)
  BY <1>11 DEF Commit, CountTransaction
<1>12. CASE CommitRaises(e)
  BY <1>12 DEF CommitRaises
<1>13. CASE Close(e)
  BY <1>13 DEF Close
<1>14. QED
  BY <1>1, <1>2, <1>3, <1>4, <1>5, <1>6, <1>7, <1>8, <1>9, <1>10, <1>11, <1>12, <1>13
  DEF Thread

LEMMA Locally ==
  ASSUME TypeOK, Domains, Next, NEW c \in Connections
  PROVE  LocalStep(c)
<1> USE DEF TypeOK, Domains, SameData, SameStats, SameTransactionStats,
            cacheVars, dataVars, statVars, Goto
<1>1. CASE \E u \in Users : Expire(u)
  BY <1>1 DEF Expire, Idles, LocalStep
<1>2. ASSUME NEW e \in Connections, Thread(e), c # e
      PROVE  LocalStep(c)
  BY <1>2, OthersIdle DEF LocalStep
<1>3. CASE LookUp(c)
  BY <1>3 DEF LookUp, Idles, LocalStep
<1>4. CASE Granted(c) \/ NoAnswer(c) \/ Refused(c)
  BY <1>4 DEF Granted, NoAnswer, Refused, Idles, LocalStep
<1>5. CASE Connect(c) \/ ConnectFails(c)
  BY <1>5 DEF Connect, ConnectFails, Idles, LocalStep
<1>6. CASE Skip(c)
  BY <1>6 DEF Skip, NextStatement, Skips, PassesOne, Sent, LocalStep
<1>7. CASE Succeed(c)
  <2>1. PassesOne(c) /\ Sent(c, at[c]) /\ SameStats(c)
    BY <1>7 DEF Succeed, NextStatement, PassesOne, Sent
  <2>2. CASE KindOf(c, at[c]) \in {"sql", "copy", "unload"}
    BY <1>7, <2>1, <2>2 DEF Succeed, Sends, Ending, LocalStep
  <2>3. CASE KindOf(c, at[c]) \in {"commit", "rollback"}
    BY <1>7, <2>1, <2>3 DEF Succeed, Ends, Ending, LocalStep
  <2>4. QED
    BY <1>7, <2>2, <2>3 DEF Succeed
<1>8. CASE Fail(c)
  BY <1>8 DEF Fail, NextStatement, Fails, PassesOne, Sent, LocalStep
<1>9. CASE EndQuery(c)
  <2>1. success[c] = TRUE \/ success[c] = FALSE
    BY Zenon
  <2>2. /\ InQuery(c) /\ ~InStatement(c) /\ pc'[c] = pc[c]
        /\ at'[c] = <<at[c][1], at[c][2] + 1, 1>> /\ SameData(c)
        /\ errors'[c] = errors[c]
        /\ reported'[c] = reported[c] /\ errorLogger'[c] = errorLogger[c]
    BY <1>9 DEF EndQuery
  <2>3. success'[c] = TRUE
    BY <1>9, Zenon DEF EndQuery
  <2>4. CASE success[c] = TRUE
    <3>1. stats' = [stats EXCEPT ![c].query_success = @ + 1]
      BY <1>9, <2>4, Zenon DEF EndQuery
    <3>2. SameTransactionStats(c) /\ stats'[c].query_error = stats[c].query_error
      BY <3>1
    <3>3. QED
      BY <2>2, <2>3, <2>4, <3>2, Zenon DEF EndsQuery, LocalStep
  <2>5. CASE success[c] = FALSE
    <3>1. stats' = [stats EXCEPT ![c].query_error = @ + 1]
      BY <1>9, <2>5, Zenon DEF EndQuery
    <3>2. SameTransactionStats(c) /\ stats'[c].query_error = stats[c].query_error + 1
      BY <3>1
    <3>3. QED
      BY <2>2, <2>3, <2>5, <3>2, Zenon DEF EndsQuery, LocalStep
  <2>6. QED
    BY <2>1, <2>4, <2>5
<1>10. CASE Commit(c)
  BY <1>10 DEF Commit, CountTransaction, Counts, Commits, LocalStep
<1>11. CASE CommitRaises(c)
  BY <1>11 DEF CommitRaises, InTransaction, Leaves, LocalStep
<1>12. CASE Close(c)
  BY <1>12 DEF Close, InQuery, Leaves, LocalStep
<1>13. QED
  BY <1>1, <1>2, <1>3, <1>4, <1>5, <1>6, <1>7, <1>8, <1>9, <1>10, <1>11, <1>12
  DEF Next, Thread

---------------------------------------------------------------------------
(* The invariant, of one connection.                                       *)

LEMMA EffectForm ==
  ASSUME workload' = workload, options' = options, NEW c,
         EffectAt(c, at'[c][1], Busy(c)', Passed(c)', server'[c], pending'[c], durable'[c])
  PROVE  EffectInv(c)'
<1>1. \A p : Sent(c, p)' <=> Sent(c, p)
  BY DEF Sent, Replayed, KindOf, Transaction
<1>2. \A t : Statements(c, t)' = Statements(c, t)
  BY DEF Statements, Transaction
<1>3. \A t : EndsItself(c, t)' <=> EndsItself(c, t)
  BY DEF EndsItself, Statements, Transaction, Ending, KindOf
<1>4. EndsItself(c, at[c][1])' <=> EndsItself(c, at'[c][1])
  BY DEF EndsItself, Statements, Transaction, Ending, KindOf
<1>5. QED
  BY <1>1, <1>2, <1>3, <1>4, Zenon DEF EffectInv, EffectAt, Whole

LEMMA SuccessForm ==
  ASSUME workload' = workload, options' = options, NEW c,
         SuccessAt(c, at'[c][1], stats'[c].transaction_success, Busy(c)', Passed(c)',
                   server'[c], pending'[c], durable'[c], errorLogger'[c])
  PROVE  SuccessInv(c)'
<1>1. \A p : Kept(c, p)' <=> Kept(c, p)
  BY DEF Kept, Ending, Sent, Replayed, KindOf, Transaction
<1>2. \A t : Statements(c, t)' = Statements(c, t)
  BY DEF Statements, Transaction
<1>3. \A t : RollsBack(c, t)' <=> RollsBack(c, t)
  BY DEF RollsBack, Statements, Transaction, KindOf
<1>4. RollsBack(c, at[c][1])' <=> RollsBack(c, at'[c][1])
  BY DEF RollsBack, Statements, Transaction, KindOf
<1>5. QED
  BY <1>1, <1>2, <1>3, <1>4, Zenon DEF SuccessInv, SuccessAt

LEMMA PositionStep ==
  ASSUME TypeOK, workload' = workload, NEW c \in Connections, PositionInv(c), LocalStep(c)
  PROVE  PositionInv(c)'
<1>1. at[c][1] \in Nat /\ at[c][2] \in Nat /\ at[c][3] \in Nat
  BY DEF TypeOK
<1>2. CASE at'[c] = at[c]
  BY <1>2 DEF PositionInv
<1>3. CASE at'[c] = <<at[c][1], at[c][2], at[c][3] + 1>>
  BY <1>1, <1>3 DEF PositionInv
<1>4. CASE EndsQuery(c)
  BY <1>1, <1>4 DEF PositionInv, EndsQuery
<1>5. CASE Commits(c)
  <2>1. at'[c] = <<at[c][1] + 1, 1, 1>> /\ at[c][1] \in DOMAIN workload[c].transactions
    BY <1>5 DEF Commits, InTransaction
  <2>2. at'[c][1] = at[c][1] + 1 /\ at'[c][2] = 1 /\ at'[c][3] = 1
    BY <2>1
  <2>3. 1 .. at[c][1] \subseteq DOMAIN workload[c].transactions
    BY <1>1, <2>1 DEF PositionInv
  <2>4. QED
    BY <1>1, <2>2, <2>3 DEF PositionInv
<1>6. QED
  BY <1>2, <1>3, <1>4, <1>5
  DEF LocalStep, Idles, Skips, Sends, Ends, Fails, Leaves, PassesOne

\* A thread stays inside its query until the query ends.
LEMMA QueryStep ==
  ASSUME TypeOK, workload' = workload, NEW c \in Connections, PassesOne(c)
  PROVE  InQuery(c) /\ InQuery(c)' /\ at'[c][1] = at[c][1]
<1>1. at'[c][1] = at[c][1] /\ at'[c][2] = at[c][2]
  BY DEF PassesOne
<1>2. QED
  BY <1>1 DEF PassesOne, InStatement, InQuery, InTransaction, Transaction

LEMMA CountStep ==
  ASSUME TypeOK, workload' = workload, NEW c \in Connections, CountInv(c), LocalStep(c)
  PROVE  CountInv(c)'
<1>1. /\ at[c][1] \in Nat /\ stats[c].transaction_success \in Nat
      /\ stats[c].transaction_error \in Nat /\ stats[c].query_error \in Nat
  BY DEF TypeOK
<1>2. CASE at'[c] = at[c] /\ SameStats(c) /\ (pc'[c] = pc[c] \/ ~InQuery(c))
  <2>1. success[c] = TRUE \/ InQuery(c)'
    BY <1>2 DEF CountInv, CountAt, InQuery, InTransaction, Transaction
  <2>2. QED
    BY <1>2, <2>1 DEF CountInv, CountAt, SameStats, SameTransactionStats
<1>3. CASE Idles(c)
  BY <1>2, <1>3 DEF Idles, InQuery, InTransaction
<1>4. CASE Skips(c) \/ Sends(c) \/ Ends(c)
  <2>1. PassesOne(c) /\ SameStats(c)
    BY <1>4 DEF Skips, Sends, Ends
  <2>2. QED
    BY <2>1, QueryStep DEF CountInv, CountAt, SameStats, SameTransactionStats
<1>5. CASE Fails(c)
  <2>1. PassesOne(c)
    BY <1>5 DEF Fails
  <2>2. stats[c].transaction_success < at[c][1]
    BY <1>1 DEF CountInv, CountAt
  <2>3. QED
    BY <1>5, <2>1, <2>2, QueryStep DEF CountInv, CountAt, Fails, SameTransactionStats
<1>6. CASE EndsQuery(c)
  <2>1. at'[c][1] = at[c][1]
    BY <1>6 DEF EndsQuery
  <2>2. stats'[c].query_error \in Nat /\ stats'[c].query_error >= stats[c].query_error
    BY <1>1, <1>6 DEF EndsQuery
  <2>3. errorLogger[c] # {} => stats'[c].query_error > 0
    BY <1>1, <1>6 DEF EndsQuery, CountInv, CountAt
  <2>4. QED
    BY <1>1, <1>6, <2>1, <2>2, <2>3 DEF EndsQuery, CountInv, CountAt, SameTransactionStats
<1>7. CASE Commits(c)
  <2>1. at'[c][1] = at[c][1] + 1 /\ success[c] = TRUE
    BY <1>7 DEF Commits, CountInv, CountAt
  <2>2. CASE stats[c].query_error = 0
    <3>1. errorLogger[c] = {}
      BY <2>1, <2>2 DEF CountInv, CountAt
    <3>2. QED
      BY <1>1, <1>7, <2>1, <2>2, <3>1 DEF Commits, Counts, CountInv, CountAt
  <2>3. CASE stats[c].query_error # 0
    <3>1. /\ stats'[c].transaction_success = stats[c].transaction_success
          /\ stats'[c].transaction_error = stats[c].transaction_error + 1
          /\ reported'[c] = reported[c] \cup errors[c] /\ stats'[c].query_error > 0
      BY <1>1, <1>7, <2>3 DEF Commits, Counts
    <3>2. QED
      BY <1>1, <1>7, <2>1, <2>3, <3>1 DEF Commits, CountInv, CountAt
  <2>4. QED
    BY <2>2, <2>3
<1>8. CASE Leaves(c)
  BY <1>2, <1>8 DEF Leaves
<1>9. QED
  BY <1>3, <1>4, <1>5, <1>6, <1>7, <1>8 DEF LocalStep

\* What is committed later belongs to later transactions.
LEMMA WholeKept ==
  ASSUME NEW c, NEW t, NEW dur, NEW pen, Whole(c, t, dur), \A p \in pen : p[1] # t
  PROVE  Whole(c, t, dur \cup pen)
<1>1. \A p \in Statements(c, t) : p \notin pen
  BY Members
<1>2. QED
  BY <1>1 DEF Whole

LEMMA EffectStep ==
  ASSUME TypeOK, workload' = workload, options' = options, NEW c \in Connections,
         PositionInv(c), EffectInv(c), LocalStep(c)
  PROVE  EffectInv(c)'
<1> DEFINE i == at[c][1]
<1>1. i \in Nat
  BY DEF TypeOK
<1>2. EffectAt(c, i, Busy(c), Passed(c), server[c], pending[c], durable[c])
  BY DEF EffectInv
<1>3. SUFFICES EffectAt(c, at'[c][1], Busy(c)', Passed(c)', server'[c], pending'[c], durable'[c])
  BY EffectForm
<1>4. CASE Idles(c)
  <2>1. Passed(c)' = Passed(c) /\ at'[c][1] = i /\ (Busy(c)' => Busy(c))
    BY <1>4 DEF Idles, Busy, Passed, Statements, Transaction
  <2>2. QED
    BY <1>2, <1>4, <2>1 DEF Idles, SameData, EffectAt
<1>5. ASSUME PassesOne(c)
      PROVE  /\ Passed(c)' = Passed(c) \cup {at[c]} /\ at[c] \notin Passed(c)
             /\ at'[c][1] = i /\ (Busy(c)' => Busy(c))
             /\ at[c] \in Statements(c, i)
  BY <1>5, PassOne, Current DEF PassesOne, Busy
<1>6. CASE Skips(c)
  <2>1. /\ PassesOne(c) /\ ~Sent(c, at[c]) /\ server'[c] = server[c]
        /\ pending'[c] = pending[c] /\ durable'[c] = durable[c]
    BY <1>6 DEF Skips, SameData
  <2>2. at[c] \notin pending[c]
    BY <1>2, <2>1 DEF EffectAt
  <2>3. QED
    BY <1>2, <1>5, <2>1, <2>2 DEF EffectAt
<1>7. CASE Sends(c)
  <2>1. /\ PassesOne(c) /\ Sent(c, at[c]) /\ server[c] \in {"none", "open"}
        /\ server'[c] = "open" /\ pending'[c] = pending[c] \cup {at[c]}
        /\ durable'[c] = durable[c]
    BY <1>7 DEF Sends
  <2>2. server[c] = "none" => pending[c] = {}
    BY <1>2 DEF EffectAt
  <2>3. QED
    BY <1>2, <1>5, <2>1, <2>2 DEF EffectAt
<1>8. CASE Ends(c)
  <2>1. /\ PassesOne(c) /\ Ending(c, at[c]) /\ server'[c] = "none" /\ pending'[c] = {}
        /\ durable'[c] = durable[c] \/ durable'[c] = durable[c] \cup pending[c]
    BY <1>8 DEF Ends
  <2>2. EndsItself(c, i)
    BY <1>5, <2>1 DEF EndsItself
  <2>3. \A p \in durable'[c] : p[1] <= i /\ Sent(c, p)
    BY <1>1, <1>2, <2>1 DEF EffectAt
  <2>4. ASSUME NEW t \in 1 .. i - 1, ~EndsItself(c, t)
        PROVE  Whole(c, t, durable'[c])
    <3>1. Whole(c, t, durable[c]) /\ \A p \in pending[c] : p[1] # t
      BY <1>1, <1>2, <2>4 DEF EffectAt
    <3>2. Whole(c, t, durable[c] \cup pending[c])
      BY <3>1, WholeKept
    <3>3. QED
      BY <2>1, <3>1, <3>2 DEF Whole
  <2>5. QED
    BY <1>5, <2>1, <2>2, <2>3, <2>4 DEF EffectAt
<1>9. CASE Fails(c)
  <2>1. /\ PassesOne(c) /\ server'[c] \in {"aborted", "lost"}
        /\ pending'[c] = {} /\ durable'[c] = durable[c]
    BY <1>9 DEF Fails
  <2>2. QED
    BY <1>2, <1>5, <2>1 DEF EffectAt
<1>10. CASE EndsQuery(c)
  <2>1. Passed(c)' = Passed(c)
    BY <1>10, PassQuery DEF EndsQuery
  <2>2. at'[c][1] = i /\ (Busy(c)' => Busy(c))
    BY <1>10 DEF EndsQuery, Busy
  <2>3. QED
    BY <1>2, <1>10, <2>1, <2>2 DEF EndsQuery, SameData, EffectAt
<1>11. CASE Commits(c)
  <2>1. /\ InTransaction(c) /\ ~InQuery(c) /\ at'[c] = <<i + 1, 1, 1>>
        /\ server'[c] = "none" /\ pending'[c] = {} /\ durable'[c] = durable[c] \cup pending[c]
    BY <1>11 DEF Commits
  <2>2. at'[c][1] = i + 1 /\ Busy(c) /\ Passed(c) = Statements(c, i)
    BY <2>1, PassTransaction DEF InTransaction, Busy
  <2>3. \A p \in durable'[c] : p[1] <= i /\ Sent(c, p)
    BY <1>1, <1>2, <2>1 DEF EffectAt
  <2>4. \A p \in durable'[c] : p[1] <= i + 1 /\ p[1] # i + 1
    <3>1. \A p \in durable'[c] : p[1] \in Nat
      BY <2>1, EffectOf, Shape DEF TypeOK
    <3>2. QED
      BY <1>1, <2>3, <3>1
  <2>5. Busy(c)' => Passed(c)' = {}
    BY <1>1, <2>1, <2>2, PassNext DEF Busy
  <2>6. ASSUME NEW t \in 1 .. i, ~EndsItself(c, t)
        PROVE  Whole(c, t, durable'[c])
    <3>1. CASE t = i
      <4>1. \A p \in Statements(c, i) : p \notin durable[c]
        BY <1>2, <2>6, <3>1, Members DEF EffectAt
      <4>2. CASE server[c] = "open"
        BY <1>2, <2>1, <2>2, <2>6, <3>1, <4>1, <4>2 DEF EffectAt, Whole
      <4>3. CASE server[c] # "open"
        BY <1>2, <2>1, <3>1, <4>1, <4>3 DEF EffectAt, Whole
      <4>4. QED
        BY <4>2, <4>3
    <3>2. CASE t # i
      <4>1. Whole(c, t, durable[c]) /\ \A p \in pending[c] : p[1] # t
        BY <1>1, <1>2, <2>6, <3>2 DEF EffectAt
      <4>2. Whole(c, t, durable[c] \cup pending[c])
        BY <4>1, WholeKept
      <4>3. QED
        BY <2>1, <4>2 DEF Whole
    <3>3. QED
      BY <3>1, <3>2
  <2>7. (i + 1) - 1 = i
    BY <1>1
  <2>8. QED
    BY <2>1, <2>2, <2>3, <2>4, <2>5, <2>6, <2>7 DEF EffectAt
<1>12. CASE Leaves(c)
  <2>1. ~Busy(c)' /\ at'[c][1] = i
    BY <1>12 DEF Leaves, Busy
  <2>2. QED
    BY <1>2, <1>12, <2>1 DEF Leaves, EffectAt
<1>13. QED
  BY <1>4, <1>6, <1>7, <1>8, <1>9, <1>10, <1>11, <1>12 DEF LocalStep

LEMMA SuccessStep ==
  ASSUME TypeOK, workload' = workload, options' = options, NEW c \in Connections,
         PositionInv(c), CountInv(c), SuccessInv(c), LocalStep(c)
  PROVE  SuccessInv(c)'
<1> DEFINE i == at[c][1]
           n == stats[c].transaction_success
<1>1. i \in Nat /\ n \in Nat /\ stats[c].transaction_error \in Nat /\ stats[c].query_error \in Nat
  BY DEF TypeOK
<1>2. SuccessAt(c, i, n, Busy(c), Passed(c), server[c], pending[c], durable[c], errorLogger[c])
  BY DEF SuccessInv
<1>3. SUFFICES SuccessAt(c, at'[c][1], stats'[c].transaction_success, Busy(c)', Passed(c)',
                         server'[c], pending'[c], durable'[c], errorLogger'[c])
  BY SuccessForm
<1>4. CASE Idles(c)
  <2>1. Passed(c)' = Passed(c) /\ at'[c][1] = i /\ (Busy(c)' => Busy(c))
    BY <1>4 DEF Idles, Busy, Passed, Statements, Transaction
  <2>2. stats'[c].transaction_success = n /\ errorLogger'[c] = errorLogger[c]
    BY <1>4 DEF Idles, SameStats, SameTransactionStats
  <2>3. QED
    BY <1>2, <1>4, <2>1, <2>2 DEF Idles, SameData, SuccessAt
<1>5. ASSUME PassesOne(c)
      PROVE  /\ Passed(c)' = Passed(c) \cup {at[c]} /\ at'[c][1] = i
             /\ (Busy(c)' => Busy(c)) /\ at[c] \in Statements(c, i)
  BY <1>5, PassOne, Current DEF PassesOne, Busy
<1>6. CASE Skips(c)
  <2>1. /\ PassesOne(c) /\ ~Kept(c, at[c]) /\ server'[c] = server[c]
        /\ pending'[c] = pending[c] /\ durable'[c] = durable[c]
        /\ stats'[c].transaction_success = n /\ errorLogger'[c] = errorLogger[c]
    BY <1>6 DEF Skips, Kept, SameData, SameStats, SameTransactionStats
  <2>2. QED
    BY <1>2, <1>5, <2>1 DEF SuccessAt
<1>7. CASE Sends(c)
  <2>1. /\ PassesOne(c) /\ server'[c] = "open"
        /\ pending'[c] = pending[c] \cup {at[c]} /\ durable'[c] = durable[c]
        /\ stats'[c].transaction_success = n /\ errorLogger'[c] = errorLogger[c]
    BY <1>7 DEF Sends, SameStats, SameTransactionStats
  <2>2. QED
    BY <1>2, <1>5, <2>1 DEF SuccessAt
<1>8. CASE Ends(c)
  <2>1. /\ PassesOne(c) /\ ~Kept(c, at[c]) /\ server'[c] = "none" /\ pending'[c] = {}
        /\ stats'[c].transaction_success = n /\ errorLogger'[c] = errorLogger[c]
    BY <1>8 DEF Ends, Kept, SameStats, SameTransactionStats
  <2>2. CASE durable'[c] = durable[c] \cup pending[c]
    BY <1>2, <1>5, <2>1, <2>2 DEF SuccessAt
  <2>3. CASE KindOf(c, at[c]) = "rollback" /\ durable'[c] = durable[c]
    <3>1. RollsBack(c, i)
      BY <1>5, <2>1, <2>3 DEF RollsBack
    <3>2. QED
      BY <1>2, <1>5, <2>1, <2>3, <3>1 DEF SuccessAt
  <2>4. QED
    BY <1>8, <2>2, <2>3 DEF Ends
<1>9. CASE Fails(c)
  <2>1. /\ PassesOne(c) /\ durable'[c] = durable[c]
        /\ stats'[c].transaction_success = n /\ errorLogger'[c] # {}
    BY <1>9 DEF Fails, SameTransactionStats
  <2>2. QED
    BY <1>2, <1>5, <2>1 DEF SuccessAt
<1>10. CASE EndsQuery(c)
  <2>1. Passed(c)' = Passed(c)
    BY <1>10, PassQuery DEF EndsQuery
  <2>2. /\ at'[c][1] = i /\ (Busy(c)' => Busy(c)) /\ errorLogger'[c] = errorLogger[c]
        /\ stats'[c].transaction_success = n
    BY <1>10 DEF EndsQuery, Busy, SameTransactionStats
  <2>3. QED
    BY <1>2, <1>10, <2>1, <2>2 DEF EndsQuery, SameData, SuccessAt
<1>11. CASE Commits(c)
  <2>1. /\ InTransaction(c) /\ ~InQuery(c) /\ at'[c] = <<i + 1, 1, 1>>
        /\ server'[c] = "none" /\ pending'[c] = {} /\ durable'[c] = durable[c] \cup pending[c]
        /\ errorLogger'[c] = errorLogger[c]
    BY <1>11 DEF Commits
  <2>2. at'[c][1] = i + 1 /\ Busy(c) /\ Passed(c) = Statements(c, i)
    BY <2>1, PassTransaction DEF InTransaction, Busy
  <2>3. Busy(c)' => Passed(c)' = {}
    BY <1>1, <2>1, <2>2, PassNext DEF Busy
  <2>4. \A t \in 1 .. n : RollsBack(c, t)
          \/ \A p \in Statements(c, t) : Kept(c, p) => p \in durable'[c]
    BY <1>2, <2>1 DEF SuccessAt
  <2>5. CASE stats[c].query_error = 0
    <3>1. stats'[c].transaction_success = n + 1 /\ n + 1 = i /\ errorLogger[c] = {}
      BY <1>1, <1>11, <2>1, <2>5 DEF Commits, Counts, CountInv, CountAt
    <3>2. RollsBack(c, i) \/ \A p \in Statements(c, i) : Kept(c, p) => p \in durable'[c]
      BY <1>2, <2>1, <2>2, <3>1 DEF SuccessAt
    <3>3. \A t \in 1 .. n + 1 : t \in 1 .. n \/ t = i
      BY <1>1, <3>1
    <3>4. QED
      BY <2>1, <2>2, <2>3, <2>4, <3>1, <3>2, <3>3 DEF SuccessAt
  <2>6. CASE stats[c].query_error # 0
    <3>1. stats'[c].transaction_success = n
      BY <1>11, <2>6 DEF Commits, Counts
    <3>2. QED
      BY <2>1, <2>2, <2>3, <2>4, <3>1 DEF SuccessAt
  <2>7. QED
    BY <2>5, <2>6
<1>12. CASE Leaves(c)
  <2>1. /\ ~Busy(c)' /\ at'[c][1] = i /\ server'[c] = "none" /\ durable'[c] = durable[c]
        /\ stats'[c].transaction_success = n
    BY <1>12 DEF Leaves, Busy, SameStats, SameTransactionStats
  <2>2. QED
    BY <1>2, <2>1 DEF SuccessAt
<1>13. QED
  BY <1>4, <1>6, <1>7, <1>8, <1>9, <1>10, <1>11, <1>12 DEF LocalStep

---------------------------------------------------------------------------
(* The inductive invariant and what follows from it.                       *)

SessionInv(c) == PositionInv(c) /\ CountInv(c) /\ EffectInv(c) /\ SuccessInv(c)

IInv == TypeOK /\ Domains /\ \A c \in Connections : SessionInv(c)

LEMMA InitInv == Init => IInv
<1> SUFFICES ASSUME Init PROVE IInv
  OBVIOUS
<1>1. workload \in Workloads /\ 1 \in DOMAIN workload
  BY SessionAssumption DEF Init
<1>2. cache \in [Users -> Databases \cup {NoRecord}]
  BY <1>1 DEF Init, Users, Databases, Connections
<1>3. success \in [Connections -> BOOLEAN] /\ faults \in 0 .. MaxFaults
  BY SessionAssumption DEF Init
<1>4. TypeOK
  BY <1>1, <1>2, <1>3, SessionAssumption DEF Init, TypeOK
<1>5. Domains
  BY DEF Init, Domains
<1>6. ASSUME NEW c \in Connections
      PROVE  SessionInv(c)
  <2>1. /\ at[c][1] = 1 /\ at[c][2] = 1 /\ at[c][3] = 1 /\ success[c] = TRUE
        /\ stats[c].transaction_success = 0 /\ stats[c].transaction_error = 0
        /\ stats[c].query_error = 0 /\ server[c] = "none"
        /\ errors[c] = {} /\ errorLogger[c] = {} /\ pending[c] = {} /\ durable[c] = {}
    BY DEF Init
  <2>2. Busy(c) => Passed(c) = {}
    BY <1>4, <2>1, PassNothing DEF Busy
  <2>3. PositionInv(c)
    BY <2>1 DEF PositionInv
  <2>4. CountInv(c)
    BY <2>1 DEF CountInv, CountAt
  <2>5. EffectInv(c)
    BY <2>1, <2>2 DEF EffectInv, EffectAt
  <2>6. SuccessInv(c)
    BY <2>1, <2>2 DEF SuccessInv, SuccessAt
  <2>7. QED
    BY <2>3, <2>4, <2>5, <2>6 DEF SessionInv
<1>7. QED
  BY <1>4, <1>5, <1>6 DEF IInv

StatType ==
  [query_success : Nat, query_error : Nat, transaction_success : Nat,
   transaction_error : Nat, connection_error : BOOLEAN]

LEMMA StatTypes ==
  ASSUME NEW r \in StatType
  PROVE  /\ [r EXCEPT !.query_success = @ + 1] \in StatType
         /\ [r EXCEPT !.query_error = @ + 1] \in StatType
         /\ [r EXCEPT !.transaction_success = @ + 1] \in StatType
         /\ [r EXCEPT !.transaction_error = @ + 1] \in StatType
         /\ [r EXCEPT !.connection_error = TRUE] \in StatType
<1>1. /\ r.query_success \in Nat /\ r.query_error \in Nat
      /\ r.transaction_success \in Nat /\ r.transaction_error \in Nat
  BY DEF StatType
<1>2. r.connection_error \in BOOLEAN
  BY Zenon DEF StatType
<1>3. [r EXCEPT !.query_success = @ + 1] \in StatType
  BY <1>1, <1>2 DEF StatType
<1>4. [r EXCEPT !.query_error = @ + 1] \in StatType
  BY <1>1, <1>2 DEF StatType
<1>5. [r EXCEPT !.transaction_success = @ + 1] \in StatType
  BY <1>1, <1>2 DEF StatType
<1>6. [r EXCEPT !.transaction_error = @ + 1] \in StatType
  BY <1>1, <1>2 DEF StatType
<1>7. [r EXCEPT !.connection_error = TRUE] \in StatType
  BY <1>1, <1>2 DEF StatType
<1>8. QED
  BY <1>3, <1>4, <1>5, <1>6, <1>7

LEMMA StatStep ==
  ASSUME stats \in [Connections -> StatType], NEW c \in Connections, Thread(c)
  PROVE  stats' \in [Connections -> StatType]
<1> USE DEF cacheVars, dataVars, statVars
<1>1. CASE LookUp(c)
  BY <1>1 DEF LookUp
<1>2. CASE Granted(c)
  BY <1>2 DEF Granted
<1>3. CASE NoAnswer(c)
  BY <1>3 DEF NoAnswer
<1>4. CASE Refused(c)
  BY <1>4 DEF Refused
<1>5. CASE Connect(c)
  BY <1>5 DEF Connect
<1>6. CASE ConnectFails(c)
  BY <1>6, StatTypes DEF ConnectFails
<1>7. CASE Skip(c)
  BY <1>7 DEF Skip, NextStatement
<1>8. CASE Succeed(c)
  BY <1>8 DEF Succeed, NextStatement
<1>9. CASE Fail(c)
  BY <1>9 DEF Fail, NextStatement
<1>10. CASE EndQuery(c)
  <2>1. \/ stats' = [stats EXCEPT ![c].query_success = @ + 1]
        \/ stats' = [stats EXCEPT ![c].query_error = @ + 1]
    BY <1>10, Zenon DEF EndQuery
  <2>2. QED
    BY <2>1, StatTypes
<1>11. CASE Commit(c)
  <2>1. \/ stats' = [stats EXCEPT ![c].transaction_success = @ + 1]
        \/ stats' = [stats EXCEPT ![c].transaction_error = @ + 1]
    BY <1>11, Zenon DEF Commit, CountTransaction
  <2>2. QED
    BY <2>1, StatTypes
<1>12. CASE CommitRaises(c)
  BY <1>12 DEF CommitRaises
<1>13. CASE Close(c)
  BY <1>13 DEF Close
<1>14. QED
  BY <1>1, <1>2, <1>3, <1>4, <1>5, <1>6, <1>7, <1>8, <1>9, <1>10, <1>11, <1>12, <1>13 DEF Thread

LEMMA TypeStep ==
  ASSUME TypeOK, Domains, Next
  PROVE  TypeOK' /\ Domains'
<1> USE DEF Goto, Fault, cacheVars, dataVars, statVars
<1>1. /\ workload' = workload /\ options' = options /\ Connections' = Connections
      /\ Users' = Users /\ Databases' = Databases
  BY DEF Next, Connections, Users, Databases
<1>2. \A c \in Connections : Effects(c)' = Effects(c)
  BY <1>1 DEF Effects, Statements, Transaction
<1>3. CASE \E u \in Users : Expire(u)
  <2>1. cache' \in [Users -> Databases \cup {NoRecord}]
    BY <1>3 DEF Expire, TypeOK
  <2>2. QED
    BY <1>1, <1>2, <1>3, <2>1 DEF Expire, TypeOK, Domains
<1>4. ASSUME NEW c \in Connections, Thread(c)
      PROVE  /\ cache' \in [Users -> Databases \cup {NoRecord}]
             /\ database' \in [Connections -> Databases \cup {NoRecord}]
             /\ attempt' \in [Connections -> 0 .. MaxAttempts]
  <2> /\ workload[c].user \in Users /\ workload[c].database \in Databases
      /\ cache \in [Users -> Databases \cup {NoRecord}]
      /\ database \in [Connections -> Databases \cup {NoRecord}]
      /\ attempt \in [Connections -> 0 .. MaxAttempts] /\ MaxAttempts \in Nat \ {0}
    BY SessionAssumption DEF TypeOK, Users, Databases
  <2>1. CASE LookUp(c)
    BY <2>1 DEF LookUp
  <2>2. CASE Granted(c)
    BY <2>2 DEF Granted
  <2>3. CASE NoAnswer(c)
    BY <2>3 DEF NoAnswer
  <2>4. CASE Refused(c)
    BY <2>4 DEF Refused
  <2>5. CASE Connect(c)
    BY <2>5 DEF Connect
  <2>6. CASE ConnectFails(c)
    BY <2>6 DEF ConnectFails
  <2>7. CASE Skip(c)
    BY <2>7 DEF Skip, NextStatement
  <2>8. CASE Succeed(c)
    BY <2>8 DEF Succeed, NextStatement
  <2>9. CASE Fail(c)
    BY <2>9 DEF Fail, NextStatement
  <2>10. CASE EndQuery(c)
    BY <2>10 DEF EndQuery
  <2>11. CASE Commit(c)
    BY <2>11 DEF Commit, CountTransaction
  <2>12. CASE CommitRaises(c)
    BY <2>12 DEF CommitRaises
  <2>13. CASE Close(c)
    BY <2>13 DEF Close
  <2>14. QED
    BY <1>4, <2>1, <2>2, <2>3, <2>4, <2>5, <2>6, <2>7, <2>8, <2>9, <2>10, <2>11, <2>12, <2>13 DEF Thread
<1>5. ASSUME NEW c \in Connections, Thread(c)
      PROVE  /\ pc' \in [Connections -> {"start", "request", "dial", "run", "over"}]
             /\ server' \in [Connections -> {"none", "open", "aborted", "lost"}]
             /\ at' \in [Connections -> Nat \X Nat \X Nat]
             /\ faults' \in 0 .. MaxFaults
  <2> /\ pc \in [Connections -> {"start", "request", "dial", "run", "over"}]
      /\ server \in [Connections -> {"none", "open", "aborted", "lost"}]
      /\ at \in [Connections -> Nat \X Nat \X Nat]
      /\ faults \in 0 .. MaxFaults /\ MaxFaults \in Nat
    BY SessionAssumption DEF TypeOK
  <2>1. CASE LookUp(c)
    BY <2>1 DEF LookUp
  <2>2. CASE Granted(c)
    BY <2>2 DEF Granted
  <2>3. CASE NoAnswer(c)
    BY <2>3 DEF NoAnswer
  <2>4. CASE Refused(c)
    BY <2>4 DEF Refused
  <2>5. CASE Connect(c)
    BY <2>5 DEF Connect
  <2>6. CASE ConnectFails(c)
    BY <2>6 DEF ConnectFails
  <2>7. CASE Skip(c)
    BY <2>7 DEF Skip, NextStatement
  <2>8. CASE Succeed(c)
    BY <2>8 DEF Succeed, NextStatement
  <2>9. CASE Fail(c)
    BY <2>9 DEF Fail, NextStatement
  <2>10. CASE EndQuery(c)
    BY <2>10 DEF EndQuery
  <2>11. CASE Commit(c)
    BY <2>11 DEF Commit, CountTransaction
  <2>12. CASE CommitRaises(c)
    BY <2>12 DEF CommitRaises
  <2>13. CASE Close(c)
    BY <2>13 DEF Close
  <2>14. QED
    BY <1>5, <2>1, <2>2, <2>3, <2>4, <2>5, <2>6, <2>7, <2>8, <2>9, <2>10, <2>11, <2>12, <2>13 DEF Thread
<1>6. ASSUME NEW c \in Connections, Thread(c)
      PROVE  success' \in [Connections -> BOOLEAN] /\ stats' \in [Connections -> StatType]
  <2>1. success \in [Connections -> BOOLEAN] /\ stats \in [Connections -> StatType]
    BY DEF TypeOK, StatType
  <2>2. success' = success \/ \E b \in BOOLEAN : success' = [success EXCEPT ![c] = b]
    BY <1>6, Zenon DEF Thread, LookUp, Granted, NoAnswer, Refused, Connect, ConnectFails, Skip,
       Succeed, Fail, EndQuery, Commit, CommitRaises, Close
  <2>3. success' \in [Connections -> BOOLEAN]
    BY <2>1, <2>2
  <2>4. QED
    BY <1>6, <2>1, <2>3, StatStep
<1>7. ASSUME NEW c \in Connections, Thread(c)
      PROVE  Domains'
  <2> DOMAIN errors = Connections /\ DOMAIN reported = Connections
      /\ DOMAIN errorLogger = Connections /\ DOMAIN pending = Connections
      /\ DOMAIN durable = Connections
    BY DEF Domains
  <2> USE <1>1 DEF Domains
  <2>1. CASE LookUp(c)
    BY <2>1 DEF LookUp
  <2>2. CASE Granted(c)
    BY <2>2 DEF Granted
  <2>3. CASE NoAnswer(c)
    BY <2>3 DEF NoAnswer
  <2>4. CASE Refused(c)
    BY <2>4 DEF Refused
  <2>5. CASE Connect(c)
    BY <2>5 DEF Connect
  <2>6. CASE ConnectFails(c)
    BY <2>6 DEF ConnectFails
  <2>7. CASE Skip(c)
    BY <2>7 DEF Skip, NextStatement
  <2>8. CASE Succeed(c)
    BY <2>8 DEF Succeed, NextStatement
  <2>9. CASE Fail(c)
    BY <2>9 DEF Fail, NextStatement
  <2>10. CASE EndQuery(c)
    BY <2>10 DEF EndQuery
  <2>11. CASE Commit(c)
    BY <2>11 DEF Commit, CountTransaction
  <2>12. CASE CommitRaises(c)
    BY <2>12 DEF CommitRaises
  <2>13. CASE Close(c)
    BY <2>13 DEF Close
  <2>14. QED
    BY <1>7, <2>1, <2>2, <2>3, <2>4, <2>5, <2>6, <2>7, <2>8, <2>9, <2>10, <2>11, <2>12, <2>13 DEF Thread
<1>8. ASSUME NEW c \in Connections
      PROVE  \A S \in {errors'[c], reported'[c], errorLogger'[c], pending'[c], durable'[c]} :
               S \subseteq Effects(c)
  <2>1. /\ errors[c] \subseteq Effects(c) /\ reported[c] \subseteq Effects(c)
        /\ errorLogger[c] \subseteq Effects(c) /\ pending[c] \subseteq Effects(c)
        /\ durable[c] \subseteq Effects(c)
    BY DEF TypeOK
  <2>2. InStatement(c) => at[c] \in Effects(c)
    BY Current
  <2>3. LocalStep(c)
    BY Locally
  <2>4. CASE Idles(c) \/ Skips(c) \/ EndsQuery(c)
    BY <2>1, <2>4 DEF Idles, Skips, EndsQuery, SameData, SameStats
  <2>5. CASE Sends(c) \/ Ends(c) \/ Leaves(c)
    BY <2>1, <2>2, <2>5 DEF Sends, Ends, Leaves, PassesOne, SameStats
  <2>6. CASE Fails(c)
    BY <2>1, <2>2, <2>6 DEF Fails, PassesOne
  <2>7. CASE Commits(c)
    <3>1. reported'[c] = reported[c] \/ reported'[c] = reported[c] \cup errors[c]
      BY <2>7 DEF Commits, Counts
    <3>2. QED
      BY <2>1, <2>7, <3>1 DEF Commits
  <2>8. QED
    BY <2>3, <2>4, <2>5, <2>6, <2>7 DEF LocalStep
<1>9. ASSUME NEW c \in Connections, Thread(c)
      PROVE  TypeOK' /\ Domains'
  <2>1. /\ \A d \in Connections : \A S \in {errors'[d], reported'[d], errorLogger'[d],
                                             pending'[d], durable'[d]} : S \subseteq Effects(d)'
        /\ workload' \in Workloads /\ options' \in [executeCopy : BOOLEAN, executeUnload : BOOLEAN]
    BY <1>1, <1>2, <1>8 DEF TypeOK
  <2>2. QED
    BY <1>1, <1>4, <1>5, <1>6, <1>7, <1>9, <2>1 DEF TypeOK, StatType
<1>10. QED
  BY <1>3, <1>9 DEF Next

LEMMA NextInv == IInv /\ [Next]_vars => IInv'
<1> SUFFICES ASSUME IInv, [Next]_vars PROVE IInv'
  OBVIOUS
<1>1. /\ TypeOK /\ Domains /\ workload' = workload /\ options' = options
      /\ Connections' = Connections
  BY DEF IInv, Next, Connections, vars
<1>2. ASSUME NEW c \in Connections
      PROVE  LocalStep(c)
  <2>1. CASE Next
    BY <1>1, <2>1, Locally
  <2>2. CASE UNCHANGED vars
    BY <2>2 DEF vars, cacheVars, dataVars, statVars, Idles, SameData, SameStats,
       SameTransactionStats, LocalStep
  <2>3. QED
    BY <2>1, <2>2
<1>3. ASSUME NEW c \in Connections
      PROVE  SessionInv(c)'
  <2>1. SessionInv(c)
    BY DEF IInv
  <2>2. QED
    BY <1>1, <1>2, <2>1, PositionStep, CountStep, EffectStep, SuccessStep DEF SessionInv
<1>4. TypeOK' /\ Domains'
  <2>1. CASE Next
    BY <1>1, <2>1, TypeStep
  <2>2. CASE UNCHANGED vars
    <3>1. \A c \in Connections : Effects(c)' = Effects(c)
      BY <1>1 DEF Effects, Statements, Transaction
    <3>2. QED
      BY <1>1, <2>2, <3>1 DEF vars, cacheVars, dataVars, statVars, TypeOK, Domains, Users,
         Databases
  <2>3. QED
    BY <2>1, <2>2
<1>5. QED
  BY <1>1, <1>3, <1>4 DEF IInv

LEMMA Invariant == Spec => []IInv
BY InitInv, NextInv, PTL DEF Spec

\* Every variable stays in its type, in every run of any workload.
THEOREM TypeCorrect == Spec => []TypeOK
<1>1. IInv => TypeOK
  BY DEF IInv
<1>2. QED
  BY <1>1, Invariant, PTL

\* CountsAddUp holds for every workload: each committed transaction is counted
\* once, and as successful only if none of its statements failed.
THEOREM CountsCorrect == Spec => []CountsAddUp
<1>1. ASSUME IInv, NEW c \in Connections
      PROVE  /\ stats[c].transaction_success + stats[c].transaction_error
                  = Cardinality(Committed(c))
             /\ stats[c].transaction_success
                  <= Cardinality({t \in Committed(c) : Failed(c, t) = {}})
  <2> DEFINE n == stats[c].transaction_success
  <2>1. /\ n \in Nat /\ stats[c].transaction_error \in Nat /\ at[c][1] \in Nat
        /\ at[c][1] >= 1 /\ n + stats[c].transaction_error = at[c][1] - 1
        /\ \A p \in errorLogger[c] : p[1] > n
    BY <1>1 DEF IInv, TypeOK, SessionInv, PositionInv, CountInv, CountAt
  <2>2. /\ Cardinality(1 .. at[c][1] - 1) = at[c][1] - 1 /\ IsFiniteSet(1 .. at[c][1] - 1)
        /\ Cardinality(1 .. n) = n
    <3>1. 1 \in Int /\ n \in Int /\ at[c][1] - 1 \in Int
      BY <2>1
    <3>2. /\ IsFiniteSet(1 .. at[c][1] - 1)
          /\ Cardinality(1 .. at[c][1] - 1)
               = IF 1 > at[c][1] - 1 THEN 0 ELSE at[c][1] - 1 - 1 + 1
          /\ Cardinality(1 .. n) = IF 1 > n THEN 0 ELSE n - 1 + 1
      BY <3>1, FS_Interval
    <3>3. QED
      BY <2>1, <3>2
  <2>3. 1 .. n \subseteq {t \in Committed(c) : Failed(c, t) = {}}
    BY <2>1 DEF Committed, Failed
  <2>4. IsFiniteSet({t \in Committed(c) : Failed(c, t) = {}})
    BY <2>2, FS_Subset DEF Committed
  <2>5. Cardinality(1 .. n) <= Cardinality({t \in Committed(c) : Failed(c, t) = {}})
    BY <2>3, <2>4, FS_Subset
  <2>6. QED
    BY <2>1, <2>2, <2>5 DEF Committed
<1>2. IInv => CountsAddUp
  BY <1>1 DEF CountsAddUp
<1>3. QED
  BY <1>2, Invariant, PTL

\* SuccessIsDurable holds for every workload: what a transaction counted as
\* successful did is in the database.
THEOREM SuccessCorrect == Spec => []SuccessIsDurable
<1>1. ASSUME IInv, NEW c \in Connections, NEW t \in 1 .. stats[c].transaction_success
      PROVE  LET kinds == {KindOf(c, p) : p \in Statements(c, t)}
                 replayed == {p \in Statements(c, t) :
                                /\ Replayed(KindOf(c, p))
                                /\ KindOf(c, p) \notin {"commit", "rollback"}}
             IN "rollback" \in kinds \/ replayed \subseteq durable[c]
  <2>1. RollsBack(c, t) \/ \A p \in Statements(c, t) : Kept(c, p) => p \in durable[c]
    BY <1>1 DEF IInv, SessionInv, SuccessInv, SuccessAt
  <2>2. QED
    BY <2>1 DEF RollsBack, Kept, Sent, Ending
<1>2. IInv => SuccessIsDurable
  BY <1>1 DEF SuccessIsDurable
<1>3. QED
  BY <1>2, Invariant, PTL

\* AllOrNothing holds for every workload: a failed statement undoes those before
\* it in its transaction, and the ones after it have no effect.
THEOREM EffectsCorrect == Spec => []AllOrNothing
<1>1. ASSUME IInv, NEW c \in Connections, NEW t \in DOMAIN workload[c].transactions,
             ~EndsItself(c, t)
      PROVE  Whole(c, t, durable[c])
  <2>1. /\ EffectAt(c, at[c][1], Busy(c), Passed(c), server[c], pending[c], durable[c])
        /\ at[c][1] \in Nat /\ t \in Nat /\ t >= 1
    BY <1>1, Shape DEF IInv, SessionInv, EffectInv, TypeOK
  <2>2. CASE t < at[c][1]
    BY <1>1, <2>1, <2>2 DEF EffectAt
  <2>3. CASE t >= at[c][1]
    <3>1. \A p \in durable[c] : p[1] # t
      BY <1>1, <2>1, <2>3, EffectOf, Shape DEF IInv, TypeOK, EffectAt
    <3>2. QED
      BY <3>1, Members DEF Whole
  <2>4. QED
    BY <2>1, <2>2, <2>3
<1>2. ASSUME IInv, NEW c \in Connections, NEW t \in DOMAIN workload[c].transactions
      PROVE  LET kinds == {KindOf(c, p) : p \in Statements(c, t)}
                 replayed == {p \in Statements(c, t) : Replayed(KindOf(c, p))}
             IN kinds \cap {"commit", "rollback"} = {} =>
                  Statements(c, t) \cap durable[c] \in {{}, replayed}
  <2>1. CASE EndsItself(c, t)
    BY <2>1 DEF EndsItself, Ending
  <2>2. CASE ~EndsItself(c, t)
    BY <1>1, <1>2, <2>2 DEF Whole, Sent
  <2>3. QED
    BY <2>1, <2>2
<1>3. IInv => AllOrNothing
  BY <1>2 DEF AllOrNothing
<1>4. QED
  BY <1>3, Invariant, PTL

\* NoErrorHidden holds for every workload: a failure of a committed transaction
\* is in its error log.
THEOREM ErrorsCorrect == Spec => []NoErrorHidden
<1>1. ASSUME IInv, NEW c \in Connections, NEW t \in Committed(c)
      PROVE  Failed(c, t) \subseteq reported[c]
  <2>1. /\ errorLogger[c] \subseteq reported[c] \cup errors[c]
        /\ \A p \in errors[c] : p[1] = at[c][1]
        /\ at[c][1] \in Nat
    BY <1>1 DEF IInv, SessionInv, CountInv, CountAt, TypeOK
  <2>2. t # at[c][1]
    BY <1>1, <2>1 DEF Committed
  <2>3. QED
    BY <2>1, <2>2 DEF Failed
<1>2. IInv => NoErrorHidden
  BY <1>1 DEF NoErrorHidden
<1>3. QED
  BY <1>2, Invariant, PTL
===========================================================================

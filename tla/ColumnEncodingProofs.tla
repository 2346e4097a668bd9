------------------------- MODULE ColumnEncodingProofs -------------------------
(***************************************************************************)
(* Proofs about the column encoding utility, for every number of tables,   *)
(* workers, attempts and faults and every set of foreign keys.             *)
(***************************************************************************)
EXTENDS ColumnEncoding, TLAPS

Labels == {"idle", "count", "compress", "describe", "read_keys", "run_commands"}
Versions == [old : {"name", "old_name", "dropped"}, copy : {"none", "mig", "target", "name"},
             has : SUBSET {"primary_key", "rows", "grants"}]
Steps == IF config.otherSchema THEN 5 ELSE 7

(* What the first n - 1 statements of a rewrite have made of a table.  *)
Reached(v, n) ==
  /\ v \in Versions
  /\ v.old = IF config.otherSchema \/ n <= 4 THEN "name"
             ELSE IF config.dropOldData THEN "dropped" ELSE "old_name"
  /\ v.copy = "name" <=> (~config.otherSchema /\ n > 5)
  /\ n > 2 => "primary_key" \in v.has
  /\ n > 3 => "rows" \in v.has
  /\ ~config.otherSchema /\ n > 6 => "grants" \in v.has

(* A worker's transaction is where its step says, and a table is as it was *)
(* or as a complete rewrite leaves it.                                     *)
TransactionInv ==
  \A w \in Workers :
    /\ step[w] \in 1..Steps /\ Reached(tx[w], step[w])
    /\ pc[w] # "run_commands" => step[w] = 1
TablesInv == \A t \in Tables : Reached(db[t], 1) \/ Reached(db[t], Steps)
ShapeInv ==
  /\ config.otherSchema \in BOOLEAN /\ config.dropOldData \in BOOLEAN
  /\ pc \in [Workers -> Labels] /\ job \in [Workers -> Tables]
  /\ step \in [Workers -> Nat] /\ tx \in [Workers -> Versions] /\ db \in [Tables -> Versions]
  /\ taken \subseteq Tables
RewriteInv == ShapeInv /\ TransactionInv /\ TablesInv

(* A table that has not been touched.  *)
LEMMA FirstStage == Reached(Untouched, 1) /\ Untouched \in Versions
BY DEF Untouched, Reached, Versions

(* The statements of a rewrite into a target schema, one by one.  *)
LEMMA StatementsElsewhere ==
  ASSUME config.otherSchema
  PROVE  /\ Statements[1] = "create" /\ Statements[2] = "primary_key"
         /\ Statements[3] = "insert" /\ Statements[4] = "grants" /\ Statements[5] = "commit"
         /\ Len(Statements) = 5
BY DEF Statements

(* The statements of a rewrite in place, one by one.  *)
LEMMA StatementsInPlace ==
  ASSUME ~config.otherSchema
  PROVE  /\ Statements[1] = "create" /\ Statements[2] = "primary_key"
         /\ Statements[3] = "insert" /\ Statements[4] = "retire" /\ Statements[5] = "rename"
         /\ Statements[6] = "grants" /\ Statements[7] = "commit" /\ Len(Statements) = 7
BY DEF Statements

(* Only the last statement commits.  *)
LEMMA LastStatement ==
  ASSUME config.otherSchema \in BOOLEAN, NEW n \in 1..Steps
  PROVE  Statements[n] = "commit" <=> n = Steps
<1>1. CASE config.otherSchema
  <2>1. n \in {1, 2, 3, 4, 5}  BY <1>1 DEF Steps
  <2> QED  BY <1>1, <2>1, StatementsElsewhere DEF Steps
<1>2. CASE ~config.otherSchema
  <2>1. n \in {1, 2, 3, 4, 5, 6, 7}  BY <1>2 DEF Steps
  <2> QED  BY <1>2, <2>1, StatementsInPlace DEF Steps
<1> QED  BY <1>1, <1>2

(* A statement takes its table from one stage of the rewrite to the next.  *)
LEMMA NextStage ==
  ASSUME config.otherSchema \in BOOLEAN, config.dropOldData \in BOOLEAN,
         NEW n \in 1..Steps, n # Steps, NEW v, Reached(v, n)
  PROVE  Reached(Effect(Statements[n], v), n + 1)
<1>1. CASE config.otherSchema
  <2>1. n \in {1, 2, 3, 4} BY <1>1 DEF Steps
  <2>2. CASE n = 1
    <3>1. Statements[n] = "create"  BY <2>2, <1>1, StatementsElsewhere
    <3> QED  BY <1>1, <2>2, <3>1 DEF Effect, Reached, Versions
  <2>3. CASE n = 2
    <3>1. Statements[n] = "primary_key"  BY <2>3, <1>1, StatementsElsewhere
    <3> QED  BY <1>1, <2>3, <3>1 DEF Effect, Reached, Versions
  <2>4. CASE n = 3
    <3>1. Statements[n] = "insert"  BY <2>4, <1>1, StatementsElsewhere
    <3> QED  BY <1>1, <2>4, <3>1 DEF Effect, Reached, Versions
  <2>5. CASE n = 4
    <3>1. Statements[n] = "grants"  BY <2>5, <1>1, StatementsElsewhere
    <3> QED  BY <1>1, <2>5, <3>1 DEF Effect, Reached, Versions
  <2> QED  BY <2>1, <2>2, <2>3, <2>4, <2>5
<1>2. CASE ~config.otherSchema
  <2>1. n \in {1, 2, 3, 4, 5, 6}  BY <1>2 DEF Steps
  <2>2. CASE n = 1
    <3>1. Statements[n] = "create"  BY <2>2, <1>2, StatementsInPlace
    <3> QED  BY <1>2, <2>2, <3>1 DEF Effect, Reached, Versions
  <2>3. CASE n = 2
    <3>1. Statements[n] = "primary_key"  BY <2>3, <1>2, StatementsInPlace
    <3> QED  BY <1>2, <2>3, <3>1 DEF Effect, Reached, Versions
  <2>4. CASE n = 3
    <3>1. Statements[n] = "insert"  BY <2>4, <1>2, StatementsInPlace
    <3> QED  BY <1>2, <2>4, <3>1 DEF Effect, Reached, Versions
  <2>5. CASE n = 4
    <3>1. Statements[n] = "retire"  BY <2>5, <1>2, StatementsInPlace
    <3> QED  BY <1>2, <2>5, <3>1 DEF Effect, Reached, Versions
  <2>6. CASE n = 5
    <3>1. Statements[n] = "rename"  BY <2>6, <1>2, StatementsInPlace
    <3> QED  BY <1>2, <2>6, <3>1 DEF Effect, Reached, Versions
  <2>7. CASE n = 6
    <3>1. Statements[n] = "grants"  BY <2>7, <1>2, StatementsInPlace
    <3> QED  BY <1>2, <2>7, <3>1 DEF Effect, Reached, Versions
  <2> QED  BY <2>1, <2>2, <2>3, <2>4, <2>5, <2>6, <2>7
<1> QED  BY <1>1, <1>2

(* A worker that has no transaction goes on.  *)
LEMMA GotoKeeps ==
  ASSUME RewriteInv, NEW w \in Workers, NEW l \in Labels, Goto(w, l), step[w] = 1,
         UNCHANGED <<config, taken, job, step, tx, db>>
  PROVE  RewriteInv'
<1>1. ShapeInv'  BY DEF RewriteInv, ShapeInv, Goto
<1>2. TransactionInv'
  BY DEF RewriteInv, ShapeInv, TransactionInv, Goto, Reached, Steps
<1>3. TablesInv'  BY DEF RewriteInv, TablesInv, Reached, Steps
<1> QED  BY <1>1, <1>2, <1>3 DEF RewriteInv

(* A worker answers; what it has not committed is forgotten.  *)
LEMMA ReturnKeeps ==
  ASSUME RewriteInv, NEW w \in Workers, NEW r, Return(w, r), UNCHANGED <<config, taken, db>>
  PROVE  RewriteInv'
<1>1. ShapeInv'  BY FirstStage DEF RewriteInv, ShapeInv, Return, Goto, Labels
<1>2. TransactionInv'
  <2> SUFFICES ASSUME NEW x \in Workers
               PROVE  /\ (step[x] \in 1..Steps /\ Reached(tx[x], step[x]))'
                      /\ pc'[x] # "run_commands" => step'[x] = 1
    BY DEF TransactionInv
  <2>1. CASE x = w
    BY <2>1, FirstStage DEF RewriteInv, ShapeInv, Return, Goto, Reached, Steps
  <2>2. CASE x # w
    BY <2>2 DEF RewriteInv, ShapeInv, TransactionInv, Return, Goto, Reached, Steps
  <2> QED  BY <2>1, <2>2
<1>3. TablesInv'  BY DEF RewriteInv, TablesInv, Reached, Steps
<1> QED  BY <1>1, <1>2, <1>3 DEF RewriteInv

(* The next statement of a transaction.  *)
LEMMA RunStatementKeeps ==
  ASSUME RewriteInv, NEW w \in Workers, RunStatement(w)
  PROVE  RewriteInv'
<1>1. step[w] # Steps /\ step[w] \in 1..Steps /\ Reached(tx[w], step[w])
  BY LastStatement DEF RewriteInv, ShapeInv, TransactionInv, RunStatement
<1>2. Reached(Effect(Statements[step[w]], tx[w]), step[w] + 1)
  BY <1>1, NextStage DEF RewriteInv, ShapeInv
<1>3. ShapeInv'
  BY <1>1, <1>2 DEF RewriteInv, ShapeInv, RunStatement, Reached
<1>4. TransactionInv'
  <2> SUFFICES ASSUME NEW x \in Workers
               PROVE  /\ (step[x] \in 1..Steps /\ Reached(tx[x], step[x]))'
                      /\ pc'[x] # "run_commands" => step'[x] = 1
    BY DEF TransactionInv
  <2>1. CASE x = w
    BY <2>1, <1>1, <1>2
    DEF RewriteInv, ShapeInv, RunStatement, At, Reached, Steps
  <2>2. CASE x # w
    BY <2>2 DEF RewriteInv, ShapeInv, TransactionInv, RunStatement, Reached, Steps
  <2> QED  BY <2>1, <2>2
<1>5. TablesInv'  BY DEF RewriteInv, TablesInv, RunStatement, Reached, Steps
<1> QED  BY <1>3, <1>4, <1>5 DEF RewriteInv

(* A table is committed when its rewrite is complete.  *)
LEMMA CommitKeeps ==
  ASSUME RewriteInv, NEW w \in Workers, NEW r, Rewrite(w, r)
  PROVE  RewriteInv'
<1>1. step[w] = Steps /\ Reached(tx[w], Steps) /\ tx[w] \in Versions /\ job[w] \in Tables
  BY LastStatement DEF RewriteInv, ShapeInv, TransactionInv, Rewrite
<1>2. ShapeInv'
  BY <1>1, FirstStage DEF RewriteInv, ShapeInv, Rewrite, Return, Goto, Labels
<1>3. TransactionInv'
  <2> SUFFICES ASSUME NEW x \in Workers
               PROVE  /\ (step[x] \in 1..Steps /\ Reached(tx[x], step[x]))'
                      /\ pc'[x] # "run_commands" => step'[x] = 1
    BY DEF TransactionInv
  <2>1. CASE x = w
    BY <2>1, FirstStage DEF RewriteInv, ShapeInv, Rewrite, Return, Goto, Reached, Steps
  <2>2. CASE x # w
    BY <2>2 DEF RewriteInv, ShapeInv, TransactionInv, Rewrite, Return, Goto, Reached, Steps
  <2> QED  BY <2>1, <2>2
<1>4. TablesInv'
  <2> SUFFICES ASSUME NEW t \in Tables
               PROVE  (Reached(db[t], 1) \/ Reached(db[t], Steps))'
    BY DEF TablesInv
  <2>1. CASE t = job[w]
    BY <2>1, <1>1 DEF RewriteInv, ShapeInv, Rewrite, Reached, Steps
  <2>2. CASE t # job[w]
    BY <2>2 DEF RewriteInv, ShapeInv, TablesInv, Rewrite, Reached, Steps
  <2> QED  BY <2>1, <2>2
<1> QED  BY <1>2, <1>3, <1>4 DEF RewriteInv

(* Steps of run() that leave workers and tables alone.  *)
LEMMA UnchangedKeeps ==
  ASSUME RewriteInv, UNCHANGED <<config, taken, pc, job, step, tx, db>>
  PROVE  RewriteInv'
BY DEF RewriteInv, ShapeInv, TransactionInv, TablesInv, Reached, Steps

(* At first no table is touched.  *)
LEMMA RewriteInit == Init => RewriteInv
<1> SUFFICES ASSUME Init PROVE RewriteInv  OBVIOUS
<1>1. ShapeInv
  BY FirstStage, ColumnAssumption DEF Init, ShapeInv, Labels, Tables
<1>2. TransactionInv  BY FirstStage DEF Init, TransactionInv, Steps
<1>3. TablesInv  BY FirstStage DEF Init, TablesInv
<1> QED  BY <1>1, <1>2, <1>3 DEF RewriteInv

(* Every step keeps the tables whole.  *)
LEMMA RewriteStep == RewriteInv /\ [Next]_vars => RewriteInv'
<1> SUFFICES ASSUME RewriteInv, [Next]_vars PROVE RewriteInv'  OBVIOUS
<1>1. ASSUME NEW w \in Workers, Progress(w) PROVE RewriteInv'
  <2>1. pc[w] # "run_commands" => step[w] = 1  BY DEF RewriteInv, TransactionInv
  <2>2. CASE Take(w)
    <3>1. ShapeInv'
      BY <2>2 DEF RewriteInv, ShapeInv, Take, Goto, Tables, Labels
    <3>2. TransactionInv'
      BY <2>1, <2>2 DEF RewriteInv, ShapeInv, TransactionInv, Take, At, Goto, Reached, Steps
    <3>3. TablesInv'  BY <2>2 DEF RewriteInv, TablesInv, Take, Reached, Steps
    <3> QED  BY <3>1, <3>2, <3>3 DEF RewriteInv
  <2>3. CASE CountRawColumns(w)
    BY <2>1, <2>3, GotoKeeps, ReturnKeeps DEF CountRawColumns, At, Labels
  <2>4. CASE AnalyzeCompression(w)
    BY <2>1, <2>4, GotoKeeps DEF AnalyzeCompression, At, Labels
  <2>5. CASE Describe(w)
    BY <2>1, <2>5, GotoKeeps, ReturnKeeps DEF Describe, At, Labels
  <2>6. CASE ReadKeys(w)
    BY <2>1, <2>6, GotoKeeps DEF ReadKeys, At, Labels
  <2>7. CASE RunStatement(w)  BY <2>7, RunStatementKeeps
  <2>8. CASE Commit(w)  BY <2>8, CommitKeeps DEF Commit
  <2> QED  BY <1>1, <2>2, <2>3, <2>4, <2>5, <2>6, <2>7, <2>8 DEF Progress
<1>2. ASSUME NEW w \in Workers, Failure(w) PROVE RewriteInv'
  <2>1. CASE CountRaises(w)  BY <2>1, ReturnKeeps DEF CountRaises
  <2>2. CASE AnalyzeFails(w)
    BY <2>2, ReturnKeeps, UnchangedKeeps DEF AnalyzeFails
  <2>3. CASE DescribeFails(w)  BY <2>3, ReturnKeeps DEF DescribeFails
  <2>4. CASE StatementFails(w)  BY <2>4, ReturnKeeps DEF StatementFails
  <2>5. CASE MetricFails(w)  BY <2>5, CommitKeeps DEF MetricFails
  <2> QED  BY <1>2, <2>1, <2>2, <2>3, <2>4, <2>5 DEF Failure
<1>3. CASE Run
  BY <1>3, UnchangedKeeps
  DEF Run, MapReturns, MapRaises, AddKeys, KeysFail, StopAtError, Finish, worker
<1>4. CASE Interrupt  BY <1>4, UnchangedKeeps DEF Interrupt, worker
<1>5. CASE UNCHANGED vars  BY <1>5, UnchangedKeeps DEF vars, worker
<1> QED  BY <1>1, <1>2, <1>3, <1>4, <1>5 DEF Next

(* Whatever statement of a rewrite fails, whenever the user interrupts:    *)
(* the name of a table denotes a complete table.                           *)
THEOREM AlwaysWholeCorrect == Spec => []AlwaysWhole
<1>1. RewriteInv => AlwaysWhole
  <2> SUFFICES ASSUME RewriteInv, NEW t \in Tables
               PROVE  \/ db[t].old = "name" /\ db[t].copy # "name"
                      \/ /\ db[t].old # "name" /\ db[t].copy = "name"
                         /\ db[t].has = {"primary_key", "rows", "grants"}
    BY DEF AlwaysWhole
  <2>1. CASE Reached(db[t], 1)  BY <2>1 DEF Reached
  <2>2. CASE Reached(db[t], Steps)
    <3>1. CASE config.otherSchema  BY <2>2, <3>1 DEF Reached
    <3>2. CASE ~config.otherSchema
      <4>1. Steps = 7  BY <3>2 DEF Steps
      <4>2. {"primary_key", "rows", "grants"} \subseteq db[t].has
        BY <2>2, <3>2, <4>1 DEF Reached
      <4>3. db[t].has = {"primary_key", "rows", "grants"}
        BY <2>2, <4>2 DEF Reached, Versions
      <4> QED  BY <2>2, <3>2, <4>1, <4>3 DEF Reached
    <3> QED  BY <3>1, <3>2
  <2> QED  BY <2>1, <2>2 DEF RewriteInv, TablesInv
<1>2. Spec => []RewriteInv
  BY RewriteInit, RewriteStep, PTL DEF Spec
<1> QED  BY <1>1, <1>2, PTL

(***************************************************************************)
(* Foreign keys at first stay unless old versions are dropped.             *)
(***************************************************************************)
References == {<<Old(r[1]), Old(r[2])>> : r \in config.references}

KeptInv ==
  ~config.dropOldData \/ config.otherSchema =>
    References \subseteq keys /\ (master = "adding_keys" => References \subseteq pending)

(* With a target schema the source is not changed, and without the option  *)
(* to drop old data the foreign keys of the old versions remain.           *)
THEOREM OldDataRetainedCorrect == Spec => []OldDataRetained
<1>1. Init => KeptInv  BY DEF Init, KeptInv, References
<1>2. KeptInv /\ [Next]_vars => KeptInv'
  <2> SUFFICES ASSUME KeptInv, [Next]_vars PROVE KeptInv'  OBVIOUS
  <2>1. ASSUME NEW w \in Workers, Progress(w) PROVE KeptInv'
    <3>1. CASE Commit(w)
      BY <3>1 DEF KeptInv, References, Commit, Rewrite, Cascade, At
    <3>2. CASE ~Commit(w)
      <4>1. UNCHANGED <<config, keys, master, pending>>
        BY <2>1, <3>2 DEF Progress, Take, CountRawColumns, AnalyzeCompression, Describe,
                          ReadKeys, RunStatement
      <4> QED  BY <4>1 DEF KeptInv, References
    <3> QED  BY <3>1, <3>2
  <2>2. ASSUME NEW w \in Workers, Failure(w) PROVE KeptInv'
    BY <2>2 DEF KeptInv, References, Failure, CountRaises, AnalyzeFails, DescribeFails,
                StatementFails, MetricFails, Rewrite, Cascade, At
  <2>3. CASE MapReturns  BY <2>3 DEF KeptInv, References, MapReturns
  <2>4. CASE MapRaises  BY <2>4 DEF KeptInv, References, MapRaises, StopMaster
  <2>5. CASE AddKeys  BY <2>5 DEF KeptInv, References, AddKeys
  <2>6. CASE KeysFail  BY <2>6 DEF KeptInv, References, KeysFail, StopMaster, Adding
  <2>7. CASE StopAtError  BY <2>7 DEF KeptInv, References, StopAtError, StopMaster
  <2>8. CASE Finish  BY <2>8 DEF KeptInv, References, Finish, StopMaster
  <2>9. CASE Interrupt  BY <2>9 DEF KeptInv, References, Interrupt, StopMaster
  <2>10. CASE UNCHANGED vars  BY <2>10 DEF KeptInv, References, vars
  <2> QED  BY <2>1, <2>2, <2>3, <2>4, <2>5, <2>6, <2>7, <2>8, <2>9, <2>10 DEF Next, Run
<1>3. RewriteInv /\ KeptInv => OldDataRetained
  <2> SUFFICES ASSUME RewriteInv, KeptInv PROVE OldDataRetained  OBVIOUS
  <2>1. ASSUME config.otherSchema, NEW t \in Tables PROVE db[t].old = "name"
    BY <2>1 DEF RewriteInv, TablesInv, Reached
  <2> QED  BY <2>1 DEF OldDataRetained, KeptInv, References
<1> QED  BY <1>1, <1>2, <1>3, RewriteInit, RewriteStep, PTL DEF Spec

(***************************************************************************)
(* The table a busy worker has taken is no other worker's, and has not     *)
(* been answered for.                                                      *)
(***************************************************************************)
JobInv ==
  /\ \A w \in Workers : pc[w] # "idle" => job[w] \in taken /\ job[w] \notin DOMAIN result
  /\ \A w, x \in Workers : w # x /\ pc[w] # "idle" /\ pc[x] # "idle" => job[w] # job[x]
  /\ DOMAIN result \subseteq taken

(* An answer is the first for its table.  *)
LEMMA JobReturn ==
  ASSUME RewriteInv, JobInv, NEW w \in Workers, pc[w] # "idle", NEW r, Return(w, r),
         taken' = taken
  PROVE  JobInv' /\ \A t \in DOMAIN result : t \in DOMAIN result' /\ result'[t] = result[t]
<1>1. /\ DOMAIN result' = DOMAIN result \cup {job[w]}
      /\ \A t \in DOMAIN result' : result'[t] = IF t = job[w] THEN r ELSE result[t]
  BY DEF Return
<1>2. job[w] \notin DOMAIN result /\ job[w] \in taken /\ job[w] \in Tables
  BY DEF JobInv, RewriteInv, ShapeInv
<1>3. job' = job /\ pc' = [pc EXCEPT ![w] = "idle"] /\ pc \in [Workers -> Labels]
  BY DEF Return, Goto, RewriteInv, ShapeInv
<1>4. \A x \in Workers : pc'[x] # "idle" => x # w /\ pc[x] # "idle"
  BY <1>3
<1>5. JobInv'  BY <1>1, <1>2, <1>3, <1>4 DEF JobInv
<1> QED  BY <1>1, <1>2, <1>5

(* No step changes an answer, or gives a table to a second worker.  *)
LEMMA JobStep ==
  ASSUME RewriteInv, JobInv, [Next]_vars
  PROVE  JobInv' /\ \A t \in DOMAIN result : t \in DOMAIN result' /\ result'[t] = result[t]
<1> DEFINE Kept == \A t \in DOMAIN result : t \in DOMAIN result' /\ result'[t] = result[t]
<1>1. ASSUME UNCHANGED <<job, taken, result>>,
             \A x \in Workers : pc'[x] # "idle" => pc[x] # "idle"
      PROVE  JobInv' /\ Kept
  BY <1>1 DEF JobInv
<1>2. ASSUME NEW w \in Workers, Progress(w) PROVE JobInv' /\ Kept
  <2>1. pc \in [Workers -> Labels] /\ job \in [Workers -> Tables]
    BY DEF RewriteInv, ShapeInv
  <2>2. ASSUME NEW l, Goto(w, l), pc[w] # "idle", UNCHANGED <<job, taken, result>>
        PROVE  JobInv' /\ Kept
    BY <1>1, <2>1, <2>2 DEF Goto
  <2>3. CASE Take(w)
    <3>1. PICK t \in Tables \ taken :
            /\ pc' = [pc EXCEPT ![w] = "count"] /\ job' = [job EXCEPT ![w] = t]
            /\ taken' = taken \cup {t} /\ result' = result /\ pc[w] = "idle"
      BY <2>3 DEF Take, Goto, At
    <3>2. ASSUME NEW x \in Workers, pc'[x] # "idle"
          PROVE  /\ job'[x] \in taken' /\ job'[x] \notin DOMAIN result'
                 /\ x # w => pc[x] # "idle" /\ job'[x] = job[x] /\ job[x] \in taken
                 /\ x = w => job'[x] = t
      BY <2>1, <3>1, <3>2 DEF JobInv
    <3>3. ASSUME NEW x \in Workers, NEW y \in Workers, x # y, pc'[x] # "idle",
                 pc'[y] # "idle"
          PROVE  job'[x] # job'[y]
      <4>1. CASE x = w  BY <3>1, <3>2, <3>3, <4>1
      <4>2. CASE y = w  BY <3>1, <3>2, <3>3, <4>2
      <4>3. CASE x # w /\ y # w  BY <3>2, <3>3, <4>3 DEF JobInv
      <4> QED  BY <4>1, <4>2, <4>3
    <3> QED  BY <3>1, <3>2, <3>3 DEF JobInv
  <2>4. CASE CountRawColumns(w)
    BY <2>2, <2>4, JobReturn DEF CountRawColumns, At
  <2>5. CASE AnalyzeCompression(w)  BY <2>2, <2>5 DEF AnalyzeCompression, At
  <2>6. CASE Describe(w)  BY <2>2, <2>6, JobReturn DEF Describe, At
  <2>7. CASE ReadKeys(w)  BY <2>2, <2>7 DEF ReadKeys, At
  <2>8. CASE RunStatement(w)  BY <1>1, <2>8 DEF RunStatement
  <2>9. CASE Commit(w)  BY <2>9, JobReturn DEF Commit, Rewrite, At
  <2> QED  BY <1>2, <2>3, <2>4, <2>5, <2>6, <2>7, <2>8, <2>9 DEF Progress
<1>3. ASSUME NEW w \in Workers, Failure(w) PROVE JobInv' /\ Kept
  <2>1. CASE CountRaises(w)  BY <2>1, JobReturn DEF CountRaises, At
  <2>2. CASE AnalyzeFails(w)  BY <1>1, <2>2, JobReturn DEF AnalyzeFails, At
  <2>3. CASE DescribeFails(w)  BY <2>3, JobReturn DEF DescribeFails, At
  <2>4. CASE StatementFails(w)  BY <2>4, JobReturn DEF StatementFails, At
  <2>5. CASE MetricFails(w)  BY <2>5, JobReturn DEF MetricFails, Rewrite, At
  <2> QED  BY <1>3, <2>1, <2>2, <2>3, <2>4, <2>5 DEF Failure
<1>4. CASE Run
  BY <1>1, <1>4
  DEF Run, MapReturns, MapRaises, AddKeys, KeysFail, StopAtError, Finish, worker
<1>5. CASE Interrupt  BY <1>1, <1>5 DEF Interrupt, worker
<1>6. CASE UNCHANGED vars  BY <1>1, <1>6 DEF vars, worker
<1> QED  BY <1>2, <1>3, <1>4, <1>5, <1>6 DEF Next

(* No table is analyzed and rewritten a second time, by the same worker or *)
(* by another.                                                             *)
THEOREM AnalyzedOnceCorrect == Spec => AnalyzedOnce
<1> DEFINE Kept == \A t \in DOMAIN result : t \in DOMAIN result' /\ result'[t] = result[t]
<1>1. Init => JobInv  BY DEF Init, JobInv
<1>2. RewriteInv /\ JobInv /\ [Next]_vars => JobInv'  BY JobStep
<1>3. RewriteInv /\ JobInv /\ [Next]_vars => [Kept]_vars  BY JobStep
<1> QED  BY <1>1, <1>2, <1>3, RewriteInit, RewriteStep, PTL DEF Spec, AnalyzedOnce

(***************************************************************************)
(* Until run() gets to its commit no foreign key of a new version is       *)
(* committed, and it gets there only past the answer of every table.       *)
(***************************************************************************)
NoneNew == \A c \in keys : c[1][2] # "copy"

KeyInv ==
  /\ at \in 1..(NumTables + 1)
  /\ master \in {"mapping", "adding_keys", "done"}
  /\ master \in {"mapping", "adding_keys"} => NoneNew
  /\ master = "mapping" => at = 1
  /\ master = "adding_keys" => DOMAIN result = Tables
  /\ \A t \in Tables : t < at => t \in DOMAIN result /\ result[t].code = "OK"
  /\ at > NumTables \/ NoneNew

(* At first there are foreign keys between old versions only.  *)
LEMMA KeyInit == Init => KeyInv
<1> SUFFICES ASSUME Init PROVE KeyInv  OBVIOUS
<1>1. NoneNew  BY DEF Init, NoneNew, Old
<1>2. at = 1 /\ master = "mapping" /\ NumTables \in Nat \ {0}
  BY ColumnAssumption DEF Init
<1>3. \A t \in Tables : ~(t < at)  BY <1>2 DEF Tables
<1> QED  BY <1>1, <1>2, <1>3 DEF KeyInv

(* Only run()'s commit adds foreign keys of new versions.  *)
LEMMA KeyStep ==
  ASSUME KeyInv, [Next]_vars,
         \A t \in DOMAIN result : t \in DOMAIN result' /\ result'[t] = result[t]
  PROVE  KeyInv'
<1>1. NumTables \in Nat \ {0} /\ Tables = 1..NumTables
  BY ColumnAssumption DEF Tables
<1>2. ASSUME UNCHANGED <<master, at>>, keys' \subseteq keys, master = "mapping"
      PROVE  KeyInv'
  BY <1>2 DEF KeyInv, NoneNew
<1>3. ASSUME NEW w \in Workers, Progress(w) PROVE KeyInv'
  <2>1. CASE Commit(w)
    <3>1. keys' \subseteq keys  BY <2>1 DEF Commit, Rewrite, Cascade
    <3> QED  BY <1>2, <2>1, <3>1 DEF Commit, Rewrite, At
  <2>2. CASE ~Commit(w)
    <3>1. UNCHANGED <<master, at, keys>> /\ master = "mapping"
      BY <1>3, <2>2 DEF Progress, Take, CountRawColumns, AnalyzeCompression, Describe,
                        ReadKeys, RunStatement, At
    <3> QED  BY <1>2, <3>1
  <2> QED  BY <2>1, <2>2
<1>4. ASSUME NEW w \in Workers, Failure(w) PROVE KeyInv'
  BY <1>2, <1>4 DEF Failure, CountRaises, AnalyzeFails, DescribeFails, StatementFails,
                    MetricFails, Rewrite, Cascade, At
<1>5. CASE MapReturns  BY <1>5 DEF KeyInv, NoneNew, MapReturns, Mapped, worker
<1>6. CASE MapRaises  BY <1>6 DEF KeyInv, NoneNew, MapRaises, StopMaster, Mapped, worker
<1>7. CASE AddKeys
  <2>1. \A t \in Tables : t < at' => t < at \/ t = at
    BY <1>1, <1>7 DEF KeyInv, AddKeys, Adding
  <2>2. at' \in 1..(NumTables + 1)  BY <1>1, <1>7 DEF KeyInv, AddKeys, Adding
  <2>3. at \in Tables  BY <1>1, <1>7 DEF KeyInv, AddKeys, Adding
  <2> QED  BY <1>7, <2>1, <2>2, <2>3 DEF KeyInv, NoneNew, AddKeys, Adding, worker
<1>8. CASE KeysFail
  <2>1. CASE at' = at
    BY <1>8, <2>1 DEF KeyInv, NoneNew, KeysFail, Adding, StopMaster, worker
  <2>2. CASE at' = at + 1 /\ master' = master
    <3>1. \A t \in Tables : t < at' => t < at \/ t = at
      BY <1>1, <2>2 DEF KeyInv
    <3>2. at' \in 1..(NumTables + 1)  BY <1>1, <1>8, <2>2 DEF KeyInv, KeysFail, Adding
    <3>3. at \in Tables  BY <1>1, <1>8 DEF KeyInv, KeysFail, Adding
    <3> QED  BY <1>8, <2>2, <3>1, <3>2, <3>3 DEF KeyInv, NoneNew, KeysFail, Adding, worker
  <2> QED  BY <1>8, <2>1, <2>2 DEF KeysFail
<1>9. CASE StopAtError
  BY <1>9 DEF KeyInv, NoneNew, StopAtError, StopMaster, Adding, worker
<1>10. CASE Finish  BY <1>10 DEF KeyInv, NoneNew, Finish, StopMaster, worker
<1>11. CASE Interrupt  BY <1>11 DEF KeyInv, NoneNew, Interrupt, StopMaster, worker
<1>12. CASE UNCHANGED vars  BY <1>12 DEF KeyInv, NoneNew, vars, worker
<1> QED  BY <1>3, <1>4, <1>5, <1>6, <1>7, <1>8, <1>9, <1>10, <1>11, <1>12 DEF Next, Run

(* Foreign keys of new versions are committed together, and only if the    *)
(* analysis of every table has succeeded.                                  *)
THEOREM KeysOnlyAfterSuccessCorrect == Spec => []KeysOnlyAfterSuccess
<1>1. KeyInv => KeysOnlyAfterSuccess
  BY ColumnAssumption DEF KeyInv, NoneNew, KeysOnlyAfterSuccess, Tables
<1>2. Init => JobInv  BY DEF Init, JobInv
<1>3. RewriteInv /\ JobInv /\ KeyInv /\ [Next]_vars => JobInv' /\ KeyInv'
  BY JobStep, KeyStep
<1> QED  BY <1>1, <1>2, <1>3, KeyInit, RewriteInit, RewriteStep, PTL DEF Spec

(***************************************************************************)
(* Foreign keys lead from new versions to new versions.                    *)
(***************************************************************************)
(* The old version of a table has been dropped.  *)
Gone(t) == db[t].old = "dropped"

(* A definition for each foreign key of table t, whatever it names; none   *)
(* where another table that is referenced was dropped before.              *)
GoodNames(t, defs) ==
  \A r \in config.references :
    r[1] = t => \/ <<r[2], "name">> \in defs \/ <<r[2], "old_name">> \in defs
                \/ r[2] # t /\ Gone(r[2])

(* Each worker has definitions.  *)
NamesAreRead == DOMAIN names = Workers /\ names = [w \in Workers |-> names[w]]

(* A table that is rewritten has been answered for, with definitions that  *)
(* were read when only foreign keys of dropped tables were missing.        *)
NamesInv ==
  /\ config.references \subseteq Tables \X Tables
  /\ NamesAreRead
  /\ master = "mapping" =>
       \A r \in config.references : <<Old(r[1]), Old(r[2])>> \in keys \/ Gone(r[1]) \/ Gone(r[2])
  /\ \A x \in Workers : pc[x] = "run_commands" => GoodNames(job[x], names[x])
  /\ \A u \in Tables :
       Rewritten(u) => /\ u \in DOMAIN result
                       /\ result[u].code = "OK" => GoodNames(u, result[u].names)

AnswersKept == \A t \in DOMAIN result : t \in DOMAIN result' /\ result'[t] = result[t]

LEMMA NamesInit == Init => NamesInv
BY ColumnAssumption DEF Init, NamesInv, NamesAreRead, Rewritten

(* Steps that neither read definitions nor commit a rewrite.  *)
LEMMA NamesUnread ==
  ASSUME NamesInv, AnswersKept, UNCHANGED <<config, db, names>>,
         master' = "mapping" => master = "mapping" /\ keys' = keys,
         \A w \in Workers : pc'[w] = "run_commands" => pc[w] = "run_commands" /\ job'[w] = job[w]
  PROVE  NamesInv'
<1>1. /\ (config.references \subseteq Tables \X Tables)'
      /\ NamesAreRead'
  BY DEF NamesInv, NamesAreRead
<1>2. ASSUME master' = "mapping", NEW r \in config.references
      PROVE  (<<Old(r[1]), Old(r[2])>> \in keys \/ Gone(r[1]) \/ Gone(r[2]))'
  BY <1>2 DEF NamesInv, Gone, Old
<1>3. ASSUME NEW x \in Workers, pc'[x] = "run_commands"
      PROVE  GoodNames(job[x], names[x])'
  <2>1. GoodNames(job[x], names[x])  BY <1>3 DEF NamesInv
  <2> QED  BY <1>3, <2>1 DEF GoodNames, Gone
<1>4. ASSUME NEW u \in Tables, Rewritten(u)'
      PROVE  /\ u \in DOMAIN result'
             /\ result'[u].code = "OK" => GoodNames(u, result[u].names)'
  <2>1. Rewritten(u)  BY <1>4 DEF Rewritten
  <2> QED  BY <2>1 DEF NamesInv, AnswersKept, GoodNames, Gone
<1> QED  BY <1>1, <1>2, <1>3, <1>4 DEF NamesInv

(* The definitions of a table that is not rewritten yet.  *)
LEMMA NamesRead ==
  ASSUME RewriteInv, JobInv, NamesInv, AnswersKept, NEW w \in Workers, ReadKeys(w)
  PROVE  NamesInv'
<1> DEFINE t == job[w]
<1>1. /\ master = "mapping" /\ pc[w] = "read_keys" /\ t \in Tables /\ t \notin DOMAIN result
      /\ pc' = [pc EXCEPT ![w] = "run_commands"] /\ pc \in [Workers -> Labels]
      /\ names' = [names EXCEPT ![w] = DefinitionsOf(t)]
      /\ UNCHANGED <<config, master, job, result, db, keys>>
  BY DEF ReadKeys, At, Goto, JobInv, RewriteInv, ShapeInv
<1>2. Live(t) = Old(t) /\ ~Gone(t)
  BY <1>1 DEF NamesInv, Rewritten, Untouched, Live, Gone
<1>3. ASSUME NEW r \in config.references, r[1] = t
      PROVE  \/ <<r[2], "name">> \in DefinitionsOf(t) \/ <<r[2], "old_name">> \in DefinitionsOf(t)
             \/ r[2] # t /\ Gone(r[2])
  <2>1. CASE Gone(r[2])  BY <1>2, <2>1
  <2>2. CASE ~Gone(r[2])
    <3>1. <<Old(r[1]), Old(r[2])>> \in keys  BY <1>1, <1>2, <1>3, <2>2 DEF NamesInv
    <3>2. NameOf(Old(r[2])) \in DefinitionsOf(t)
      <4>1. <<Old(r[1]), Old(r[2])>>[1] = Live(t) /\ <<Old(r[1]), Old(r[2])>>[2] = Old(r[2])
        BY <1>2, <1>3
      <4> QED  BY <3>1, <4>1 DEF DefinitionsOf
    <3> QED  BY <3>2 DEF NameOf, Old
  <2> QED  BY <2>1, <2>2
<1>4. /\ (config.references \subseteq Tables \X Tables)'
      /\ NamesAreRead'
  BY <1>1 DEF NamesInv, NamesAreRead
<1>5. ASSUME NEW r \in config.references
      PROVE  (<<Old(r[1]), Old(r[2])>> \in keys \/ Gone(r[1]) \/ Gone(r[2]))'
  BY <1>1 DEF NamesInv, Gone, Old
<1>6. ASSUME NEW x \in Workers, pc'[x] = "run_commands"
      PROVE  GoodNames(job[x], names[x])'
  <2>1. CASE x = w
    <3>1. names'[x] = DefinitionsOf(t)  BY <1>1, <2>1 DEF NamesInv, NamesAreRead
    <3> QED  BY <1>1, <1>3, <2>1, <3>1 DEF GoodNames, Gone
  <2>2. CASE x # w
    <3>1. pc[x] = "run_commands" /\ names'[x] = names[x]
      BY <1>1, <1>6, <2>2 DEF NamesInv, NamesAreRead
    <3>2. GoodNames(job[x], names[x])  BY <3>1 DEF NamesInv
    <3> QED  BY <1>1, <3>1, <3>2 DEF GoodNames, Gone
  <2> QED  BY <2>1, <2>2
<1>7. ASSUME NEW u \in Tables, Rewritten(u)'
      PROVE  /\ u \in DOMAIN result'
             /\ result'[u].code = "OK" => GoodNames(u, result[u].names)'
  <2>1. Rewritten(u)  BY <1>1, <1>7 DEF Rewritten
  <2> QED  BY <1>1, <2>1 DEF NamesInv, GoodNames, Gone
<1> QED  BY <1>1, <1>4, <1>5, <1>6, <1>7 DEF NamesInv

(* A rewrite is committed; its worker answers with the definitions it has  *)
(* read, or with an error.                                                 *)
LEMMA NamesCommit ==
  ASSUME RewriteInv, NamesInv, AnswersKept, NEW w \in Workers,
         NEW a \in {Answer("OK", names[w]), ERROR}, Rewrite(w, a)
  PROVE  NamesInv'
<1> DEFINE t == job[w]
<1>1. /\ master = "mapping" /\ pc[w] = "run_commands" /\ t \in Tables
      /\ pc' = [pc EXCEPT ![w] = "idle"] /\ pc \in [Workers -> Labels]
      /\ db' = [db EXCEPT ![t] = tx[w]] /\ db \in [Tables -> Versions]
      /\ keys' = Cascade(t)
      /\ t \in DOMAIN result' /\ result'[t] = a
      /\ UNCHANGED <<config, master, job, names>>
  BY DEF Rewrite, At, Return, Goto, RewriteInv, ShapeInv
<1>2. Reached(tx[w], Steps)
  BY LastStatement DEF Rewrite, RewriteInv, ShapeInv, TransactionInv
<1>3. config.dropOldData /\ ~config.otherSchema => tx[w].old = "dropped"
  BY <1>2 DEF Reached, Steps
<1>4. ASSUME NEW u \in Tables, Gone(u) PROVE Gone(u)'
  <2>1. config.dropOldData /\ ~config.otherSchema
    BY <1>4 DEF RewriteInv, TablesInv, Reached, Gone
  <2> QED  BY <1>1, <1>3, <1>4, <2>1 DEF Gone
<1>5. \A r \in config.references : r[1] \in Tables /\ r[2] \in Tables
  BY DEF NamesInv
<1>6. \A r \in config.references : db[r[2]].old = "dropped" => db'[r[2]].old = "dropped"
  BY <1>4, <1>5 DEF Gone
<1>7. /\ (config.references \subseteq Tables \X Tables)'
      /\ NamesAreRead'
  BY <1>1 DEF NamesInv, NamesAreRead
<1>8. ASSUME NEW r \in config.references
      PROVE  (<<Old(r[1]), Old(r[2])>> \in keys \/ Gone(r[1]) \/ Gone(r[2]))'
  <2>1. CASE Gone(r[1]) \/ Gone(r[2])  BY <1>4, <1>5, <2>1
  <2>2. CASE <<Old(r[1]), Old(r[2])>> \in keys
    <3>1. CASE <<Old(r[1]), Old(r[2])>> \in keys'  BY <3>1 DEF Old
    <3>2. CASE <<Old(r[1]), Old(r[2])>> \notin keys'
      <4>1. config.dropOldData /\ ~config.otherSchema /\ (t = r[1] \/ t = r[2])
        BY <1>1, <2>2, <3>2 DEF Cascade, Old
      <4>2. Gone(t)'  BY <1>1, <1>3, <4>1 DEF Gone
      <4> QED  BY <1>1, <4>1, <4>2 DEF Gone
    <3> QED  BY <3>1, <3>2
  <2> QED  BY <1>1, <2>1, <2>2 DEF NamesInv
<1>9. ASSUME NEW x \in Workers, pc'[x] = "run_commands"
      PROVE  GoodNames(job[x], names[x])'
  <2>1. GoodNames(job[x], names[x])  BY <1>1, <1>9 DEF NamesInv
  <2> QED  BY <1>1, <1>6, <2>1 DEF GoodNames, Gone
<1>10. ASSUME NEW u \in Tables, Rewritten(u)'
      PROVE  /\ u \in DOMAIN result'
             /\ result'[u].code = "OK" => GoodNames(u, result[u].names)'
  <2>1. CASE u = t
    <3>1. GoodNames(t, names[w])  BY <1>1 DEF NamesInv
    <3>2. result'[u].code = "OK" => result'[u].names = names[w]
      BY <1>1, <2>1 DEF Answer, ERROR
    <3> QED  BY <1>1, <1>6, <2>1, <3>1, <3>2 DEF GoodNames, Gone
  <2>2. CASE u # t
    <3>1. Rewritten(u)  BY <1>1, <1>10, <2>2 DEF Rewritten
    <3>2. /\ u \in DOMAIN result' /\ result'[u] = result[u]
          /\ result[u].code = "OK" => GoodNames(u, result[u].names)
      BY <3>1 DEF NamesInv, AnswersKept
    <3> QED  BY <1>1, <1>6, <3>2 DEF GoodNames, Gone
  <2> QED  BY <2>1, <2>2
<1> QED  BY <1>1, <1>7, <1>8, <1>9, <1>10 DEF NamesInv

(* Definitions that were read stay with their table.  *)
LEMMA NamesStep ==
  ASSUME RewriteInv, JobInv, NamesInv, AnswersKept, [Next]_vars
  PROVE  NamesInv'
<1>1. pc \in [Workers -> Labels] /\ job \in [Workers -> Tables]
  BY DEF RewriteInv, ShapeInv
<1>2. ASSUME NEW w \in Workers, NEW l, l # "run_commands", Goto(w, l),
             UNCHANGED <<config, master, keys, db, names>>,
             \A x \in Workers : x # w => job'[x] = job[x]
      PROVE  NamesInv'
  <2>1. \A x \in Workers : pc'[x] = "run_commands" => pc[x] = "run_commands" /\ job'[x] = job[x]
    BY <1>1, <1>2 DEF Goto
  <2> QED  BY <1>2, <2>1, NamesUnread
<1>3. ASSUME NEW w \in Workers, NEW r, Return(w, r), UNCHANGED <<config, master, keys, db>>
      PROVE  NamesInv'
  BY <1>2, <1>3 DEF Return
<1>4. ASSUME UNCHANGED <<config, db, names, pc, job>>,
             master' = "mapping" => master = "mapping" /\ keys' = keys
      PROVE  NamesInv'
  BY <1>4, NamesUnread
<1>5. ASSUME NEW w \in Workers, Progress(w) PROVE NamesInv'
  <2>1. CASE Take(w)
    <3>1. \A x \in Workers : x # w => job'[x] = job[x]  BY <1>1, <2>1 DEF Take
    <3> QED  BY <1>2, <2>1, <3>1 DEF Take
  <2>2. CASE CountRawColumns(w)  BY <1>2, <1>3, <2>2 DEF CountRawColumns
  <2>3. CASE AnalyzeCompression(w)  BY <1>2, <2>3 DEF AnalyzeCompression
  <2>4. CASE Describe(w)  BY <1>2, <1>3, <2>4 DEF Describe
  <2>5. CASE ReadKeys(w)  BY <2>5, NamesRead
  <2>6. CASE RunStatement(w)  BY <1>4, <2>6 DEF RunStatement
  <2>7. CASE Commit(w)  BY <2>7, NamesCommit DEF Commit
  <2> QED  BY <1>5, <2>1, <2>2, <2>3, <2>4, <2>5, <2>6, <2>7 DEF Progress
<1>6. ASSUME NEW w \in Workers, Failure(w) PROVE NamesInv'
  <2>1. CASE CountRaises(w)  BY <1>3, <2>1 DEF CountRaises
  <2>2. CASE AnalyzeFails(w)  BY <1>3, <1>4, <2>2 DEF AnalyzeFails
  <2>3. CASE DescribeFails(w)  BY <1>3, <2>3 DEF DescribeFails
  <2>4. CASE StatementFails(w)  BY <1>3, <2>4 DEF StatementFails
  <2>5. CASE MetricFails(w)  BY <2>5, NamesCommit DEF MetricFails
  <2> QED  BY <1>6, <2>1, <2>2, <2>3, <2>4, <2>5 DEF Failure
<1>7. CASE Run
  BY <1>4, <1>7
  DEF Run, MapReturns, MapRaises, AddKeys, KeysFail, StopAtError, Finish, StopMaster, worker,
      Adding
<1>8. CASE Interrupt  BY <1>4, <1>8 DEF Interrupt, StopMaster, worker
<1>9. CASE UNCHANGED vars  BY <1>4, <1>9 DEF vars, worker
<1> QED  BY <1>5, <1>6, <1>7, <1>8, <1>9 DEF Next

NewKey(r) == <<Best(r[1]), Best(r[2])>>

(* The tables run() has passed have the foreign keys they should have.  *)
FollowInv ==
  ~config.ignoreErrors =>
    \A r \in config.references :
      Rewritten(r[1]) /\ ~ReadTooLate(r) =>
        /\ master = "adding_keys" /\ r[1] < at => NewKey(r) \in pending
        /\ master = "done" /\ at > NumTables => NewKey(r) \in keys

(* A name that can be resolved stands for the best version.  *)
LEMMA NameIsBest ==
  ASSUME NEW t, Resolve(<<t, "name">>) # {}
  PROVE  Best(t) \in Resolve(<<t, "name">>)
<1>1. CASE config.otherSchema  BY <1>1 DEF Resolve, Best
<1>2. CASE ~config.otherSchema
  <2>1. PICK v \in {Old(t), Copy(t)} :
          /\ NameOf(v) = <<t, "name">> /\ v \in Resolve(<<t, "name">>)
    BY <1>2 DEF Resolve
  <2>2. v[1] = t  BY <2>1 DEF Old, Copy
  <2>3. Live(t) = v  BY <2>1, <2>2 DEF NameOf
  <2> QED  BY <1>2, <2>1, <2>3 DEF Best
<1> QED  BY <1>1, <1>2

LEMMA FollowInit == Init => FollowInv
BY DEF Init, FollowInv

(* Foreign keys are added for one table after the other, and not lost until commit. *)
LEMMA FollowStep ==
  ASSUME NamesInv, KeyInv, FollowInv, [Next]_vars
  PROVE  FollowInv'
<1>1. NumTables \in Nat \ {0} /\ Tables = 1..NumTables
  BY ColumnAssumption DEF Tables
<1>2. ASSUME master = "mapping", master' = "mapping" \/ (at' = at /\ master' = "done")
      PROVE  FollowInv'
  BY <1>1, <1>2 DEF FollowInv, KeyInv
<1>3. ASSUME NEW w \in Workers, Progress(w) PROVE FollowInv'
  BY <1>2, <1>3 DEF Progress, Take, CountRawColumns, AnalyzeCompression, Describe, ReadKeys,
                    RunStatement, Commit, Rewrite, At
<1>4. ASSUME NEW w \in Workers, Failure(w) PROVE FollowInv'
  BY <1>2, <1>4 DEF Failure, CountRaises, AnalyzeFails, DescribeFails, StatementFails,
                    MetricFails, Rewrite, At
<1>5. CASE MapRaises \/ Interrupt
  BY <1>2, <1>5 DEF MapRaises, Mapped, Interrupt, StopMaster
<1>6. CASE MapReturns
  <2>1. at = 1 /\ at' = at /\ master' = "adding_keys" /\ UNCHANGED <<config, db, result>>
    BY <1>6 DEF MapReturns, Mapped, KeyInv
  <2>2. \A r \in config.references : r[1] \in Tables  BY DEF NamesInv
  <2> QED  BY <1>1, <2>1, <2>2 DEF FollowInv
<1>7. ASSUME UNCHANGED <<config, db, result>>
      PROVE  \A r : /\ NewKey(r)' = NewKey(r)
                    /\ Rewritten(r[1])' <=> Rewritten(r[1])
                    /\ ReadTooLate(r)' <=> ReadTooLate(r)
  BY <1>7 DEF NewKey, Best, Live, Rewritten, ReadTooLate
<1>8. CASE AddKeys
  <2>1. /\ UNCHANGED <<config, db, result>> /\ master = "adding_keys" /\ master' = master
        /\ at' = at + 1 /\ at \in Tables /\ pending' = pending \cup Added(at)
        /\ \A n \in result[at].names : CanAdd(at, n)
    BY <1>1, <1>8 DEF AddKeys, Adding, worker, KeyInv
  <2>2. ASSUME NEW r \in config.references, Rewritten(r[1]), ~config.ignoreErrors,
               ~ReadTooLate(r), r[1] < at + 1
        PROVE  NewKey(r) \in pending'
    <3>1. CASE r[1] < at  BY <2>1, <2>2, <3>1 DEF FollowInv
    <3>2. CASE r[1] = at
      <4>1. <<r[2], "name">> \in result[at].names
        <5>1. GoodNames(at, result[at].names)
          BY <1>8, <2>1, <2>2, <3>2 DEF NamesInv, AddKeys
        <5> QED  BY <2>2, <3>2, <5>1 DEF GoodNames, Gone, ReadTooLate
      <4>2. Resolve(<<at, "name">>) # {} /\ Resolve(<<r[2], "name">>) # {}
        BY <2>1, <4>1 DEF CanAdd, Altered
      <4>3. Best(at) \in Altered(at) /\ Best(r[2]) \in Resolve(<<r[2], "name">>)
        BY <4>2, NameIsBest DEF Altered
      <4>4. NewKey(r) \in Altered(at) \X Resolve(<<r[2], "name">>)
        BY <3>2, <4>3 DEF NewKey
      <4> QED  BY <2>1, <4>1, <4>4 DEF Added
    <3>3. r[1] \in Nat /\ at \in Nat  BY <1>1, <2>1 DEF NamesInv
    <3> QED  BY <2>2, <3>1, <3>2, <3>3
  <2> QED  BY <1>7, <2>1, <2>2 DEF FollowInv
<1>9. CASE KeysFail
  BY <1>1, <1>9 DEF KeysFail, Adding, StopMaster, FollowInv, KeyInv
<1>10. CASE StopAtError
  BY <1>1, <1>10 DEF StopAtError, Adding, StopMaster, FollowInv, KeyInv
<1>11. CASE Finish
  <2>1. /\ UNCHANGED <<config, db, result>> /\ master = "adding_keys" /\ master' = "done"
        /\ at > NumTables /\ keys' = pending
    BY <1>11 DEF Finish, StopMaster, worker
  <2>2. \A r \in config.references : r[1] \in Tables  BY DEF NamesInv
  <2>3. \A r \in config.references : r[1] < at  BY <1>1, <2>1, <2>2 DEF KeyInv
  <2> QED  BY <1>7, <2>1, <2>3 DEF FollowInv
<1>12. CASE UNCHANGED vars
  <2>1. UNCHANGED <<config, db, result, master, at, pending, keys>>
    BY <1>12 DEF vars
  <2> QED  BY <1>7, <2>1 DEF FollowInv
<1> QED  BY <1>3, <1>4, <1>5, <1>6, <1>8, <1>9, <1>10, <1>11, <1>12 DEF Next, Run

(* When run() gets to its end, each foreign key of a rewritten table leads *)
(* from its new version to the best version of the table it references,    *)
(* unless that one had been renamed or dropped when the definition was read. *)
THEOREM KeysFollowCorrect == Spec => []KeysFollow
<1>1. FollowInv => KeysFollow
  BY DEF FollowInv, KeysFollow, NewKey
<1>2. Init => JobInv  BY DEF Init, JobInv
<1>3. RewriteInv /\ JobInv /\ KeyInv /\ NamesInv /\ FollowInv /\ [Next]_vars =>
        JobInv' /\ KeyInv' /\ NamesInv' /\ FollowInv'
  BY JobStep, KeyStep, NamesStep, FollowStep DEF AnswersKept
<1> QED
  BY <1>1, <1>2, <1>3, KeyInit, NamesInit, FollowInit, RewriteInit, RewriteStep, PTL DEF Spec

(***************************************************************************)
(* Types.                                                                  *)
(***************************************************************************)
KeysTyped(ks) == \A c \in ks : <<c[1][1], c[2][1]>> \in config.references
DefsTyped(t, defs) == \A n \in defs : <<t, n[1]>> \in config.references

Codes == {"OK", "ERROR", "raised"}

(* Definitions are those of foreign keys of the table they were read for.  *)
DefsInv ==
  /\ KeysTyped(keys) /\ KeysTyped(pending)
  /\ NamesAreRead
  /\ \A x \in Workers : pc[x] = "run_commands" => DefsTyped(job[x], names[x])
  /\ \A u \in DOMAIN result : result[u].code \in Codes /\ DefsTyped(u, result[u].names)
  /\ master = "adding_keys" => ~Raised

BoundsInv ==
  /\ code \in {"none", "ERROR", "TERMINATED_BY_USER"}
  /\ faults \in 0..MaxFaults
  /\ attempts \in [Workers -> 0..(MaxAttempts - 1)]

LEMMA DefsInit == Init => DefsInv /\ BoundsInv
<1> SUFFICES ASSUME Init PROVE DefsInv /\ BoundsInv  OBVIOUS
<1>1. KeysTyped(keys) /\ KeysTyped(pending)
  <2>1. \A r \in config.references : r = <<r[1], r[2]>>
    BY ColumnAssumption DEF Init
  <2> QED  BY <2>1 DEF Init, KeysTyped, Old
<1>2. BoundsInv  BY ColumnAssumption DEF Init, BoundsInv
<1>3. DefsInv  BY <1>1 DEF Init, DefsInv, NamesAreRead
<1> QED  BY <1>2, <1>3

(* A name stands for versions of its table.  *)
LEMMA NamesTable ==
  /\ \A v : NameOf(v)[1] = v[1]
  /\ \A n : \A v \in Resolve(n) : v[1] = n[1]
BY DEF NameOf, Resolve, Old, Copy

(* Steps that neither read definitions nor answer.  *)
LEMMA DefsUnread ==
  ASSUME DefsInv, UNCHANGED <<config, names, result>>,
         keys' \subseteq keys \cup pending, pending' \subseteq keys \cup pending,
         master' = "adding_keys" => master = "adding_keys" \/ ~Raised,
         \A w \in Workers : pc'[w] = "run_commands" => pc[w] = "run_commands" /\ job'[w] = job[w]
  PROVE  DefsInv'
<1>1. KeysTyped(keys)' /\ KeysTyped(pending)'  BY DEF DefsInv, KeysTyped
<1>2. NamesAreRead'  BY DEF DefsInv, NamesAreRead
<1>3. ASSUME NEW x \in Workers, pc'[x] = "run_commands" PROVE DefsTyped(job[x], names[x])'
  BY <1>3 DEF DefsInv, DefsTyped
<1>4. \A u \in DOMAIN result' : result'[u].code \in Codes /\ DefsTyped(u, result[u].names)'
  BY DEF DefsInv, DefsTyped
<1>5. master' = "adding_keys" => ~Raised'  BY DEF DefsInv, Raised
<1> QED  BY <1>1, <1>2, <1>3, <1>4, <1>5 DEF DefsInv

(* An answer holds the definitions that were read for its table, or none.  *)
LEMMA DefsReturn ==
  ASSUME DefsInv, RewriteInv, NEW w \in Workers, NEW r, Return(w, r),
         UNCHANGED <<config, master, pending>>, master = "mapping", keys' \subseteq keys,
         r.code \in Codes, DefsTyped(job[w], r.names)
  PROVE  DefsInv'
<1>1. /\ DOMAIN result' = DOMAIN result \cup {job[w]}
      /\ \A t \in DOMAIN result' : result'[t] = IF t = job[w] THEN r ELSE result[t]
      /\ UNCHANGED <<job, names>> /\ pc' = [pc EXCEPT ![w] = "idle"] /\ pc \in [Workers -> Labels]
  BY DEF Return, Goto, RewriteInv, ShapeInv
<1>2. KeysTyped(keys)' /\ KeysTyped(pending)'  BY DEF DefsInv, KeysTyped
<1>3. NamesAreRead'  BY <1>1 DEF DefsInv, NamesAreRead
<1>4. ASSUME NEW x \in Workers, pc'[x] = "run_commands" PROVE DefsTyped(job[x], names[x])'
  <2>1. pc[x] = "run_commands"  BY <1>1, <1>4
  <2> QED  BY <1>1, <2>1 DEF DefsInv, DefsTyped
<1>5. \A u \in DOMAIN result' : result'[u].code \in Codes /\ DefsTyped(u, result[u].names)'
  BY <1>1 DEF DefsInv, DefsTyped
<1> QED  BY <1>2, <1>3, <1>4, <1>5 DEF DefsInv

LEMMA DefsRead ==
  ASSUME DefsInv, RewriteInv, NEW w \in Workers, ReadKeys(w)
  PROVE  DefsInv'
<1> DEFINE t == job[w]
<1>1. /\ master = "mapping" /\ pc' = [pc EXCEPT ![w] = "run_commands"] /\ pc \in [Workers -> Labels]
      /\ names' = [names EXCEPT ![w] = DefinitionsOf(t)]
      /\ UNCHANGED <<config, master, job, result, keys, pending>>
  BY DEF ReadKeys, At, Goto, RewriteInv, ShapeInv
<1>2. DefsTyped(t, DefinitionsOf(t))
  <2>1. Live(t)[1] = t  BY DEF Live, Old, Copy
  <2> SUFFICES ASSUME NEW c \in keys, c[1] = Live(t)
               PROVE  <<t, NameOf(c[2])[1]>> \in config.references
    BY DEF DefsTyped, DefinitionsOf
  <2> QED  BY <2>1, NamesTable DEF DefsInv, KeysTyped
<1>3. KeysTyped(keys)' /\ KeysTyped(pending)'  BY <1>1 DEF DefsInv, KeysTyped
<1>4. NamesAreRead'  BY <1>1 DEF DefsInv, NamesAreRead
<1>5. ASSUME NEW x \in Workers, pc'[x] = "run_commands" PROVE DefsTyped(job[x], names[x])'
  <2>1. CASE x = w
    <3>1. names'[x] = DefinitionsOf(t)  BY <1>1, <2>1 DEF DefsInv, NamesAreRead
    <3> QED  BY <1>1, <1>2, <2>1, <3>1 DEF DefsTyped
  <2>2. CASE x # w
    <3>1. pc[x] = "run_commands" /\ names'[x] = names[x]
      BY <1>1, <1>5, <2>2 DEF DefsInv, NamesAreRead
    <3> QED  BY <1>1, <3>1 DEF DefsInv, DefsTyped
  <2> QED  BY <2>1, <2>2
<1>6. \A u \in DOMAIN result' : result'[u].code \in Codes /\ DefsTyped(u, result[u].names)'
  BY <1>1 DEF DefsInv, DefsTyped
<1> QED  BY <1>1, <1>3, <1>4, <1>5, <1>6 DEF DefsInv

(* Foreign keys that run() adds are those of the definitions.  *)
LEMMA DefsAdd ==
  ASSUME DefsInv, KeyInv, AddKeys
  PROVE  DefsInv'
<1>1. /\ UNCHANGED <<config, names, result, pc, job, keys, master>> /\ master = "adding_keys"
      /\ pending' = pending \cup Added(at) /\ at \in DOMAIN result
  <2>1. at \in Tables /\ master = "adding_keys"
    BY ColumnAssumption DEF AddKeys, Adding, KeyInv, Tables
  <2> QED  BY <2>1 DEF AddKeys, worker, KeyInv
<1>2. KeysTyped(Added(at))
  <2> SUFFICES ASSUME NEW n \in result[at].names, NEW c \in Altered(at) \X Resolve(n)
               PROVE  <<c[1][1], c[2][1]>> \in config.references
    BY DEF KeysTyped, Added
  <2>1. c[1] \in Resolve(<<at, "name">>) /\ c[2] \in Resolve(n)  BY DEF Altered
  <2>2. c[1][1] = at /\ c[2][1] = n[1]  BY <2>1, NamesTable
  <2> QED  BY <1>1, <2>2 DEF DefsInv, DefsTyped
<1>3. KeysTyped(keys)' /\ KeysTyped(pending)'  BY <1>1, <1>2 DEF DefsInv, KeysTyped
<1>4. NamesAreRead'  BY <1>1 DEF DefsInv, NamesAreRead
<1>5. ASSUME NEW x \in Workers, pc'[x] = "run_commands" PROVE DefsTyped(job[x], names[x])'
  BY <1>1, <1>5 DEF DefsInv, DefsTyped
<1>6. \A u \in DOMAIN result' : result'[u].code \in Codes /\ DefsTyped(u, result[u].names)'
  BY <1>1 DEF DefsInv, DefsTyped
<1>7. master' = "adding_keys" => ~Raised'  BY <1>1 DEF DefsInv, Raised
<1> QED  BY <1>3, <1>4, <1>5, <1>6, <1>7 DEF DefsInv

LEMMA DefsStep ==
  ASSUME RewriteInv, KeyInv, DefsInv, [Next]_vars
  PROVE  DefsInv'
<1>1. pc \in [Workers -> Labels] /\ job \in [Workers -> Tables]
  BY DEF RewriteInv, ShapeInv
<1>2. ASSUME NEW w \in Workers, NEW l, l # "run_commands", Goto(w, l),
             UNCHANGED <<config, master, keys, pending, names, result>>,
             \A x \in Workers : x # w => job'[x] = job[x]
      PROVE  DefsInv'
  <2>1. \A x \in Workers : pc'[x] = "run_commands" => pc[x] = "run_commands" /\ job'[x] = job[x]
    BY <1>1, <1>2 DEF Goto
  <2> QED  BY <1>2, <2>1, DefsUnread DEF DefsInv
<1>3. ASSUME UNCHANGED <<config, names, result, pc, job>>,
             keys' \subseteq keys \cup pending, pending' \subseteq keys \cup pending,
             master' = "adding_keys" => master = "adding_keys" \/ ~Raised
      PROVE  DefsInv'
  BY <1>3, DefsUnread
<1>4. /\ OK.code \in Codes /\ OK.names = {} /\ ERROR.code \in Codes /\ ERROR.names = {}
      /\ Answer("raised", {}).code \in Codes /\ Answer("raised", {}).names = {}
      /\ \A defs : Answer("OK", defs).code \in Codes /\ Answer("OK", defs).names = defs
  BY DEF OK, ERROR, Answer, Codes
<1>5. \A t : DefsTyped(t, {})  BY DEF DefsTyped
<1>6. ASSUME NEW w \in Workers, NEW r \in {OK, ERROR, Answer("raised", {})}, Return(w, r),
             UNCHANGED <<config, master, pending, keys>>, master = "mapping"
      PROVE  DefsInv'
  <2>1. r.code \in Codes /\ DefsTyped(job[w], r.names)  BY <1>4, <1>5
  <2> QED  BY <1>6, <2>1, DefsReturn
<1>7. ASSUME NEW w \in Workers, Progress(w) PROVE DefsInv'
  <2>1. CASE Take(w)
    <3>1. \A x \in Workers : x # w => job'[x] = job[x]  BY <1>1, <2>1 DEF Take
    <3> QED  BY <1>2, <2>1, <3>1 DEF Take
  <2>2. CASE CountRawColumns(w)  BY <1>2, <1>6, <2>2 DEF CountRawColumns, At
  <2>3. CASE AnalyzeCompression(w)  BY <1>2, <2>3 DEF AnalyzeCompression
  <2>4. CASE Describe(w)  BY <1>2, <1>6, <2>4 DEF Describe, At
  <2>5. CASE ReadKeys(w)  BY <2>5, DefsRead
  <2>6. CASE RunStatement(w)  BY <1>3, <2>6 DEF RunStatement
  <2>7. CASE Commit(w)
    <3>1. DefsTyped(job[w], names[w])  BY <2>7 DEF Commit, Rewrite, At, DefsInv
    <3>2. keys' \subseteq keys  BY <2>7 DEF Commit, Rewrite, Cascade
    <3> QED  BY <1>4, <2>7, <3>1, <3>2, DefsReturn DEF Commit, Rewrite, At
  <2> QED  BY <1>7, <2>1, <2>2, <2>3, <2>4, <2>5, <2>6, <2>7 DEF Progress
<1>8. ASSUME NEW w \in Workers, Failure(w) PROVE DefsInv'
  <2>1. CASE CountRaises(w)  BY <1>6, <2>1 DEF CountRaises, At
  <2>2. CASE AnalyzeFails(w)  BY <1>3, <1>6, <2>2 DEF AnalyzeFails, At
  <2>3. CASE DescribeFails(w)  BY <1>6, <2>3 DEF DescribeFails, At
  <2>4. CASE StatementFails(w)
    <3>1. DefsTyped(job[w], names[w])  BY <2>4 DEF StatementFails, At, DefsInv
    <3>2. CASE Return(w, Answer("OK", names[w]))
      BY <1>4, <2>4, <3>1, <3>2, DefsReturn DEF StatementFails, At
    <3>3. CASE Return(w, ERROR)  BY <1>6, <2>4, <3>3 DEF StatementFails, At
    <3> QED  BY <2>4, <3>2, <3>3 DEF StatementFails
  <2>5. CASE MetricFails(w)
    <3>1. keys' \subseteq keys  BY <2>5 DEF MetricFails, Rewrite, Cascade
    <3>2. DefsTyped(job[w], ERROR.names)  BY <1>4, <1>5
    <3> QED  BY <1>4, <2>5, <3>1, <3>2, DefsReturn DEF MetricFails, Rewrite, At
  <2> QED  BY <1>8, <2>1, <2>2, <2>3, <2>4, <2>5 DEF Failure
<1>9. CASE MapReturns  BY <1>3, <1>9 DEF MapReturns, worker
<1>10. CASE MapRaises \/ StopAtError \/ Finish \/ Interrupt
  BY <1>3, <1>10 DEF MapRaises, StopAtError, Finish, Interrupt, StopMaster, worker
<1>11. CASE KeysFail
  <2>1. /\ UNCHANGED <<config, names, result, pc, job, keys>> /\ pending' = keys
        /\ master = "adding_keys" /\ master' \in {"adding_keys", "done"}
    BY <1>11 DEF KeysFail, StopMaster, Adding, worker
  <2> QED  BY <1>3, <2>1
<1>12. CASE AddKeys  BY <1>12, DefsAdd
<1>13. CASE UNCHANGED vars  BY <1>3, <1>13 DEF vars, worker
<1> QED  BY <1>7, <1>8, <1>9, <1>10, <1>11, <1>12, <1>13 DEF Next, Run

LEMMA BoundsStep ==
  ASSUME DefsInv, KeyInv, BoundsInv, [Next]_vars
  PROVE  BoundsInv'
<1> USE ColumnAssumption
<1>1. ASSUME NEW w \in Workers, NEW r, Return(w, r)
      PROVE  attempts' \in [Workers -> 0..(MaxAttempts - 1)]
  BY <1>1 DEF Return, BoundsInv
<1>2. Fault => faults' \in 0..MaxFaults  BY DEF Fault, BoundsInv
<1>3. ASSUME NEW w \in Workers, Progress(w) PROVE BoundsInv'
  BY <1>1, <1>3 DEF Progress, Take, CountRawColumns, AnalyzeCompression, Describe, ReadKeys,
                    RunStatement, Commit, Rewrite, BoundsInv
<1>4. ASSUME NEW w \in Workers, Failure(w) PROVE BoundsInv'
  BY <1>1, <1>2, <1>4 DEF Failure, CountRaises, AnalyzeFails, DescribeFails, StatementFails,
                          MetricFails, Rewrite, BoundsInv
<1>5. CASE StopAtError
  <2>1. at \in DOMAIN result /\ ~Raised
    BY <1>5 DEF StopAtError, Adding, KeyInv, DefsInv, Tables
  <2>2. result[at].code = "ERROR"
    BY <1>5, <2>1 DEF StopAtError, DefsInv, Codes, Raised
  <2> QED  BY <1>5, <2>2 DEF StopAtError, StopMaster, worker, BoundsInv
<1>6. CASE MapReturns \/ MapRaises \/ AddKeys \/ KeysFail \/ Finish \/ Interrupt
  BY <1>2, <1>6 DEF MapReturns, MapRaises, AddKeys, KeysFail, Finish, Interrupt, StopMaster,
                    worker, BoundsInv
<1>7. CASE UNCHANGED vars  BY <1>7 DEF vars, worker, BoundsInv
<1> QED  BY <1>3, <1>4, <1>5, <1>6, <1>7 DEF Next, Run

(* Every variable stays in its range; foreign keys are between the tables  *)
(* they were between at first, and what run() returns is never a table's   *)
(* exception, since the map raises it before.                              *)
THEOREM TypeCorrect == Spec => []TypeOK
<1>1. RewriteInv /\ KeyInv /\ DefsInv /\ BoundsInv => TypeOK
  <2> SUFFICES ASSUME RewriteInv, KeyInv, DefsInv, BoundsInv PROVE TypeOK  OBVIOUS
  <2>1. Len(Statements) = Steps
    BY StatementsElsewhere, StatementsInPlace DEF Steps, RewriteInv, ShapeInv
  <2> QED
    BY <2>1 DEF TypeOK, RewriteInv, ShapeInv, TransactionInv, KeyInv, DefsInv, KeysTyped, BoundsInv
<1>2. Init => JobInv  BY DEF Init, JobInv
<1>3. RewriteInv /\ JobInv /\ KeyInv /\ DefsInv /\ BoundsInv /\ [Next]_vars =>
        JobInv' /\ KeyInv' /\ DefsInv' /\ BoundsInv'
  BY JobStep, KeyStep, DefsStep, BoundsStep
<1> QED  BY <1>1, <1>2, <1>3, KeyInit, DefsInit, RewriteInit, RewriteStep, PTL DEF Spec

(* No failure and no success of a rewrite loses a table or what was to be kept. *)
THEOREM NothingLostCorrect == Spec => []NothingLost
<1>1. AlwaysWhole /\ OldDataRetained => NothingLost
  BY DEF NothingLost
<1>2. QED
  BY <1>1, AlwaysWholeCorrect, OldDataRetainedCorrect, PTL
=============================================================================

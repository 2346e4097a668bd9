--------------------------- MODULE UtilityProofs ---------------------------
(* What is proved about the utilities that run by themselves, for any values  *)
(* of their constants: one part for each, and one for all of them together.    *)
(* Analyze and vacuum have a module of their own.                              *)
EXTENDS UtilityPrograms, AnalyzeVacuumProofs, FiniteSetTheorems, SequenceTheorems,
        WellFoundedInduction, TLAPS

\* A set of natural numbers that is not empty has a least element.
LEMMA LeastNat ==
  ASSUME NEW T \in SUBSET Nat, T # {}
  PROVE  \E n \in T : \A m \in T : n <= m
<1>1. PICK n \in T : \A m \in T : ~(<<m, n>> \in OpToRel(<, Nat))
  BY WFMin, NatLessThanWellFounded
<1>2. \A m \in T : ~(m < n)
  BY <1>1 DEF OpToRel
<1>3. QED
  BY <1>2

---------------------------------------------------------------------------
(* SystemTables.                                                           *)

\* While no statement has failed, the plans are those of the queries in the
\* history, but between the inserts and between the deletions, where the plans
\* are ahead by what will be inserted or deleted next.
DetailsInv ==
  lapses = 0 =>
    \A q \in Queries \ window :
      explain[q] = CASE spc = "query" /\ q \in New -> query[q] + 1
                     [] spc = "cleanQuery" /\ q \in Old(cutoff) -> 0
                     [] OTHER -> query[q]

Accounted(q) == query[q] > 0 \/ q \in overtaken \/ q < cutoff

\* What lies below the watermark and is not in the history was overtaken or is
\* old; after the insert, so is everything but what was logged since.
SkippedInv ==
  /\ \A q \in logged : q <= Watermark => Accounted(q)
  /\ spc \in {"unload", "cleanExplain", "cleanQuery"} \/ (spc = "idle" /\ result = "ok") =>
       \A q \in logged : q \in fresh \/ Accounted(q)
  /\ spc \in {"start", "explain", "query"} => result = "none"

\* The watermark is the latest query in the history, 0 without any.
LEMMA WatermarkFact ==
  ASSUME SystemTablesAssumption
  PROVE  /\ Watermark \in 0 .. MaxQuery
         /\ Stored = {} => Watermark = 0
         /\ Stored # {} => Watermark \in Stored
         /\ \A q \in Stored : q <= Watermark
<1> USE DEF SystemTablesAssumption, Queries
<1>1. CASE Stored = {}
  BY <1>1 DEF Watermark
<1>2. CASE Stored # {}
  <2>1. Stored \in SUBSET (1 .. MaxQuery)
    BY DEF Stored
  <2> DEFINE T == {MaxQuery - q : q \in Stored}
  <2>2. T \in SUBSET Nat /\ T # {}
    <3>1. \A q \in Stored : MaxQuery - q \in Nat
      BY <2>1
    <3>2. QED
      BY <1>2, <3>1
  <2>3. PICK n \in T : \A m \in T : n <= m
    BY <2>2, LeastNat
  <2>4. PICK k \in Stored : n = MaxQuery - k
    BY <2>3
  <2>5. \A r \in Stored : MaxQuery - k <= MaxQuery - r
    BY <2>3, <2>4
  <2>6. \A r \in Stored : r <= k
    BY <2>1, <2>5
  <2>7. Watermark \in Stored /\ \A r \in Stored : r <= Watermark
    BY <1>2, <2>6 DEF Watermark
  <2>8. QED
    BY <1>2, <2>1, <2>7
<1>3. QED
  BY <1>1, <1>2

\* A step that leaves the rows of hist_stl_query alone leaves its watermark alone.
LEMMA WatermarkStays ==
  ASSUME query' = query
  PROVE  Watermark' = Watermark /\ Stored' = Stored
<1>1. Stored' = Stored
  BY DEF Stored
<1>2. QED
  BY <1>1 DEF Watermark

LEMMA TablesTypeStep ==
  ASSUME SystemTablesAssumption, TablesTypeOK, [TablesNext]_tablesVars
  PROVE  TablesTypeOK'
<1> USE DEF SystemTablesAssumption, TablesTypeOK, Steps, Goto
<1>1. CASE StartSnapshot \/ Verify
  BY <1>1 DEF StartSnapshot, Verify
<1>2. CASE InsertExplain
  BY <1>2 DEF InsertExplain
<1>3. CASE InsertQuery
  BY <1>3 DEF InsertQuery, AfterInsert
<1>4. CASE Unload \/ UnloadFails
  BY <1>4 DEF Unload, UnloadFails, AfterUnload, New
<1>5. CASE CleanExplain
  BY <1>5 DEF CleanExplain
<1>6. CASE CleanQuery
  BY <1>6 DEF CleanQuery
<1>7. CASE SnapshotFails
  BY <1>7 DEF SnapshotFails
<1>8. ASSUME NEW q \in Queries, Log(q) \/ Expire(q)
      PROVE  TablesTypeOK'
  BY <1>8 DEF Log, Expire, Between
<1>9. CASE UNCHANGED tablesVars
  BY <1>9 DEF tablesVars
<1>10. QED
  BY <1>1, <1>2, <1>3, <1>4, <1>5, <1>6, <1>7, <1>8, <1>9
     DEF TablesNext, Snapshot, SystemLogs

LEMMA OnceStep ==
  ASSUME SystemTablesAssumption, TablesTypeOK, QueryOnce, [TablesNext]_tablesVars
  PROVE  QueryOnce'
<1>1. CASE InsertQuery
  <2> SUFFICES ASSUME NEW q \in Queries
               PROVE  query'[q] <= 1
    BY DEF QueryOnce
  <2>1. query'[q] = IF q \in New THEN query[q] + 1 ELSE query[q]
    BY <1>1 DEF InsertQuery
  <2>2. q \in New => query[q] = 0
    <3>1. q \in New => q \notin Stored
      BY WatermarkFact DEF New, Stored, Queries, SystemTablesAssumption
    <3>2. QED
      BY <3>1 DEF Stored, TablesTypeOK
  <2>3. QED
    BY <2>1, <2>2 DEF QueryOnce, TablesTypeOK
<1>2. CASE CleanQuery
  BY <1>2 DEF CleanQuery, QueryOnce
<1>3. CASE query' = query
  BY <1>3 DEF QueryOnce
<1>4. QED
  BY <1>1, <1>2, <1>3 DEF TablesNext, Snapshot, SystemLogs, StartSnapshot, Verify, InsertExplain,
     Unload, UnloadFails, CleanExplain, SnapshotFails, Log, Expire, tablesVars

LEMMA DetailsStep ==
  ASSUME SystemTablesAssumption, TablesTypeOK, QueryOnce, DetailsInv, [TablesNext]_tablesVars
  PROVE  DetailsInv'
<1> SUFFICES ASSUME lapses' = 0, NEW q \in Queries \ window'
             PROVE  explain'[q] = CASE spc' = "query" /\ q \in New' -> query'[q] + 1
                                    [] spc' = "cleanQuery" /\ q \in Old(cutoff)' -> 0
                                    [] OTHER -> query'[q]
  BY DEF DetailsInv
<1> USE DEF SystemTablesAssumption, Goto
<1>1. CASE StartSnapshot \/ Verify
  <2>1. /\ spc' \in {"start", "explain"} /\ spc \in {"idle", "start"}
        /\ explain' = explain /\ query' = query /\ window' = window /\ lapses' = lapses
    BY <1>1 DEF StartSnapshot, Verify
  <2>2. QED
    BY <2>1 DEF DetailsInv
<1>2. CASE InsertExplain
  <2>1. /\ spc = "explain" /\ spc' = "query" /\ logged' = logged
        /\ query' = query /\ window' = window /\ lapses' = lapses
        /\ explain' = [r \in Queries |-> IF r \in New THEN explain[r] + 1 ELSE explain[r]]
    BY <1>2 DEF InsertExplain
  <2>2. New' = New
    BY <2>1, WatermarkStays DEF New
  <2>3. explain[q] = query[q]
    BY <2>1 DEF DetailsInv
  <2>4. QED
    BY <2>1, <2>2, <2>3
<1>3. CASE InsertQuery
  <2>1. /\ spc = "query" /\ spc' \in {"unload", "cleanExplain", "idle"}
        /\ explain' = explain /\ window' = window /\ lapses' = lapses
        /\ query' = [r \in Queries |-> IF r \in New THEN query[r] + 1 ELSE query[r]]
    BY <1>3 DEF InsertQuery, AfterInsert
  <2>2. explain[q] = IF q \in New THEN query[q] + 1 ELSE query[q]
    BY <2>1 DEF DetailsInv
  <2>3. QED
    BY <2>1, <2>2
<1>4. CASE Unload
  <2>1. /\ spc = "unload" /\ spc' \in {"cleanExplain", "idle"}
        /\ explain' = explain /\ query' = query /\ window' = window /\ lapses' = lapses
    BY <1>4 DEF Unload, AfterUnload
  <2>2. QED
    BY <2>1 DEF DetailsInv
<1>5. CASE CleanExplain
  <2>1. /\ spc = "cleanExplain" /\ spc' = "cleanQuery"
        /\ query' = query /\ window' = window /\ lapses' = lapses
        /\ explain' = [r \in Queries |-> IF r \in Old(cutoff') THEN 0 ELSE explain[r]]
    BY <1>5 DEF CleanExplain
  <2>2. Old(cutoff)' = Old(cutoff')
    BY <2>1, WatermarkStays DEF Old
  <2>3. explain[q] = query[q]
    BY <2>1 DEF DetailsInv
  <2>4. QED
    BY <2>1, <2>2, <2>3
<1>6. CASE CleanQuery
  <2>1. /\ spc = "cleanQuery" /\ spc' = "idle"
        /\ explain' = explain /\ window' = window /\ lapses' = lapses
        /\ query' = [r \in Queries |-> IF r \in Old(cutoff) THEN 0 ELSE query[r]]
    BY <1>6 DEF CleanQuery
  <2>2. explain[q] = IF q \in Old(cutoff) THEN 0 ELSE query[q]
    BY <2>1 DEF DetailsInv
  <2>3. QED
    BY <2>1, <2>2
<1>7. CASE SnapshotFails \/ UnloadFails
  BY <1>7 DEF SnapshotFails, UnloadFails, TablesTypeOK
<1>8. ASSUME NEW r \in Queries, Log(r) \/ Expire(r)
      PROVE  explain'[q] = CASE spc' = "query" /\ q \in New' -> query'[q] + 1
                             [] spc' = "cleanQuery" /\ q \in Old(cutoff)' -> 0
                             [] OTHER -> query'[q]
  <2>1. /\ spc' = spc /\ explain' = explain /\ query' = query /\ lapses' = lapses
        /\ cutoff' = cutoff /\ window' = Between(r)
        /\ logged' \in {logged \cup {r}, logged \ {r}}
    BY <1>8 DEF Log, Expire
  <2>2. Old(cutoff)' = Old(cutoff)
    BY <2>1, WatermarkStays DEF Old
  <2>3. q \notin window /\ (spc = "query" => q # r)
    BY <2>1 DEF Between
  <2>4. spc = "query" => (q \in New' <=> q \in New)
    BY <2>1, <2>3, WatermarkStays DEF New
  <2>5. QED
    BY <2>1, <2>2, <2>3, <2>4 DEF DetailsInv
<1>9. CASE UNCHANGED tablesVars
  <2>1. /\ spc' = spc /\ explain' = explain /\ query' = query /\ lapses' = lapses
        /\ cutoff' = cutoff /\ window' = window /\ logged' = logged
    BY <1>9 DEF tablesVars
  <2>2. New' = New /\ Old(cutoff)' = Old(cutoff)
    BY <2>1, WatermarkStays DEF New, Old
  <2>3. QED
    BY <2>1, <2>2 DEF DetailsInv
<1>10. QED
  BY <1>1, <1>2, <1>3, <1>4, <1>5, <1>6, <1>7, <1>8, <1>9
     DEF TablesNext, Snapshot, SystemLogs

\* Deleting the oldest rows leaves the watermark where it is, or leaves no row.
LEMMA WatermarkCleaned ==
  ASSUME SystemTablesAssumption, TablesTypeOK, CleanQuery
  PROVE  Watermark' = Watermark \/ Watermark' = 0
<1> USE DEF SystemTablesAssumption, TablesTypeOK, Queries
<1>1. query' = [q \in Queries |-> IF q \in Old(cutoff) THEN 0 ELSE query[q]]
  BY DEF CleanQuery
<1>2. Stored' = {q \in Stored : ~(q < cutoff)}
  BY <1>1 DEF Stored, Old
<1>3. CASE Stored' = {}
  BY <1>3 DEF Watermark
<1>4. CASE Stored' # {}
  <2>1. PICK q \in Stored : ~(q < cutoff)
    BY <1>2, <1>4
  <2>2. Watermark \in Stored /\ (\A r \in Stored : r <= Watermark) /\ Watermark \in Nat
    BY <2>1, WatermarkFact DEF Stored
  <2>3. q \in Nat /\ cutoff \in Nat /\ ~(Watermark < cutoff)
    BY <2>1, <2>2 DEF Stored
  <2>4. Watermark \in Stored' /\ \A r \in Stored' : r <= Watermark
    BY <1>2, <2>2, <2>3
  <2>5. ASSUME NEW w \in Stored', \A r \in Stored' : r <= w
        PROVE  w = Watermark
    <3>1. w \in Nat
      BY <1>2 DEF Stored
    <3>2. w <= Watermark /\ Watermark <= w
      BY <2>4, <2>5
    <3>3. QED
      BY <2>2, <3>1, <3>2
  <2>6. Watermark' = CHOOSE w \in Stored' : \A r \in Stored' : r <= w
    BY <1>4 DEF Watermark
  <2>7. QED
    BY <2>4, <2>5, <2>6
<1>5. QED
  BY <1>3, <1>4

LEMMA SkippedStep ==
  ASSUME SystemTablesAssumption, TablesTypeOK, SkippedInv, [TablesNext]_tablesVars
  PROVE  SkippedInv'
<1> USE DEF SystemTablesAssumption, Goto
<1> DEFINE Low == \A q \in logged : q <= Watermark => Accounted(q)
           AfterRun == spc \in {"unload", "cleanExplain", "cleanQuery"}
                      \/ (spc = "idle" /\ result = "ok")
           All == \A q \in logged : q \in fresh \/ Accounted(q)
           Early == spc \in {"start", "explain", "query"} => result = "none"
<1>0. Low /\ (AfterRun => All) /\ Early
  BY DEF SkippedInv
<1>1. CASE StartSnapshot \/ Verify \/ InsertExplain \/ Unload \/ UnloadFails \/ SnapshotFails
           \/ UNCHANGED tablesVars
  <2>1. /\ logged' = logged /\ query' = query /\ overtaken' = overtaken /\ cutoff' = cutoff
        /\ fresh' = fresh /\ (AfterRun' => AfterRun) /\ Early'
    BY <1>0, <1>1 DEF StartSnapshot, Verify, InsertExplain, Unload, AfterUnload, UnloadFails,
       SnapshotFails, tablesVars
  <2>2. Watermark' = Watermark
    BY <2>1, WatermarkStays
  <2>3. Low' /\ (AfterRun' => All')
    BY <1>0, <2>1, <2>2 DEF Accounted
  <2>4. QED
    BY <2>1, <2>3 DEF SkippedInv
<1>2. CASE InsertQuery
  <2>1. /\ logged' = logged /\ overtaken' = overtaken /\ cutoff' = cutoff
        /\ query' = [q \in Queries |-> IF q \in New THEN query[q] + 1 ELSE query[q]]
        /\ spc' \in {"unload", "cleanExplain", "idle"}
    BY <1>2 DEF InsertQuery, AfterInsert
  <2>2. ASSUME NEW q \in logged
        PROVE  Accounted(q)'
    <3>0. q \in Queries /\ query[q] \in Nat /\ Watermark \in Nat /\ q \in Nat
      BY WatermarkFact DEF TablesTypeOK, Queries
    <3>1. CASE q \in New
      BY <2>1, <3>0, <3>1 DEF Accounted
    <3>2. CASE q \notin New
      <4>1. q <= Watermark
        BY <3>0, <3>2 DEF New
      <4>2. query'[q] = query[q]
        BY <2>1, <3>0, <3>2
      <4>3. QED
        BY <1>0, <2>1, <4>1, <4>2 DEF Accounted
    <3>3. QED
      BY <3>1, <3>2
  <2>3. QED
    BY <2>1, <2>2 DEF SkippedInv
<1>3. CASE CleanExplain
  <2>1. /\ logged' = logged /\ query' = query /\ overtaken' = overtaken /\ fresh' = fresh
        /\ cutoff' \in cutoff .. MaxQuery + 1 /\ AfterRun /\ spc' = "cleanQuery"
    BY <1>3 DEF CleanExplain
  <2>2. Watermark' = Watermark
    BY <2>1, WatermarkStays
  <2>3. \A q \in logged : Accounted(q) => Accounted(q)'
    BY <2>1 DEF Accounted, TablesTypeOK, Queries
  <2>4. QED
    BY <1>0, <2>1, <2>2, <2>3 DEF SkippedInv
<1>4. CASE CleanQuery
  <2>1. /\ logged' = logged /\ overtaken' = overtaken /\ fresh' = fresh /\ cutoff' = cutoff
        /\ query' = [q \in Queries |-> IF q \in Old(cutoff) THEN 0 ELSE query[q]]
        /\ AfterRun /\ spc' = "idle"
    BY <1>4 DEF CleanQuery
  <2>2. \A q \in logged : Accounted(q) => Accounted(q)'
    BY <2>1 DEF Accounted, Old, TablesTypeOK
  <2>3. \A q \in logged : q <= Watermark' => q <= Watermark
    <3>1. \A q \in logged : q \in Nat /\ q # 0
      BY DEF TablesTypeOK, Queries
    <3>2. QED
      BY <1>4, <3>1, WatermarkCleaned
  <2>4. QED
    BY <1>0, <2>1, <2>2, <2>3 DEF SkippedInv
<1>5. ASSUME NEW q \in Queries, Log(q)
      PROVE  SkippedInv'
  <2>1. /\ logged' = logged \cup {q} /\ query' = query /\ cutoff' = cutoff
        /\ fresh' = fresh \cup {q} /\ spc' = spc /\ result' = result
        /\ overtaken' = IF q < Watermark THEN overtaken \cup {q} ELSE overtaken
    BY <1>5 DEF Log
  <2>2. Watermark' = Watermark
    BY <2>1, WatermarkStays
  <2>3. q <= Watermark => Accounted(q)'
    <3>1. q \in Nat /\ q # 0 /\ Watermark \in Nat /\ query[q] \in Nat
      BY WatermarkFact DEF Queries, TablesTypeOK
    <3>2. q = Watermark => query[q] > 0
      BY <3>1, WatermarkFact DEF Stored
    <3>3. QED
      BY <2>1, <3>1, <3>2 DEF Accounted
  <2>4. \A r \in logged : Accounted(r) => Accounted(r)'
    BY <2>1 DEF Accounted
  <2>5. QED
    BY <1>0, <2>1, <2>2, <2>3, <2>4 DEF SkippedInv
<1>6. ASSUME NEW q \in Queries, Expire(q)
      PROVE  SkippedInv'
  <2>1. /\ logged' = logged \ {q} /\ query' = query /\ cutoff' = cutoff
        /\ fresh' = fresh /\ spc' = spc /\ result' = result /\ overtaken' = overtaken
    BY <1>6 DEF Expire
  <2>2. Watermark' = Watermark
    BY <2>1, WatermarkStays
  <2>3. QED
    BY <1>0, <2>1, <2>2 DEF SkippedInv, Accounted
<1>7. QED
  BY <1>1, <1>2, <1>3, <1>4, <1>5, <1>6 DEF TablesNext, Snapshot, SystemLogs

\* The state of the runs and of both tables has its type.
THEOREM TablesTypeCorrect ==
  ASSUME SystemTablesAssumption
  PROVE  TablesSpec => []TablesTypeOK
<1>1. TablesInit => TablesTypeOK
  BY DEF TablesInit, TablesTypeOK, Steps, SystemTablesAssumption
<1>2. TablesTypeOK /\ [TablesNext]_tablesVars => TablesTypeOK'
  BY TablesTypeStep
<1>3. QED
  BY <1>1, <1>2, PTL DEF TablesSpec

\* For any number of queries, runs and failed statements: the history holds
\* every query once, with its plan, and nothing is skipped but what a later query
\* had overtaken, what was logged since, and what is old.
THEOREM HistoryIsKept ==
  ASSUME SystemTablesAssumption
  PROVE  TablesSpec => []HistoryIsTrue
<1> DEFINE Inv == QueryOnce /\ DetailsInv /\ SkippedInv
<1>1. TablesInit => Inv
  BY DEF TablesInit, QueryOnce, DetailsInv, SkippedInv
<1>2. TablesTypeOK /\ Inv /\ [TablesNext]_tablesVars => Inv'
  BY OnceStep, DetailsStep, SkippedStep
<1>3. Inv => HistoryIsTrue
  <2>1. DetailsInv => DetailsMatch
    BY DEF DetailsInv, DetailsMatch
  <2>2. SkippedInv => NothingSkipped
    BY DEF SkippedInv, NothingSkipped, Accounted
  <2>3. QED
    BY <2>1, <2>2 DEF HistoryIsTrue
<1>4. QED
  BY <1>1, <1>2, <1>3, TablesTypeCorrect, PTL DEF TablesSpec

---------------------------------------------------------------------------
(* WlmScheduler.                                                           *)

\* The length of the day is a number of its own; hours begin in order.
LEMMA DayFact ==
  ASSUME WlmSchedulerAssumption
  PROVE  Hours * Minutes \in Nat \ {0}
<1>1. Hours * Minutes \in Nat /\ Hours * Minutes # 0
  BY DEF WlmSchedulerAssumption
<1>2. QED
  BY <1>1

LEMMA HoursInOrder ==
  ASSUME WlmSchedulerAssumption, NEW s \in Nat, NEW t \in Nat, s <= t
  PROVE  HourOf(s) \in Nat /\ HourOf(t) \in Nat /\ HourOf(s) <= HourOf(t)
BY DEF WlmSchedulerAssumption, HourOf

\* An interval that is active covers the time; one that covers the time and is
\* not active goes over midnight, and the time is after midnight or the
\* interval ends in the hour in which it starts.
LEMMA ActiveFact ==
  ASSUME WlmSchedulerAssumption, NEW r \in Ruleset, NEW t \in DayTimes
  PROVE  /\ Active(r, t) => Covers(r, t)
         /\ Covers(r, t) /\ ~Active(r, t) =>
              /\ Overnight(r)
              /\ t < r.to \/ HourOf(r.to) = HourOf(r.from)
<1> DEFINE D == Hours * Minutes
<1>1. D \in Nat \ {0}
  BY DayFact
<1>2. /\ r.from \in Nat /\ r.to \in Nat /\ t \in Nat
      /\ r.from < D /\ r.to < D /\ t < D
  BY <1>1 DEF Ruleset, DayTimes
<1> HIDE DEF D
<1>3. HourOf(r.from) \in Nat /\ HourOf(r.to) \in Nat
  BY <1>2, HoursInOrder
<1>4. r.from <= r.to => HourOf(r.from) <= HourOf(r.to)
  BY <1>2, HoursInOrder
<1>5. r.to <= r.from => HourOf(r.to) <= HourOf(r.from)
  BY <1>2, HoursInOrder
<1>6. Active(r, t) <=> /\ r.from < t
                       /\ t < r.to + (IF HourOf(r.to) < HourOf(r.from) THEN D ELSE 0)
  BY DEF Active, D
<1>7. Active(r, t) => Covers(r, t)
  BY <1>1, <1>2, <1>3, <1>4, <1>6 DEF Covers, Overnight
<1>8. Covers(r, t) /\ ~Active(r, t) =>
        Overnight(r) /\ (t < r.to \/ HourOf(r.to) = HourOf(r.from))
  BY <1>1, <1>2, <1>3, <1>4, <1>5, <1>6 DEF Covers, Overnight
<1>9. QED
  BY <1>7, <1>8

\* The first n rulesets were tested outside their intervals; the last one tested
\* is the first that was found active.
NoneActive(n) == \A i \in 1 .. n : ~Active(rulesets[i], looked[i])
LastIsFirst ==
  /\ Len(looked) # 0 /\ Active(rulesets[Len(looked)], looked[Len(looked)])
  /\ NoneActive(Len(looked) - 1)

\* How far the search is and how it ended, step by step.
SearchInv ==
  /\ wstep # "idle" => answer = "none"
  /\ wstep = "search" => NoneActive(Len(looked))
  /\ wstep = "found" => LastIsFirst
  /\ answer = "ok" => group = Len(looked) /\ LastIsFirst
  /\ answer = "unfound" => Len(looked) = Len(rulesets) /\ NoneActive(Len(looked))

LEMMA LookedFact ==
  ASSUME WlmSchedulerAssumption, WlmTypeOK
  PROVE  /\ rulesets \in Seq(Ruleset) /\ Len(rulesets) \in Nat /\ Len(looked) \in Nat
         /\ \A i \in 1 .. Len(looked) : looked[i] \in DayTimes /\ rulesets[i] \in Ruleset
<1>1. rulesets \in Seq(Ruleset) /\ looked \in Seq(DayTimes) /\ Len(looked) <= Len(rulesets)
  BY DEF WlmSchedulerAssumption, WlmTypeOK
<1>2. Len(rulesets) \in Nat /\ Len(looked) \in Nat
  BY <1>1
<1>3. ASSUME NEW i \in 1 .. Len(looked)
      PROVE  looked[i] \in DayTimes /\ rulesets[i] \in Ruleset
  <2>1. i \in 1 .. Len(rulesets)
    BY <1>1, <1>2
  <2>2. QED
    BY <1>1, <2>1
<1>4. QED
  BY <1>1, <1>2, <1>3

\* A test appends the time, and leaves the earlier ones as they are.
LEMMA TestFact ==
  ASSUME WlmSchedulerAssumption, WlmTypeOK, Test
  PROVE  /\ looked' \in Seq(DayTimes) /\ Len(looked') = Len(looked) + 1
         /\ looked'[Len(looked) + 1] = clock
         /\ \A i \in 1 .. Len(looked) : looked'[i] = looked[i]
<1>1. looked \in Seq(DayTimes) /\ clock \in DayTimes /\ looked' = Append(looked, clock)
  BY DEF WlmTypeOK, Test
<1>2. QED
  BY <1>1, AppendProperties

LEMMA WlmTypeStep ==
  ASSUME WlmSchedulerAssumption, WlmTypeOK, [WlmNext]_wlmVars
  PROVE  WlmTypeOK'
<1> USE DEF WlmTypeOK
<1>1. CASE StartRun
  <2>1. looked' = <<>> /\ rulesets' = rulesets
    BY <1>1 DEF StartRun
  <2>2. looked' \in Seq(DayTimes) /\ Len(looked') <= Len(rulesets')
    BY <2>1, LookedFact
  <2>3. QED
    BY <1>1, <2>1, <2>2 DEF StartRun
<1>2. CASE Test
  <2>1. looked' \in Seq(DayTimes) /\ Len(looked') = Len(looked) + 1
    BY <1>2, TestFact
  <2>2. Len(looked') <= Len(rulesets')
    BY <1>2, <2>1, LookedFact DEF Test
  <2>3. QED
    BY <1>2, <2>1, <2>2 DEF Test
<1>3. CASE Refuse \/ Malformed
  BY <1>3 DEF Refuse, Malformed
<1>4. CASE Apply \/ CallFails
  <2>1. Len(looked) \in 0 .. Len(rulesets)
    BY LookedFact
  <2>2. QED
    BY <1>4, <2>1 DEF Apply, CallFails
<1>5. CASE ClockTick
  <2> DEFINE D == Hours * Minutes
  <2>1. D \in Nat \ {0}
    BY DayFact
  <2>2. clock' = (clock + 1) % D /\ DayTimes = 0 .. D - 1
    BY <1>5 DEF ClockTick, DayTimes
  <2> HIDE DEF D
  <2>3. clock' \in DayTimes
    BY <2>1, <2>2
  <2>4. QED
    BY <1>5, <2>3 DEF ClockTick
<1>6. CASE UNCHANGED wlmVars
  BY <1>6 DEF wlmVars
<1>7. QED
  BY <1>1, <1>2, <1>3, <1>4, <1>5, <1>6 DEF WlmNext, RunScheduler

LEMMA SearchStep ==
  ASSUME WlmSchedulerAssumption, WlmTypeOK, SearchInv, [WlmNext]_wlmVars
  PROVE  SearchInv'
<1> USE DEF SearchInv
<1>1. CASE StartRun
  <2>1. wstep' = "search" /\ answer' = "none" /\ Len(looked') = 0
    BY <1>1 DEF StartRun
  <2>2. NoneActive(Len(looked))'
    BY <2>1 DEF NoneActive
  <2>3. QED
    BY <2>1, <2>2
<1>2. CASE Test
  <2> DEFINE n == Len(looked)
  <2>1. n \in Nat
    BY LookedFact
  <2>2. /\ Len(looked') = n + 1 /\ looked'[n + 1] = clock /\ rulesets' = rulesets
        /\ \A i \in 1 .. n : looked'[i] = looked[i]
    BY <1>2, TestFact DEF Test
  <2>3. answer' = "none" /\ wstep' \in {"found", "search"} /\ NoneActive(n)
    BY <1>2 DEF Test
  <2>4. \A i \in 1 .. n : ~Active(rulesets'[i], looked'[i])
    BY <2>2, <2>3 DEF NoneActive
  <2>5. CASE Active(rulesets[n + 1], clock)
    <3>1. wstep' = "found"
      BY <1>2, <2>5 DEF Test
    <3>2. Len(looked') # 0 /\ Len(looked') - 1 = n
      BY <2>1, <2>2
    <3>3. Active(rulesets'[Len(looked')], looked'[Len(looked')])
      BY <2>2, <2>5
    <3>4. LastIsFirst'
      BY <2>4, <3>2, <3>3 DEF LastIsFirst, NoneActive
    <3>5. QED
      BY <2>3, <3>1, <3>4
  <2>6. CASE ~Active(rulesets[n + 1], clock)
    <3>1. wstep' = "search"
      BY <1>2, <2>6 DEF Test
    <3>2. ASSUME NEW i \in 1 .. n + 1 PROVE ~Active(rulesets'[i], looked'[i])
      <4>1. i \in 1 .. n \/ i = n + 1
        BY <2>1
      <4>2. QED
        BY <2>2, <2>4, <2>6, <4>1
    <3>3. NoneActive(Len(looked))'
      BY <2>2, <3>2 DEF NoneActive
    <3>4. QED
      BY <2>3, <3>1, <3>3
  <2>7. QED
    BY <2>5, <2>6
<1>3. CASE Refuse \/ Malformed \/ Apply \/ CallFails
  <2>1. UNCHANGED <<rulesets, looked>> /\ wstep' = "idle"
    BY <1>3 DEF Refuse, Malformed, Apply, CallFails
  <2>2. (NoneActive(Len(looked)) => NoneActive(Len(looked))') /\ (LastIsFirst => LastIsFirst')
    BY <2>1 DEF NoneActive, LastIsFirst
  <2>3. CASE Refuse
    BY <2>1, <2>2, <2>3 DEF Refuse
  <2>4. CASE Malformed \/ CallFails
    BY <2>1, <2>4 DEF Malformed, CallFails
  <2>5. CASE Apply
    BY <2>1, <2>2, <2>5 DEF Apply
  <2>6. QED
    BY <1>3, <2>3, <2>4, <2>5
<1>4. CASE ClockTick \/ UNCHANGED wlmVars
  <2>1. UNCHANGED <<rulesets, wstep, looked, group, answer>>
    BY <1>4 DEF ClockTick, wlmVars
  <2>2. (NoneActive(Len(looked)) => NoneActive(Len(looked))') /\ (LastIsFirst => LastIsFirst')
    BY <2>1 DEF NoneActive, LastIsFirst
  <2>3. QED
    BY <2>1, <2>2
<1>5. QED
  BY <1>1, <1>2, <1>3, <1>4 DEF WlmNext, RunScheduler

\* What the scheduler keeps has its type; the clock stays within the day.
THEOREM WlmTypeCorrect ==
  ASSUME WlmSchedulerAssumption
  PROVE  WlmSpec => []WlmTypeOK
<1>1. ASSUME WlmInit PROVE WlmTypeOK
  <2>1. rulesets \in Seq(Ruleset) /\ clock \in DayTimes
    BY <1>1, DayFact DEF WlmInit, DayTimes, WlmSchedulerAssumption
  <2>2. Len(rulesets) \in Nat /\ looked \in Seq(DayTimes) /\ Len(looked) = 0
    BY <1>1, <2>1 DEF WlmInit
  <2>3. QED
    BY <1>1, <2>1, <2>2 DEF WlmInit, WlmTypeOK
<1>2. WlmTypeOK /\ [WlmNext]_wlmVars => WlmTypeOK'
  BY WlmTypeStep
<1>3. QED
  BY <1>1, <1>2, PTL DEF WlmSpec

\* The tests that SearchInv remembers are those that the property speaks of.
LEMMA SearchImpliesSchedule ==
  ASSUME WlmSchedulerAssumption, WlmTypeOK, SearchInv
  PROVE  ScheduleHolds
<1> DEFINE n == Len(looked)
<1>1. /\ n \in Nat /\ Len(rulesets) \in Nat /\ DOMAIN rulesets = 1 .. Len(rulesets)
      /\ \A i \in 1 .. n : looked[i] \in DayTimes /\ rulesets[i] \in Ruleset
  BY LookedFact
<1>2. ASSUME NEW i \in 1 .. n, Covers(rulesets[i], looked[i]), ~Active(rulesets[i], looked[i])
      PROVE  /\ Overnight(rulesets[i])
             /\ looked[i] < rulesets[i].to \/ HourOf(rulesets[i].to) = HourOf(rulesets[i].from)
  BY <1>1, <1>2, ActiveFact
<1>3. AppliedInItsInterval
  <2> SUFFICES ASSUME answer = "ok" 
               PROVE  /\ group = n /\ Covers(rulesets[n], looked[n])
                      /\ \A i \in 1 .. n - 1 :
                           Covers(rulesets[i], looked[i]) => Overnight(rulesets[i])
    BY DEF AppliedInItsInterval, SearchInv
  <2>1. group = n /\ n # 0 /\ Active(rulesets[n], looked[n]) /\ NoneActive(n - 1)
    BY DEF SearchInv, LastIsFirst
  <2>2. Covers(rulesets[n], looked[n])
    BY <1>1, <2>1, ActiveFact
  <2>3. ASSUME NEW i \in 1 .. n - 1, Covers(rulesets[i], looked[i])
        PROVE  Overnight(rulesets[i])
    BY <1>1, <1>2, <2>1, <2>3 DEF NoneActive
  <2>4. QED
    BY <2>1, <2>2, <2>3
<1>4. GapsAfterMidnight
  BY <1>1, <1>2 DEF GapsAfterMidnight, SearchInv, NoneActive
<1>5. QED
  BY <1>3, <1>4 DEF ScheduleHolds

\* For any rulesets and any division of the day, and however the clock goes on
\* during a run: a run puts a ruleset into the parameter group that was meant for
\* the time at which it was tested, and finds none only if each was tested outside
\* its interval or in one of the two gaps that the code has.
THEOREM ScheduleIsKept ==
  ASSUME WlmSchedulerAssumption
  PROVE  WlmSpec => []ScheduleHolds
<1>1. WlmInit => SearchInv
  BY DEF WlmInit, SearchInv
<1>2. WlmTypeOK /\ SearchInv /\ [WlmNext]_wlmVars => SearchInv'
  BY SearchStep
<1>3. WlmTypeOK /\ SearchInv => ScheduleHolds
  BY SearchImpliesSchedule
<1>4. QED
  BY <1>1, <1>2, <1>3, WlmTypeCorrect, PTL DEF WlmSpec

---------------------------------------------------------------------------
(* LastLogin.                                                              *)

OnePerUser(S) == \A r, s \in S : r.user = s.user => r = s

\* As long as every truncate and load was seen to finish, the stage table is
\* empty when it is loaded and holds one set of rows, which are not older than
\* those of the target.
TidyInv ==
  ~untidy =>
    /\ late \cap {"truncate", "load"} = {}
    /\ OnePerUser(stage) /\ OnePerUser(target)
    /\ step = "load" => stage = {}
    /\ \A s \in stage, r \in target : s.user = r.user /\ r.user # Nobody => r.at <= s.at

\* No row is of a login later than the user's last one.
LoginInv ==
  \A u \in Users :
    /\ login[u] <= time
    /\ \A r \in stage \cup target : r.user = u =>
         r.at <= time /\ (login[u] > 0 => r.at <= login[u])

\* The users whose logins are to be recorded, and what the statements of a run
\* without errors have made of them.
Due == {u \in known : loaded[u] > 0}
StageDue == \A u \in Due : \E s \in stage : s.user = u /\ s.at = loaded[u]
TargetDue == \A r \in target : r.user \in Due => r.at = loaded[r.user]
Present ==
  \/ \E r \in target : r.user = Nobody
  \/ \A u \in Due : \E r \in target : r.user = u

LoadedInv ==
  ~untidy /\ ~incomplete =>
    /\ step \in {"update", "insert", "done"} => StageDue
    /\ step \in {"insert", "done"} => TargetDue
    /\ step = "done" => Present

---------------------------------------------------------------------------
\* What a statement does, by its name.
LEMMA Executed ==
  ASSUME NEW s \in Statements, Execute(s)
  PROVE  /\ exist' \in {exist, TRUE}
         /\ s \in {"check", "create"} \/ ~exist =>
              UNCHANGED <<stage, target, loads, loaded, known>>
         /\ s = "truncate" /\ exist => stage' = {} /\ UNCHANGED <<target, loads, loaded, known>>
         /\ s = "load" /\ exist =>
              /\ stage' = stage \cup Recorded /\ loads' = loads + 1
              /\ loaded' = login /\ known' = Users \ dropped /\ target' = target
         /\ s = "update" /\ exist =>
              /\ \E to \in [target -> 0 .. MaxLogins] :
                   /\ \A r \in target :
                        IF Matches(r) = {} THEN to[r] = r.at
                        ELSE \E m \in Matches(r) : to[r] = m.at
                   /\ target' = {[r EXCEPT !.at = to[r]] : r \in target}
              /\ UNCHANGED <<stage, loads, loaded, known>>
         /\ s = "insert" /\ exist =>
              target' = target \cup Insertable /\ UNCHANGED <<stage, loads, loaded, known>>
<1>1. CASE s = "check"
  BY <1>1 DEF Execute
<1>2. CASE s = "create"
  BY <1>2 DEF Execute
<1>3. CASE s = "truncate"
  BY <1>3 DEF Execute
<1>4. CASE s = "load"
  BY <1>4 DEF Execute
<1>5. CASE s = "update"
  BY <1>5 DEF Execute
<1>6. CASE s = "insert"
  BY <1>6 DEF Execute
<1>7. QED
  BY <1>1, <1>2, <1>3, <1>4, <1>5, <1>6 DEF Statements

\* The rows that a load adds: one of each user, at the last login.
LEMMA RecordedFact ==
  ASSUME LastLoginAssumption, LoginTypeOK
  PROVE  /\ Recorded \subseteq LoginRow /\ OnePerUser(Recorded)
         /\ \A r \in Recorded : r.user # Nobody =>
              r.user \in Users \ dropped /\ r.at = login[r.user] /\ login[r.user] > 0
         /\ \A u \in Users \ dropped : login[u] > 0 =>
              \E r \in Recorded : r.user = u /\ r.at = login[u]
<1> USE DEF LastLoginAssumption, LoginTypeOK
<1> DEFINE Named == {[user |-> u, at |-> login[u], load |-> loads + 1] : u \in SeenUsers \ dropped}
           Lost == {v \in SeenUsers \cap dropped :
                      \A w \in SeenUsers \cap dropped : login[w] <= login[v]}
           Nameless == {[user |-> Nobody, at |-> login[u], load |-> loads + 1] : u \in Lost}
<1>1. Recorded = Named \cup Nameless
  BY DEF Recorded
<1>2. \A r \in Named : r \in LoginRow /\ r.user \in SeenUsers \ dropped
                         /\ r.at = login[r.user] /\ r.load = loads + 1
  BY DEF LoginRow, SeenUsers
<1>3. \A r \in Nameless : r \in LoginRow /\ r.user = Nobody /\ r.load = loads + 1
                            /\ \E u \in Lost : r.at = login[u]
  BY DEF LoginRow, SeenUsers
<1>4. ASSUME NEW u \in SeenUsers \ dropped
      PROVE  \E r \in Named : r.user = u /\ r.at = login[u]
  <2> DEFINE row == [user |-> u, at |-> login[u], load |-> loads + 1]
  <2>1. row \in Named /\ row.user = u /\ row.at = login[u]
    OBVIOUS
  <2> HIDE DEF row, Named
  <2>2. QED
    BY <2>1
<1>5. \A u, v \in Lost : login[u] = login[v]
  BY DEF SeenUsers
<1> HIDE DEF Named, Nameless, Lost
<1>6. SeenUsers = {u \in Users : login[u] > 0}
  BY DEF SeenUsers
<1>7. ASSUME NEW r \in Recorded, NEW s \in Recorded, r.user = s.user
      PROVE  r = s
  <2>1. r \in LoginRow /\ s \in LoginRow
    BY <1>1, <1>2, <1>3
  <2>2. r.at = s.at /\ r.load = s.load
    <3>1. CASE r.user = Nobody
      <4>1. r \in Nameless /\ s \in Nameless
        BY <1>1, <1>2, <1>6, <1>7, <3>1
      <4>2. QED
        BY <1>3, <1>5, <4>1
    <3>2. CASE r.user # Nobody
      <4>1. r \in Named /\ s \in Named
        BY <1>1, <1>3, <1>7, <3>2
      <4>2. QED
        BY <1>2, <1>7, <4>1
    <3>3. QED
      BY <3>1, <3>2
  <2>3. QED
    BY <1>7, <2>1, <2>2 DEF LoginRow
<1>8. Recorded \subseteq LoginRow /\ OnePerUser(Recorded)
  BY <1>1, <1>2, <1>3, <1>7 DEF OnePerUser
<1>9. QED
  BY <1>1, <1>2, <1>3, <1>4, <1>6, <1>8

\* An update keeps the rows and their users, and gives each the time of one of
\* its matches, or leaves it.
Updates(r, s) ==
  /\ r.user = s.user
  /\ \/ Matches(r) = {} /\ s.at = r.at
     \/ \E m \in Matches(r) : s.at = m.at

LEMMA UpdateFact ==
  ASSUME LastLoginAssumption, LoginTypeOK, Execute("update"), exist
  PROVE  /\ \A s \in target' : \E r \in target : Updates(r, s)
         /\ \A r \in target : \E s \in target' : Updates(r, s)
         /\ OnePerUser(target) => OnePerUser(target')
         /\ target' \subseteq LoginRow
         /\ UNCHANGED <<stage, loads, loaded, known>>
<1>1. PICK to \in [target -> 0 .. MaxLogins] :
        /\ \A r \in target :
             IF Matches(r) = {} THEN to[r] = r.at
             ELSE \E m \in Matches(r) : to[r] = m.at
        /\ target' = {[r EXCEPT !.at = to[r]] : r \in target}
  BY Executed DEF Statements
<1> DEFINE Changed(r) == [r EXCEPT !.at = to[r]]
<1>2. \A r \in target : /\ Changed(r) \in LoginRow /\ Changed(r).user = r.user /\ Changed(r).at = to[r]
  BY DEF LoginTypeOK, LoginRow
<1>3. target' = {Changed(r) : r \in target}
  BY <1>1
<1> HIDE DEF Changed
<1>4. \A r \in target : Updates(r, Changed(r))
  BY <1>1, <1>2 DEF Updates
<1>5. UNCHANGED <<stage, loads, loaded, known>>
  BY Executed DEF Statements
<1>6. OnePerUser(target) => OnePerUser(target')
  <2> SUFFICES ASSUME OnePerUser(target), NEW r \in target, NEW s \in target,
                      Changed(r).user = Changed(s).user
               PROVE  Changed(r) = Changed(s)
    BY <1>3 DEF OnePerUser
  <2>1. r = s
    BY <1>2 DEF OnePerUser
  <2>2. QED
    BY <2>1
<1>7. QED
  BY <1>2, <1>3, <1>4, <1>5, <1>6

LEMMA InsertFact ==
  ASSUME LastLoginAssumption, LoginTypeOK, Execute("insert"), exist
  PROVE  /\ target' = target \cup Insertable /\ Insertable \subseteq stage
         /\ \A s \in Insertable : target = {} \/ \A r \in target : r.user # s.user
         /\ \A s \in stage \ Insertable :
              s.user = Nobody \/ \E r \in target : r.user \in {s.user, Nobody}
         /\ UNCHANGED <<stage, loads, loaded, known>>
<1>1. target' = target \cup Insertable /\ UNCHANGED <<stage, loads, loaded, known>>
  BY Executed DEF Statements
<1>2. QED
  BY <1>1 DEF Insertable

LEMMA LoginExecuteType ==
  ASSUME LastLoginAssumption, LoginTypeOK, NEW s \in Statements, Execute(s)
  PROVE  /\ exist' \in BOOLEAN /\ stage' \subseteq LoginRow /\ target' \subseteq LoginRow
         /\ loads' \in Nat /\ loaded' \in [Users -> 0 .. MaxLogins] /\ known' \subseteq Users
<1>0. exist' \in BOOLEAN
  BY Executed DEF LoginTypeOK
<1>1. CASE s \in {"check", "create"} \/ ~exist
  BY <1>0, <1>1, Executed DEF LoginTypeOK
<1>2. CASE s = "truncate" /\ exist
  BY <1>0, <1>2, Executed DEF LoginTypeOK
<1>3. CASE s = "load" /\ exist
  <2>1. /\ stage' = stage \cup Recorded /\ loads' = loads + 1
        /\ loaded' = login /\ known' = Users \ dropped /\ target' = target
    BY <1>3, Executed
  <2>2. QED
    BY <1>0, <2>1, RecordedFact DEF LoginTypeOK
<1>4. CASE s = "update" /\ exist
  BY <1>0, <1>4, UpdateFact DEF LoginTypeOK
<1>5. CASE s = "insert" /\ exist
  BY <1>0, <1>5, InsertFact DEF LoginTypeOK
<1>6. QED
  BY <1>1, <1>2, <1>3, <1>4, <1>5 DEF Statements

LEMMA LoginTypeStep ==
  ASSUME LastLoginAssumption, LoginTypeOK, [LoginNext]_loginVars
  PROVE  LoginTypeOK'
<1> USE DEF LastLoginAssumption, LoginTypeOK
<1>1. \A s \in Statements : Following[s] \in Statements \cup Outside
  BY DEF Statements, Outside, Following
<1>2. "check" \in Statements /\ "create" \in Statements /\ {"raised", "polling"} \subseteq Outside
  BY DEF Statements, Outside
<1>3. CASE BeginRun
  <2>1. step' \in Statements \cup Outside /\ turn' \in 0 .. MaxTurns /\ incomplete' = FALSE
    BY <1>2, <1>3 DEF BeginRun
  <2>2. QED
    BY <1>3, <2>1 DEF BeginRun
<1>4. CASE Finished
  <2>1. step \in Statements /\ Execute(step)
    BY <1>4 DEF Finished
  <2>2. step' \in Statements \cup Outside
    BY <1>1, <1>2, <1>4 DEF Finished
  <2>3. QED
    BY <1>4, <2>1, <2>2, LoginExecuteType DEF Finished
<1>5. ASSUME step \in Statements, GoOn
      PROVE  step' \in Statements \cup Outside /\ incomplete' \in BOOLEAN /\ untidy' \in BOOLEAN
  <2>1. step' \in Statements \cup Outside
    BY <1>1, <1>2, <1>5 DEF GoOn
  <2>2. incomplete' = TRUE /\ untidy' \in BOOLEAN
    BY <1>5, Zenon DEF GoOn
  <2>3. QED
    BY <2>1, <2>2
<1>6. CASE Failed
  BY <1>5, <1>6 DEF Failed
<1>7. CASE NoTables
  BY <1>5, <1>7 DEF NoTables
<1>8. CASE Unseen
  <2>1. late' \subseteq Statements /\ failures' \in 0 .. MaxFailures
    BY <1>8 DEF Unseen
  <2>2. QED
    BY <1>5, <1>8, <2>1 DEF Unseen
<1>9. CASE Aborted
  BY <1>2, <1>9 DEF Aborted
<1>10. ASSUME NEW s \in Statements, LateExecuted(s)
       PROVE  LoginTypeOK'
  BY <1>10, LoginExecuteType DEF LateExecuted
<1>11. ASSUME NEW u \in Users, Login(u) \/ Forget(u) \/ DropUser(u)
       PROVE  LoginTypeOK'
  BY <1>11 DEF Login, Forget, DropUser
<1>12. CASE UNCHANGED loginVars
  BY <1>12 DEF loginVars
<1>13. QED
  BY <1>3, <1>4, <1>6, <1>7, <1>8, <1>9, <1>10, <1>11, <1>12 DEF LoginNext, Run

---------------------------------------------------------------------------
\* A statement keeps the rows one per user and none of the target later than
\* the one in the stage table, if a load finds the stage table empty.
Ahead == \A s \in stage, r \in target : s.user = r.user /\ r.user # Nobody => r.at <= s.at
Tidy == OnePerUser(stage) /\ OnePerUser(target) /\ Ahead

LEMMA TidyExecute ==
  ASSUME LastLoginAssumption, LoginTypeOK, LoginInv, Tidy,
         NEW s \in Statements, Execute(s), s = "load" => stage = {}
  PROVE  /\ Tidy'
         /\ s # "load" /\ stage = {} => stage' = {}
         /\ s = "truncate" /\ exist => stage' = {}
<1>1. CASE s \in {"check", "create"} \/ ~exist
  BY <1>1, Executed DEF Tidy, Ahead, OnePerUser
<1>2. CASE s = "truncate" /\ exist
  BY <1>2, Executed DEF Tidy, Ahead, OnePerUser
<1>3. CASE s = "load" /\ exist
  <2>1. stage' = Recorded /\ target' = target
    BY <1>3, Executed
  <2>2. OnePerUser(stage') /\ OnePerUser(target')
    BY <2>1, RecordedFact DEF Tidy
  <2>3. Ahead'
    <3> SUFFICES ASSUME NEW m \in Recorded, NEW r \in target, m.user = r.user, r.user # Nobody
                 PROVE  r.at <= m.at
      BY <2>1 DEF Ahead
    <3>1. m.user \in Users /\ m.at = login[m.user] /\ login[m.user] > 0
      BY RecordedFact
    <3>2. QED
      BY <3>1 DEF LoginInv
  <2>4. QED
    BY <1>3, <2>2, <2>3 DEF Tidy
<1>4. CASE s = "update" /\ exist
  <2>1. /\ \A r \in target' : \E q \in target : Updates(q, r)
        /\ OnePerUser(target') /\ stage' = stage
    BY <1>4, UpdateFact DEF Tidy
  <2>2. Ahead'
    <3> SUFFICES ASSUME NEW m \in stage, NEW r \in target', m.user = r.user, r.user # Nobody
                 PROVE  r.at <= m.at
      BY <2>1 DEF Ahead
    <3>1. PICK q \in target : Updates(q, r)
      BY <2>1
    <3>2. q.at <= m.at
      BY <3>1 DEF Updates, Tidy, Ahead
    <3>3. \A k \in Matches(q) : k \in stage /\ k.user = q.user
      BY DEF Matches
    <3>4. CASE Matches(q) = {} /\ r.at = q.at
      BY <3>2, <3>4
    <3>5. ASSUME NEW k \in Matches(q), r.at = k.at
          PROVE  r.at <= m.at
      <4>1. k = m
        BY <3>1, <3>3 DEF Updates, Tidy, OnePerUser
      <4>2. m.at \in Nat
        BY DEF LoginTypeOK, LoginRow, LastLoginAssumption
      <4>3. QED
        BY <3>5, <4>1, <4>2
    <3>6. QED
      BY <3>1, <3>4, <3>5 DEF Updates
  <2>3. QED
    BY <1>4, <2>1, <2>2 DEF Tidy
<1>5. CASE s = "insert" /\ exist
  <2>1. /\ target' = target \cup Insertable /\ Insertable \subseteq stage /\ stage' = stage
        /\ \A m \in Insertable : target = {} \/ \A r \in target : r.user # m.user
    BY <1>5, InsertFact
  <2>2. OnePerUser(target')
    BY <2>1 DEF Tidy, OnePerUser
  <2>3. Ahead'
    <3> SUFFICES ASSUME NEW m \in stage, NEW r \in Insertable, m.user = r.user
                 PROVE  r.at <= m.at
      BY <2>1 DEF Tidy, Ahead
    <3>1. r = m
      BY <2>1 DEF Tidy, OnePerUser
    <3>2. m.at \in Nat
      BY DEF LoginTypeOK, LoginRow, LastLoginAssumption
    <3>3. QED
      BY <3>1, <3>2
  <2>4. QED
    BY <1>5, <2>1, <2>2, <2>3 DEF Tidy
<1>6. QED
  BY <1>1, <1>2, <1>3, <1>4, <1>5 DEF Statements

LEMMA TidyStep ==
  ASSUME LastLoginAssumption, LoginTypeOK, LoginInv, TidyInv, [LoginNext]_loginVars
  PROVE  TidyInv'
<1> SUFFICES ASSUME ~untidy'
             PROVE  /\ late' \cap {"truncate", "load"} = {} /\ Tidy'
                    /\ step' = "load" => stage' = {}
  BY DEF TidyInv, Tidy, Ahead
<1> DEFINE Quiet == late \cap {"truncate", "load"} = {}
           Ready == step = "load" => stage = {}
<1>0. ~untidy => Quiet /\ Tidy /\ Ready
  BY DEF TidyInv, Tidy, Ahead
<1>1. stage' = stage /\ target' = target /\ Tidy => Tidy'
  BY DEF Tidy, Ahead, OnePerUser
<1>2. CASE BeginRun
  <2>1. untidy' = untidy /\ stage' = stage /\ target' = target /\ late' = late /\ step' = "check"
    BY <1>2 DEF BeginRun
  <2>2. QED
    BY <1>0, <1>1, <2>1
<1>3. CASE Finished
  <2>1. /\ untidy' = untidy /\ late' = late /\ step \in Statements /\ Execute(step)
        /\ step \in {"check", "create"} \/ exist
        /\ step' = IF step = "check" /\ ~exist THEN "create" ELSE Following[step]
    BY <1>3 DEF Finished
  <2>2. Tidy' /\ (step = "truncate" => stage' = {})
    BY <1>0, <2>1, TidyExecute
  <2>3. step' = "load" => step = "truncate"
    BY <2>1 DEF Statements, Following
  <2>4. QED
    BY <1>0, <2>1, <2>2, <2>3
<1>4. CASE Failed \/ NoTables
  <2>1. stage' = stage /\ target' = target /\ late' = late /\ step \in Statements /\ GoOn
    BY <1>4 DEF Failed, NoTables
  <2>2. untidy' = (untidy \/ step \in {"truncate", "load"})
        /\ step' = IF step = "check" THEN "raised" ELSE Following[step]
    BY <2>1 DEF GoOn
  <2>3. ~untidy /\ step \notin {"truncate", "load"}
    BY <2>2
  <2>4. step' # "load"
    BY <2>1, <2>2, <2>3 DEF Statements, Following
  <2>5. QED
    BY <1>0, <1>1, <2>1, <2>3, <2>4
<1>5. CASE Unseen
  <2>1. stage' = stage /\ target' = target /\ late' = late \cup {step} /\ step \in Statements /\ GoOn
    BY <1>5 DEF Unseen
  <2>2. untidy' = (untidy \/ step \in {"truncate", "load"})
        /\ step' = IF step = "check" THEN "raised" ELSE Following[step]
    BY <2>1 DEF GoOn
  <2>3. ~untidy /\ step \notin {"truncate", "load"}
    BY <2>2
  <2>4. step' # "load"
    BY <2>1, <2>2, <2>3 DEF Statements, Following
  <2>5. QED
    BY <1>0, <1>1, <2>1, <2>3, <2>4
<1>6. CASE Aborted
  <2>1. /\ untidy' = untidy /\ stage' = stage /\ target' = target /\ late' = late
        /\ step' = "polling"
    BY <1>6 DEF Aborted
  <2>2. QED
    BY <1>0, <1>1, <2>1
<1>7. ASSUME NEW s \in Statements, LateExecuted(s)
      PROVE  late' \cap {"truncate", "load"} = {} /\ Tidy' /\ (step' = "load" => stage' = {})
  <2>1. s \in late /\ late' = late \ {s} /\ Execute(s) /\ untidy' = untidy /\ step' = step
    BY <1>7 DEF LateExecuted
  <2>2. Quiet /\ Tidy /\ Ready /\ s # "load"
    BY <1>0, <2>1
  <2>3. Tidy' /\ (stage = {} => stage' = {})
    BY <2>1, <2>2, TidyExecute
  <2>4. QED
    BY <2>1, <2>2, <2>3
<1>8. CASE (\E u \in Users : Login(u) \/ Forget(u) \/ DropUser(u)) \/ UNCHANGED loginVars
  <2>1. /\ untidy' = untidy /\ stage' = stage /\ target' = target /\ late' = late /\ step' = step
    BY <1>8 DEF Login, Forget, DropUser, loginVars
  <2>2. QED
    BY <1>0, <1>1, <2>1
<1>9. QED
  BY <1>2, <1>3, <1>4, <1>5, <1>6, <1>7, <1>8 DEF LoginNext, Run

\* Rows come from logins, and logins only become later, or are forgotten.
LEMMA LoginExecute ==
  ASSUME LastLoginAssumption, LoginTypeOK, LoginInv, NEW s \in Statements, Execute(s),
         login' = login, time' = time
  PROVE  LoginInv'
<1> DEFINE Passed(r) == r.user \in Users =>
              r.at <= time /\ (login[r.user] > 0 => r.at <= login[r.user])
<1>0. /\ \A u \in Users : login[u] <= time
      /\ \A r \in stage \cup target : Passed(r)
  BY DEF LoginInv
<1>1. (\A r \in stage' \cup target' : Passed(r)) => LoginInv'
  BY <1>0 DEF LoginInv
<1> HIDE DEF Passed
<1>2. CASE s \in {"check", "create"} \/ ~exist
  BY <1>0, <1>1, <1>2, Executed
<1>3. CASE s = "truncate" /\ exist
  BY <1>0, <1>1, <1>3, Executed
<1>4. CASE s = "load" /\ exist
  <2>1. stage' = stage \cup Recorded /\ target' = target
    BY <1>4, Executed
  <2>2. \A r \in Recorded : Passed(r)
    <3> SUFFICES ASSUME NEW r \in Recorded, r.user \in Users
                 PROVE  r.at <= time /\ (login[r.user] > 0 => r.at <= login[r.user])
      BY DEF Passed
    <3>1. r.at = login[r.user] /\ login[r.user] \in Nat
      BY RecordedFact DEF LastLoginAssumption, LoginTypeOK
    <3>2. QED
      BY <1>0, <3>1
  <2>3. QED
    BY <1>0, <1>1, <2>1, <2>2
<1>5. CASE s = "update" /\ exist
  <2>1. (\A r \in target' : \E q \in target : Updates(q, r)) /\ stage' = stage
    BY <1>5, UpdateFact
  <2>2. ASSUME NEW r \in target'
        PROVE  Passed(r)
    <3>1. PICK q \in target : Updates(q, r)
      BY <2>1
    <3>2. PICK k \in stage \cup target : k.user = r.user /\ k.at = r.at
      BY <3>1 DEF Updates, Matches
    <3>3. Passed(k)
      BY <1>0
    <3>4. QED
      BY <3>2, <3>3 DEF Passed
  <2>3. QED
    BY <1>0, <1>1, <2>1, <2>2
<1>6. CASE s = "insert" /\ exist
  BY <1>0, <1>1, <1>6, InsertFact
<1>7. QED
  BY <1>2, <1>3, <1>4, <1>5, <1>6 DEF Statements

LEMMA LoginInvStep ==
  ASSUME LastLoginAssumption, LoginTypeOK, LoginInv, [LoginNext]_loginVars
  PROVE  LoginInv'
<1> USE DEF LastLoginAssumption
<1>1. CASE Finished
  BY <1>1, LoginExecute DEF Finished
<1>2. ASSUME NEW s \in Statements, LateExecuted(s)
      PROVE  LoginInv'
  BY <1>2, LoginExecute DEF LateExecuted
<1>3. CASE BeginRun \/ Failed \/ NoTables \/ Unseen \/ Aborted \/ UNCHANGED loginVars
           \/ \E u \in Users : DropUser(u)
  <2>1. time' = time /\ login' = login /\ stage' = stage /\ target' = target
    BY <1>3 DEF BeginRun, Failed, NoTables, Unseen, Aborted, loginVars, DropUser
  <2>2. QED
    BY <2>1 DEF LoginInv
<1>4. ASSUME NEW u \in Users, Login(u)
      PROVE  LoginInv'
  <2>1. /\ time' = time + 1 /\ login' = [login EXCEPT ![u] = time + 1]
        /\ stage' = stage /\ target' = target
    BY <1>4 DEF Login
  <2>2. time \in Nat /\ \A v \in Users : login[v] \in Nat
    BY DEF LoginTypeOK
  <2>3. \A r \in stage \cup target : r.at \in Nat
    BY DEF LoginTypeOK, LoginRow
  <2>4. ASSUME NEW v \in Users
        PROVE  /\ login'[v] <= time'
               /\ \A r \in stage' \cup target' : r.user = v =>
                    r.at <= time' /\ (login'[v] > 0 => r.at <= login'[v])
    <3>1. login'[v] = IF v = u THEN time + 1 ELSE login[v]
      BY <2>1 DEF LoginTypeOK
    <3>2. QED
      BY <2>1, <2>2, <2>3, <3>1 DEF LoginInv
  <2>5. QED
    BY <2>4 DEF LoginInv
<1>5. ASSUME NEW u \in Users, Forget(u)
      PROVE  LoginInv'
  <2>1. /\ time' = time /\ login' = [login EXCEPT ![u] = 0]
        /\ stage' = stage /\ target' = target
    BY <1>5 DEF Forget
  <2>2. \A v \in Users : login'[v] = IF v = u THEN 0 ELSE login[v]
    BY <2>1 DEF LoginTypeOK
  <2>3. QED
    BY <2>1, <2>2 DEF LoginInv, LoginTypeOK
<1>6. QED
  BY <1>1, <1>2, <1>3, <1>4, <1>5 DEF LoginNext, Run

LEMMA LoadedUpdate ==
  ASSUME LastLoginAssumption, LoginTypeOK, OnePerUser(stage), StageDue,
         Execute("update"), exist
  PROVE  StageDue' /\ TargetDue' /\ (Present => Present')
<1>1. /\ \A s \in target' : \E r \in target : Updates(r, s)
      /\ \A r \in target : \E s \in target' : Updates(r, s)
      /\ stage' = stage /\ loaded' = loaded /\ known' = known
  BY UpdateFact
<1>2. Due' = Due /\ Nobody \notin Due
  BY <1>1 DEF Due, LoginTypeOK, LastLoginAssumption
<1>3. StageDue'
  BY <1>1, <1>2 DEF StageDue
<1>4. ASSUME NEW s \in target', s.user \in Due
      PROVE  s.at = loaded[s.user]
  <2>1. PICK r \in target : Updates(r, s)
    BY <1>1
  <2>2. r.user = s.user /\ r.user # Nobody
    BY <1>2, <1>4, <2>1 DEF Updates
  <2>3. PICK k \in stage : k.user = r.user /\ k.at = loaded[r.user]
    BY <1>4, <2>2 DEF StageDue
  <2>4. CASE Matches(r) = {} /\ s.at = r.at
    BY <2>2, <2>3, <2>4 DEF Matches
  <2>5. ASSUME NEW m \in Matches(r), s.at = m.at
        PROVE  s.at = loaded[s.user]
    <3>1. m \in stage /\ m.user = r.user
      BY DEF Matches
    <3>2. m = k
      BY <2>3, <3>1 DEF OnePerUser
    <3>3. QED
      BY <2>2, <2>3, <2>5, <3>2
  <2>6. QED
    BY <2>1, <2>4, <2>5 DEF Updates
<1>5. TargetDue'
  BY <1>1, <1>2, <1>4 DEF TargetDue
<1>6. Present => Present'
  <2>1. \A r \in target : \E s \in target' : s.user = r.user
    BY <1>1 DEF Updates
  <2>2. QED
    BY <1>2, <2>1 DEF Present
<1>7. QED
  BY <1>3, <1>5, <1>6

LEMMA LoadedInsert ==
  ASSUME LastLoginAssumption, LoginTypeOK, OnePerUser(stage), StageDue,
         Execute("insert"), exist
  PROVE  StageDue' /\ (TargetDue => TargetDue') /\ Present'
<1>1. /\ target' = target \cup Insertable /\ Insertable \subseteq stage
      /\ \A s \in stage \ Insertable :
           s.user = Nobody \/ \E r \in target : r.user \in {s.user, Nobody}
      /\ stage' = stage /\ loaded' = loaded /\ known' = known
  BY InsertFact
<1>2. Due' = Due /\ Nobody \notin Due
  BY <1>1 DEF Due, LoginTypeOK, LastLoginAssumption
<1>3. StageDue'
  BY <1>1, <1>2 DEF StageDue
<1>4. TargetDue => TargetDue'
  <2>1. \A s \in stage : s.user \in Due => s.at = loaded[s.user]
    BY DEF StageDue, OnePerUser
  <2>2. QED
    BY <1>1, <1>2, <2>1 DEF TargetDue
<1>5. Present'
  <2> SUFFICES ASSUME \A r \in target' : r.user # Nobody, NEW u \in Due
               PROVE  \E r \in target' : r.user = u
    BY <1>2 DEF Present
  <2>1. PICK s \in stage : s.user = u
    BY DEF StageDue
  <2>2. CASE s \in Insertable
    BY <1>1, <2>1, <2>2
  <2>3. CASE s \notin Insertable
    <3>1. PICK r \in target : r.user \in {u, Nobody}
      BY <1>1, <1>2, <2>1, <2>3
    <3>2. QED
      BY <1>1, <3>1
  <2>4. QED
    BY <2>2, <2>3
<1>6. QED
  BY <1>3, <1>4, <1>5

LEMMA LoadedStep ==
  ASSUME LastLoginAssumption, LoginTypeOK, TidyInv, LoadedInv, [LoginNext]_loginVars
  PROVE  LoadedInv'
<1> SUFFICES ASSUME ~untidy', ~incomplete'
             PROVE  /\ step' \in {"update", "insert", "done"} => StageDue'
                    /\ step' \in {"insert", "done"} => TargetDue'
                    /\ step' = "done" => Present'
  BY DEF LoadedInv
<1> DEFINE Claims == /\ step \in {"update", "insert", "done"} => StageDue
                     /\ step \in {"insert", "done"} => TargetDue
                     /\ step = "done" => Present
<1>0. /\ ~untidy => OnePerUser(stage) /\ late \cap {"truncate", "load"} = {}
      /\ ~untidy /\ ~incomplete => Claims
  BY DEF TidyInv, LoadedInv
<1>1. /\ stage' = stage /\ target' = target /\ loaded' = loaded /\ known' = known
      => (StageDue' <=> StageDue) /\ (TargetDue' <=> TargetDue) /\ (Present' <=> Present)
  BY DEF StageDue, TargetDue, Present, Due
<1>2. CASE BeginRun \/ Aborted
  <2>1. step' \in {"check", "polling"}
    BY <1>2 DEF BeginRun, Aborted
  <2>2. QED
    BY <2>1
<1>3. CASE Failed \/ NoTables \/ Unseen
  <2>1. incomplete' = TRUE
    BY <1>3 DEF Failed, NoTables, Unseen, GoOn
  <2>2. QED
    BY <2>1
<1>4. CASE Finished
  <2>1. /\ untidy' = untidy /\ incomplete' = incomplete /\ step \in Statements /\ Execute(step)
        /\ step \in {"check", "create"} \/ exist
        /\ step' = IF step = "check" /\ ~exist THEN "create" ELSE Following[step]
    BY <1>4 DEF Finished
  <2>2. OnePerUser(stage) /\ Claims
    BY <1>0, <2>1
  <2>3. CASE step \in {"check", "create", "truncate"}
    BY <2>1, <2>3 DEF Following
  <2>4. CASE step = "load"
    <3>1. /\ stage' = stage \cup Recorded /\ loaded' = login /\ known' = Users \ dropped
      BY <2>1, <2>4, Executed
    <3>2. StageDue'
      BY <3>1, RecordedFact DEF StageDue, Due
    <3>3. step' = "update"
      BY <2>1, <2>4 DEF Following
    <3>4. QED
      BY <3>2, <3>3
  <2>5. CASE step = "update"
    <3>1. StageDue' /\ TargetDue'
      BY <2>1, <2>2, <2>5, LoadedUpdate
    <3>2. step' = "insert"
      BY <2>1, <2>5 DEF Following
    <3>3. QED
      BY <3>1, <3>2
  <2>6. CASE step = "insert"
    BY <2>1, <2>2, <2>6, LoadedInsert
  <2>7. QED
    BY <2>1, <2>3, <2>4, <2>5, <2>6 DEF Statements
<1>5. ASSUME NEW s \in Statements, LateExecuted(s)
      PROVE  Claims'
  <2>1. /\ s \in late /\ Execute(s) /\ untidy' = untidy /\ incomplete' = incomplete
        /\ step' = step
    BY <1>5 DEF LateExecuted
  <2>2. OnePerUser(stage) /\ Claims /\ s \notin {"truncate", "load"}
    BY <1>0, <2>1
  <2>3. CASE s \in {"check", "create"} \/ ~exist
    BY <1>1, <2>1, <2>2, <2>3, Executed
  <2>4. CASE s = "update" /\ exist
    BY <2>1, <2>2, <2>4, LoadedUpdate
  <2>5. CASE s = "insert" /\ exist
    BY <2>1, <2>2, <2>5, LoadedInsert
  <2>6. QED
    BY <2>2, <2>3, <2>4, <2>5 DEF Statements
<1>6. CASE (\E u \in Users : Login(u) \/ Forget(u) \/ DropUser(u)) \/ UNCHANGED loginVars
  <2>1. /\ untidy' = untidy /\ incomplete' = incomplete /\ step' = step
        /\ stage' = stage /\ target' = target /\ loaded' = loaded /\ known' = known
    BY <1>6 DEF Login, Forget, DropUser, loginVars
  <2>2. QED
    BY <1>0, <1>1, <2>1
<1>7. QED
  BY <1>2, <1>3, <1>4, <1>5, <1>6 DEF LoginNext, Run

\* A row of the target is replaced by one of its user that is not earlier.
NotEarlier == \A u \in Users : \A r \in {q \in target : q.user = u} :
                \E s \in target' : s.user = u /\ s.at >= r.at

LEMMA ForwardExecute ==
  ASSUME LastLoginAssumption, LoginTypeOK, Ahead, NEW s \in Statements, Execute(s)
  PROVE  NotEarlier
<1> SUFFICES ASSUME NEW r \in target, r.user \in Users
             PROVE  \E q \in target' : q.user = r.user /\ q.at >= r.at
  BY DEF NotEarlier
<1>1. r.at \in Nat /\ r.user # Nobody
  BY DEF LoginTypeOK, LoginRow, LastLoginAssumption
<1>2. CASE r \in target'
  BY <1>1, <1>2
<1>3. CASE s = "update" /\ exist
  <2>1. PICK q \in target' : Updates(r, q)
    BY <1>3, UpdateFact
  <2>2. q.user = r.user
    BY <2>1 DEF Updates
  <2>3. ASSUME NEW m \in Matches(r), q.at = m.at
        PROVE  q.at >= r.at
    <3>1. m \in stage /\ m.user = r.user /\ m.at \in Nat
      BY DEF Matches, LoginTypeOK, LoginRow
    <3>2. QED
      BY <1>1, <2>3, <3>1 DEF Ahead
  <2>4. q.at >= r.at
    BY <1>1, <2>1, <2>3 DEF Updates
  <2>5. QED
    BY <2>2, <2>4
<1>4. QED
  <2>1. (s = "update" /\ exist) \/ target' = target \/ target' = target \cup Insertable
    BY Executed DEF Statements
  <2>2. QED
    BY <1>2, <1>3, <2>1

LEMMA ForwardStep ==
  ASSUME LastLoginAssumption, LoginTypeOK, TidyInv, [LoginNext]_loginVars, ~untidy'
  PROVE  NotEarlier
<1>1. target' = target => NotEarlier
  BY DEF NotEarlier, LoginTypeOK, LoginRow
<1>2. ASSUME NEW s \in Statements, Execute(s), untidy' = untidy
      PROVE  NotEarlier
  BY <1>2, ForwardExecute DEF TidyInv, Ahead
<1>3. CASE Finished
  BY <1>2, <1>3 DEF Finished
<1>4. ASSUME NEW s \in Statements, LateExecuted(s)
      PROVE  NotEarlier
  BY <1>2, <1>4 DEF LateExecuted
<1>5. CASE BeginRun \/ Failed \/ NoTables \/ Unseen \/ Aborted \/ UNCHANGED loginVars
           \/ \E u \in Users : Login(u) \/ Forget(u) \/ DropUser(u)
  BY <1>1, <1>5 DEF BeginRun, Failed, NoTables, Unseen, Aborted, loginVars, Login, Forget, DropUser
<1>6. QED
  BY <1>3, <1>4, <1>5 DEF LoginNext, Run

---------------------------------------------------------------------------
\* The state of the runs and of both tables has its type.
THEOREM LoginTypeCorrect ==
  ASSUME LastLoginAssumption
  PROVE  LoginSpec => []LoginTypeOK
<1>1. LoginInit => LoginTypeOK
  <2> SUFFICES ASSUME LoginInit PROVE LoginTypeOK
    OBVIOUS
  <2>1. exist \in BOOLEAN /\ untidy \in BOOLEAN /\ incomplete \in BOOLEAN
    BY Zenon DEF LoginInit
  <2>2. login \in [Users -> 0 .. MaxLogins] /\ loaded = login /\ known = Users
    BY DEF LoginInit, LastLoginAssumption
  <2>3. step \in Statements \cup Outside
    BY DEF LoginInit, Outside
  <2>4. QED
    BY <2>1, <2>2, <2>3 DEF LoginInit, LoginTypeOK, LastLoginAssumption
<1>2. LoginTypeOK /\ [LoginNext]_loginVars => LoginTypeOK'
  BY LoginTypeStep
<1>3. QED
  BY <1>1, <1>2, PTL DEF LoginSpec

\* The stage table is as it should be as long as nobody has left it untidy.
LEMMA LoginTidy ==
  ASSUME LastLoginAssumption
  PROVE  LoginSpec => [](LoginTypeOK /\ LoginInv /\ TidyInv)
<1>1. LoginInit => LoginInv /\ TidyInv
  BY DEF LoginInit, LoginInv, TidyInv, OnePerUser
<1>2. LoginTypeOK /\ LoginInv /\ TidyInv /\ [LoginNext]_loginVars => LoginInv' /\ TidyInv'
  BY LoginInvStep, TidyStep
<1>3. QED
  BY <1>1, <1>2, LoginTypeCorrect, PTL DEF LoginSpec

\* For any users, runs, failures and late statements: one row per user, and after
\* a run without errors the true one for each.
THEOREM LoginsAreRecorded ==
  ASSUME LastLoginAssumption
  PROVE  LoginSpec => []LoginsRecorded
<1>1. LoginInit => LoadedInv
  BY DEF LoginInit, LoadedInv
<1>2. LoginTypeOK /\ TidyInv /\ LoadedInv /\ [LoginNext]_loginVars => LoadedInv'
  BY LoadedStep
<1>3. LoginTypeOK /\ TidyInv /\ LoadedInv => LoginsRecorded
  <2> SUFFICES ASSUME LoginTypeOK, TidyInv, LoadedInv
               PROVE  OneRowPerUser /\ RecordsEveryUser
    BY DEF LoginsRecorded
  <2>1. OneRowPerUser
    BY DEF TidyInv, OnePerUser, OneRowPerUser
  <2>2. RecordsEveryUser
    <3> SUFFICES ASSUME step = "done", ~incomplete, ~untidy, \A r \in target : r.user # Nobody,
                        NEW u \in known, loaded[u] > 0
                 PROVE  \E r \in target : r.user = u /\ r.at = loaded[u]
      BY DEF RecordsEveryUser
    <3>1. TargetDue /\ Present /\ u \in Due
      BY DEF LoadedInv, Due
    <3>2. QED
      BY <3>1 DEF TargetDue, Present
  <2>3. QED
    BY <2>1, <2>2
<1>4. QED
  BY <1>1, <1>2, <1>3, LoginTidy, PTL DEF LoginSpec

\* No step, late statements included, replaces a recorded login by an earlier one.
THEOREM LoginsNeverGoBack ==
  ASSUME LastLoginAssumption
  PROVE  LoginSpec => NeverBackwards
<1>1. LoginTypeOK /\ TidyInv /\ [LoginNext]_loginVars =>
        [~untidy' => NotEarlier]_loginVars
  BY ForwardStep
<1>2. QED
  BY <1>1, LoginTidy, PTL DEF LoginSpec, NeverBackwards, NotEarlier

---------------------------------------------------------------------------
(* QmrNotification.                                                        *)

Ran(c) == call[c] \in {"selected", "published"}

\* An action whose row is not slow is in the log once it has happened, and what
\* a query has selected is all of its window: actions of its own instant may
\* or may not be there.
WindowInv ==
  /\ \A a \in Actions : at[a] # Unset => at[a] <= now
  /\ \A a \in Actions \ slow : at[a] # Unset => a \in log
  /\ \A a \in log \cup slow : at[a] # Unset
  /\ \A c \in Calls : Ran(c) =>
       /\ asOf[c] <= now
       /\ \A a \in rows[c] : at[a] <= asOf[c] /\ at[a] + Interval >= asOf[c]
       /\ \A a \in Actions \ (slow \cup beyond) :
            at[a] < asOf[c] /\ at[a] + Interval >= asOf[c] => a \in rows[c]

\* last is no time in the future, and nothing before it was missed.
LastInv == last <= now /\ NoneMissed

\* The published calls that selected a.
PublishedBy(a) == {c \in Calls : call[c] = "published" /\ a \in rows[c]}

\* Two published queries are Interval apart while none were close, and times[a]
\* counts those that selected a: none, one, or two.
Apart ==
  ~close =>
    \A c, d \in Calls : c # d /\ call[c] = "published" /\ call[d] = "published" =>
      asOf[c] + Interval <= asOf[d] \/ asOf[d] + Interval <= asOf[c]

TimesInv ==
  ~close => \A a \in Actions :
    \/ times[a] = 0 /\ PublishedBy(a) = {}
    \/ times[a] = 1 /\ \E c \in Calls : PublishedBy(a) = {c}
    \/ times[a] = 2 /\ \E c, d \in Calls : c # d /\ PublishedBy(a) = {c, d}

---------------------------------------------------------------------------
LEMMA QmrInitInv ==
  ASSUME QmrNotificationAssumption, QmrInit
  PROVE  QmrTypeOK /\ WindowInv /\ LastInv /\ Apart /\ TimesInv
<1> USE DEF QmrNotificationAssumption, Times, Unset
<1>1. QmrTypeOK
  <2>1. gap \in BOOLEAN /\ close \in BOOLEAN
    BY Zenon DEF QmrInit
  <2>2. at \in [Actions -> Times \cup {Unset}]
    BY DEF QmrInit
  <2>3. QED
    BY <2>1, <2>2 DEF QmrInit, QmrTypeOK
<1>2. WindowInv
  BY DEF QmrInit, WindowInv, Ran
<1>3. LastInv
  BY DEF QmrInit, LastInv, NoneMissed
<1>4. Apart
  BY DEF QmrInit, Apart
<1>5. TimesInv
  BY DEF QmrInit, TimesInv, PublishedBy
<1>6. QED
  BY <1>1, <1>2, <1>3, <1>4, <1>5

LEMMA QmrTypeStep ==
  ASSUME QmrNotificationAssumption, QmrTypeOK, [QmrNext]_qmrVars
  PROVE  QmrTypeOK'
<1> USE DEF QmrNotificationAssumption, Times, Unset, QmrTypeOK
<1>1. CASE Tick
  BY <1>1 DEF Tick
<1>2. ASSUME NEW c \in Calls, Select(c)
      PROVE  QmrTypeOK'
  BY <1>2 DEF Select
<1>3. ASSUME NEW c \in Calls, SelectFails(c) \/ PublishFails(c)
      PROVE  QmrTypeOK'
  BY <1>3 DEF SelectFails, PublishFails
<1>4. ASSUME NEW c \in Calls, Publish(c)
      PROVE  QmrTypeOK'
  <2>1. /\ call' \in [Calls -> {"new", "selected", "published", "lost"}]
        /\ last' \in 0 .. MaxTime /\ times' \in [Actions -> Nat]
    BY <1>4 DEF Publish
  <2>2. gap' \in BOOLEAN /\ close' \in BOOLEAN
    BY <1>4, Zenon DEF Publish
  <2>3. QED
    BY <1>4, <2>1, <2>2 DEF Publish
<1>5. ASSUME NEW a \in Actions, Act(a) \/ Appear(a)
      PROVE  QmrTypeOK'
  BY <1>5 DEF Act, Appear
<1>6. CASE UNCHANGED qmrVars
  BY <1>6 DEF qmrVars
<1>7. QED
  BY <1>1, <1>2, <1>3, <1>4, <1>5, <1>6 DEF QmrNext

LEMMA WindowStep ==
  ASSUME QmrNotificationAssumption, QmrTypeOK, WindowInv, [QmrNext]_qmrVars
  PROVE  WindowInv'
<1> USE DEF QmrNotificationAssumption, Times, Unset
<1>1. CASE Tick
  BY <1>1 DEF Tick, QmrTypeOK, WindowInv, Ran
<1>2. ASSUME NEW c \in Calls, Select(c)
      PROVE  WindowInv'
  <2>1. \A d \in Calls \ {c} : /\ call'[d] = call[d] /\ asOf'[d] = asOf[d]
                               /\ rows'[d] = rows[d]
    BY <1>2 DEF Select, QmrTypeOK
  <2> DEFINE found == {a \in log : InWindow(a)}
  <2>2. /\ asOf'[c] = now /\ rows'[c] \subseteq found
        /\ beyond' = beyond \cup (found \ rows'[c])
    BY <1>2 DEF Select, FirstPage, QmrTypeOK
  <2>3. now' = now /\ at' = at /\ log' = log /\ slow' = slow
    BY <1>2 DEF Select
  <2>4. \A a \in rows'[c] : at'[a] <= asOf'[c] /\ at'[a] + Interval >= asOf'[c]
    BY <2>2, <2>3 DEF InWindow, WindowInv, QmrTypeOK
  <2>5. \A a \in Actions \ (slow \cup beyond)' :
          at'[a] < asOf'[c] /\ at'[a] + Interval >= asOf'[c] => a \in rows'[c]
    BY <2>2, <2>3 DEF InWindow, WindowInv, QmrTypeOK
  <2>6. asOf'[c] <= now'
    BY <2>2, <2>3 DEF QmrTypeOK
  <2>7. ASSUME NEW d \in Calls, Ran(d)'
        PROVE  /\ asOf'[d] <= now'
               /\ \A a \in rows'[d] : at'[a] <= asOf'[d] /\ at'[a] + Interval >= asOf'[d]
               /\ \A a \in Actions \ (slow \cup beyond)' :
                    at'[a] < asOf'[d] /\ at'[a] + Interval >= asOf'[d] => a \in rows'[d]
    BY <2>1, <2>2, <2>3, <2>4, <2>5, <2>6, <2>7 DEF WindowInv, Ran
  <2>8. QED
    BY <2>3, <2>7 DEF WindowInv
<1>3. ASSUME NEW c \in Calls, SelectFails(c) \/ Publish(c) \/ PublishFails(c)
      PROVE  WindowInv'
  <2>1. /\ now' = now /\ at' = at /\ log' = log /\ slow' = slow /\ beyond' = beyond
        /\ asOf' = asOf /\ rows' = rows
    BY <1>3 DEF SelectFails, Publish, PublishFails
  <2>2. \A d \in Calls : Ran(d)' => Ran(d)
    BY <1>3 DEF SelectFails, Publish, PublishFails, Ran, QmrTypeOK
  <2>3. QED
    BY <2>1, <2>2 DEF WindowInv
<1>4. ASSUME NEW a \in Actions, Act(a)
      PROVE  WindowInv'
  <2>1. /\ at' = [at EXCEPT ![a] = now] /\ at[a] = Unset
        /\ now' = now /\ call' = call /\ asOf' = asOf /\ rows' = rows
        /\ slow' \in {slow, slow \cup {a}} /\ log' \in {log, log \cup {a}}
        /\ a \in slow' \cup log' /\ beyond' = beyond
    BY <1>4 DEF Act
  <2>2. \A c \in Calls : Ran(c) => a \notin rows[c]
    BY <2>1 DEF WindowInv, QmrTypeOK
  <2>3. \A b \in Actions : b # a => at'[b] = at[b]
    BY <2>1 DEF QmrTypeOK
  <2>4. at'[a] = now
    BY <2>1 DEF QmrTypeOK
  <2>5. \A b \in Actions : at'[b] # Unset => at'[b] <= now'
    BY <2>1, <2>3, <2>4 DEF WindowInv, QmrTypeOK
  <2>6. \A b \in Actions \ slow' : at'[b] # Unset => b \in log'
    BY <2>1, <2>3 DEF WindowInv
  <2>7. \A b \in log' \cup slow' : at'[b] # Unset
    BY <2>1, <2>3, <2>4 DEF WindowInv, QmrTypeOK
  <2>8. ASSUME NEW c \in Calls, Ran(c)'
        PROVE  /\ asOf'[c] <= now'
               /\ \A b \in rows'[c] : at'[b] <= asOf'[c] /\ at'[b] + Interval >= asOf'[c]
               /\ \A b \in Actions \ (slow \cup beyond)' :
                    at'[b] < asOf'[c] /\ at'[b] + Interval >= asOf'[c] => b \in rows'[c]
    <3>1. Ran(c) /\ asOf'[c] = asOf[c] /\ rows'[c] = rows[c] /\ asOf[c] <= now
      BY <2>1, <2>8 DEF Ran, WindowInv
    <3>2. \A b \in rows[c] : b \in Actions /\ b # a
      BY <3>1, <2>2 DEF QmrTypeOK
    <3>3. ~(now < asOf[c])
      BY <3>1 DEF QmrTypeOK
    <3>4. QED
      BY <3>1, <3>2, <3>3, <2>1, <2>3, <2>4 DEF WindowInv
  <2>9. QED
    BY <2>5, <2>6, <2>7, <2>8 DEF WindowInv
<1>5. ASSUME NEW a \in Actions, Appear(a)
      PROVE  WindowInv'
  BY <1>5 DEF Appear, WindowInv, Ran
<1>6. CASE UNCHANGED qmrVars
  BY <1>6 DEF qmrVars, WindowInv, Ran
<1>7. QED
  BY <1>1, <1>2, <1>3, <1>4, <1>5, <1>6 DEF QmrNext

LEMMA LastStep ==
  ASSUME QmrNotificationAssumption, QmrTypeOK, WindowInv, LastInv, [QmrNext]_qmrVars
  PROVE  LastInv'
<1> USE DEF QmrNotificationAssumption, Times, Unset
<1>1. CASE Tick
  BY <1>1 DEF Tick, QmrTypeOK, LastInv, NoneMissed
<1>2. ASSUME NEW c \in Calls, Select(c) \/ SelectFails(c) \/ PublishFails(c)
      PROVE  LastInv'
  BY <1>2 DEF Select, SelectFails, PublishFails, LastInv, NoneMissed
<1>3. ASSUME NEW c \in Calls, Publish(c)
      PROVE  LastInv'
  <2>1. /\ now' = now /\ at' = at /\ slow' = slow /\ beyond' = beyond
        /\ last' = IF asOf[c] > last THEN asOf[c] ELSE last
        /\ \A a \in Actions : times'[a] = IF a \in rows[c] THEN times[a] + 1 ELSE times[a]
    BY <1>3 DEF Publish
  <2>2. ~gap' => ~gap /\ asOf[c] <= last + Interval
    <3>1. ~gap' => ~gap /\ ~(asOf[c] > last + Interval)
      BY <1>3, Zenon DEF Publish
    <3>2. QED
      BY <3>1 DEF QmrTypeOK
  <2>3. Ran(c)
    BY <1>3 DEF Publish, Ran
  <2>4. last' <= now'
    BY <2>1, <2>3 DEF LastInv, WindowInv
  <2>5. ASSUME ~gap', NEW a \in Actions \ (slow \cup beyond)', at'[a] < last'
        PROVE  times'[a] > 0
    <3>0. times[a] \in Nat /\ at[a] \in Nat /\ last \in Nat /\ asOf[c] \in Nat
      BY DEF QmrTypeOK
    <3>1. CASE at[a] < last
      BY <3>0, <3>1, <2>1, <2>2, <2>5 DEF LastInv, NoneMissed
    <3>2. CASE ~(at[a] < last)
      <4>1. at[a] < asOf[c] /\ at[a] + Interval >= asOf[c]
        BY <3>0, <3>2, <2>1, <2>2, <2>5
      <4>2. a \in rows[c]
        BY <4>1, <2>1, <2>3, <2>5 DEF WindowInv
      <4>3. QED
        BY <4>2, <3>0, <2>1
    <3>3. QED
      BY <3>1, <3>2
  <2>6. QED
    BY <2>4, <2>5 DEF LastInv, NoneMissed
<1>4. ASSUME NEW a \in Actions, Act(a)
      PROVE  LastInv'
  <2>1. /\ now' = now /\ last' = last /\ gap' = gap /\ times' = times /\ slow \subseteq slow'
        /\ beyond' = beyond
        /\ \A b \in Actions : b # a => at'[b] = at[b]
        /\ at'[a] = now
    BY <1>4 DEF Act, QmrTypeOK
  <2>2. ~(now < last)
    BY DEF LastInv, QmrTypeOK
  <2>3. QED
    BY <2>1, <2>2 DEF LastInv, NoneMissed
<1>5. ASSUME NEW a \in Actions, Appear(a)
      PROVE  LastInv'
  BY <1>5 DEF Appear, LastInv, NoneMissed
<1>6. CASE UNCHANGED qmrVars
  BY <1>6 DEF qmrVars, LastInv, NoneMissed
<1>7. QED
  BY <1>1, <1>2, <1>3, <1>4, <1>5, <1>6 DEF QmrNext

LEMMA ApartStep ==
  ASSUME QmrNotificationAssumption, QmrTypeOK, Apart, [QmrNext]_qmrVars
  PROVE  Apart'
<1> USE DEF QmrNotificationAssumption, Times
<1>1. CASE Tick
  BY <1>1 DEF Tick, Apart
<1>2. ASSUME NEW c \in Calls, Select(c)
      PROVE  Apart'
  <2>1. /\ close' = close
        /\ \A d \in Calls : call'[d] = "published" =>
             d # c /\ call[d] = "published" /\ asOf'[d] = asOf[d]
    BY <1>2 DEF Select, QmrTypeOK
  <2>2. QED
    BY <2>1 DEF Apart
<1>3. ASSUME NEW c \in Calls, SelectFails(c) \/ PublishFails(c)
      PROVE  Apart'
  BY <1>3 DEF SelectFails, PublishFails, Apart, QmrTypeOK
<1>4. ASSUME NEW c \in Calls, Publish(c)
      PROVE  Apart'
  <2>1. /\ asOf' = asOf
        /\ \A d \in Calls : d # c => call'[d] = call[d]
    BY <1>4 DEF Publish, QmrTypeOK
  <2>2. ~close' => ~close /\ Near(asOf[c]) = {}
    BY <1>4, Zenon DEF Publish
  <2>3. ASSUME ~close', NEW d \in Calls, d # c, call[d] = "published"
        PROVE  asOf[c] + Interval <= asOf[d] \/ asOf[d] + Interval <= asOf[c]
    BY <2>2, <2>3 DEF Near, QmrTypeOK
  <2>4. QED
    BY <2>1, <2>2, <2>3 DEF Apart
<1>5. ASSUME NEW a \in Actions, Act(a) \/ Appear(a)
      PROVE  Apart'
  BY <1>5 DEF Act, Appear, Apart
<1>6. CASE UNCHANGED qmrVars
  BY <1>6 DEF qmrVars, Apart
<1>7. QED
  BY <1>1, <1>2, <1>3, <1>4, <1>5, <1>6 DEF QmrNext

\* A third publication of an action would be more than Interval from the first.
LEMMA TimesStep ==
  ASSUME QmrNotificationAssumption, QmrTypeOK, WindowInv, Apart, Apart', TimesInv, [QmrNext]_qmrVars
  PROVE  TimesInv'
<1> USE DEF QmrNotificationAssumption, Times
<1>1. ASSUME times' = times, close' = close,
             \A a \in Actions : PublishedBy(a)' = PublishedBy(a)
      PROVE  TimesInv'
  BY <1>1 DEF TimesInv
<1>2. CASE Tick \/ (\E a \in Actions : Act(a) \/ Appear(a)) \/ UNCHANGED qmrVars
  <2>1. times' = times /\ close' = close /\ call' = call /\ rows' = rows
    BY <1>2 DEF Tick, Act, Appear, qmrVars
  <2>2. QED
    BY <2>1, <1>1 DEF PublishedBy
<1>3. ASSUME NEW c \in Calls, Select(c) \/ SelectFails(c) \/ PublishFails(c)
      PROVE  TimesInv'
  <2>1. /\ times' = times /\ close' = close
        /\ call[c] # "published" /\ call'[c] # "published"
        /\ \A d \in Calls : d # c => call'[d] = call[d] /\ rows'[d] = rows[d]
    BY <1>3 DEF Select, SelectFails, PublishFails, QmrTypeOK
  <2>2. QED
    BY <2>1, <1>1 DEF PublishedBy
<1>4. ASSUME NEW c \in Calls, Publish(c)
      PROVE  TimesInv'
  <2>1. /\ rows' = rows /\ asOf' = asOf /\ call'[c] = "published" /\ call[c] # "published"
        /\ \A d \in Calls : d # c => call'[d] = call[d]
        /\ \A a \in Actions : times'[a] = IF a \in rows[c] THEN times[a] + 1 ELSE times[a]
    BY <1>4 DEF Publish, QmrTypeOK
  <2>2. ~close' => ~close
    BY <1>4, Zenon DEF Publish
  <2>3. ASSUME ~close', NEW a \in Actions
        PROVE  \/ times'[a] = 0 /\ PublishedBy(a)' = {}
               \/ times'[a] = 1 /\ \E d \in Calls : PublishedBy(a)' = {d}
               \/ times'[a] = 2 /\ \E d, e \in Calls : d # e /\ PublishedBy(a)' = {d, e}
    <3>1. CASE a \notin rows[c]
      <4>1. PublishedBy(a)' = PublishedBy(a) /\ times'[a] = times[a]
        BY <3>1, <2>1 DEF PublishedBy
      <4>2. QED
        BY <4>1, <2>2, <2>3 DEF TimesInv
    <3>2. CASE a \in rows[c]
      <4>1. /\ PublishedBy(a)' = PublishedBy(a) \cup {c} /\ times'[a] = times[a] + 1
            /\ c \notin PublishedBy(a)
        BY <3>2, <2>1 DEF PublishedBy
      <4>2. CASE times[a] = 0 /\ PublishedBy(a) = {}
        BY <4>1, <4>2
      <4>3. CASE times[a] = 1 /\ \E d \in Calls : PublishedBy(a) = {d}
        BY <4>1, <4>3
      <4>4. ASSUME NEW d \in Calls, NEW e \in Calls, d # e, PublishedBy(a) = {d, e}
            PROVE  FALSE
        <5>0. /\ d # c /\ e # c /\ d \in PublishedBy(a) /\ e \in PublishedBy(a)
          BY <4>1, <4>4
        <5>1. \A f \in {c, d, e} :
                /\ f \in Calls /\ a \in rows[f] /\ call'[f] = "published" /\ Ran(f)
          BY <5>0, <1>4, <3>2, <2>1 DEF PublishedBy, Publish, Ran
        <5>2. /\ asOf[c] + Interval <= asOf[d] \/ asOf[d] + Interval <= asOf[c]
              /\ asOf[c] + Interval <= asOf[e] \/ asOf[e] + Interval <= asOf[c]
              /\ asOf[d] + Interval <= asOf[e] \/ asOf[e] + Interval <= asOf[d]
          BY <5>0, <5>1, <4>4, <2>1, <2>3 DEF Apart
        <5>3. at[a] \in Nat
          BY DEF QmrTypeOK, Unset
        <5>4. /\ asOf[c] \in Nat /\ at[a] <= asOf[c] /\ asOf[c] <= at[a] + Interval
              /\ asOf[d] \in Nat /\ at[a] <= asOf[d] /\ asOf[d] <= at[a] + Interval
              /\ asOf[e] \in Nat /\ at[a] <= asOf[e] /\ asOf[e] <= at[a] + Interval
          BY <5>1, <5>3 DEF WindowInv, QmrTypeOK
        <5>5. QED
          BY <5>2, <5>3, <5>4
      <4>5. QED
        BY <4>2, <4>3, <4>4, <2>2, <2>3 DEF TimesInv
    <3>3. QED
      BY <3>1, <3>2
  <2>4. QED
    BY <2>3 DEF TimesInv
<1>5. QED
  BY <1>2, <1>3, <1>4 DEF QmrNext

---------------------------------------------------------------------------
\* The types of the state hold for any interval and any number of calls.
THEOREM QmrTypeCorrect ==
  ASSUME QmrNotificationAssumption
  PROVE  QmrSpec => []QmrTypeOK
<1>1. QmrInit => QmrTypeOK
  BY QmrInitInv
<1>2. QmrTypeOK /\ [QmrNext]_qmrVars => QmrTypeOK'
  BY QmrTypeStep
<1>3. QED
  BY <1>1, <1>2, PTL DEF QmrSpec

\* However many invocations overlap, fail or run out of order: while the
\* successful ones follow each other within the interval, no action from before
\* the last of them is missed.
THEOREM NothingIsMissed ==
  ASSUME QmrNotificationAssumption
  PROVE  QmrSpec => []NoneMissed
<1>1. QmrInit => QmrTypeOK /\ WindowInv /\ LastInv
  BY QmrInitInv
<1>2. QmrTypeOK /\ WindowInv /\ LastInv /\ [QmrNext]_qmrVars => (QmrTypeOK /\ WindowInv /\ LastInv)'
  BY QmrTypeStep, WindowStep, LastStep
<1>3. LastInv => NoneMissed
  BY DEF LastInv
<1>4. QED
  BY <1>1, <1>2, <1>3, PTL DEF QmrSpec

\* While successful invocations are at least an interval apart, an action is
\* published twice at most: at the two ends of its interval.
THEOREM PublishedTwiceAtMost ==
  ASSUME QmrNotificationAssumption
  PROVE  QmrSpec => []AtMostTwice
<1>1. QmrInit => QmrTypeOK /\ WindowInv /\ Apart /\ TimesInv
  BY QmrInitInv
<1>2. QmrTypeOK /\ WindowInv /\ Apart /\ TimesInv /\ [QmrNext]_qmrVars
        => (QmrTypeOK /\ WindowInv /\ Apart /\ TimesInv)'
  BY QmrTypeStep, WindowStep, ApartStep, TimesStep
<1>3. TimesInv => AtMostTwice
  <2> SUFFICES ASSUME TimesInv, ~close, NEW a \in Actions
               PROVE  times[a] <= 2
    BY DEF AtMostTwice
  <2>1. times[a] \in {0, 1, 2}
    BY DEF TimesInv
  <2>2. QED
    BY <2>1
<1>4. QED
  BY <1>1, <1>2, <1>3, PTL DEF QmrSpec

\* Both together: what the schedule of the function is there for.
THEOREM PublishedOnceOrTwice ==
  ASSUME QmrNotificationAssumption
  PROVE  QmrSpec => []OnceOrTwice
<1>1. NoneMissed /\ AtMostTwice => OnceOrTwice
  BY DEF OnceOrTwice
<1>2. QED
  BY <1>1, NothingIsMissed, PublishedTwiceAtMost, PTL

---------------------------------------------------------------------------
(* TableRestore.                                                           *)

RestoreTypes ==
  /\ rpc \in {"idle", "request", "poll", "summary", "exited"}
  /\ entry \in 1 .. NumTables + 1 /\ asked \subseteq Entries
  /\ counts \in [Final -> Nat] /\ status \in [Entries -> Statuses]
  /\ calls \in 0 .. MaxCalls /\ errors \in 0 .. MaxErrors

\* The entries before the current one.
Past == 1 .. entry - 1
With(s) == {t \in Past : status[t] = s}

\* The tables asked for are those up to the current entry, which is among them
\* once its restore was accepted; all before it have come to an end.
ProgressInv ==
  /\ Past \subseteq asked /\ asked \subseteq Past \cup {entry}
  /\ rpc \in {"idle", "request", "summary"} => asked = Past
  /\ rpc = "poll" => entry <= NumTables /\ entry \in asked
  /\ rpc = "summary" => entry = NumTables + 1
  /\ \A t \in Past : status[t] \in Final

\* The counters are about the past entries, in any state of the utility.
CountInv == \A s \in Final : counts[s] = Cardinality(With(s))

RestoreInv == RestoreTypes /\ ProgressInv /\ CountInv

---------------------------------------------------------------------------
LEMMA RestoreInitInv ==
  ASSUME TableRestoreAssumption, RestoreInit
  PROVE  RestoreInv
<1> USE DEF TableRestoreAssumption, Entries, Final, Statuses
<1>1. RestoreTypes
  BY DEF RestoreInit, RestoreTypes
<1>2. ProgressInv
  BY DEF RestoreInit, ProgressInv, Past
<1>3. CountInv
  <2>1. \A s \in Final : With(s) = {}
    BY DEF RestoreInit, With, Past
  <2>2. QED
    BY <2>1, FS_EmptySet DEF RestoreInit, CountInv
<1>4. QED
  BY <1>1, <1>2, <1>3 DEF RestoreInv

\* A step that leaves the past entries and the counters alone.
LEMMA KeepsCounts ==
  ASSUME CountInv, counts' = counts, entry' = entry, \A t \in Past : status'[t] = status[t]
  PROVE  CountInv'
<1>1. Past' = Past
  BY DEF Past
<1>2. \A s \in Final : With(s)' = With(s)
  BY <1>1 DEF With
<1>3. QED
  BY <1>2 DEF CountInv

LEMMA CallInv ==
  ASSUME TableRestoreAssumption, RestoreInv, Call
  PROVE  RestoreInv'
<1> USE DEF TableRestoreAssumption, Entries, Final, Statuses
<1>1. RestoreTypes'
  BY DEF Call, RestoreInv, RestoreTypes
<1>2. ProgressInv'
  BY DEF Call, ProgressInv, Past
<1>3. CountInv'
  <2>1. Past' = {}
    BY DEF Call, Past
  <2>2. \A s \in Final : With(s)' = {} /\ counts'[s] = 0
    BY <2>1 DEF Call, With
  <2>3. QED
    BY <2>2, FS_EmptySet DEF CountInv
<1>4. QED
  BY <1>1, <1>2, <1>3 DEF RestoreInv

LEMMA RequestInv ==
  ASSUME TableRestoreAssumption, RestoreInv, Request
  PROVE  RestoreInv'
<1> USE DEF TableRestoreAssumption, Entries, Final, Statuses
<1>1. RestoreTypes'
  BY DEF Request, RestoreInv, RestoreTypes
<1>2. /\ Past' = Past /\ entry' = entry /\ counts' = counts
      /\ \A t \in Past : status'[t] = status[t]
  BY DEF Request, RestoreInv, RestoreTypes, Past
<1>3. ProgressInv'
  BY <1>2 DEF Request, RestoreInv, ProgressInv
<1>4. CountInv'
  BY <1>2, KeepsCounts DEF RestoreInv
<1>5. QED
  BY <1>1, <1>3, <1>4 DEF RestoreInv

LEMMA ExitInv ==
  ASSUME TableRestoreAssumption, RestoreInv, RequestRefused \/ DescribeFails \/ Summary
  PROVE  RestoreInv'
<1> USE DEF TableRestoreAssumption, Entries, Final, Statuses
<1>1. RestoreTypes'
  <2>1. errors' \in 0 .. MaxErrors /\ rpc' \in {"exited", "summary"}
    BY DEF RequestRefused, DescribeFails, Summary, RestoreInv, RestoreTypes
  <2>2. QED
    BY <2>1 DEF RequestRefused, DescribeFails, Summary, RestoreInv, RestoreTypes
<1>2. /\ Past' = Past /\ entry' = entry /\ counts' = counts /\ status' = status
      /\ asked' = asked
  BY DEF RequestRefused, DescribeFails, Summary, Past
<1>3. rpc' = "exited" \/ (rpc' = "summary" /\ rpc = "request" /\ entry = NumTables + 1)
  BY DEF RequestRefused, DescribeFails, Summary, RestoreInv, RestoreTypes
<1>4. ProgressInv'
  BY <1>2, <1>3 DEF RestoreInv, ProgressInv
<1>5. CountInv'
  BY <1>2, KeepsCounts DEF RestoreInv
<1>6. QED
  BY <1>1, <1>4, <1>5 DEF RestoreInv

\* The entry whose restore is over joins the past, and its counter grows by one.
LEMMA OverInv ==
  ASSUME TableRestoreAssumption, RestoreInv, Over
  PROVE  RestoreInv'
<1> USE DEF TableRestoreAssumption, Entries
<1>1. /\ entry \in Nat /\ entry \in Entries /\ entry' = entry + 1 /\ status' = status
      /\ asked' = asked /\ rpc = "poll" /\ rpc' = "request"
      /\ status[entry] \in Final
      /\ counts' = [counts EXCEPT ![status[entry]] = @ + 1]
  BY DEF Over, Ended, Counted, RestoreInv, RestoreTypes, ProgressInv
<1>2. Past' = Past \cup {entry} /\ entry \notin Past
  BY <1>1 DEF Past
<1>3. RestoreTypes'
  BY <1>1 DEF Over, RestoreInv, RestoreTypes
<1>4. ProgressInv'
  <2>1. asked' = Past'
    <3>1. entry \in asked
      BY <1>1, <1>2 DEF RestoreInv, ProgressInv
    <3>2. QED
      BY <3>1, <1>1, <1>2 DEF RestoreInv, ProgressInv
  <2>2. QED
    BY <2>1, <1>1, <1>2 DEF RestoreInv, ProgressInv
<1>5. CountInv'
  <2> SUFFICES ASSUME NEW s \in Final
               PROVE  counts'[s] = Cardinality(With(s)')
    BY DEF CountInv
  <2>1. IsFiniteSet(With(s))
    <3>1. IsFiniteSet(Past)
      BY <1>1, FS_Interval DEF Past
    <3>2. QED
      BY <3>1, FS_Subset DEF With
  <2>2. CASE s = status[entry]
    <3>1. With(s)' = With(s) \cup {entry} /\ entry \notin With(s)
      BY <2>2, <1>1, <1>2 DEF With
    <3>2. Cardinality(With(s)') = Cardinality(With(s)) + 1
      BY <3>1, <2>1, FS_AddElement
    <3>3. counts'[s] = counts[s] + 1
      BY <2>2, <1>1 DEF RestoreInv, RestoreTypes
    <3>4. QED
      BY <3>2, <3>3 DEF RestoreInv, CountInv
  <2>3. CASE s # status[entry]
    <3>1. With(s)' = With(s)
      BY <2>3, <1>1, <1>2 DEF With
    <3>2. counts'[s] = counts[s]
      BY <2>3, <1>1 DEF RestoreInv, RestoreTypes
    <3>3. QED
      BY <3>1, <3>2 DEF RestoreInv, CountInv
  <2>4. QED
    BY <2>2, <2>3
<1>6. QED
  BY <1>3, <1>4, <1>5 DEF RestoreInv

\* A restore that has come to an end stays as it is.
LEMMA ClusterInv ==
  ASSUME TableRestoreAssumption, RestoreInv, Cluster
  PROVE  RestoreInv'
<1> USE DEF TableRestoreAssumption, Entries, Final, Statuses
<1>1. PICK t \in Entries, from \in {"PENDING", "IN_PROGRESS"}, to \in Statuses :
        Advance(t, from, to)
  BY DEF Cluster, Begin, Finish, Cancel
<1>2. RestoreTypes'
  BY <1>1 DEF Advance, RestoreInv, RestoreTypes
<1>3. /\ rpc' = rpc /\ entry' = entry /\ counts' = counts /\ asked' = asked /\ Past' = Past
      /\ \A u \in Past : status'[u] = status[u]
  BY <1>1 DEF Advance, RestoreInv, RestoreTypes, ProgressInv, Past
<1>4. ProgressInv'
  BY <1>3 DEF RestoreInv, ProgressInv
<1>5. CountInv'
  BY <1>3, KeepsCounts DEF RestoreInv
<1>6. QED
  BY <1>2, <1>4, <1>5 DEF RestoreInv

LEMMA RestoreStep ==
  ASSUME TableRestoreAssumption, RestoreInv, [RestoreNext]_restoreVars
  PROVE  RestoreInv'
<1>1. CASE RestoreNext
  BY <1>1, CallInv, RequestInv, ExitInv, OverInv, ClusterInv DEF RestoreNext, Utility
<1>2. CASE UNCHANGED restoreVars
  BY <1>2 DEF restoreVars, RestoreInv, RestoreTypes, ProgressInv, CountInv, Past, With
<1>3. QED
  BY <1>1, <1>2

---------------------------------------------------------------------------
\* The state has its types; in particular no counter exceeds the length of the
\* list, however often calls are cut off.
THEOREM RestoreTypeCorrect ==
  ASSUME TableRestoreAssumption
  PROVE  RestoreSpec => []RestoreTypeOK
<1>1. RestoreInit => RestoreInv
  BY RestoreInitInv
<1>2. RestoreInv /\ [RestoreNext]_restoreVars => RestoreInv'
  BY RestoreStep
<1>3. RestoreInv => RestoreTypeOK
  <2> SUFFICES ASSUME RestoreInv PROVE RestoreTypeOK
    OBVIOUS
  <2>1. IsFiniteSet(Past) /\ Cardinality(Past) <= NumTables
    <3>1. entry \in Nat /\ NumTables \in Nat /\ 1 <= entry /\ entry <= NumTables + 1
      BY DEF RestoreInv, RestoreTypes, TableRestoreAssumption
    <3>2. IsFiniteSet(Past) /\ Cardinality(Past) = IF 1 > entry - 1 THEN 0 ELSE (entry - 1) - 1 + 1
      BY <3>1, FS_Interval DEF Past
    <3>3. QED
      BY <3>1, <3>2
  <2>2. ASSUME NEW s \in Final
        PROVE  counts[s] \in 0 .. NumTables
    <3>1. With(s) \subseteq Past
      BY DEF With
    <3>2. Cardinality(With(s)) <= Cardinality(Past) /\ Cardinality(Past) \in Nat
      BY <3>1, <2>1, FS_Subset, FS_CardinalityType
    <3>3. counts[s] \in Nat /\ counts[s] = Cardinality(With(s))
      BY DEF RestoreInv, RestoreTypes, CountInv
    <3>4. QED
      BY <3>2, <3>3, <2>1 DEF TableRestoreAssumption
  <2>3. QED
    BY <2>2 DEF RestoreInv, RestoreTypes, RestoreTypeOK
<1>4. QED
  BY <1>1, <1>2, <1>3, PTL DEF RestoreSpec

\* The summary tells what has become of every table of the list.
THEOREM SummaryCorrect ==
  ASSUME TableRestoreAssumption
  PROVE  RestoreSpec => []SummaryIsTrue
<1>1. RestoreInit => RestoreInv
  BY RestoreInitInv
<1>2. RestoreInv /\ [RestoreNext]_restoreVars => RestoreInv'
  BY RestoreStep
<1>3. RestoreInv => SummaryIsTrue
  <2> SUFFICES ASSUME RestoreInv, rpc = "summary"
               PROVE  /\ asked = Entries
                      /\ \A s \in Final :
                           counts[s] = Cardinality({t \in Entries : status[t] = s})
    BY DEF SummaryIsTrue
  <2>1. Past = Entries
    BY DEF RestoreInv, ProgressInv, Past, Entries, TableRestoreAssumption
  <2>2. QED
    BY <2>1 DEF RestoreInv, ProgressInv, CountInv, With
<1>4. QED
  BY <1>1, <1>2, <1>3, PTL DEF RestoreSpec

\* A call never has two restores of its own in progress.
THEOREM NeverTwoRestores ==
  ASSUME TableRestoreAssumption
  PROVE  RestoreSpec => []OneAtATime
<1>1. RestoreInit => RestoreInv
  BY RestoreInitInv
<1>2. RestoreInv /\ [RestoreNext]_restoreVars => RestoreInv'
  BY RestoreStep
<1>3. RestoreInv => OneAtATime
  <2> SUFFICES ASSUME RestoreInv, NEW t \in asked, status[t] \notin Final
               PROVE  rpc \in {"poll", "exited"} /\ t = entry
    BY DEF OneAtATime
  <2>1. t \notin Past
    BY DEF RestoreInv, ProgressInv
  <2>2. QED
    BY <2>1 DEF RestoreInv, RestoreTypes, ProgressInv
<1>4. QED
  BY <1>1, <1>2, <1>3, PTL DEF RestoreSpec

\* The utility restores the tables one by one, and its summary is true.
THEOREM RestoredOneByOne ==
  ASSUME TableRestoreAssumption
  PROVE  RestoreSpec => []OneByOne
<1>1. SummaryIsTrue /\ OneAtATime => OneByOne
  BY DEF OneByOne
<1>2. QED
  BY <1>1, SummaryCorrect, NeverTwoRestores, PTL

---------------------------------------------------------------------------
(* Automation.                                                             *)

\* What was run and what is still to be run are the utilities that were asked
\* for, in their order, and the results are of those that report.
RunInv ==
  /\ apc \in {"load", "run"} => ending = "none"
  /\ apc = "load" => ran = <<>> /\ results = <<>>
  /\ apc = "run" \/ ending = "results" => ran \o queue = RunUtilities(event, config)
  /\ ending = "results" => queue = <<>>
  /\ apc = "run" \/ ending = "results" =>
       (event = "none" => config.hasList /\ ~config.wrapped)
  /\ Range(results) = {u \in Range(ran) : Reports(u)}

\* q holds the requested ones of the first n utilities, in their order.
Lists(q, n, e, c) ==
  /\ q \in Seq(Utilities)
  /\ \A i \in DOMAIN q : \E k \in 1 .. n : q[i] = Order[k] /\ Requested(Order[k], e, c)
  /\ \A k \in 1 .. n : Requested(Order[k], e, c) => \E i \in DOMAIN q : q[i] = Order[k]
  /\ \A i, j \in DOMAIN q : i < j =>
       \E k, l \in 1 .. n : Order[k] = q[i] /\ Order[l] = q[j] /\ k < l

Only(i, e, c) == IF Requested(Order[i], e, c) THEN <<Order[i]>> ELSE <<>>

---------------------------------------------------------------------------
LEMMA OrderFact ==
  /\ DOMAIN Order = 1 .. 7
  /\ \A k \in 1 .. 7 : Order[k] \in Utilities
  /\ \A u \in Utilities : \E k \in 1 .. 7 : Order[k] = u
BY DEF Order, Utilities, Range

LEMMA ListsFirst ==
  ASSUME NEW e, NEW c
  PROVE  Lists(<<>>, 0, e, c)
BY DEF Lists

LEMMA ListsNext ==
  ASSUME NEW e, NEW c, NEW n \in 0 .. 6, NEW m \in 1 .. 7, m = n + 1, NEW q,
         Lists(q, n, e, c)
  PROVE  Lists(q \o Only(m, e, c), m, e, c)
<1>0. /\ q \in Seq(Utilities) /\ n \in Nat /\ m \in Nat /\ m = n + 1
      /\ Order[m] \in Utilities
  BY OrderFact DEF Lists
<1>1. CASE ~Requested(Order[m], e, c)
  <2>1. q \o Only(m, e, c) = q
    BY <1>0, <1>1 DEF Only
  <2>2. \A k \in 1 .. m : k \in 1 .. n \/ k = m
    BY <1>0
  <2>3. 1 .. n \subseteq 1 .. m
    BY <1>0
  <2>4. Lists(q, m, e, c)
    BY <1>1, <2>2, <2>3 DEF Lists
  <2>5. QED
    BY <2>1, <2>4
<1>2. CASE Requested(Order[m], e, c)
  <2> DEFINE r == Append(q, Order[m])
  <2>1. q \o Only(m, e, c) = r
    BY <1>0, <1>2 DEF Only
  <2>2. /\ r \in Seq(Utilities) /\ Len(q) \in Nat
        /\ DOMAIN q = 1 .. Len(q) /\ DOMAIN r = 1 .. Len(q) + 1
        /\ \A i \in 1 .. Len(q) : r[i] = q[i]
        /\ r[Len(q) + 1] = Order[m]
    BY <1>0
  <2> HIDE DEF r
  <2>3. ASSUME NEW i \in DOMAIN r
        PROVE  \E k \in 1 .. m : r[i] = Order[k] /\ Requested(Order[k], e, c)
    <3>1. CASE i \in 1 .. Len(q)
      <4>1. PICK k \in 1 .. n : q[i] = Order[k] /\ Requested(Order[k], e, c)
        BY <2>2, <3>1 DEF Lists
      <4>2. QED
        BY <1>0, <2>2, <3>1, <4>1
    <3>2. CASE i = Len(q) + 1
      BY <1>0, <1>2, <2>2, <3>2
    <3>3. QED
      BY <2>2, <2>3, <3>1, <3>2
  <2>4. ASSUME NEW k \in 1 .. m, Requested(Order[k], e, c)
        PROVE  \E i \in DOMAIN r : r[i] = Order[k]
    <3>1. CASE k = m
      <4>1. Len(q) + 1 \in DOMAIN r
        BY <2>2
      <4>2. QED
        BY <2>2, <3>1, <4>1
    <3>2. CASE k \in 1 .. n
      <4>1. PICK i \in DOMAIN q : q[i] = Order[k]
        BY <2>4, <3>2 DEF Lists
      <4>2. i \in DOMAIN r /\ r[i] = q[i]
        BY <2>2, <4>1
      <4>3. QED
        BY <4>1, <4>2
    <3>3. QED
      BY <1>0, <3>1, <3>2
  <2>5. ASSUME NEW i \in DOMAIN r, NEW j \in DOMAIN r, i < j
        PROVE  \E k, l \in 1 .. m : Order[k] = r[i] /\ Order[l] = r[j] /\ k < l
    <3>1. i \in 1 .. Len(q) /\ r[i] = q[i]
      BY <2>2, <2>5
    <3>2. CASE j \in 1 .. Len(q)
      <4>1. PICK k \in 1 .. n, l \in 1 .. n : Order[k] = q[i] /\ Order[l] = q[j] /\ k < l
        BY <2>2, <2>5, <3>1, <3>2 DEF Lists
      <4>2. k \in 1 .. m /\ l \in 1 .. m
        BY <1>0
      <4>3. QED
        BY <2>2, <3>1, <3>2, <4>1, <4>2
    <3>3. CASE j = Len(q) + 1
      <4>1. PICK k \in 1 .. n : q[i] = Order[k]
        BY <2>2, <3>1 DEF Lists
      <4>2. k \in 1 .. m /\ m \in 1 .. m /\ k < m
        BY <1>0
      <4>3. QED
        BY <2>2, <3>1, <3>3, <4>1, <4>2
    <3>4. QED
      BY <2>2, <2>5, <3>2, <3>3
  <2>6. Lists(r, m, e, c)
    BY <2>2, <2>3, <2>4, <2>5 DEF Lists
  <2>7. QED
    BY <2>1, <2>6
<1>3. QED
  BY <1>1, <1>2

\* The list is that of the requested utilities in their order.
LEMMA RunUtilitiesFact ==
  ASSUME NEW e, NEW c
  PROVE  Lists(RunUtilities(e, c), 7, e, c)
<1> DEFINE o(i) == Only(i, e, c)
<1>1. Lists(<<>> \o o(1), 1, e, c)
  <2>1. /\ 0 \in 0 .. 6 /\ 1 \in 1 .. 7 /\ 1 = 0 + 1 /\ Lists(<<>>, 0, e, c)
    BY ListsFirst
  <2>2. QED
    BY <2>1, ListsNext
<1>2. <<>> \o o(1) = o(1)
  BY OrderFact DEF Only
<1>3. Lists(o(1) \o o(2), 2, e, c)
  BY <1>1, <1>2, ListsNext
<1>4. Lists(o(1) \o o(2) \o o(3), 3, e, c)
  BY <1>3, ListsNext
<1>5. Lists(o(1) \o o(2) \o o(3) \o o(4), 4, e, c)
  BY <1>4, ListsNext
<1>6. Lists(o(1) \o o(2) \o o(3) \o o(4) \o o(5), 5, e, c)
  BY <1>5, ListsNext
<1>7. Lists(o(1) \o o(2) \o o(3) \o o(4) \o o(5) \o o(6), 6, e, c)
  BY <1>6, ListsNext
<1>8. Lists(o(1) \o o(2) \o o(3) \o o(4) \o o(5) \o o(6) \o o(7), 7, e, c)
  BY <1>7, ListsNext
<1>9. QED
  BY <1>8 DEF RunUtilities, Only

LEMMA LambdaTypeStep ==
  ASSUME AutomationAssumption, LambdaTypeOK, [LambdaNext]_lambdaVars
  PROVE  LambdaTypeOK'
<1> USE DEF AutomationAssumption, LambdaTypeOK
<1>1. ASSUME NEW e \in Events, Invoke(e)
      PROVE  LambdaTypeOK'
  <2>1. <<>> \in Seq(Utilities)
    OBVIOUS
  <2>2. QED
    BY <1>1, <2>1 DEF Invoke
<1>2. CASE LoadConfig
  <2>1. config' \in Configuration
    BY <1>2 DEF LoadConfig, GetConfig, Normalised, Configuration
  <2>2. queue' \in Seq(Utilities)
    BY <1>2, RunUtilitiesFact DEF LoadConfig, Lists
  <2>3. apc' \in {"idle", "run"} /\ ending' \in {"nothing", ending}
    BY <1>2 DEF LoadConfig
  <2>4. QED
    BY <1>2, <2>1, <2>2, <2>3 DEF LoadConfig
<1>3. CASE UtilityReturns
  <2>1. Head(queue) \in Utilities /\ Tail(queue) \in Seq(Utilities)
    BY <1>3 DEF UtilityReturns
  <2>2. /\ Append(results, Head(queue)) \in Seq(Utilities)
        /\ Append(ran, Head(queue)) \in Seq(Utilities)
    BY <2>1
  <2>3. results' \in Seq(Utilities) /\ ran' \in Seq(Utilities) /\ queue' \in Seq(Utilities)
    BY <1>3, <2>1, <2>2 DEF UtilityReturns
  <2>4. QED
    BY <1>3, <2>3 DEF UtilityReturns
<1>4. CASE InvocationFails
  <2>1. slips' \in 0 .. MaxSlips
    BY <1>4 DEF InvocationFails
  <2>2. QED
    BY <1>4, <2>1 DEF InvocationFails
<1>5. CASE Killed \/ Return \/ Configure
  BY <1>5 DEF Killed, Return, Configure
<1>6. CASE UNCHANGED lambdaVars
  BY <1>6 DEF lambdaVars
<1>7. QED
  BY <1>1, <1>2, <1>3, <1>4, <1>5, <1>6 DEF LambdaNext

LEMMA RunInvStep ==
  ASSUME AutomationAssumption, LambdaTypeOK, RunInv, [LambdaNext]_lambdaVars
  PROVE  RunInv'
<1>1. ASSUME NEW e \in Events, Invoke(e)
      PROVE  RunInv'
  <2>1. Range(<<>>) = {}
    BY DEF Range
  <2>2. QED
    BY <1>1, <2>1 DEF Invoke, RunInv
<1>2. CASE LoadConfig
  <2>1. /\ apc = "load" /\ ran = <<>> /\ ending = "none" /\ ran' = ran /\ results' = results
        /\ queue' = RunUtilities(event, config') /\ event' = event
        /\ (apc' = "idle" /\ ending' = "nothing") \/ (apc' = "run" /\ ending' = ending)
    BY <1>2 DEF LoadConfig, RunInv
  <2>2. queue' \in Seq(Utilities)
    BY <2>1, RunUtilitiesFact DEF Lists
  <2>3. ran' \o queue' = RunUtilities(event', config')
    BY <2>1, <2>2
  <2>4. apc' = "run" => (event' = "none" => config'.hasList /\ ~config'.wrapped)
    <3>1. apc' = "run" /\ event' = "none" => config'.hasList /\ config' = GetConfig(file)
      BY <1>2 DEF LoadConfig
    <3>2. file.wrapped => ~GetConfig(file).hasList
      BY DEF GetConfig, Normalised, LambdaTypeOK, AutomationAssumption, Configuration
    <3>3. ~file.wrapped => GetConfig(file) = file
      BY DEF GetConfig
    <3>4. QED
      BY <3>1, <3>2, <3>3
  <2>5. QED
    BY <2>1, <2>3, <2>4 DEF RunInv
<1>3. CASE UtilityReturns
  <2> DEFINE u == Head(queue)
  <2>1. /\ apc = "run" /\ apc' = apc /\ ending' = ending /\ event' = event /\ config' = config
        /\ queue # <<>> /\ queue' = Tail(queue) /\ ran' = Append(ran, u)
        /\ results' = IF Reports(u) THEN Append(results, u) ELSE results
    BY <1>3 DEF UtilityReturns
  <2>2. u \in Utilities /\ queue \in Seq(Utilities) /\ ran \in Seq(Utilities)
        /\ results \in Seq(Utilities)
    BY <2>1 DEF LambdaTypeOK
  <2>3. ran' \o queue' = ran \o queue
    BY <2>1, <2>2
  <2>4. ASSUME NEW s \in Seq(Utilities)
        PROVE  Range(Append(s, u)) = Range(s) \cup {u}
    <3> HIDE DEF u
    <3>1. /\ DOMAIN s = 1 .. Len(s) /\ DOMAIN Append(s, u) = 1 .. Len(s) + 1 /\ Len(s) \in Nat
          /\ \A i \in 1 .. Len(s) : Append(s, u)[i] = s[i]
          /\ Append(s, u)[Len(s) + 1] = u
      BY <2>2
    <3>2. 1 .. Len(s) + 1 = (1 .. Len(s)) \cup {Len(s) + 1}
      BY <3>1
    <3>3. QED
      BY <3>1, <3>2 DEF Range
  <2>5. Range(results') = {v \in Range(ran') : Reports(v)}
    BY <2>1, <2>2, <2>4 DEF RunInv
  <2> HIDE DEF u
  <2>6. QED
    BY <2>1, <2>3, <2>5 DEF RunInv
<1>4. CASE InvocationFails \/ Killed \/ Configure \/ UNCHANGED lambdaVars
  BY <1>4 DEF InvocationFails, Killed, Configure, lambdaVars, RunInv
<1>5. CASE Return
  BY <1>5 DEF Return, RunInv
<1>6. QED
  BY <1>1, <1>2, <1>3, <1>4, <1>5 DEF LambdaNext

\* The state of an invocation has its type.
THEOREM LambdaTypeCorrect ==
  ASSUME AutomationAssumption
  PROVE  LambdaSpec => []LambdaTypeOK
<1>1. LambdaInit => LambdaTypeOK
  BY DEF LambdaInit, LambdaTypeOK, AutomationAssumption, Events
<1>2. LambdaTypeOK /\ [LambdaNext]_lambdaVars => LambdaTypeOK'
  BY LambdaTypeStep
<1>3. QED
  BY <1>1, <1>2, PTL DEF LambdaSpec

\* For any configurations that come and go, any event and any number of errors:
\* results are returned only when all that was asked for has run, in the order.
THEOREM AllHaveRun ==
  ASSUME AutomationAssumption
  PROVE  LambdaSpec => []ReturnsWhenAllRan
<1>1. LambdaInit => RunInv
  <2>1. Range(<<>>) = {}
    BY DEF Range
  <2>2. QED
    BY <2>1 DEF LambdaInit, RunInv
<1>2. LambdaTypeOK /\ RunInv /\ [LambdaNext]_lambdaVars => RunInv'
  BY RunInvStep
<1>3. LambdaTypeOK /\ RunInv => ReturnsWhenAllRan
  <2> SUFFICES ASSUME LambdaTypeOK, RunInv, ending = "results"
               PROVE  ReturnsWhenAllRan
    BY DEF ReturnsWhenAllRan
  <2>1. ran = RunUtilities(event, config)
    <3>1. ran \in Seq(Utilities) /\ queue = <<>> /\ ran \o queue = RunUtilities(event, config)
      BY DEF LambdaTypeOK, RunInv
    <3>2. QED
      BY <3>1
  <2>2. Lists(ran, 7, event, config)
    BY <2>1, RunUtilitiesFact
  <2>3. Range(ran) = {u \in Utilities : Requested(u, event, config)}
    <3>1. \A i \in DOMAIN ran : ran[i] \in Utilities /\ Requested(ran[i], event, config)
      BY <2>2, OrderFact DEF Lists
    <3>2. \A u \in Utilities : Requested(u, event, config) => \E i \in DOMAIN ran : ran[i] = u
      BY <2>2, OrderFact DEF Lists
    <3>3. QED
      BY <3>1, <3>2 DEF Range
  <2>4. Range(ran) = IF event = "none" THEN config.listed ELSE Utilities \cap {event}
    BY <2>3 DEF Requested, LambdaTypeOK, Configuration
  <2>5. \A i, j \in DOMAIN ran : i < j =>
          \E k, l \in DOMAIN Order : Order[k] = ran[i] /\ Order[l] = ran[j] /\ k < l
    BY <2>2, OrderFact DEF Lists
  <2>6. Range(results) = {u \in Range(ran) : Reports(u)}
    BY DEF RunInv
  <2>7. event = "none" => config.hasList /\ ~config.wrapped
    BY DEF RunInv
  <2>8. QED
    BY <2>4, <2>5, <2>6, <2>7 DEF ReturnsWhenAllRan
<1>4. QED
  BY <1>1, <1>2, <1>3, LambdaTypeCorrect, PTL DEF LambdaSpec

---------------------------------------------------------------------------
(* All of them.                                                            *)

\* A step of one program is a step of it alone and none of the others, so that
\* each behaves as its own specification says.
LEMMA StepsApart ==
  ASSUME [Next]_allVars
  PROVE  /\ [VacuumNext]_vacuumVars /\ [TablesNext]_tablesVars /\ [WlmNext]_wlmVars
         /\ [LoginNext]_loginVars /\ [QmrNext]_qmrVars /\ [RestoreNext]_restoreVars
         /\ [LambdaNext]_lambdaVars
<1>1. CASE UNCHANGED allVars
  BY <1>1 DEF allVars
<1>2. ASSUME NEW p \in Programs, StepOf(p), Still(p)
      PROVE  /\ [VacuumNext]_vacuumVars /\ [TablesNext]_tablesVars /\ [WlmNext]_wlmVars
             /\ [LoginNext]_loginVars /\ [QmrNext]_qmrVars /\ [RestoreNext]_restoreVars
             /\ [LambdaNext]_lambdaVars
  <2>1. p \in {"vacuum", "tables", "wlm", "login", "qmr", "restore", "lambda"}
    BY DEF Programs
  <2>2. /\ p = "vacuum" \/ UNCHANGED vacuumVars
        /\ p = "tables" \/ UNCHANGED tablesVars
        /\ p = "wlm" \/ UNCHANGED wlmVars
        /\ p = "login" \/ UNCHANGED loginVars
        /\ p = "qmr" \/ UNCHANGED qmrVars
        /\ p = "restore" \/ UNCHANGED restoreVars
        /\ p = "lambda" \/ UNCHANGED lambdaVars
    BY <1>2 DEF Still
  <2>3. /\ p = "vacuum" => VacuumNext
        /\ p = "tables" => TablesNext
        /\ p = "wlm" => WlmNext
        /\ p = "login" => LoginNext
        /\ p = "qmr" => QmrNext
        /\ p = "restore" => RestoreNext
        /\ p = "lambda" => LambdaNext
    BY <1>2 DEF StepOf
  <2>4. QED
    BY <2>1, <2>2, <2>3
<1>3. QED
  BY <1>1, <1>2 DEF Next

THEOREM ProgramsAreApart ==
  Spec => /\ VacuumSpec /\ TablesSpec /\ WlmSpec /\ LoginSpec /\ QmrSpec /\ RestoreSpec
          /\ LambdaSpec
<1>1. Init => /\ VacuumInit /\ TablesInit /\ WlmInit /\ LoginInit /\ QmrInit /\ RestoreInit
              /\ LambdaInit
  BY DEF Init
<1>2. [Next]_allVars =>
        /\ [VacuumNext]_vacuumVars /\ [TablesNext]_tablesVars /\ [WlmNext]_wlmVars
        /\ [LoginNext]_loginVars /\ [QmrNext]_qmrVars /\ [RestoreNext]_restoreVars
        /\ [LambdaNext]_lambdaVars
  BY StepsApart
<1>3. QED
  BY <1>1, <1>2, PTL DEF Spec, VacuumSpec, TablesSpec, WlmSpec, LoginSpec, QmrSpec,
     RestoreSpec, LambdaSpec

\* However the programs interleave, the state of each has its type.
THEOREM UtilitiesTypeCorrect ==
  ASSUME UtilitiesAssumption
  PROVE  Spec => []TypeOK
<1>1. /\ AnalyzeVacuumAssumption /\ SystemTablesAssumption /\ WlmSchedulerAssumption
      /\ LastLoginAssumption /\ QmrNotificationAssumption /\ TableRestoreAssumption
      /\ AutomationAssumption
  BY DEF UtilitiesAssumption
<1>2. /\ VacuumSpec => []VacuumTypeOK
      /\ TablesSpec => []TablesTypeOK
      /\ WlmSpec => []WlmTypeOK
      /\ LoginSpec => []LoginTypeOK
      /\ QmrSpec => []QmrTypeOK
      /\ RestoreSpec => []RestoreTypeOK
      /\ LambdaSpec => []LambdaTypeOK
  BY <1>1, TypeCorrect, TablesTypeCorrect, WlmTypeCorrect, LoginTypeCorrect, QmrTypeCorrect,
     RestoreTypeCorrect, LambdaTypeCorrect
<1>3. /\ VacuumTypeOK /\ TablesTypeOK /\ WlmTypeOK /\ LoginTypeOK /\ QmrTypeOK
      /\ RestoreTypeOK /\ LambdaTypeOK
      => TypeOK
  BY DEF TypeOK
<1>4. QED
  BY <1>2, <1>3, ProgramsAreApart, PTL
===========================================================================

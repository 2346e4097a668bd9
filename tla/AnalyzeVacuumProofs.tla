------------------------ MODULE AnalyzeVacuumProofs ------------------------
(* What is proved about analyze and vacuum for any set of tables, any           *)
(* arguments, and any number of failures and of changes by other users.         *)
EXTENDS AnalyzeVacuum, TLAPS

\* Which phase the utility can be in, and when it has work at hand.
PhaseInv ==
  /\ vpc \in {"read", "run"} => phase \in Phases /\ Runs(opts, phase)
  /\ vpc = "connect" => phase = 0
  /\ vpc = "idle" => phase = End
  /\ vpc # "run" => todo = {} /\ current = {}
  /\ phase \notin VacuumPhases => current = {}
  /\ todo \cap current = {}
  /\ outcome # "none" => vpc = "idle"

\* What is at hand is within the scope of the call, as what is done.
ScopeInv == todo \cup current \cup touched \subseteq InScope(opts)

\* A table that was vacuumed is the next to be analyzed, or an error has come
\* between; after an error the call goes on only if it is to be ignored.
WorkInv ==
  outcome # "raised" =>
    /\ failed # {} => opts.ignore
    /\ bare \subseteq failed \cup current

\* The last phase that reads stale tables.
LastAnalyze == IF opts.mode = "table" THEN 4 ELSE 5
Stale(t) == info[t].live /\ info[t].stale

FreshInv ==
  \/ vpc = "run" /\ phase = LastAnalyze
  \/ outcome = "ok" /\ opts.analyze
  => \A t \in InScope(opts) : Stale(t) => t \in todo \cup failed \cup since[LastAnalyze]

\* A table that phase 2 is for, and those it has still to vacuum.
Unsorted(t) ==
  /\ info[t].live /\ info[t].unsorted > Below
  /\ info[t].size < At \/ (info[t].size > At /\ info[t].unsorted = At)
Left == IF phase = 2 THEN todo ELSE {}
Sorting == opts.vacuum /\ opts.mode = "all" /\ opts.param # "DELETE_ONLY"

SortedInv ==
  /\ Sorting
  /\ (vpc = "run" /\ phase = 2) \/ phase \in {3, 4, 5} \/ outcome = "ok"
  => \A t \in Tables : Unsorted(t) => t \in Left \cup failed \cup since[2]

---------------------------------------------------------------------------
\* The next phase is the first one after p that runs.
LEMMA AfterFact ==
  ASSUME NEW o, NEW p \in 0 .. 5
  PROVE  \/ After(o, p) = End /\ \A q \in Phases : q > p => ~Runs(o, q)
         \/ /\ After(o, p) \in Phases /\ After(o, p) > p /\ Runs(o, After(o, p))
            /\ \A r \in p + 1 .. After(o, p) - 1 : ~Runs(o, r)
<1> DEFINE First(q) == q > p /\ Runs(o, q) /\ \A r \in p + 1 .. q - 1 : ~Runs(o, r)
<1>1. CASE \A q \in Phases : q > p => ~Runs(o, q)
  BY <1>1 DEF After
<1>2. CASE \E q \in Phases : q > p /\ Runs(o, q)
  <2> DEFINE R(k) == k > p /\ Runs(o, k)
  <2>0. \E q \in Phases : R(q)
    BY <1>2
  <2>1. \E q \in Phases : R(q) /\ \A r \in Phases : r < q => ~R(r)
    <3> HIDE DEF R
    <3>1. R(1) \/ R(2) \/ R(3) \/ R(4) \/ R(5)
      BY <2>0 DEF Phases
    <3>2. QED
      BY <3>1 DEF Phases
  <2>2. PICK q \in Phases : R(q) /\ \A r \in Phases : r < q => ~R(r)
    BY <2>1
  <2>3. \A r \in p + 1 .. q - 1 : r \in Phases /\ r < q /\ r > p
    BY DEF Phases
  <2>4. First(q)
    BY <2>2, <2>3
  <2>5. After(o, p) \in Phases /\ First(After(o, p))
    <3>1. After(o, p) = CHOOSE s \in Phases : First(s)
      BY <1>2 DEF After
    <3> HIDE DEF First
    <3>2. QED
      BY <3>1, <2>4
  <2>6. QED
    BY <2>5
<1>3. QED
  BY <1>1, <1>2

LEMMA InitInv ==
  ASSUME AnalyzeVacuumAssumption, VacuumInit
  PROVE  VacuumTypeOK /\ PhaseInv /\ ScopeInv /\ WorkInv /\ FreshInv /\ SortedInv
<1>1. VacuumTypeOK
  BY DEF AnalyzeVacuumAssumption, VacuumInit, VacuumTypeOK, End, Phases
<1>2. PhaseInv
  BY DEF VacuumInit, PhaseInv, End, Phases
<1>3. ScopeInv
  BY DEF VacuumInit, ScopeInv
<1>4. WorkInv
  BY DEF VacuumInit, WorkInv
<1>5. FreshInv
  BY DEF VacuumInit, FreshInv
<1>6. SortedInv
  BY DEF VacuumInit, SortedInv, End
<1>7. QED
  BY <1>1, <1>2, <1>3, <1>4, <1>5, <1>6

---------------------------------------------------------------------------
\* The rows that a statement leaves are rows.
LEMMA VacuumedRow ==
  ASSUME NEW r \in Row
  PROVE  /\ Vacuumed(r) \in Row
         /\ Vacuumed(r).live = r.live /\ Vacuumed(r).stale = r.stale
         /\ Vacuumed(r).size = r.size
         /\ Vacuumed(r).unsorted = IF phase = 3 \/ opts.param # "DELETE_ONLY" THEN Below ELSE r.unsorted
<1>1. (r.skewed /\ phase # 3 /\ opts.param # "REINDEX") \in BOOLEAN
  OBVIOUS
<1>2. QED
  BY <1>1 DEF Vacuumed, Row, Grades, Below

\* And so are the rows of tables that are analyzed, loaded or dropped.
LEMMA OtherRows ==
  ASSUME NEW r \in Row, NEW g \in Grades
  PROVE  /\ [r EXCEPT !.stale = FALSE] \in Row
         /\ [r EXCEPT !.unsorted = g, !.stale = TRUE] \in Row
         /\ [r EXCEPT !.live = FALSE] \in Row
<1>1. /\ r.live \in BOOLEAN /\ r.size \in Grades /\ r.unsorted \in Grades
      /\ r.stale \in BOOLEAN /\ r.skewed \in BOOLEAN /\ r.alerted \in BOOLEAN
  BY DEF Row
<1>2. [r EXCEPT !.stale = FALSE] \in Row
  BY <1>1 DEF Row
<1>3. [r EXCEPT !.unsorted = g, !.stale = TRUE] \in Row
  BY <1>1 DEF Row
<1>4. [r EXCEPT !.live = FALSE] \in Row
  BY <1>1 DEF Row
<1>5. QED
  BY <1>2, <1>3, <1>4

LEMMA TypeStep ==
  ASSUME AnalyzeVacuumAssumption, VacuumTypeOK, PhaseInv, [VacuumNext]_vacuumVars
  PROVE  VacuumTypeOK'
<1> USE DEF AnalyzeVacuumAssumption, Phases, End
<1>1. CASE Start(opts)
  BY <1>1 DEF Start, VacuumTypeOK
<1>2. CASE NextPhase
  <2>1. phase \in 0 .. 5
    BY <1>2 DEF NextPhase, PhaseInv
  <2>2. phase' \in 0 .. 6
    BY <2>1, <1>2, AfterFact DEF NextPhase
  <2>3. QED
    BY <2>2, <1>2 DEF NextPhase, VacuumTypeOK
<1>3. CASE Read
  <2>1. todo' \subseteq Tables
    BY <1>3 DEF Read, Candidates, InScope, VacuumTypeOK, Option
  <2>2. QED
    BY <2>1, <1>3 DEF Read, VacuumTypeOK
<1>4. CASE Fails \/ ConnectionLost
  BY <1>4 DEF Fails, ConnectionLost, Raise, VacuumTypeOK
<1>5. ASSUME NEW t \in Tables, Vacuum(t)
      PROVE  VacuumTypeOK'
  <2>1. info' \in [Tables -> Row]
    BY <1>5, VacuumedRow DEF Vacuum, VacuumTypeOK
  <2>2. QED
    BY <2>1, <1>5 DEF Vacuum, VacuumTypeOK
<1>6. ASSUME NEW t \in Tables, Analyze(t)
      PROVE  VacuumTypeOK'
  <2>1. info' \in [Tables -> Row]
    <3>1. [info[t] EXCEPT !.stale = FALSE] \in Row
      BY OtherRows DEF VacuumTypeOK, Grades
    <3>2. info' = [info EXCEPT ![t] = [info[t] EXCEPT !.stale = FALSE]]
      BY <1>6 DEF Analyze
    <3>3. QED
      BY <3>1, <3>2 DEF VacuumTypeOK
  <2>2. QED
    BY <2>1, <1>6 DEF Analyze, VacuumTypeOK
<1>7. ASSUME NEW t \in Tables, StatementFails(t)
      PROVE  VacuumTypeOK'
  BY <1>7 DEF StatementFails, Raise, VacuumTypeOK
<1>8. ASSUME NEW t \in Tables, Load(t)
      PROVE  VacuumTypeOK'
  <2>1. PICK g \in Grades : info' = [info EXCEPT ![t].unsorted = g, ![t].stale = TRUE]
    BY <1>8 DEF Load, Grades
  <2>2. info' \in [Tables -> Row]
    <3>1. [info[t] EXCEPT !.unsorted = g, !.stale = TRUE] \in Row
      BY OtherRows DEF VacuumTypeOK
    <3>2. info' = [info EXCEPT ![t] = [info[t] EXCEPT !.unsorted = g, !.stale = TRUE]]
      BY <2>1 DEF VacuumTypeOK, Row
    <3>3. QED
      BY <3>1, <3>2 DEF VacuumTypeOK
  <2>3. QED
    BY <2>2, <1>8 DEF Load, VacuumTypeOK
<1>9. ASSUME NEW t \in Tables, Drop(t)
      PROVE  VacuumTypeOK'
  <2>1. info' \in [Tables -> Row]
    <3>1. [info[t] EXCEPT !.live = FALSE] \in Row
      BY OtherRows DEF VacuumTypeOK, Grades
    <3>2. info' = [info EXCEPT ![t] = [info[t] EXCEPT !.live = FALSE]]
      BY <1>9 DEF Drop
    <3>3. QED
      BY <3>1, <3>2 DEF VacuumTypeOK
  <2>2. QED
    BY <2>1, <1>9 DEF Drop, VacuumTypeOK
<1>10. CASE UNCHANGED vacuumVars
  BY <1>10 DEF vacuumVars, VacuumTypeOK
<1>11. QED
  BY <1>1, <1>2, <1>3, <1>4, <1>5, <1>6, <1>7, <1>8, <1>9, <1>10 DEF VacuumNext, Step

LEMMA PhaseStep ==
  ASSUME AnalyzeVacuumAssumption, VacuumTypeOK, PhaseInv, [VacuumNext]_vacuumVars
  PROVE  PhaseInv'
<1> USE DEF Phases, End, VacuumPhases
<1>1. CASE Start(opts)
  BY <1>1 DEF Start, PhaseInv
<1>2. CASE NextPhase
  <2>1. /\ phase \in 0 .. 5 /\ todo' = {} /\ current' = {} /\ opts' = opts
        /\ phase' = After(opts, phase) /\ outcome = "none"
    BY <1>2 DEF NextPhase, PhaseInv
  <2>2. phase' = End \/ (phase' \in Phases /\ Runs(opts, phase'))
    BY <2>1, AfterFact
  <2>3. Runs(opts', phase') <=> Runs(opts, phase')
    BY <2>1 DEF Runs
  <2>4. QED
    BY <2>1, <2>2, <2>3, <1>2 DEF NextPhase, PhaseInv
<1>3. CASE Read
  <2>1. phase' = phase /\ opts' = opts /\ outcome' = outcome /\ current' = current
    BY <1>3 DEF Read
  <2>2. Runs(opts', phase') <=> Runs(opts, phase)
    BY <2>1 DEF Runs
  <2>3. QED
    BY <2>1, <2>2, <1>3 DEF Read, PhaseInv
<1>4. CASE Fails \/ ConnectionLost
  BY <1>4 DEF Fails, ConnectionLost, Raise, PhaseInv
<1>5. ASSUME NEW t \in Tables, Vacuum(t) \/ Analyze(t) \/ StatementFails(t)
      PROVE  PhaseInv'
  <2>1. vpc = "run" /\ opts' = opts
    BY <1>5 DEF Vacuum, Analyze, StatementFails, AnalyzeNext, NextUp
  <2>2. CASE Raise
    BY <2>2 DEF Raise, PhaseInv
  <2>3. CASE ~Raise
    <3>1. /\ vpc' = vpc /\ phase' = phase /\ outcome' = outcome
          /\ todo' = todo \ {t}
          /\ current' \in {{t}, {}} /\ (phase \notin VacuumPhases => current' = {})
      BY <1>5, <2>3 DEF Vacuum, Analyze, StatementFails
    <3>2. Runs(opts', phase') <=> Runs(opts, phase)
      BY <2>1, <3>1 DEF Runs
    <3>3. QED
      BY <2>1, <3>1, <3>2 DEF PhaseInv
  <2>4. QED
    BY <2>2, <2>3
<1>6. ASSUME NEW t \in Tables, Load(t) \/ Drop(t)
      PROVE  PhaseInv'
  BY <1>6 DEF Load, Drop, PhaseInv, Runs
<1>7. CASE UNCHANGED vacuumVars
  BY <1>7 DEF vacuumVars, PhaseInv, Runs
<1>8. QED
  BY <1>1, <1>2, <1>3, <1>4, <1>5, <1>6, <1>7 DEF VacuumNext, Step

LEMMA ScopeStep ==
  ASSUME AnalyzeVacuumAssumption, VacuumTypeOK, PhaseInv, ScopeInv, [VacuumNext]_vacuumVars
  PROVE  ScopeInv'
<1>0. opts' = opts
  BY DEF VacuumNext, Step, Start, NextPhase, Read, Fails, ConnectionLost, Vacuum, Analyze,
         StatementFails, Load, Drop, vacuumVars
<1>1. InScope(opts') = InScope(opts)
  BY <1>0
<1>2. CASE Read
  <2>1. Candidates(opts, phase) \subseteq InScope(opts)
    <3>1. CASE phase \in {2, 3}
      <4>1. opts.mode = "all"
        BY <3>1, <1>2 DEF Read, PhaseInv, Runs
      <4>2. InScope(opts) = Tables
        BY <4>1 DEF InScope
      <4>3. QED
        BY <4>2, <3>1 DEF Candidates
    <3>2. CASE phase \notin {2, 3}
      BY <3>2 DEF Candidates
    <3>3. QED
      BY <3>1, <3>2
  <2>2. QED
    BY <2>1, <1>1, <1>2 DEF Read, ScopeInv
<1>3. ASSUME NEW t \in Tables, Vacuum(t) \/ Analyze(t) \/ StatementFails(t)
      PROVE  ScopeInv'
  <2>1. t \in todo \cup current
    BY <1>3 DEF Vacuum, Analyze, StatementFails, AnalyzeNext, NextUp
  <2>2. /\ todo' \subseteq todo /\ current' \subseteq {t} /\ touched' = touched \cup {t}
    BY <1>3 DEF Vacuum, Analyze, StatementFails, Raise
  <2>3. QED
    BY <2>1, <2>2, <1>1 DEF ScopeInv
<1>4. CASE Start(opts) \/ NextPhase \/ Fails \/ ConnectionLost
           \/ (\E t \in Tables : Load(t) \/ Drop(t)) \/ UNCHANGED vacuumVars
  <2>1. /\ todo' \subseteq todo /\ current' \subseteq current /\ touched' \subseteq touched
    BY <1>4 DEF Start, NextPhase, Fails, ConnectionLost, Raise, Load, Drop, vacuumVars
  <2>2. QED
    BY <2>1, <1>1 DEF ScopeInv
<1>5. QED
  BY <1>2, <1>3, <1>4 DEF VacuumNext, Step

LEMMA WorkStep ==
  ASSUME AnalyzeVacuumAssumption, VacuumTypeOK, PhaseInv, WorkInv, [VacuumNext]_vacuumVars
  PROVE  WorkInv'
<1>1. CASE Start(opts)
  BY <1>1 DEF Start, WorkInv
<1>2. CASE NextPhase
  <2>1. current = {} /\ outcome = "none"
    BY <1>2 DEF NextPhase, PhaseInv
  <2>2. current' = {} /\ failed' = failed /\ bare' = bare /\ opts' = opts
    BY <2>1, <1>2 DEF NextPhase
  <2>3. QED
    BY <2>1, <2>2 DEF WorkInv
<1>3. CASE Read \/ (\E t \in Tables : Load(t) \/ Drop(t)) \/ UNCHANGED vacuumVars
  BY <1>3 DEF Read, Load, Drop, vacuumVars, WorkInv
<1>4. CASE Fails \/ ConnectionLost
  BY <1>4 DEF Fails, ConnectionLost, Raise, WorkInv
<1>5. ASSUME NEW t \in Tables, Vacuum(t)
      PROVE  WorkInv'
  BY <1>5 DEF Vacuum, NextUp, WorkInv
<1>6. ASSUME NEW t \in Tables, Analyze(t)
      PROVE  WorkInv'
  <2>1. current \subseteq {t}
    BY <1>6 DEF Analyze, AnalyzeNext, NextUp
  <2>2. QED
    BY <2>1, <1>6 DEF Analyze, WorkInv
<1>7. ASSUME NEW t \in Tables, StatementFails(t)
      PROVE  WorkInv'
  <2>1. CASE Raise
    BY <2>1 DEF Raise, WorkInv
  <2>2. CASE ~Raise
    <3>1. opts.ignore /\ opts' = opts /\ failed' = failed \cup {t} /\ bare' = bare
          /\ outcome' = outcome
      BY <1>7, <2>2 DEF StatementFails
    <3>2. current \subseteq {t}
      BY <1>7 DEF StatementFails, AnalyzeNext, NextUp
    <3>3. QED
      BY <3>1, <3>2 DEF WorkInv
  <2>3. QED
    BY <2>1, <2>2
<1>8. QED
  BY <1>1, <1>2, <1>3, <1>4, <1>5, <1>6, <1>7 DEF VacuumNext, Step

---------------------------------------------------------------------------
\* A step of nobody but the utility's own end makes the work of a phase done.
LEMMA FreshStep ==
  ASSUME AnalyzeVacuumAssumption, VacuumTypeOK, PhaseInv, ScopeInv, FreshInv, [VacuumNext]_vacuumVars
  PROVE  FreshInv'
<1> USE DEF Phases, End, VacuumPhases
<1>0. opts' = opts /\ LastAnalyze' = LastAnalyze /\ LastAnalyze \in {4, 5}
      /\ InScope(opts') = InScope(opts)
  BY DEF VacuumNext, Step, Start, NextPhase, Read, Fails, ConnectionLost, Vacuum, Analyze,
         StatementFails, Load, Drop, vacuumVars, LastAnalyze
<1>1. CASE Start(opts)
  BY <1>1 DEF Start, FreshInv
<1>2. CASE NextPhase
  <2>1. CASE phase' # End
    BY <2>1, <1>2 DEF NextPhase, FreshInv, PhaseInv
  <2>2. CASE phase' = End
    <3>1. /\ info' = info /\ failed' = failed /\ since' = since /\ todo = {}
          /\ phase \in 0 .. 5 /\ After(opts, phase) = End
      BY <2>2, <1>2 DEF NextPhase, PhaseInv
    <3>2. \A q \in Phases : q > phase => ~Runs(opts, q)
      BY <3>1, AfterFact
    <3>3. opts.analyze => Runs(opts, LastAnalyze)
      <4>1. opts.mode = "table" => LastAnalyze = 4
        BY DEF LastAnalyze
      <4>2. opts.mode # "table" => LastAnalyze = 5
        BY DEF LastAnalyze
      <4>3. QED
        BY <4>1, <4>2 DEF Runs
    <3>4. ~Runs(opts, 5) \/ LastAnalyze = 5
      BY DEF Runs, LastAnalyze
    <3>5. opts.analyze => phase = LastAnalyze /\ vpc = "run"
      <4> SUFFICES ASSUME opts.analyze PROVE phase = LastAnalyze /\ vpc = "run"
        OBVIOUS
      <4>1. ~(LastAnalyze > phase)
        BY <1>0, <3>2, <3>3
      <4>2. phase \in Phases /\ vpc = "run" /\ Runs(opts, phase)
        BY <4>1, <1>0, <3>1, <1>2 DEF NextPhase, PhaseInv
      <4>3. QED
        BY <4>1, <4>2, <1>0, <3>4
    <3>6. \A t : Stale(t)' <=> Stale(t)
      BY <3>1 DEF Stale
    <3>7. vpc' = "idle"
      BY <2>2, <1>2 DEF NextPhase
    <3>8. QED
      BY <3>1, <3>5, <3>6, <3>7, <1>0 DEF FreshInv
  <2>3. QED
    BY <2>1, <2>2
<1>3. CASE Read
  <2>1. /\ info' = info /\ phase' = phase /\ todo' = Candidates(opts, phase)
        /\ outcome' = "none"
    BY <1>3 DEF Read, PhaseInv
  <2>2. ASSUME phase = LastAnalyze, NEW t \in InScope(opts), Stale(t)
        PROVE  t \in Candidates(opts, phase)
    <3>1. t \in InScope(opts) /\ phase \in {4, 5}
      BY <2>2, <1>0
    <3>2. Wanted(phase, info[t])
      BY <2>2, <3>1 DEF Wanted, Stale
    <3>3. QED
      BY <2>2, <3>1, <3>2 DEF Candidates, Stale
  <2>3. \A t : Stale(t)' <=> Stale(t)
    BY <2>1 DEF Stale
  <2>4. QED
    BY <2>1, <2>2, <2>3, <1>0 DEF FreshInv
<1>4. CASE Fails \/ ConnectionLost
  BY <1>4 DEF Fails, ConnectionLost, Raise, FreshInv
<1>5. ASSUME NEW t \in Tables, Vacuum(t)
      PROVE  FreshInv'
  <2>1. vpc = "run" /\ phase' = phase /\ phase \notin {4, 5} /\ outcome' = "none"
    BY <1>5 DEF Vacuum, NextUp, PhaseInv
  <2>2. QED
    BY <2>1, <1>0 DEF FreshInv
<1>6. ASSUME NEW t \in Tables, Analyze(t)
      PROVE  FreshInv'
  <2>1. /\ vpc = "run" /\ vpc' = "run" /\ phase' = phase /\ outcome' = "none"
        /\ todo' = todo \ {t} /\ failed' = failed /\ since' = since
    BY <1>6 DEF Analyze, AnalyzeNext, NextUp, PhaseInv
  <2>2. \A u \in Tables : Stale(u)' => Stale(u) /\ u # t
    <3>1. \A u \in Tables : u # t => info'[u] = info[u]
      BY <1>6 DEF Analyze, VacuumTypeOK
    <3>2. info'[t].stale = FALSE
      BY <1>6 DEF Analyze, VacuumTypeOK, Row
    <3>3. QED
      BY <3>1, <3>2 DEF Stale
  <2>3. InScope(opts) \subseteq Tables
    BY DEF InScope, VacuumTypeOK, AnalyzeVacuumAssumption, Option
  <2>4. QED
    BY <2>1, <2>2, <2>3, <1>0 DEF FreshInv
<1>7. ASSUME NEW t \in Tables, StatementFails(t)
      PROVE  FreshInv'
  <2>1. CASE Raise
    BY <2>1 DEF Raise, FreshInv
  <2>2. CASE ~Raise
    <3>1. /\ vpc' = vpc /\ phase' = phase /\ outcome' = outcome /\ info' = info
          /\ todo' = todo \ {t} /\ failed' = failed \cup {t} /\ since' = since
      BY <1>7, <2>2 DEF StatementFails
    <3>2. \A u : Stale(u)' <=> Stale(u)
      BY <3>1 DEF Stale
    <3>3. QED
      BY <3>1, <3>2, <1>0 DEF FreshInv
  <2>3. QED
    BY <2>1, <2>2
<1>8. ASSUME NEW t \in Tables, Load(t) \/ Drop(t)
      PROVE  FreshInv'
  <2>1. /\ vpc' = vpc /\ phase' = phase /\ outcome' = outcome /\ todo' = todo
        /\ failed' = failed
    BY <1>8 DEF Load, Drop
  <2>2. \A u \in Tables : u \in since'[LastAnalyze] \/ (since[LastAnalyze] \subseteq since'[LastAnalyze] /\ (Stale(u)' => Stale(u)))
    <3>1. CASE Load(t)
      <4>1. since'[LastAnalyze] = since[LastAnalyze] \cup {t}
        BY <3>1, <1>0 DEF Load
      <4>2. \A u \in Tables : u # t => info'[u] = info[u]
        BY <3>1 DEF Load, VacuumTypeOK
      <4>3. QED
        BY <4>1, <4>2 DEF Stale
    <3>2. CASE Drop(t)
      <4>1. since' = since
        BY <3>2 DEF Drop
      <4>2. \A u \in Tables : u # t => info'[u] = info[u]
        BY <3>2 DEF Drop, VacuumTypeOK
      <4>3. info'[t].live = FALSE
        BY <3>2 DEF Drop, VacuumTypeOK, Row
      <4>4. QED
        BY <4>1, <4>2, <4>3 DEF Stale
    <3>3. QED
      BY <3>1, <3>2, <1>8
  <2>3. InScope(opts) \subseteq Tables
    BY DEF InScope, VacuumTypeOK, AnalyzeVacuumAssumption, Option
  <2>4. QED
    BY <2>1, <2>2, <2>3, <1>0 DEF FreshInv
<1>9. CASE UNCHANGED vacuumVars
  BY <1>9 DEF vacuumVars, FreshInv, LastAnalyze, Stale
<1>10. QED
  BY <1>1, <1>2, <1>3, <1>4, <1>5, <1>6, <1>7, <1>8, <1>9 DEF VacuumNext, Step

\* Phase 2 is not passed over, and no later phase leaves a table unsorted.
LEMMA SortedStep ==
  ASSUME AnalyzeVacuumAssumption, VacuumTypeOK, PhaseInv, SortedInv, [VacuumNext]_vacuumVars
  PROVE  SortedInv'
<1> USE DEF Phases, End, VacuumPhases
<1>0. opts' = opts /\ (Sorting' <=> Sorting)
  BY DEF VacuumNext, Step, Start, NextPhase, Read, Fails, ConnectionLost, Vacuum, Analyze,
         StatementFails, Load, Drop, vacuumVars, Sorting
<1>1. CASE Start(opts)
  BY <1>1 DEF Start, SortedInv
<1>2. CASE NextPhase
  <2>1. /\ info' = info /\ failed' = failed /\ since' = since /\ todo = {} /\ todo' = {}
        /\ phase \in 0 .. 5 /\ phase' = After(opts, phase) /\ outcome = "none"
        /\ vpc' # "run" /\ (outcome' = "ok" => phase' = End)
    BY <1>2 DEF NextPhase, PhaseInv
  <2>2. Sorting => Runs(opts, 2)
    BY DEF Sorting, Runs
  <2>3. \A t : Unsorted(t)' <=> Unsorted(t)
    BY <2>1 DEF Unsorted
  <2>4. phase >= 2 => phase \in {2, 3, 4, 5} /\ vpc = "run"
    BY <2>1, <1>2 DEF NextPhase, PhaseInv
  <2>5. Sorting /\ phase < 2 => phase' \in {1, 2}
    BY <2>1, <2>2, AfterFact
  <2>6. Left \subseteq Left' /\ Left' = {}
    BY <2>1 DEF Left
  <2>7. QED
    BY <2>1, <2>3, <2>4, <2>5, <2>6, <1>0 DEF SortedInv
<1>3. CASE Read
  <2>1. /\ info' = info /\ phase' = phase /\ todo' = Candidates(opts, phase)
        /\ failed' = failed /\ outcome' = "none"
    BY <1>3 DEF Read, PhaseInv
  <2>2. phase # 2 => Left' = Left /\ since'[2] = since[2]
    BY <1>3 DEF Read, Left, VacuumTypeOK
  <2>3. \A t : Unsorted(t)' <=> Unsorted(t)
    BY <2>1 DEF Unsorted
  <2>4. ASSUME phase = 2, NEW t \in Tables, Unsorted(t)
        PROVE  t \in Left'
    <3>1. Wanted(phase, info[t])
      BY <2>4 DEF Wanted, NeedsVacuum, Unsorted, Below, At
    <3>2. QED
      BY <2>1, <2>4, <3>1 DEF Candidates, Unsorted, Left
  <2>5. CASE phase = 2
    BY <2>3, <2>4, <2>5 DEF SortedInv
  <2>6. CASE phase # 2
    BY <2>1, <2>2, <2>3, <2>6, <1>0 DEF SortedInv
  <2>7. QED
    BY <2>5, <2>6
<1>4. CASE Fails \/ ConnectionLost
  BY <1>4 DEF Fails, ConnectionLost, Raise, SortedInv
<1>5. ASSUME NEW t \in Tables, Vacuum(t)
      PROVE  SortedInv'
  <2>1. /\ vpc = "run" /\ vpc' = "run" /\ phase' = phase /\ outcome' = outcome
        /\ failed' = failed /\ since' = since /\ todo' = todo \ {t}
    BY <1>5 DEF Vacuum, NextUp
  <2>2. Sorting => \A u \in Tables : Unsorted(u)' => Unsorted(u) /\ u # t
    <3>1. \A u \in Tables : u # t => info'[u] = info[u]
      BY <1>5 DEF Vacuum, VacuumTypeOK
    <3>2. info'[t] = Vacuumed(info[t]) /\ info[t] \in Row
      BY <1>5 DEF Vacuum, VacuumTypeOK
    <3>3. Sorting => info'[t].unsorted = Below
      BY <3>2, VacuumedRow DEF Sorting
    <3>4. ~(Below > Below)
      BY DEF Below
    <3>5. QED
      BY <3>1, <3>3, <3>4 DEF Unsorted
  <2>3. Left \subseteq Left' \cup {t}
    BY <2>1 DEF Left
  <2>4. QED
    BY <2>1, <2>2, <2>3, <1>0 DEF SortedInv
<1>6. ASSUME NEW t \in Tables, Analyze(t)
      PROVE  SortedInv'
  <2>1. /\ vpc = "run" /\ vpc' = "run" /\ phase' = phase /\ outcome' = outcome
        /\ failed' = failed /\ since' = since /\ todo' = todo \ {t}
        /\ phase \in VacuumPhases => current = {t}
    BY <1>6 DEF Analyze, AnalyzeNext, NextUp
  <2>2. Left' = Left
    BY <2>1 DEF Left, PhaseInv
  <2>3. \A u \in Tables : Unsorted(u)' <=> Unsorted(u)
    <3>1. \A u \in Tables : u # t => info'[u] = info[u]
      BY <1>6 DEF Analyze, VacuumTypeOK
    <3>2. /\ info'[t].live = info[t].live /\ info'[t].unsorted = info[t].unsorted
          /\ info'[t].size = info[t].size
      <4>1. info' = [info EXCEPT ![t] = [info[t] EXCEPT !.stale = FALSE]]
        BY <1>6 DEF Analyze
      <4>2. info[t] \in Row /\ info'[t] = [info[t] EXCEPT !.stale = FALSE]
        BY <4>1 DEF VacuumTypeOK
      <4>3. QED
        BY <4>2 DEF Row
    <3>3. QED
      BY <3>1, <3>2 DEF Unsorted
  <2>4. QED
    BY <2>1, <2>2, <2>3, <1>0 DEF SortedInv
<1>7. ASSUME NEW t \in Tables, StatementFails(t)
      PROVE  SortedInv'
  <2>1. CASE Raise
    BY <2>1 DEF Raise, SortedInv
  <2>2. CASE ~Raise
    <3>1. /\ vpc' = vpc /\ phase' = phase /\ outcome' = outcome /\ info' = info
          /\ todo' = todo \ {t} /\ failed' = failed \cup {t} /\ since' = since
      BY <1>7, <2>2 DEF StatementFails
    <3>2. \A u : Unsorted(u)' <=> Unsorted(u)
      BY <3>1 DEF Unsorted
    <3>3. Left \subseteq Left' \cup {t}
      BY <3>1 DEF Left
    <3>4. QED
      BY <3>1, <3>2, <3>3, <1>0 DEF SortedInv
  <2>3. QED
    BY <2>1, <2>2
<1>8. ASSUME NEW t \in Tables, Load(t) \/ Drop(t)
      PROVE  SortedInv'
  <2>1. /\ vpc' = vpc /\ phase' = phase /\ outcome' = outcome /\ Left' = Left
        /\ failed' = failed
    BY <1>8 DEF Load, Drop, Left
  <2>2. \A u \in Tables :
          \/ u \in since'[2]
          \/ since[2] \subseteq since'[2] /\ (Unsorted(u)' => Unsorted(u))
    <3>1. CASE Load(t)
      <4>1. since'[2] = since[2] \cup {t}
        BY <3>1 DEF Load
      <4>2. \A u \in Tables : u # t => info'[u] = info[u]
        BY <3>1 DEF Load, VacuumTypeOK
      <4>3. QED
        BY <4>1, <4>2 DEF Unsorted
    <3>2. CASE Drop(t)
      <4>1. since' = since
        BY <3>2 DEF Drop
      <4>2. \A u \in Tables : u # t => info'[u] = info[u]
        BY <3>2 DEF Drop, VacuumTypeOK
      <4>3. info'[t].live = FALSE
        BY <3>2 DEF Drop, VacuumTypeOK, Row
      <4>4. QED
        BY <4>1, <4>2, <4>3 DEF Unsorted
    <3>3. QED
      BY <3>1, <3>2, <1>8
  <2>3. QED
    BY <2>1, <2>2, <1>0 DEF SortedInv
<1>9. CASE UNCHANGED vacuumVars
  BY <1>9 DEF vacuumVars, SortedInv, Sorting, Unsorted, Left
<1>10. QED
  BY <1>1, <1>2, <1>3, <1>4, <1>5, <1>6, <1>7, <1>8, <1>9 DEF VacuumNext, Step

---------------------------------------------------------------------------
\* The state has its types, for any set of tables and any arguments.
THEOREM TypeCorrect ==
  ASSUME AnalyzeVacuumAssumption
  PROVE  VacuumSpec => []VacuumTypeOK
<1>1. VacuumInit => VacuumTypeOK /\ PhaseInv
  BY InitInv
<1>2. VacuumTypeOK /\ PhaseInv /\ [VacuumNext]_vacuumVars => (VacuumTypeOK /\ PhaseInv)'
  BY TypeStep, PhaseStep
<1>3. QED
  BY <1>1, <1>2, PTL DEF VacuumSpec

\* No statement of any phase is about a table that was excluded.
THEOREM ExcludedStaysUntouched ==
  ASSUME AnalyzeVacuumAssumption
  PROVE  VacuumSpec => []OffLimits
<1>1. VacuumInit => VacuumTypeOK /\ PhaseInv /\ ScopeInv
  BY InitInv
<1>2. VacuumTypeOK /\ PhaseInv /\ ScopeInv /\ [VacuumNext]_vacuumVars => (VacuumTypeOK /\ PhaseInv /\ ScopeInv)'
  BY TypeStep, PhaseStep, ScopeStep
<1>3. ScopeInv => OffLimits
  BY DEF ScopeInv, OffLimits
<1>4. QED
  BY <1>1, <1>2, <1>3, PTL DEF VacuumSpec

\* OK is returned only when every vacuum had its analyze, and nothing failed
\* that was not to be ignored.
THEOREM NothingLeftOut ==
  ASSUME AnalyzeVacuumAssumption
  PROVE  VacuumSpec => []AllWasRun
<1>1. VacuumInit => VacuumTypeOK /\ PhaseInv /\ WorkInv
  BY InitInv
<1>2. VacuumTypeOK /\ PhaseInv /\ WorkInv /\ [VacuumNext]_vacuumVars => (VacuumTypeOK /\ PhaseInv /\ WorkInv)'
  BY TypeStep, PhaseStep, WorkStep
<1>3. PhaseInv /\ WorkInv => AllWasRun
  BY DEF PhaseInv, WorkInv, AllWasRun
<1>4. QED
  BY <1>1, <1>2, <1>3, PTL DEF VacuumSpec

\* After a complete call with analyze no table of its scope has stale
\* statistics, but for errors and for loads after the last reading.
THEOREM StatisticsAreFresh ==
  ASSUME AnalyzeVacuumAssumption
  PROVE  VacuumSpec => []NoStaleLeft
<1>1. VacuumInit => VacuumTypeOK /\ PhaseInv /\ ScopeInv /\ FreshInv
  BY InitInv
<1>2. VacuumTypeOK /\ PhaseInv /\ ScopeInv /\ FreshInv /\ [VacuumNext]_vacuumVars
        => (VacuumTypeOK /\ PhaseInv /\ ScopeInv /\ FreshInv)'
  BY TypeStep, PhaseStep, ScopeStep, FreshStep
<1>3. PhaseInv /\ FreshInv => NoStaleLeft
  BY DEF PhaseInv, FreshInv, NoStaleLeft, Stale, LastAnalyze
<1>4. QED
  BY <1>1, <1>2, <1>3, PTL DEF VacuumSpec

\* After a complete call for a schema the tables that phase 2 is for are
\* sorted, but for errors and for loads after its reading.
THEOREM TablesAreSorted ==
  ASSUME AnalyzeVacuumAssumption
  PROVE  VacuumSpec => []SortedUnlessTooLarge
<1>1. VacuumInit => VacuumTypeOK /\ PhaseInv /\ SortedInv
  BY InitInv
<1>2. VacuumTypeOK /\ PhaseInv /\ SortedInv /\ [VacuumNext]_vacuumVars => (VacuumTypeOK /\ PhaseInv /\ SortedInv)'
  BY TypeStep, PhaseStep, SortedStep
<1>3. PhaseInv /\ SortedInv => SortedUnlessTooLarge
  BY DEF PhaseInv, SortedInv, SortedUnlessTooLarge, Sorting, Unsorted, Left, End
<1>4. QED
  BY <1>1, <1>2, <1>3, PTL DEF VacuumSpec

\* The answer OK is true: every statement was run or its failure was to be
\* ignored, statistics are fresh and tables are sorted.
THEOREM OkIsTrue ==
  ASSUME AnalyzeVacuumAssumption
  PROVE  VacuumSpec => []OkMeansDone
<1>1. AllWasRun /\ NoStaleLeft /\ SortedUnlessTooLarge => OkMeansDone
  BY DEF OkMeansDone
<1>2. QED
  BY <1>1, NothingLeftOut, StatisticsAreFresh, TablesAreSorted, PTL
===========================================================================

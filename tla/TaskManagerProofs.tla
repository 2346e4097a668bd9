------------------------- MODULE TaskManagerProofs -------------------------
(* What is proved about the task manager for every plan, cyclic or not. *)
EXTENDS TaskManager, FiniteSetTheorems, TLAPS

\* A dependency leaves deps[t] only once it has completed, an executed task has
\* none left, and has_failed tells whether one of those cleared had failed.
Cleared ==
  /\ \A t \in DOMAIN plan : deps[t] \subseteq plan[t] /\ plan[t] \ deps[t] \subseteq Completed
  /\ \A t \in Completed : deps[t] = {}
  /\ \A t \in DOMAIN plan : t \in hasFailed <=> (plan[t] \ deps[t]) \cap failed # {}

Inv == TypeOK /\ OneOutcome /\ Cleared

\* With failOnError the first failure ends the program.
NoFailureYet ==
  failOnError =>
    /\ \A t \in Completed : plan[t] \subseteq succeeded
    /\ \/ failed = {}
       \/ status = "exited" /\ \E t \in DOMAIN plan : failed = {t}

LEMMA InitInv == Init => Inv
<1> SUFFICES ASSUME Init PROVE Inv
  OBVIOUS
<1>1. plan \in [DOMAIN plan -> SUBSET DOMAIN plan]
  BY PlanAssumption DEF Init
<1>2. QED
  BY <1>1 DEF Init, Inv, TypeOK, OneOutcome, Cleared, Completed

\* A task that is executed has only completed dependencies, so that clearing
\* them empties its list.
LEMMA ExecuteInv ==
  ASSUME Inv, NEW t \in todo, Execute(t), plan' = plan, failOnError' = failOnError,
         \/ succeeded' = succeeded \cup {t} /\ failed' = failed
         \/ succeeded' = succeeded /\ failed' = failed \cup {t},
         status' \in {"running", "ended", "exited"}
  PROVE  Inv'
<1>1. /\ t \in tasks /\ t \in DOMAIN plan /\ t \notin Completed
      /\ Completed' = Completed \cup {t}
  BY DEF Inv, TypeOK, OneOutcome, Completed
<1>2. /\ deps \in [DOMAIN plan -> SUBSET DOMAIN plan]
      /\ deps' = [deps EXCEPT ![t] = {}]
      /\ deps[t] \subseteq Completed
  BY <1>1 DEF Execute, ClearFulfilled, Unmet, Inv, TypeOK
<1>3. TypeOK'
  BY <1>1, <1>2 DEF Inv, TypeOK, Execute, ClearFulfilled
<1>4. OneOutcome'
  BY <1>1 DEF Inv, TypeOK, OneOutcome, Execute, Completed
<1>5. Cleared'
  <2>1. \A u \in DOMAIN plan : deps'[u] \subseteq plan[u] /\ plan[u] \ deps'[u] \subseteq Completed'
    BY <1>1, <1>2 DEF Inv, Cleared
  <2>2. \A u \in Completed' : deps'[u] = {}
    BY <1>1, <1>2 DEF Inv, Cleared, TypeOK, Completed
  <2>3. ASSUME NEW u \in DOMAIN plan
        PROVE  u \in hasFailed' <=> (plan[u] \ deps'[u]) \cap failed' # {}
    <3>1. u \in hasFailed <=> (plan[u] \ deps[u]) \cap failed # {}
      BY DEF Inv, Cleared
    <3>2. t \notin plan[u] \ deps[u]
      BY <1>1 DEF Inv, Cleared
    <3>3. CASE u # t
      <4>1. deps'[u] = deps[u] /\ (u \in hasFailed' <=> u \in hasFailed)
        BY <3>3, <1>2 DEF Execute, ClearFulfilled
      <4>2. (plan[u] \ deps[u]) \cap failed' = (plan[u] \ deps[u]) \cap failed
        BY <3>2
      <4>3. QED
        BY <4>1, <4>2, <3>1
    <3>4. CASE u = t
      <4>1. deps'[t] = {} /\ (t \in hasFailed' <=> t \in hasFailed \/ deps[t] \cap failed # {})
        BY <1>1, <1>2 DEF Execute, ClearFulfilled
      <4>2. deps[t] \subseteq plan[t] /\ t \notin plan[t]
        BY <1>1, <1>2, <3>2, <3>4 DEF Inv, Cleared
      <4>3. plan[t] \cap failed' = plan[t] \cap failed
        BY <4>2
      <4>4. plan[t] \cap failed # {} <=>
              (plan[t] \ deps[t]) \cap failed # {} \/ deps[t] \cap failed # {}
        BY <4>2
      <4>5. QED
        BY <4>1, <4>3, <4>4, <3>1, <3>4
    <3>5. QED
      BY <3>3, <3>4
  <2>4. QED
    BY <2>1, <2>2, <2>3 DEF Cleared
<1>6. QED
  BY <1>3, <1>4, <1>5 DEF Inv

LEMMA WaitInv ==
  ASSUME Inv, NEW t \in todo, Wait(t), failOnError' = failOnError
  PROVE  Inv'
<1>1. /\ t \in tasks /\ t \in DOMAIN plan /\ t \notin Completed
      /\ Completed' = Completed /\ plan' = plan /\ failed' = failed
      /\ tasks' = tasks /\ succeeded' = succeeded /\ status' = status
  BY DEF Wait, Inv, TypeOK, OneOutcome, Completed
<1>2. /\ deps \in [DOMAIN plan -> SUBSET DOMAIN plan]
      /\ deps' = [deps EXCEPT ![t] = deps[t] \ Completed]
  BY <1>1 DEF Wait, ClearFulfilled, Unmet, Inv, TypeOK
<1>3. TypeOK' /\ OneOutcome'
  BY <1>1, <1>2 DEF Inv, TypeOK, OneOutcome, Wait, ClearFulfilled, Completed
<1>4. Cleared'
  <2>1. \A u \in DOMAIN plan : deps'[u] \subseteq plan[u] /\ plan[u] \ deps'[u] \subseteq Completed
    BY <1>1, <1>2 DEF Inv, Cleared
  <2>2. \A u \in Completed : deps'[u] = {}
    BY <1>1, <1>2 DEF Inv, Cleared, TypeOK, Completed
  <2>3. ASSUME NEW u \in DOMAIN plan
        PROVE  u \in hasFailed' <=> (plan[u] \ deps'[u]) \cap failed # {}
    <3>1. u \in hasFailed <=> (plan[u] \ deps[u]) \cap failed # {}
      BY DEF Inv, Cleared
    <3>2. CASE u # t
      BY <3>1, <3>2, <1>2 DEF Wait, ClearFulfilled
    <3>3. CASE u = t
      <4>1. /\ deps'[t] = deps[t] \ Completed /\ deps[t] \subseteq plan[t]
            /\ failed \subseteq Completed
            /\ t \in hasFailed' <=> t \in hasFailed \/ deps[t] \cap failed # {}
        BY <1>1, <1>2 DEF Wait, ClearFulfilled, Inv, Cleared, Completed
      <4>2. (plan[t] \ (deps[t] \ Completed)) \cap failed # {} <=>
              (plan[t] \ deps[t]) \cap failed # {} \/ deps[t] \cap failed # {}
        BY <4>1
      <4>3. QED
        BY <4>1, <4>2, <3>1, <3>3
    <3>4. QED
      BY <3>2, <3>3
  <2>4. QED
    BY <1>1, <2>1, <2>2, <2>3 DEF Cleared
<1>5. QED
  BY <1>3, <1>4 DEF Inv

LEMMA NextInv == Inv /\ [Next]_vars => Inv'
<1> SUFFICES ASSUME Inv, [Next]_vars PROVE Inv'
  OBVIOUS
<1>0. failOnError' = failOnError
  BY DEF Next, vars
<1>1. CASE StartPass
  BY <1>0, <1>1 DEF StartPass, Inv, TypeOK, OneOutcome, Cleared, Completed
<1>2. CASE End
  BY <1>0, <1>2 DEF End, Inv, TypeOK, OneOutcome, Cleared, Completed
<1>3. ASSUME NEW t \in todo, Wait(t) PROVE Inv'
  BY <1>0, <1>3, WaitInv
<1>4. ASSUME NEW t \in todo, Succeed(t) PROVE Inv'
  <2>1. status' \in {"running", "ended", "exited"}
    BY <1>4 DEF Succeed, Inv, TypeOK
  <2>2. QED
    BY <1>0, <1>4, <2>1, ExecuteInv DEF Succeed
<1>5. ASSUME NEW t \in todo, Fail(t) PROVE Inv'
  <2>1. status' \in {"running", "ended", "exited"}
    BY <1>5 DEF Fail, Inv, TypeOK
  <2>2. QED
    BY <1>0, <1>5, <2>1, ExecuteInv DEF Fail
<1>6. CASE UNCHANGED vars
  BY <1>6 DEF vars, Inv, TypeOK, OneOutcome, Cleared, Completed
<1>7. QED
  BY <1>1, <1>2, <1>3, <1>4, <1>5, <1>6 DEF Next

---------------------------------------------------------------------------
\* The variables of the manager keep their types: in particular a pass never
\* meets a task that is no longer among the tasks that are left.
THEOREM TypeCorrect == Spec => []TypeOK
<1>1. Inv => TypeOK
  BY DEF Inv
<1>2. QED
  BY <1>1, InitInv, NextInv, PTL DEF Spec

\* No task is executed twice, dropped, or both successful and failed.
THEOREM EachTaskOnce == Spec => []OneOutcome
<1>1. Inv => OneOutcome
  BY DEF Inv
<1>2. QED
  BY <1>1, InitInv, NextInv, PTL DEF Spec

\* A task is executed only after all it depends on, for every plan.
THEOREM OrderRespected == Spec => []DependenciesFirst
<1>1. Inv => DependenciesFirst
  BY DEF Inv, TypeOK, Cleared, DependenciesFirst, Completed
<1>2. QED
  BY <1>1, InitInv, NextInv, PTL DEF Spec

\* has_failed is set for the executed tasks with a failed dependency, and for
\* no other executed task.
THEOREM FailureFlagExact == Spec => []FailureIsSeen
<1>1. Inv => FailureIsSeen
  BY DEF Inv, TypeOK, Cleared, FailureIsSeen, Completed
<1>2. QED
  BY <1>1, InitInv, NextInv, PTL DEF Spec

LEMMA InitNoFailure == Init => NoFailureYet
BY DEF Init, NoFailureYet, Completed

LEMMA NextNoFailure == Inv /\ NoFailureYet /\ [Next]_vars => NoFailureYet'
<1>0. [Next]_vars => failOnError' = failOnError
  BY DEF Next, vars
<1> SUFFICES ASSUME Inv, NoFailureYet, [Next]_vars, failOnError
             PROVE  /\ \A t \in Completed' : plan'[t] \subseteq succeeded'
                    /\ \/ failed' = {}
                       \/ status' = "exited" /\ \E t \in DOMAIN plan' : failed' = {t}
  BY <1>0 DEF NoFailureYet
<1>1. ASSUME NEW t \in todo, Execute(t)
      PROVE  failed = {} /\ plan[t] \subseteq succeeded /\ t \in DOMAIN plan
  <2>1. failed = {} /\ t \in DOMAIN plan
    BY <1>1 DEF Execute, Turn, NoFailureYet, Inv, TypeOK
  <2>2. plan[t] \subseteq Completed
    BY <1>1, <2>1 DEF Execute, Unmet, Inv, Cleared
  <2>3. QED
    BY <2>1, <2>2 DEF Completed
<1>2. ASSUME NEW t \in todo, Succeed(t)
      PROVE  /\ \A u \in Completed' : plan'[u] \subseteq succeeded'
             /\ failed' = {}
  <2>1. /\ failed = {} /\ plan[t] \subseteq succeeded
        /\ failed' = failed /\ plan' = plan /\ succeeded' = succeeded \cup {t}
    BY <1>1, <1>2 DEF Succeed
  <2>2. QED
    BY <2>1 DEF NoFailureYet, Completed
<1>3. ASSUME NEW t \in todo, Fail(t)
      PROVE  /\ \A u \in Completed' : plan'[u] \subseteq succeeded'
             /\ status' = "exited" /\ failed' = {t} /\ t \in DOMAIN plan'
  <2>1. /\ failed = {} /\ plan[t] \subseteq succeeded /\ t \in DOMAIN plan
        /\ failed' = failed \cup {t} /\ plan' = plan /\ succeeded' = succeeded
        /\ status' = "exited"
    BY <1>1, <1>3 DEF Fail
  <2>2. QED
    BY <2>1 DEF NoFailureYet, Completed
<1>4. CASE StartPass \/ End \/ (\E t \in todo : Wait(t)) \/ UNCHANGED vars
  <2>1. /\ plan' = plan /\ succeeded' = succeeded /\ failed' = failed
        /\ status' = status \/ status = "running"
    BY <1>4 DEF StartPass, End, Wait, vars
  <2>2. QED
    BY <2>1 DEF NoFailureYet, Completed
<1>5. QED
  BY <1>2, <1>3, <1>4 DEF Next

\* With failOnError nothing is executed after the first failure, and whatever
\* is executed follows successful tasks only.
THEOREM FirstFailureStops == Spec => []StopsAtFailure
<1>1. Inv /\ NoFailureYet => StopsAtFailure
  <2> SUFFICES ASSUME NoFailureYet, failOnError, failed # {}
               PROVE  status = "exited" /\ Cardinality(failed) = 1
    BY DEF StopsAtFailure, NoFailureYet
  <2>1. PICK t \in DOMAIN plan : failed = {t}
    BY DEF NoFailureYet
  <2>2. Cardinality({t}) = 1
    BY FS_Singleton
  <2>3. QED
    BY <2>1, <2>2 DEF NoFailureYet
<1>2. QED
  BY <1>1, InitInv, NextInv, InitNoFailure, NextNoFailure, PTL DEF Spec

\* The three dictionaries and the flags of the manager tell the truth about
\* every plan.
THEOREM OutcomesCorrect == Spec => []OutcomesAreTrue
<1>1. OneOutcome /\ StopsAtFailure /\ FailureIsSeen => OutcomesAreTrue
  BY DEF OutcomesAreTrue
<1>2. QED
  BY <1>1, EachTaskOnce, FirstFailureStops, FailureFlagExact, PTL
===========================================================================

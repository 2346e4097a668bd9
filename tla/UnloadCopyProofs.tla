-------------------------- MODULE UnloadCopyProofs --------------------------
(* What is proved about the migration plan and its tasks for any number of     *)
(* tables, any set of configurations and any failures.  The theorems of the    *)
(* task manager are used for the plans of the utility.                         *)
EXTENDS UnloadCopy, FiniteSetTheorems, TLAPS

TM == INSTANCE TaskManagerProofs WITH Plans <- UtilityPlans

---------------------------------------------------------------------------
(* The plan.                                                               *)

PlanTasks(c) == {ClusterBarrier, ResourceBarrier} \cup TasksOf(c, Kinds)

LEMMA TaskNumbers ==
  ASSUME NEW k \in Tables, NEW kind \in Kinds
  PROVE  /\ Task(k, kind) \in 3 .. 2 + 8 * NumTables
         /\ Task(k, kind) # ClusterBarrier /\ Task(k, kind) # ResourceBarrier
BY UnloadCopyAssumption DEF Task, Slot, Kinds, Tables, ClusterBarrier, ResourceBarrier

LEMMA TasksDiffer ==
  ASSUME NEW k \in Tables, NEW l \in Tables, NEW kind \in Kinds, NEW other \in Kinds,
         Task(k, kind) = Task(l, other)
  PROVE  k = l /\ kind = other
BY UnloadCopyAssumption DEF Task, Slot, Kinds, Tables

LEMMA DependsOnWhat ==
  ASSUME NEW c, NEW k
  PROVE  /\ DependsOn(c, k, "testTarget") = {} /\ DependsOn(c, k, "testSource") = {}
         /\ DependsOn(c, k, "targetPresent") = {ClusterBarrier}
         /\ DependsOn(c, k, "sourcePresent") = {ClusterBarrier}
         /\ DependsOn(c, k, "create") = {ClusterBarrier}
         /\ DependsOn(c, k, "unload") = {ResourceBarrier}
         /\ DependsOn(c, k, "copy") = {Task(k, "unload")}
         /\ DependsOn(c, k, "cleanup") = {Task(k, "copy")}
BY DEF DependsOn, ClusterTests, ResourceTests

LEMMA AlwaysPlanned ==
  ASSUME NEW c, NEW k \in Tables, NEW kind \in {"unload", "copy", "cleanup"}
  PROVE  Task(k, kind) \in PlanTasks(c)
BY DEF PlanTasks, TasksOf, KindsOf, Kinds

\* What a task of the plan depends on.
LEMMA PlanEntries ==
  ASSUME NEW c
  PROVE  /\ DOMAIN PlanOf(c) = PlanTasks(c)
         /\ PlanOf(c)[ClusterBarrier] = TasksOf(c, ClusterTests)
         /\ PlanOf(c)[ResourceBarrier] = TasksOf(c, ResourceTests)
         /\ \A k \in Tables, kind \in Kinds :
              Task(k, kind) \in PlanTasks(c) =>
                PlanOf(c)[Task(k, kind)] = DependsOn(c, k, kind)
<1>1. DOMAIN PlanOf(c) = PlanTasks(c)
  BY DEF PlanOf, PlanTasks
<1>2. /\ PlanOf(c)[ClusterBarrier] = TasksOf(c, ClusterTests)
      /\ PlanOf(c)[ResourceBarrier] = TasksOf(c, ResourceTests)
  BY DEF PlanOf, ClusterBarrier, ResourceBarrier
<1>3. ASSUME NEW k \in Tables, NEW kind \in Kinds, Task(k, kind) \in PlanTasks(c)
      PROVE  PlanOf(c)[Task(k, kind)] = DependsOn(c, k, kind)
  <2> DEFINE Same == {y \in Tables \X Kinds : Task(y[1], y[2]) = Task(k, kind)}
  <2>1. PlanOf(c)[Task(k, kind)] = UNION {DependsOn(c, x[1], x[2]) : x \in Same}
    BY <1>3, TaskNumbers DEF PlanOf, PlanTasks
  <2>2. Same = {<<k, kind>>}
    BY TasksDiffer
  <2>3. \A x \in Same : x[1] = k /\ x[2] = kind
    BY <2>2
  <2>4. <<k, kind>> \in Same /\ <<k, kind>>[1] = k /\ <<k, kind>>[2] = kind
    OBVIOUS
  <2>5. \A z : z \in PlanOf(c)[Task(k, kind)] <=>
                 \E x \in Same : z \in DependsOn(c, x[1], x[2])
    BY <2>1
  <2>6. \A z : z \in PlanOf(c)[Task(k, kind)] <=> z \in DependsOn(c, k, kind)
    <3> HIDE DEF Same
    <3>1. QED
      BY <2>3, <2>4, <2>5, Zenon
  <2>7. QED
    BY <2>6
<1>4. QED
  BY <1>1, <1>2, <1>3

LEMMA PlansFit == TM!PlanAssumption
<1>1. ASSUME NEW c \in Configs
      PROVE  /\ DOMAIN PlanOf(c) \subseteq Nat /\ IsFiniteSet(DOMAIN PlanOf(c))
             /\ PlanOf(c) \in [DOMAIN PlanOf(c) -> SUBSET DOMAIN PlanOf(c)]
  <2>1. DOMAIN PlanOf(c) = PlanTasks(c)
    BY PlanEntries
  <2>2. PlanTasks(c) \subseteq 1 .. 2 + 8 * NumTables
    BY TaskNumbers, UnloadCopyAssumption
    DEF PlanTasks, TasksOf, ClusterBarrier, ResourceBarrier
  <2>3. IsFiniteSet(PlanTasks(c))
    <3>1. 1 \in Int /\ 2 + 8 * NumTables \in Int
      BY UnloadCopyAssumption
    <3>2. IsFiniteSet(1 .. 2 + 8 * NumTables)
      BY <3>1, FS_Interval
    <3>3. QED
      BY <2>2, <3>2, FS_Subset
  <2>4. ASSUME NEW t \in PlanTasks(c)
        PROVE  PlanOf(c)[t] \subseteq PlanTasks(c)
    <3>1. CASE t \in {ClusterBarrier, ResourceBarrier}
      <4>1. PlanOf(c)[t] = TasksOf(c, ClusterTests) \/ PlanOf(c)[t] = TasksOf(c, ResourceTests)
        BY <3>1, PlanEntries
      <4>2. ClusterTests \subseteq Kinds /\ ResourceTests \subseteq Kinds
        BY DEF ClusterTests, ResourceTests, Kinds
      <4>3. QED
        BY <4>1, <4>2 DEF TasksOf, PlanTasks
    <3>2. CASE t \in TasksOf(c, Kinds)
      <4>1. PICK k \in Tables, kind \in Kinds : t = Task(k, kind)
        BY <3>2 DEF TasksOf
      <4>2. PlanOf(c)[t] = DependsOn(c, k, kind)
        BY <4>1, PlanEntries
      <4>3. DependsOn(c, k, kind) \subseteq
              {ClusterBarrier, ResourceBarrier, Task(k, "unload"), Task(k, "copy")}
        BY DependsOnWhat DEF Kinds
      <4>4. QED
        BY <4>2, <4>3, AlwaysPlanned DEF PlanTasks
    <3>3. QED
      BY <3>1, <3>2 DEF PlanTasks
  <2>5. PlanOf(c) \in [PlanTasks(c) -> SUBSET PlanTasks(c)]
    BY <2>4 DEF PlanOf, PlanTasks
  <2>6. QED
    BY <2>1, <2>2, <2>3, <2>5, UnloadCopyAssumption
<1>2. \A S : IsFiniteSet(S) <=> TM!IsFiniteSet(S)
  BY DEF IsFiniteSet, TM!IsFiniteSet
<1>3. QED
  BY <1>1, <1>2 DEF TM!PlanAssumption, UtilityPlans

---------------------------------------------------------------------------
(* The task manager inside the utility.                                    *)

ManagerInv == TM!Inv /\ TM!NoFailureYet

LEMMA ManagerInit == Init => ManagerInv
<1>1. Init => TM!Init
  BY DEF Init, Manager!Init, TM!Init
<1>2. QED
  BY <1>1, PlansFit, TM!InitInv, TM!InitNoFailure DEF ManagerInv

\* Task t was run, with or without success.
Runs(t) == TM!Succeed(t) \/ TM!Fail(t)

LEMMA RunsAre ==
  ASSUME NEW t
  PROVE  /\ Manager!Succeed(t) <=> TM!Succeed(t)
         /\ Manager!Fail(t) <=> TM!Fail(t)
         /\ Manager!Wait(t) <=> TM!Wait(t)
         /\ Runs(t) => t \in todo
<1>1. Manager!Turn(t) <=> TM!Turn(t)
  BY DEF Manager!Turn, TM!Turn
<1>2. Manager!Completed = TM!Completed
  BY DEF Manager!Completed, TM!Completed
<1>3. Manager!Unmet(t) = TM!Unmet(t)
  BY <1>2 DEF Manager!Unmet, TM!Unmet
<1>4. Manager!ClearFulfilled(t) <=> TM!ClearFulfilled(t)
  BY <1>3 DEF Manager!ClearFulfilled, TM!ClearFulfilled
<1>5. Manager!Execute(t) <=> TM!Execute(t)
  BY <1>1, <1>3, <1>4 DEF Manager!Execute, TM!Execute
<1>6. Manager!Succeed(t) <=> TM!Succeed(t)
  BY <1>5 DEF Manager!Succeed, TM!Succeed
<1>7. Manager!Fail(t) <=> TM!Fail(t)
  BY <1>5 DEF Manager!Fail, TM!Fail
<1>8. Manager!Wait(t) <=> TM!Wait(t)
  BY <1>1, <1>3, <1>4 DEF Manager!Wait, TM!Wait
<1>9. Runs(t) => t \in todo
  BY DEF Runs, TM!Succeed, TM!Fail, TM!Execute, TM!Turn
<1>10. QED
  BY <1>6, <1>7, <1>8, <1>9

\* A task that is run has everything behind it that it depends on, and
\* nothing has failed before it with failOnError.
LEMMA RunsWhen ==
  ASSUME ManagerInv, NEW t, Runs(t)
  PROVE  /\ status = "running" /\ t \in DOMAIN plan /\ t \notin succeeded \cup failed
         /\ plan[t] \subseteq succeeded \cup failed
         /\ failOnError => failed = {}
         /\ \A u \in succeeded \cup failed : plan[u] \subseteq succeeded \cup failed
         /\ failOnError => \A u \in succeeded : plan[u] \subseteq succeeded
         /\ succeeded' \subseteq succeeded \cup {t} /\ succeeded \subseteq succeeded'
         /\ succeeded' \cup failed' = succeeded \cup failed \cup {t}
<1>1. /\ status = "running" /\ t \in todo /\ deps[t] \subseteq succeeded \cup failed
      /\ \/ succeeded' = succeeded \cup {t} /\ failed' = failed
         \/ succeeded' = succeeded /\ failed' = failed \cup {t}
  BY DEF Runs, TM!Succeed, TM!Fail, TM!Execute, TM!Turn, TM!Unmet, TM!Completed
<1>2. /\ t \in DOMAIN plan /\ t \notin succeeded \cup failed
      /\ succeeded \cup failed \subseteq DOMAIN plan
      /\ \A u \in DOMAIN plan : plan[u] \ deps[u] \subseteq succeeded \cup failed
      /\ \A u \in succeeded \cup failed : deps[u] = {}
  BY <1>1 DEF ManagerInv, TM!Inv, TM!TypeOK, TM!OneOutcome, TM!Cleared, TM!Completed
<1>3. failOnError => /\ failed = {}
                     /\ \A u \in succeeded : plan[u] \subseteq succeeded
  BY <1>1 DEF ManagerInv, TM!NoFailureYet, TM!Completed
<1>4. /\ plan[t] \subseteq succeeded \cup failed
      /\ \A u \in succeeded \cup failed : plan[u] \subseteq succeeded \cup failed
  BY <1>1, <1>2
<1>5. QED
  BY <1>1, <1>2, <1>3, <1>4

\* What a task may do to the world, by its kind.
LEMMA Performed ==
  ASSUME NEW k \in Tables, NEW kind \in Kinds, Perform(k, kind)
  PROVE  /\ Runs(Task(k, kind))
         /\ kind \in {"testTarget", "testSource", "targetPresent", "sourcePresent"} =>
              UNCHANGED <<target, durable, staged>>
         /\ kind = "create" => CreateTarget(Task(k, kind), k)
         /\ kind = "unload" => Unload(Task(k, kind), k)
         /\ kind = "copy" => Copy(Task(k, kind), k)
         /\ kind = "cleanup" => Cleanup(Task(k, kind), k)
<1> DEFINE t == Task(k, kind)
<1> USE DEF worldVars
<1>1. CASE kind = "testTarget"
  <2>1. TestCluster(t, "target", k)
    BY <1>1 DEF Perform
  <2>2. QED
    BY <1>1, <2>1, RunsAre DEF TestCluster, Runs
<1>2. CASE kind = "testSource"
  <2>1. TestCluster(t, "source", k)
    BY <1>2 DEF Perform
  <2>2. QED
    BY <1>2, <2>1, RunsAre DEF TestCluster, Runs
<1>3. CASE kind = "targetPresent"
  <2>1. TestPresent(t, "target", k, target[k] # "absent")
    BY <1>3 DEF Perform
  <2>2. QED
    BY <1>3, <2>1, RunsAre DEF TestPresent, Runs
<1>4. CASE kind = "sourcePresent"
  <2>1. TestPresent(t, "source", k, k \in present)
    BY <1>4 DEF Perform
  <2>2. QED
    BY <1>4, <2>1, RunsAre DEF TestPresent, Runs
<1>5. CASE kind = "create"
  <2>1. CreateTarget(t, k)
    BY <1>5 DEF Perform
  <2>2. QED
    BY <1>5, <2>1, RunsAre DEF CreateTarget, Runs
<1>6. CASE kind = "unload"
  <2>1. Unload(t, k)
    BY <1>6 DEF Perform
  <2>2. QED
    BY <1>6, <2>1, RunsAre DEF Unload, Runs
<1>7. CASE kind = "copy"
  <2>1. Copy(t, k)
    BY <1>7 DEF Perform
  <2>2. QED
    BY <1>7, <2>1, RunsAre DEF Copy, Runs
<1>8. CASE kind = "cleanup"
  <2>1. Cleanup(t, k)
    BY <1>8 DEF Perform
  <2>2. QED
    BY <1>8, <2>1, RunsAre DEF Cleanup, Runs
<1>9. QED
  BY <1>1, <1>2, <1>3, <1>4, <1>5, <1>6, <1>7, <1>8 DEF Kinds

LEMMA ManagerNext == ManagerInv /\ [Next]_vars => ManagerInv'
<1> SUFFICES ASSUME [Next]_vars PROVE TM!Next \/ UNCHANGED TM!vars
  BY PlansFit, TM!NextInv, TM!NextNoFailure DEF ManagerInv
<1>1. CASE Next
  <2>1. UNCHANGED failOnError
    BY <1>1 DEF Next
  <2>2. CASE Turn
    BY <2>1, <2>2, RunsAre DEF Turn, Manager!StartPass, Manager!End, TM!StartPass, TM!End, TM!Next
  <2>3. ASSUME NEW t, Runs(t)
        PROVE  TM!Next
    BY <2>1, <2>3, RunsAre DEF Runs, TM!Next
  <2>4. CASE PassBarrier
    BY <2>3, <2>4, RunsAre DEF PassBarrier, Runs
  <2>5. CASE \E k \in Tables, kind \in Kinds : Perform(k, kind)
    BY <2>3, <2>5, Performed
  <2>6. CASE Disconnect
    BY <2>6 DEF Disconnect, managerVars, TM!vars
  <2>7. QED
    BY <1>1, <2>2, <2>4, <2>5, <2>6 DEF Next
<1>2. CASE UNCHANGED vars
  BY <1>2 DEF vars, managerVars, TM!vars
<1>3. QED
  BY <1>1, <1>2

---------------------------------------------------------------------------
(* Types.                                                                  *)

WorldOK ==
  /\ present \in SUBSET Tables
  /\ target \in [Tables -> Contents] /\ durable \in [Tables -> Contents]
  /\ staged \in [Tables -> {"none", "part", "full", "left"}]
  /\ aborted \in SUBSET ({"source", "target"} \X Tables)
  /\ faults \in 0 .. MaxFaults

LEMMA SessionFailsType ==
  ASSUME WorldOK, NEW side \in {"source", "target"}, NEW k \in Tables, SessionFails(side, k)
  PROVE  /\ aborted' \in SUBSET ({"source", "target"} \X Tables)
         /\ faults' \in 0 .. MaxFaults
BY UnloadCopyAssumption DEF SessionFails, WorldOK

\* No step changes the configuration, the source or the plan.
LEMMA Kept ==
  ASSUME [Next]_vars
  PROVE  UNCHANGED <<config, present, failOnError, plan>>
<1>1. CASE Next
  <2>1. UNCHANGED <<config, present, failOnError>>
    BY <1>1 DEF Next
  <2>2. ASSUME NEW t, Runs(t)
        PROVE  UNCHANGED plan
    BY <2>2 DEF Runs, TM!Succeed, TM!Fail
  <2>3. CASE Turn
    BY <2>1, <2>3 DEF Turn, Manager!StartPass, Manager!End, Manager!Wait
  <2>4. CASE PassBarrier
    BY <2>1, <2>2, <2>4, RunsAre DEF PassBarrier, Runs
  <2>5. CASE \E k \in Tables, kind \in Kinds : Perform(k, kind)
    BY <2>1, <2>2, <2>5, Performed
  <2>6. CASE Disconnect
    BY <2>1, <2>6 DEF Disconnect, managerVars
  <2>7. QED
    BY <1>1, <2>1, <2>3, <2>4, <2>5, <2>6 DEF Next
<1>2. CASE UNCHANGED vars
  BY <1>2 DEF vars, managerVars
<1>3. QED
  BY <1>1, <1>2

LEMMA CreateType ==
  ASSUME WorldOK, NEW k \in Tables, NEW t, CreateTarget(t, k), UNCHANGED present
  PROVE  WorldOK'
<1>1. target' \in [Tables -> Contents]
  BY DEF CreateTarget, WorldOK, Contents
<1>2. UNCHANGED <<durable, staged>>
  BY DEF CreateTarget
<1>3. UNCHANGED <<aborted, faults>> \/ SessionFails("source", k) \/ SessionFails("target", k)
  BY DEF CreateTarget
<1>4. QED
  BY <1>1, <1>2, <1>3, SessionFailsType DEF WorldOK

LEMMA UnloadType ==
  ASSUME WorldOK, NEW k \in Tables, NEW t, Unload(t, k), UNCHANGED present
  PROVE  WorldOK'
<1>1. staged' \in [Tables -> {"none", "part", "full", "left"}]
  BY DEF Unload, WorldOK
<1>2. UNCHANGED <<target, durable>>
  BY DEF Unload
<1>3. \/ UNCHANGED <<aborted, faults>> \/ SessionFails("source", k)
      \/ aborted' = aborted \cup {<<"source", k>>} /\ UNCHANGED faults
  BY DEF Unload
<1>4. QED
  BY <1>1, <1>2, <1>3, SessionFailsType DEF WorldOK

LEMMA CopyType ==
  ASSUME WorldOK, NEW k \in Tables, NEW t, Copy(t, k), UNCHANGED present
  PROVE  WorldOK'
<1>1. target' \in [Tables -> Contents]
  BY DEF Copy, WorldOK, Contents
<1>2. UNCHANGED <<durable, staged>>
  BY DEF Copy
<1>3. \/ UNCHANGED <<aborted, faults>> \/ SessionFails("target", k)
      \/ aborted' = aborted \cup {<<"target", k>>} /\ UNCHANGED faults
  BY DEF Copy
<1>4. QED
  BY <1>1, <1>2, <1>3, SessionFailsType DEF WorldOK

LEMMA CleanupType ==
  ASSUME WorldOK, NEW k \in Tables, NEW t, Cleanup(t, k), UNCHANGED present
  PROVE  WorldOK'
<1>1. staged' \in [Tables -> {"none", "part", "full", "left"}]
  BY DEF Cleanup, AfterDelete, WorldOK, worldVars
<1>2. UNCHANGED <<target, durable, aborted>> /\ faults' \in 0 .. MaxFaults
  BY UnloadCopyAssumption DEF Cleanup, WorldOK, worldVars
<1>3. QED
  BY <1>1, <1>2 DEF WorldOK

LEMMA TestsType ==
  ASSUME WorldOK, NEW k \in Tables,
         NEW kind \in {"testTarget", "testSource", "targetPresent", "sourcePresent"},
         Perform(k, kind), UNCHANGED present
  PROVE  WorldOK'
<1>1. UNCHANGED <<target, durable, staged>>
  BY Performed DEF Kinds
<1>2. \/ UNCHANGED <<aborted, faults>>
      \/ SessionFails("source", k) \/ SessionFails("target", k)
  BY DEF Perform, TestCluster, TestPresent, worldVars
<1>3. QED
  BY <1>1, <1>2, SessionFailsType DEF WorldOK

LEMMA WorldNext == WorldOK /\ [Next]_vars => WorldOK'
<1> SUFFICES ASSUME WorldOK, [Next]_vars PROVE WorldOK'
  OBVIOUS
<1>0. UNCHANGED present
  BY Kept
<1>1. CASE UNCHANGED worldVars
  BY <1>0, <1>1 DEF WorldOK, worldVars
<1>2. CASE Disconnect
  BY <1>0, <1>2 DEF Disconnect, WorldOK
<1>3. ASSUME NEW k \in Tables, NEW kind \in Kinds, Perform(k, kind)
      PROVE  WorldOK'
  BY <1>0, <1>3, Performed, CreateType, UnloadType, CopyType, CleanupType, TestsType DEF Kinds
<1>4. QED
  BY <1>1, <1>2, <1>3 DEF Next, vars, Turn, PassBarrier

ConfigOK == config \in Configs /\ plan = PlanOf(config)

IInv == ConfigOK /\ WorldOK /\ ManagerInv

LEMMA InitIInv == Init => IInv
<1> SUFFICES ASSUME Init PROVE IInv
  OBVIOUS
<1>1. ConfigOK /\ ManagerInv
  BY ManagerInit DEF Init, ConfigOK
<1>2. WorldOK
  BY UnloadCopyAssumption DEF Init, WorldOK, Contents
<1>3. QED
  BY <1>1, <1>2 DEF IInv

LEMMA NextIInv == IInv /\ [Next]_vars => IInv'
BY Kept, WorldNext, ManagerNext DEF IInv, ConfigOK

\* The configuration and the plan of a run never change, and every variable
\* stays in its range, for any number of tables.
THEOREM TypeCorrect == Spec => []TypeOK
<1>1. IInv => TypeOK
  <2>1. TM!TypeOK => Manager!TypeOK
    BY DEF TM!TypeOK, Manager!TypeOK
  <2>2. QED
    BY <2>1 DEF IInv, ConfigOK, WorldOK, ManagerInv, TM!Inv, TypeOK
<1>2. QED
  BY <1>1, InitIInv, NextIInv, PTL DEF Spec

---------------------------------------------------------------------------
(* What has happened when a task of a table has been executed.             *)

PlannedFor(c, k, kind) == Task(k, kind) \in PlanTasks(c)

LEMMA CreatePlanned ==
  ASSUME NEW c, NEW k \in Tables
  PROVE  /\ c.destinationTableAutoCreate => Task(k, "create") \in TasksOf(c, ResourceTests)
         /\ PlannedFor(c, k, "create") => c.destinationTableAutoCreate
<1>1. c.destinationTableAutoCreate => "create" \in ResourceTests \cap KindsOf(c)
  BY DEF KindsOf, ResourceTests
<1>2. PlannedFor(c, k, "create") => "create" \in KindsOf(c)
  <2> SUFFICES ASSUME PlannedFor(c, k, "create")
               PROVE  "create" \in KindsOf(c)
    OBVIOUS
  <2>0. "create" \in Kinds
    BY DEF Kinds
  <2>1. Task(k, "create") \in TasksOf(c, Kinds)
    BY <2>0, TaskNumbers DEF PlannedFor, PlanTasks
  <2>2. PICK l \in Tables, kind \in Kinds \cap KindsOf(c) : Task(k, "create") = Task(l, kind)
    BY <2>1 DEF TasksOf
  <2>3. kind = "create"
    BY <2>0, <2>2, TasksDiffer
  <2>4. QED
    BY <2>2, <2>3
<1>3. "create" \in KindsOf(c) => c.destinationTableAutoCreate
  BY DEF KindsOf
<1>4. QED
  BY <1>1, <1>2, <1>3 DEF TasksOf

\* A set of executed tasks that holds what they depend on holds, with the
\* cleanup, the copy; with the copy, the unload; with the unload, all pre-tests
\* and creations.
LEMMA Chain ==
  ASSUME NEW c, NEW k \in Tables, NEW Done, \A u \in Done : PlanOf(c)[u] \subseteq Done
  PROVE  /\ Task(k, "cleanup") \in Done => Task(k, "copy") \in Done
         /\ Task(k, "copy") \in Done => Task(k, "unload") \in Done
         /\ Task(k, "unload") \in Done =>
              ResourceBarrier \in Done /\ TasksOf(c, ResourceTests) \subseteq Done
<1>1. /\ PlanOf(c)[Task(k, "unload")] = {ResourceBarrier}
      /\ PlanOf(c)[Task(k, "copy")] = {Task(k, "unload")}
      /\ PlanOf(c)[Task(k, "cleanup")] = {Task(k, "copy")}
  BY PlanEntries, AlwaysPlanned, DependsOnWhat DEF Kinds
<1>2. PlanOf(c)[ResourceBarrier] = TasksOf(c, ResourceTests)
  BY PlanEntries
<1>3. QED
  BY <1>1, <1>2

Executed == succeeded \cup failed

\* The executed tasks of a run are such a set.
LEMMA ExecutedClosed ==
  IInv => \A u \in Executed : PlanOf(config)[u] \subseteq Executed
<1> SUFFICES ASSUME IInv, NEW u \in Executed
             PROVE  PlanOf(config)[u] \subseteq Executed
  OBVIOUS
<1>1. /\ plan = PlanOf(config) /\ u \in DOMAIN plan
      /\ plan[u] \ deps[u] \subseteq Executed /\ deps[u] = {}
  BY DEF IInv, ConfigOK, ManagerInv, TM!Inv, TM!TypeOK, TM!OneOutcome, TM!Cleared,
         TM!Completed, Executed
<1>2. QED
  BY <1>1

---------------------------------------------------------------------------
(* Nothing moves before the tests, nothing is deleted before the copy.     *)

\* What is staged was put there by an unload that was executed.
StagedInv == \A k \in Tables : staged[k] # "none" => Task(k, "unload") \in Executed

\* Only the unload and the cleanup of a table touch what is staged for it.
LEMMA StagedBy ==
  ASSUME IInv, [Next]_vars, NEW l \in Tables, staged'[l] # staged[l]
  PROVE  \/ Unload(Task(l, "unload"), l) /\ Runs(Task(l, "unload"))
         \/ Cleanup(Task(l, "cleanup"), l) /\ Runs(Task(l, "cleanup"))
<1>1. PICK k \in Tables, kind \in Kinds : Perform(k, kind)
  BY DEF Next, vars, Turn, PassBarrier, Disconnect, worldVars
<1>2. CASE kind = "unload"
  <2>1. k = l
    BY <1>1, <1>2, Performed DEF Unload, IInv, WorldOK
  <2>2. QED
    BY <1>1, <1>2, <2>1, Performed
<1>3. CASE kind = "cleanup"
  <2>1. k = l
    BY <1>1, <1>3, Performed DEF Cleanup, IInv, WorldOK, worldVars
  <2>2. QED
    BY <1>1, <1>3, <2>1, Performed
<1>4. CASE kind = "create"
  BY <1>1, <1>4, Performed DEF CreateTarget
<1>5. CASE kind = "copy"
  BY <1>1, <1>5, Performed DEF Copy
<1>6. QED
  BY <1>1, <1>2, <1>3, <1>4, <1>5, Performed DEF Kinds

\* A task that was executed stays executed.
LEMMA ExecutedGrows == IInv /\ [Next]_vars => Executed \subseteq Executed'
<1> SUFFICES ASSUME IInv, [Next]_vars PROVE Executed \subseteq Executed'
  OBVIOUS
<1>1. ASSUME NEW t, Runs(t)
      PROVE  Executed \subseteq Executed'
  BY <1>1 DEF Runs, TM!Succeed, TM!Fail, Executed
<1>2. CASE UNCHANGED managerVars
  BY <1>2 DEF managerVars, Executed
<1>3. CASE Turn
  BY <1>3 DEF Turn, Manager!StartPass, Manager!End, Manager!Wait, Executed
<1>4. CASE PassBarrier
  BY <1>1, <1>4, RunsAre DEF PassBarrier, Runs
<1>5. CASE \E k \in Tables, kind \in Kinds : Perform(k, kind)
  BY <1>1, <1>5, Performed
<1>6. QED
  BY <1>2, <1>3, <1>4, <1>5 DEF Next, vars, Disconnect

LEMMA NextStaged == IInv /\ StagedInv /\ [Next]_vars => StagedInv'
<1> SUFFICES ASSUME IInv, StagedInv, [Next]_vars, NEW l \in Tables, staged'[l] # "none"
             PROVE  Task(l, "unload") \in Executed'
  BY DEF StagedInv
<1>1. CASE staged'[l] = staged[l]
  BY <1>1, ExecutedGrows DEF StagedInv
<1>2. CASE Unload(Task(l, "unload"), l) /\ Runs(Task(l, "unload"))
  BY <1>2, RunsWhen DEF IInv, Executed
<1>3. CASE Cleanup(Task(l, "cleanup"), l) /\ Runs(Task(l, "cleanup"))
  <2>1. staged[l] # "none"
    BY <1>3 DEF Cleanup, AfterDelete, IInv, WorldOK, worldVars
  <2>2. QED
    BY <2>1, ExecutedGrows DEF StagedInv
<1>4. QED
  BY <1>1, <1>2, <1>3, StagedBy

LEMMA InitStaged == Init => StagedInv
BY DEF Init, StagedInv

\* A test for a table and a creation wait for the tests of the connections.
LEMMA ResourceTestsWait ==
  ASSUME NEW c, NEW t \in TasksOf(c, ResourceTests)
  PROVE  PlanOf(c)[t] = {ClusterBarrier}
<1>1. PICK k \in Tables, kind \in ResourceTests \cap KindsOf(c) : t = Task(k, kind)
  BY DEF TasksOf
<1>2. kind \in Kinds /\ DependsOn(c, k, kind) = {ClusterBarrier}
  BY DependsOnWhat DEF ResourceTests, Kinds
<1>3. t \in PlanTasks(c)
  BY <1>1, <1>2 DEF PlanTasks, TasksOf
<1>4. QED
  BY <1>1, <1>2, <1>3, PlanEntries

\* With failOnError nothing is unloaded for any table before the tests for tables
\* and the creations of all tables have succeeded, nor, where there is one of
\* these, before the tests of the connections have: an executed unload has the
\* barrier behind it, and executed tasks have only successes behind them.
THEOREM TestsComeFirst == Spec => []NothingMovesBeforeTests
<1>1. IInv /\ StagedInv => NothingMovesBeforeTests
  <2> SUFFICES ASSUME IInv, StagedInv, failOnError, NEW k \in Tables, staged[k] # "none"
               PROVE  /\ TasksOf(config, ResourceTests) \subseteq succeeded
                      /\ TasksOf(config, ResourceTests) # {} =>
                           TasksOf(config, ClusterTests) \subseteq succeeded
    BY DEF NothingMovesBeforeTests
  <2>1. ResourceBarrier \in Executed
    BY Chain, ExecutedClosed DEF StagedInv
  <2>2. plan[ResourceBarrier] \subseteq succeeded
    BY <2>1 DEF IInv, ManagerInv, TM!NoFailureYet, TM!Completed, Executed
  <2>3. TasksOf(config, ResourceTests) \subseteq succeeded
    BY <2>2, PlanEntries DEF IInv, ConfigOK
  <2>4. ASSUME NEW t \in TasksOf(config, ResourceTests)
        PROVE  TasksOf(config, ClusterTests) \subseteq succeeded
    <3>1. PlanOf(config)[t] = {ClusterBarrier}
      BY <2>4, ResourceTestsWait
    <3>2. ClusterBarrier \in Executed
      BY <2>3, <3>1, ExecutedClosed DEF Executed
    <3>3. plan[ClusterBarrier] \subseteq succeeded
      BY <3>2 DEF IInv, ManagerInv, TM!NoFailureYet, TM!Completed, Executed
    <3>4. QED
      BY <3>3, PlanEntries DEF IInv, ConfigOK
  <2>5. QED
    BY <2>3, <2>4
<1>2. QED
  BY <1>1, InitIInv, NextIInv, InitStaged, NextStaged, PTL DEF Spec

\* With failOnError what is staged for a table is removed only once the target
\* has loaded it: its unload does not run twice, and its cleanup runs only when
\* its copy has succeeded.
THEOREM CleanupAfterCopy == Spec => DeletedAfterCopy
<1> DEFINE Step == \A k \in Tables : failOnError /\ staged[k] = "full" /\ staged'[k] # "full" =>
                     Task(k, "copy") \in succeeded
<1>1. IInv /\ StagedInv /\ [Next]_vars => Step
  <2> SUFFICES ASSUME IInv, StagedInv, [Next]_vars, NEW k \in Tables,
                      failOnError, staged[k] = "full", staged'[k] # "full"
               PROVE  Task(k, "copy") \in succeeded
    OBVIOUS
  <2>1. Task(k, "unload") \in Executed
    BY DEF StagedInv
  <2>2. ~Runs(Task(k, "unload"))
    BY <2>1, RunsWhen DEF IInv, Executed
  <2>3. Runs(Task(k, "cleanup"))
    BY <2>2, StagedBy
  <2>4. PlanOf(config)[Task(k, "cleanup")] = {Task(k, "copy")}
    BY PlanEntries, AlwaysPlanned, DependsOnWhat DEF Kinds
  <2>5. QED
    BY <2>3, <2>4, RunsWhen DEF IInv, ConfigOK
<1>2. QED
  BY <1>1, InitIInv, NextIInv, InitStaged, NextStaged, PTL DEF Spec, DeletedAfterCopy

---------------------------------------------------------------------------
(* What the target of a table holds.                                       *)

\* The run goes on, or its sessions are still open.
Live == status = "running" \/ target # durable

\* The target is a new table: there was none, or it is dropped first.
Fresh(k) ==
  \/ durable[k] = "absent"
  \/ config.destinationTableAutoCreate /\ config.destinationTableForceDropCreate

Created(k) == config.destinationTableAutoCreate /\ Task(k, "create") \in Executed

Before(k) == Task(k, "copy") \notin Executed

DurableOld(k) == durable[k] \in {"absent", "old"}

NotYet(k) == Live /\ Before(k) /\ ~Created(k) => target[k] = durable[k]

Ready(k) ==
  Live /\ Before(k) /\ Created(k) /\ Task(k, "create") \in succeeded =>
    target[k] \in IF Fresh(k) THEN {"absent", "empty"} ELSE {"old"}

Loaded(k) ==
  /\ Live /\ Task(k, "copy") \in succeeded
  /\ config.destinationTableAutoCreate => Task(k, "create") \in succeeded
  => target[k] = IF Fresh(k) THEN "data" ELSE "oldAndData"

\* What may be staged for a table that was cleaned up.
Remains(k) == {"none", "left"} \cup (IF k \in LargeTables THEN {"part"} ELSE {})

Cleaned(k) ==
  Task(k, "cleanup") \in succeeded /\ config.deleteOnSuccess => staged[k] \in Remains(k)

TargetOK(k) == DurableOld(k) /\ NotYet(k) /\ Ready(k) /\ Loaded(k) /\ Cleaned(k)

TargetInv == \A k \in Tables : TargetOK(k)

LEMMA InitTarget == Init => TargetInv
<1> SUFFICES ASSUME Init, NEW k \in Tables PROVE TargetOK(k)
  BY DEF TargetInv
<1>1. succeeded = {} /\ failed = {}
  BY DEF Init, Manager!Init
<1>2. DurableOld(k) /\ NotYet(k)
  BY DEF Init, DurableOld, NotYet
<1>3. Ready(k) /\ Loaded(k) /\ Cleaned(k)
  BY <1>1 DEF Ready, Loaded, Cleaned
<1>4. QED
  BY <1>2, <1>3 DEF TargetOK

\* A step runs one task of one table, or none that belongs to a table.
LEMMA WhatRuns ==
  ASSUME IInv, [Next]_vars
  PROVE  \/ /\ UNCHANGED worldVars /\ (status' = "running" => status = "running")
            /\ \A k \in Tables, kind \in Kinds :
                 /\ Task(k, kind) \in succeeded' <=> Task(k, kind) \in succeeded
                 /\ Task(k, kind) \in Executed' <=> Task(k, kind) \in Executed
         \/ Disconnect
         \/ \E k \in Tables, kind \in Kinds : Perform(k, kind) /\ Runs(Task(k, kind))
<1>1. CASE UNCHANGED vars
  BY <1>1 DEF vars, managerVars, worldVars, Executed
<1>2. CASE Turn
  <2>1. status' = "running" => status = "running"
    BY <1>2 DEF Turn, Manager!StartPass, Manager!End, Manager!Wait, Manager!Turn
  <2>2. QED
    BY <1>2, <2>1 DEF Turn, Manager!StartPass, Manager!End, Manager!Wait, Executed
<1>3. CASE PassBarrier
  <2>1. PICK b \in {ClusterBarrier, ResourceBarrier} : TM!Succeed(b) /\ UNCHANGED worldVars
    BY <1>3, RunsAre DEF PassBarrier
  <2>2. succeeded' = succeeded \cup {b} /\ failed' = failed /\ status' = status
    BY <2>1 DEF TM!Succeed
  <2>3. QED
    BY <2>1, <2>2, TaskNumbers DEF Executed
<1>4. QED
  BY <1>1, <1>2, <1>3, Performed DEF Next

\* Only the creation and the copy of a table touch its target.
LEMMA TargetBy ==
  ASSUME IInv, NEW k \in Tables, NEW kind \in Kinds, Perform(k, kind), NEW l \in Tables,
         l # k \/ kind \notin {"create", "copy"}
  PROVE  target'[l] = target[l] /\ durable' = durable
<1>1. UNCHANGED durable
  BY Performed DEF CreateTarget, Unload, Copy, Cleanup, Kinds, worldVars
<1>2. CASE kind = "create"
  <2>1. l # k /\ CreateTarget(Task(k, kind), k)
    BY <1>2, Performed
  <2>2. QED
    BY <1>1, <2>1 DEF CreateTarget, IInv, WorldOK
<1>3. CASE kind = "copy"
  <2>1. l # k /\ Copy(Task(k, kind), k)
    BY <1>3, Performed
  <2>2. QED
    BY <1>1, <2>1 DEF Copy, IInv, WorldOK
<1>4. CASE kind \notin {"create", "copy"}
  BY <1>1, <1>4, Performed DEF Unload, Cleanup, Kinds, worldVars
<1>5. QED
  BY <1>2, <1>3, <1>4

\* The same for what is staged.
LEMMA StagedOnly ==
  ASSUME IInv, NEW k \in Tables, NEW kind \in Kinds, Perform(k, kind), NEW l \in Tables,
         l # k \/ kind \notin {"unload", "cleanup"}
  PROVE  staged'[l] = staged[l]
<1>1. CASE kind = "unload"
  <2>1. l # k /\ Unload(Task(k, kind), k)
    BY <1>1, Performed
  <2>2. QED
    BY <2>1 DEF Unload, IInv, WorldOK
<1>2. CASE kind = "cleanup"
  <2>1. l # k /\ Cleanup(Task(k, kind), k)
    BY <1>2, Performed
  <2>2. QED
    BY <2>1 DEF Cleanup, IInv, WorldOK, worldVars
<1>3. CASE kind \notin {"unload", "cleanup"}
  BY <1>3, Performed DEF CreateTarget, Copy, Kinds
<1>4. QED
  BY <1>1, <1>2, <1>3

\* A task that is run is the only one whose outcome the step decides.
LEMMA OneRuns ==
  ASSUME IInv, [Next]_vars, NEW k \in Tables, NEW kind \in Kinds, Runs(Task(k, kind))
  PROVE  /\ Live /\ UNCHANGED config
         /\ Task(k, kind) \in PlanTasks(config) /\ Task(k, kind) \notin Executed
         /\ PlanOf(config)[Task(k, kind)] \subseteq Executed
         /\ Task(k, kind) \in Executed'
         /\ \A l \in Tables, other \in Kinds :
              l # k \/ other # kind =>
                /\ Task(l, other) \in Executed' <=> Task(l, other) \in Executed
                /\ Task(l, other) \in succeeded' <=> Task(l, other) \in succeeded
<1> DEFINE t == Task(k, kind)
<1>1. /\ status = "running" /\ t \in DOMAIN plan /\ t \notin Executed
      /\ plan[t] \subseteq Executed /\ plan = PlanOf(config)
      /\ succeeded' \subseteq succeeded \cup {t} /\ succeeded \subseteq succeeded'
      /\ Executed' = Executed \cup {t}
  BY RunsWhen DEF IInv, ConfigOK, Executed
<1>2. ASSUME NEW l \in Tables, NEW other \in Kinds, l # k \/ other # kind
      PROVE  Task(l, other) # t
  BY <1>2, TasksDiffer
<1>3. QED
  BY <1>1, <1>2, Kept, PlanEntries DEF Live

LEMMA SuccessIsExecuted == succeeded \subseteq Executed
BY DEF Executed

LEMMA OtherTasks ==
  ASSUME IInv, TargetInv, [Next]_vars, NEW l \in Tables,
         NEW k \in Tables, NEW kind \in Kinds, Perform(k, kind),
         l # k \/ kind \notin {"create", "copy", "cleanup"}
  PROVE  TargetOK(l)'
<1>1. Runs(Task(k, kind))
  BY Performed
<1>2. /\ Live /\ UNCHANGED config
      /\ \A other \in {"create", "copy", "cleanup"} :
           /\ Task(l, other) \in Executed' <=> Task(l, other) \in Executed
           /\ Task(l, other) \in succeeded' <=> Task(l, other) \in succeeded
  BY <1>1, OneRuns DEF Kinds
<1>3. target'[l] = target[l] /\ durable' = durable
  BY TargetBy
<1>4. TargetOK(l)
  BY DEF TargetInv
<1>5. /\ Created(l)' <=> Created(l)
      /\ Before(l)' <=> Before(l)
      /\ Fresh(l)' <=> Fresh(l)
  BY <1>2, <1>3 DEF Created, Before, Fresh
<1>6. DurableOld(l)' /\ NotYet(l)'
  BY <1>2, <1>3, <1>4, <1>5 DEF TargetOK, DurableOld, NotYet
<1>7. Ready(l)' /\ Loaded(l)'
  BY <1>2, <1>3, <1>4, <1>5 DEF TargetOK, Ready, Loaded
<1>8. Cleaned(l)'
  <2> SUFFICES ASSUME Task(l, "cleanup") \in succeeded, config.deleteOnSuccess
               PROVE  staged'[l] \in Remains(l)
    BY <1>2 DEF Cleaned, Remains
  <2>1. staged[l] \in Remains(l)
    BY <1>4 DEF TargetOK, Cleaned
  <2>2. l # k \/ kind # "unload"
    BY <1>1, Chain, ExecutedClosed, SuccessIsExecuted, OneRuns
  <2>3. QED
    BY <2>1, <2>2, StagedOnly
<1>9. QED
  BY <1>6, <1>7, <1>8 DEF TargetOK

LEMMA OwnCreate ==
  ASSUME IInv, TargetInv, [Next]_vars, NEW k \in Tables, Perform(k, "create")
  PROVE  TargetOK(k)'
<1> DEFINE t == Task(k, "create")
<1> "create" \in Kinds /\ "copy" \in Kinds /\ "cleanup" \in Kinds /\ "unload" \in Kinds
  BY DEF Kinds
<1>1. Runs(t) /\ CreateTarget(t, k)
  BY Performed
<1>2. /\ Live /\ UNCHANGED config /\ t \notin Executed /\ t \in Executed'
      /\ config.destinationTableAutoCreate
      /\ \A other \in {"copy", "cleanup"} :
           /\ Task(k, other) \in Executed' <=> Task(k, other) \in Executed
           /\ Task(k, other) \in succeeded' <=> Task(k, other) \in succeeded
  BY <1>1, OneRuns, CreatePlanned DEF PlannedFor
<1>3. Before(k)
  BY <1>2, Chain, ExecutedClosed, CreatePlanned DEF Before
<1>4. TargetOK(k) /\ target[k] = durable[k] /\ durable[k] \in {"absent", "old"}
  BY <1>2, <1>3 DEF TargetInv, TargetOK, NotYet, Created, DurableOld
<1>5. durable' = durable /\ staged' = staged /\ (Fresh(k)' <=> Fresh(k))
  BY <1>1, <1>2 DEF CreateTarget, Fresh
<1>6. DurableOld(k)' /\ NotYet(k)' /\ Loaded(k)' /\ Cleaned(k)'
  BY <1>2, <1>3, <1>4, <1>5, SuccessIsExecuted
  DEF TargetOK, DurableOld, NotYet, Loaded, Cleaned, Created, Before
<1>7. Ready(k)'
  <2> SUFFICES ASSUME t \in succeeded'
               PROVE  target'[k] \in IF Fresh(k) THEN {"absent", "empty"} ELSE {"old"}
    BY <1>2, <1>5 DEF Ready
  <2>1. ~TM!Fail(t)
    BY <1>2, SuccessIsExecuted DEF TM!Fail
  <2> DEFINE dropped == config.destinationTableForceDropCreate \/ target[k] = "absent"
  <2>2. target' = IF dropped
                  THEN [target EXCEPT ![k] = IF k \in present THEN "empty" ELSE "absent"]
                  ELSE target
    BY <1>1, <2>1, RunsAre DEF CreateTarget
  <2>3. dropped <=> Fresh(k)
    BY <1>2, <1>4 DEF Fresh
  <2>4. QED
    BY <1>4, <2>2, <2>3 DEF IInv, WorldOK, Fresh
<1>8. QED
  BY <1>6, <1>7 DEF TargetOK

LEMMA OwnCopy ==
  ASSUME IInv, TargetInv, [Next]_vars, NEW k \in Tables, Perform(k, "copy")
  PROVE  TargetOK(k)'
<1> DEFINE t == Task(k, "copy")
<1> "create" \in Kinds /\ "copy" \in Kinds /\ "cleanup" \in Kinds /\ "unload" \in Kinds
  BY DEF Kinds
<1>1. Runs(t) /\ Copy(t, k)
  BY Performed
<1>2. /\ Live /\ UNCHANGED config /\ t \notin Executed /\ t \in Executed'
      /\ PlanOf(config)[t] \subseteq Executed
      /\ \A other \in {"create", "cleanup"} :
           /\ Task(k, other) \in Executed' <=> Task(k, other) \in Executed
           /\ Task(k, other) \in succeeded' <=> Task(k, other) \in succeeded
  BY <1>1, OneRuns
<1>3. TargetOK(k) /\ Before(k)
  BY <1>2 DEF TargetInv, Before
<1>4. durable' = durable /\ staged' = staged /\ (Fresh(k)' <=> Fresh(k))
  BY <1>1, <1>2 DEF Copy, Fresh
<1>5. DurableOld(k)' /\ NotYet(k)' /\ Ready(k)' /\ Cleaned(k)'
  BY <1>2, <1>3, <1>4 DEF TargetOK, DurableOld, NotYet, Ready, Cleaned, Before
<1>6. Loaded(k)'
  <2> SUFFICES ASSUME t \in succeeded',
                      config.destinationTableAutoCreate => Task(k, "create") \in succeeded
               PROVE  target'[k] = IF Fresh(k) THEN "data" ELSE "oldAndData"
    BY <1>2, <1>4 DEF Loaded
  <2>1. ~TM!Fail(t)
    BY <1>2, SuccessIsExecuted DEF TM!Fail
  <2>2. /\ target[k] # "absent"
        /\ target' = [target EXCEPT ![k] = IF @ = "old" THEN "oldAndData" ELSE "data"]
    BY <1>1, <2>1, RunsAre DEF Copy
  <2>3. config.destinationTableAutoCreate => Created(k)
    BY SuccessIsExecuted DEF Created
  <2>4. target[k] = IF Fresh(k) THEN "empty" ELSE "old"
    <3>1. CASE config.destinationTableAutoCreate
      BY <1>2, <1>3, <2>2, <2>3, <3>1 DEF TargetOK, Ready
    <3>2. CASE ~config.destinationTableAutoCreate
      BY <1>2, <1>3, <2>2, <3>2 DEF TargetOK, DurableOld, NotYet, Created, Fresh
    <3>3. QED
      BY <3>1, <3>2
  <2>5. QED
    BY <2>2, <2>4 DEF IInv, WorldOK
<1>7. QED
  BY <1>5, <1>6 DEF TargetOK

LEMMA OwnCleanup ==
  ASSUME IInv, TargetInv, [Next]_vars, NEW k \in Tables, Perform(k, "cleanup")
  PROVE  TargetOK(k)'
<1> DEFINE t == Task(k, "cleanup")
<1> "create" \in Kinds /\ "copy" \in Kinds /\ "cleanup" \in Kinds
  BY DEF Kinds
<1>1. Runs(t) /\ Cleanup(t, k)
  BY Performed
<1>2. /\ Live /\ UNCHANGED config /\ t \notin Executed
      /\ \A other \in {"create", "copy"} :
           /\ Task(k, other) \in Executed' <=> Task(k, other) \in Executed
           /\ Task(k, other) \in succeeded' <=> Task(k, other) \in succeeded
  BY <1>1, OneRuns
<1>3. TargetOK(k)
  BY DEF TargetInv
<1>4. UNCHANGED <<target, durable>>
  BY <1>1 DEF Cleanup, worldVars
<1>5. /\ Created(k)' <=> Created(k)
      /\ Before(k)' <=> Before(k)
      /\ Fresh(k)' <=> Fresh(k)
  BY <1>2, <1>4 DEF Created, Before, Fresh
<1>6. DurableOld(k)' /\ NotYet(k)' /\ Ready(k)' /\ Loaded(k)'
  BY <1>2, <1>3, <1>4, <1>5 DEF TargetOK, DurableOld, NotYet, Ready, Loaded
<1>7. Cleaned(k)'
  <2> SUFFICES ASSUME t \in succeeded', config.deleteOnSuccess
               PROVE  staged'[k] \in Remains(k)
    BY <1>2 DEF Cleaned, Remains
  <2>1. ~TM!Fail(t)
    BY <1>2, SuccessIsExecuted DEF TM!Fail
  <2>2. \E what \in AfterDelete(k) \cup {"left"} : staged' = [staged EXCEPT ![k] = what]
    BY <1>1, <1>2, <2>1, RunsAre DEF Cleanup
  <2>3. AfterDelete(k) \subseteq Remains(k)
    BY DEF AfterDelete, Remains, IInv, WorldOK
  <2>4. QED
    BY <2>2, <2>3 DEF IInv, WorldOK, Remains
<1>8. QED
  BY <1>6, <1>7 DEF TargetOK

LEMMA NextTarget == IInv /\ TargetInv /\ [Next]_vars => TargetInv'
<1> SUFFICES ASSUME IInv, TargetInv, [Next]_vars, NEW l \in Tables PROVE TargetOK(l)'
  BY DEF TargetInv
<1>0. TargetOK(l) /\ UNCHANGED config
  BY Kept DEF TargetInv
<1>1. ASSUME UNCHANGED worldVars, status' = "running" => status = "running",
             \A kind \in Kinds :
               /\ Task(l, kind) \in succeeded' <=> Task(l, kind) \in succeeded
               /\ Task(l, kind) \in Executed' <=> Task(l, kind) \in Executed
      PROVE  TargetOK(l)'
  <2>1. /\ UNCHANGED <<target, durable, staged>> /\ (Live' => Live)
        /\ \A kind \in {"create", "copy", "cleanup"} :
             /\ Task(l, kind) \in succeeded' <=> Task(l, kind) \in succeeded
             /\ Task(l, kind) \in Executed' <=> Task(l, kind) \in Executed
    BY <1>1 DEF worldVars, Live, Kinds
  <2>2. /\ Created(l)' <=> Created(l)
        /\ Before(l)' <=> Before(l)
        /\ Fresh(l)' <=> Fresh(l)
    BY <1>0, <2>1 DEF Created, Before, Fresh
  <2>3. QED
    BY <1>0, <2>1, <2>2 DEF TargetOK, DurableOld, NotYet, Ready, Loaded, Cleaned
<1>2. CASE Disconnect
  <2>1. ~Live' /\ UNCHANGED <<durable, staged, succeeded>>
    BY <1>2 DEF Disconnect, managerVars, Live
  <2>2. QED
    BY <1>0, <2>1 DEF TargetOK, DurableOld, NotYet, Ready, Loaded, Cleaned
<1>3. ASSUME NEW k \in Tables, NEW kind \in Kinds, Perform(k, kind)
      PROVE  TargetOK(l)'
  <2>1. CASE l # k \/ kind \notin {"create", "copy", "cleanup"}
    BY <1>3, <2>1, OtherTasks
  <2>2. CASE l = k /\ kind \in {"create", "copy", "cleanup"}
    BY <1>3, <2>2, OwnCreate, OwnCopy, OwnCleanup
  <2>3. QED
    BY <2>1, <2>2
<1>4. QED
  BY <1>1, <1>2, <1>3, WhatRuns

\* Whatever becomes of the other tables, a table whose tasks have all succeeded
\* is loaded: as long as its session is open, which sees what was not committed.
THEOREM LoadedCorrect == Spec => []SuccessMeansLoaded
<1>1. TargetInv => SuccessMeansLoaded
  <2> SUFFICES ASSUME TargetInv, NEW k \in Tables, target # durable,
                      {Task(k, kind) : kind \in KindsOf(config)} \subseteq succeeded
               PROVE  /\ target[k] = IF Fresh(k) THEN "data" ELSE "oldAndData"
                      /\ config.deleteOnSuccess => staged[k] \in Remains(k)
    BY DEF SuccessMeansLoaded, Fresh, Remains
  <2>1. /\ Task(k, "copy") \in succeeded /\ Task(k, "cleanup") \in succeeded
        /\ config.destinationTableAutoCreate => Task(k, "create") \in succeeded
    BY DEF KindsOf
  <2>2. QED
    BY <2>1 DEF TargetInv, TargetOK, Loaded, Cleaned, Live
<1>2. QED
  BY <1>1, InitIInv, NextIInv, InitTarget, NextTarget, PTL DEF Spec

===========================================================================

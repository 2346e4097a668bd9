----------------------------- MODULE UnloadCopy -----------------------------
(***************************************************************************)
(* The Unload/Copy Utility (UnloadCopyUtility/redshift_unload_copy.py):    *)
(* the plan it builds for a list of tables and a configuration, run by the *)
(* task manager (module TaskManager), and what its tasks do to the target  *)
(* tables and to the staging area on S3.                                   *)
(*                                                                         *)
(* Every table has a source and a target session of its own (a             *)
(* RedshiftCluster object each).  A session is one database transaction:   *)
(* redshift_connector opens it with the first statement, a statement that  *)
(* fails aborts it, and whatever is not committed when it closes is lost.  *)
(***************************************************************************)
EXTENDS Naturals, FiniteSets

CONSTANTS
  NumTables,    \* length of tableNames
  LargeTables,  \* the tables that are unloaded into more objects than S3 lists at once
  Configs,      \* the configuration parameters a run may have, but for failOnError
  MaxFaults     \* bound on statements that fail for no reason of ours

ASSUME UnloadCopyAssumption ==
  /\ NumTables \in Nat \ {0} /\ MaxFaults \in Nat /\ LargeTables \subseteq 1 .. NumTables
  /\ Configs \subseteq [connectionPreTest : BOOLEAN, destinationTablePreTest : BOOLEAN,
                        sourceTablePreTest : BOOLEAN, destinationTableAutoCreate : BOOLEAN,
                        destinationTableForceDropCreate : BOOLEAN, deleteOnSuccess : BOOLEAN]

Tables == 1 .. NumTables

---------------------------------------------------------------------------
(* The plan: UnloadCopyTool.__init__() and add_table_migration().          *)

ClusterBarrier == 1
ResourceBarrier == 2

Kinds == {"testTarget", "testSource", "targetPresent", "sourcePresent",
          "create", "unload", "copy", "cleanup"}

\* Tasks are numbered as they are added: the barriers, then table by table.
Slot == [testTarget |-> 1, testSource |-> 2, targetPresent |-> 3, sourcePresent |-> 4,
         create |-> 5, unload |-> 6, copy |-> 7, cleanup |-> 8]
Task(k, kind) == 2 + 8 * (k - 1) + Slot[kind]

\* A target that can be created needs no test for the table, only for its cluster.
KindsOf(c) ==
  {"unload", "copy", "cleanup"}
    \cup (IF \/ c.connectionPreTest /\ ~c.destinationTablePreTest
             \/ c.destinationTablePreTest /\ c.destinationTableAutoCreate
          THEN {"testTarget"} ELSE {})
    \cup (IF c.connectionPreTest /\ ~c.sourceTablePreTest THEN {"testSource"} ELSE {})
    \cup (IF c.destinationTablePreTest /\ ~c.destinationTableAutoCreate
          THEN {"targetPresent"} ELSE {})
    \cup (IF c.sourceTablePreTest THEN {"sourcePresent"} ELSE {})
    \cup (IF c.destinationTableAutoCreate THEN {"create"} ELSE {})

ClusterTests == {"testTarget", "testSource"}
ResourceTests == {"targetPresent", "sourcePresent", "create"}

TasksOf(c, kinds) == {Task(k, kind) : k \in Tables, kind \in kinds \cap KindsOf(c)}

\* Mutant: the unload does not wait for the tests of the other tables.
MutDependsOnLate(c, k, kind) ==
  CASE kind \in ClusterTests -> {}
    [] kind \in ResourceTests -> {ClusterBarrier}
    [] kind = "unload" -> {ClusterBarrier}
    [] kind = "copy" -> {Task(k, "unload")}
    [] kind = "cleanup" -> {Task(k, "copy")}

\* Mutant: the staging area is cleaned once the data has been unloaded.
MutDependsOnCleanup(c, k, kind) ==
  CASE kind \in ClusterTests -> {}
    [] kind \in ResourceTests -> {ClusterBarrier}
    [] kind = "unload" -> {ResourceBarrier}
    [] kind = "copy" -> {Task(k, "cleanup")}
    [] kind = "cleanup" -> {Task(k, "unload")}

DependsOn(c, k, kind) ==
  CASE kind \in ClusterTests -> {}
    [] kind \in ResourceTests -> {ClusterBarrier}
    [] kind = "unload" -> {ResourceBarrier}
    [] kind = "copy" -> {Task(k, "unload")}
    [] kind = "cleanup" -> {Task(k, "copy")}

PlanOf(c) ==
  [t \in {ClusterBarrier, ResourceBarrier} \cup TasksOf(c, Kinds) |->
     CASE t = ClusterBarrier -> TasksOf(c, ClusterTests)
       [] t = ResourceBarrier -> TasksOf(c, ResourceTests)
       [] OTHER -> UNION {DependsOn(c, x[1], x[2]) :
                            x \in {y \in Tables \X Kinds : Task(y[1], y[2]) = t}}]

UtilityPlans == {PlanOf(c) : c \in Configs}

---------------------------------------------------------------------------
VARIABLES failOnError, plan, tasks, deps, todo, hasFailed, succeeded, failed, status

Manager == INSTANCE TaskManager WITH Plans <- UtilityPlans

VARIABLES
  config,    \* the configuration of this run
  present,   \* the tables that exist in the source database
  target,    \* the target tables as the utility's sessions see them
  durable,   \* the target tables as everybody else sees them
  staged,    \* what the staging area of a table holds
  aborted,   \* sessions whose transaction is aborted
  faults     \* statements that failed for no reason of ours so far

managerVars == <<failOnError, plan, tasks, deps, todo, hasFailed, succeeded, failed, status>>
worldVars == <<target, durable, staged, aborted, faults>>
vars == <<managerVars, config, present, worldVars>>

Contents == {"absent", "empty", "old", "data", "oldAndData"}

Init ==
  /\ config \in Configs
  /\ Manager!Init /\ plan = PlanOf(config)
  /\ present \in SUBSET Tables
  /\ target \in [Tables -> {"absent", "old"}] /\ durable = target
  /\ staged = [k \in Tables |-> "none"]
  /\ aborted = {} /\ faults = 0

---------------------------------------------------------------------------
(* What the tasks do.                                                      *)

Usable(side, k) == <<side, k>> \notin aborted

\* A statement or the connection of a session fails, or it was aborted before.
SessionFails(side, k) ==
  \/ ~Usable(side, k) /\ UNCHANGED <<aborted, faults>>
  \/ /\ faults < MaxFaults /\ faults' = faults + 1
     /\ aborted' \in {aborted, aborted \cup {<<side, k>>}}

TestCluster(t, side, k) ==
  \/ Manager!Succeed(t) /\ Usable(side, k) /\ UNCHANGED worldVars
  \/ Manager!Fail(t) /\ SessionFails(side, k) /\ UNCHANGED <<target, durable, staged>>

\* FailIfResourceDoesNotExistsTask for the table of one side.
TestPresent(t, side, k, there) ==
  \/ Manager!Succeed(t) /\ Usable(side, k) /\ there /\ UNCHANGED worldVars
  \/ Manager!Fail(t) /\ Usable(side, k) /\ ~there /\ UNCHANGED worldVars
  \/ Manager!Fail(t) /\ SessionFails(side, k) /\ UNCHANGED <<target, durable, staged>>

\* Mutant: only a target that is not there is created, forced or not.
MutCreateKeeps(t, k) ==
  /\ Manager!Succeed(t) /\ Usable("target", k) /\ Usable("source", k)
  /\ target' = IF target[k] = "absent" THEN [target EXCEPT ![k] = "empty"] ELSE target
  /\ UNCHANGED <<durable, staged, aborted, faults>>

\* CreateIfTargetDoesNotExistTask: drop when forced, then create what is not
\* there with the definition read from the source.  Without a source table the
\* definition is empty text: it is refused, or executed without any effect.
CreateTarget(t, k) ==
  LET dropped == config.destinationTableForceDropCreate \/ target[k] = "absent"
      after(what) == target' = IF dropped THEN [target EXCEPT ![k] = what] ELSE target
  IN \/ /\ Manager!Succeed(t) /\ Usable("target", k)
        /\ dropped => Usable("source", k)
        /\ after(IF k \in present THEN "empty" ELSE "absent")
        /\ UNCHANGED <<durable, staged, aborted, faults>>
     \/ /\ Manager!Fail(t) /\ Usable("target", k)
        /\ dropped /\ after("absent")
        /\ \/ k \notin present /\ UNCHANGED <<aborted, faults>>
           \/ SessionFails("source", k)
        /\ UNCHANGED <<durable, staged>>
     \/ Manager!Fail(t) /\ SessionFails("target", k) /\ UNCHANGED <<target, durable, staged>>

\* UNLOAD writes its manifest last: it is complete or it cannot be copied.
Unload(t, k) ==
  \/ /\ Manager!Succeed(t) /\ Usable("source", k) /\ k \in present
     /\ staged' = [staged EXCEPT ![k] = "full"]
     /\ UNCHANGED <<target, durable, aborted, faults>>
  \/ /\ Manager!Fail(t) /\ Usable("source", k) /\ k \notin present
     /\ aborted' = aborted \cup {<<"source", k>>}
     /\ UNCHANGED <<target, durable, staged, faults>>
  \/ /\ Manager!Fail(t) /\ SessionFails("source", k)
     /\ staged' \in {staged, [staged EXCEPT ![k] = "part"]}
     /\ UNCHANGED <<target, durable>>

Copy(t, k) ==
  LET loadable == staged[k] = "full" /\ target[k] # "absent"
  IN \/ /\ Manager!Succeed(t) /\ Usable("target", k) /\ loadable
        /\ target' = [target EXCEPT ![k] = IF @ = "old" THEN "oldAndData" ELSE "data"]
        /\ UNCHANGED <<durable, staged, aborted, faults>>
     \/ /\ Manager!Fail(t) /\ Usable("target", k) /\ ~loadable
        /\ aborted' = aborted \cup {<<"target", k>>}
        /\ UNCHANGED <<target, durable, staged, faults>>
     \/ Manager!Fail(t) /\ SessionFails("target", k) /\ UNCHANGED <<target, durable, staged>>

\* What delete_s3_prefix() leaves of the staging area of a table, whose prefix is
\* its own: it lists the prefix once, and S3 lists a thousand keys at most.
\* Mutant: keys are deleted only when a thousand of them have been collected.
MutAfterDelete(k) == IF k \in LargeTables /\ staged[k] = "full" THEN {"part"} ELSE {staged[k]}

AfterDelete(k) ==
  IF k \notin LargeTables THEN {"none"}
  ELSE IF staged[k] = "full" THEN {"part"} ELSE {staged[k], "none"}

\* CleanupS3StagingAreaTask.  Keys that S3 refuses to delete are named in the
\* answer of delete_objects(), which nobody reads: they are "left".  A call that
\* raises does so after some deletions or before.
Cleanup(t, k) ==
  \/ Manager!Succeed(t) /\ ~config.deleteOnSuccess /\ UNCHANGED worldVars
  \/ /\ Manager!Succeed(t) /\ config.deleteOnSuccess
     /\ \E what \in AfterDelete(k) : staged' = [staged EXCEPT ![k] = what]
     /\ UNCHANGED <<target, durable, aborted, faults>>
  \/ /\ Manager!Succeed(t) /\ config.deleteOnSuccess /\ staged[k] # "none"
     /\ faults < MaxFaults /\ faults' = faults + 1
     /\ staged' = [staged EXCEPT ![k] = "left"]
     /\ UNCHANGED <<target, durable, aborted>>
  \/ /\ Manager!Fail(t) /\ config.deleteOnSuccess
     /\ faults < MaxFaults /\ faults' = faults + 1
     /\ staged' \in {staged, [staged EXCEPT ![k] = IF @ = "none" THEN @ ELSE "part"]}
     /\ UNCHANGED <<target, durable, aborted>>

Perform(k, kind) ==
  LET t == Task(k, kind)
  IN CASE kind = "testTarget" -> TestCluster(t, "target", k)
       [] kind = "testSource" -> TestCluster(t, "source", k)
       [] kind = "targetPresent" -> TestPresent(t, "target", k, target[k] # "absent")
       [] kind = "sourcePresent" -> TestPresent(t, "source", k, k \in present)
       [] kind = "create" -> CreateTarget(t, k)
       [] kind = "unload" -> Unload(t, k)
       [] kind = "copy" -> Copy(t, k)
       [] kind = "cleanup" -> Cleanup(t, k)

---------------------------------------------------------------------------
\* NoOperationTask
PassBarrier == \E b \in {ClusterBarrier, ResourceBarrier} :
  Manager!Succeed(b) /\ UNCHANGED worldVars

\* Going over the tasks: passes begin, tasks wait, run() returns.
Turn ==
  /\ Manager!StartPass \/ Manager!End \/ \E t \in todo : Manager!Wait(t)
  /\ UNCHANGED worldVars

\* The process is over and its sessions are closed.  The statements were not
\* committed: execute_update() does not, and autocommit is off.
Disconnect ==
  /\ status # "running" /\ target # durable
  /\ target' = durable
  /\ UNCHANGED <<managerVars, durable, staged, aborted, faults>>

Next ==
  /\ Turn \/ PassBarrier \/ Disconnect \/ \E k \in Tables, kind \in Kinds : Perform(k, kind)
  /\ UNCHANGED <<config, present, failOnError>>

Spec == Init /\ [][Next]_vars

---------------------------------------------------------------------------
(* Properties.                                                             *)

TypeOK ==
  /\ config \in Configs /\ plan = PlanOf(config) /\ Manager!TypeOK
  /\ present \in SUBSET Tables
  /\ target \in [Tables -> Contents] /\ durable \in [Tables -> Contents]
  /\ staged \in [Tables -> {"none", "part", "full", "left"}]
  /\ aborted \in SUBSET ({"source", "target"} \X Tables)
  /\ faults \in 0 .. MaxFaults

\* With failOnError no data is moved for any table before every test for a table
\* and every creation, of that table and of all the others, has succeeded; and,
\* where there is any of these, before every test of a connection has.  A plan
\* with tests of connections only has nothing between them and the unloads: the
\* data of one table may move before the connection of another is tested.
NothingMovesBeforeTests ==
  failOnError /\ (\E k \in Tables : staged[k] # "none") =>
    /\ TasksOf(config, ResourceTests) \subseteq succeeded
    /\ TasksOf(config, ResourceTests) # {} => TasksOf(config, ClusterTests) \subseteq succeeded

\* With failOnError the staged copy of a table is removed only after the target
\* has loaded it.
DeletedAfterCopy ==
  [][\A k \in Tables : failOnError /\ staged[k] = "full" /\ staged'[k] # "full" =>
       Task(k, "copy") \in succeeded]_vars

\* When all tasks of a table have succeeded, whatever happened to the others, its
\* session sees all the data in the target, on top of the old rows only if the
\* table was kept.  A staging area that was to be deleted is empty, but for keys
\* whose deletion S3 refused and, after a large unload, those it did not list.
SuccessMeansLoaded ==
  \A k \in Tables :
    {Task(k, kind) : kind \in KindsOf(config)} \subseteq succeeded /\ target # durable =>
      /\ target[k] = IF durable[k] = "absent" \/ (config.destinationTableAutoCreate /\
                          config.destinationTableForceDropCreate)
                     THEN "data" ELSE "oldAndData"
      /\ config.deleteOnSuccess =>
           staged[k] \in {"none", "left"} \cup (IF k \in LargeTables THEN {"part"} ELSE {})

---------------------------------------------------------------------------
(* What the docs say, and the code does not do.                            *)

\* README.md:3 "It then automatically imports the data in FULL into the
\* configured Redshift Cluster".
ImportsInFull ==
  status = "ended" /\ failed = {} /\ target = durable =>
    \A k \in Tables : durable[k] \in {"data", "oldAndData"}
=============================================================================

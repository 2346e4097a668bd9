---------------------------- MODULE TaskManager ----------------------------
(***************************************************************************)
(* The task manager of the Unload/Copy Utility (UnloadCopyUtility/util/    *)
(* tasks.py): tasks that depend on each other are run one after the other, *)
(* in passes over the tasks that are left, until none is left or, with     *)
(* failOnError, until the first one fails.                                 *)
(*                                                                         *)
(* A plan gives every task the set of tasks it depends on.  Tasks are      *)
(* numbered in the order of add_task(), which is the order of a pass.      *)
(* Whether execute() raises is left open here; module UnloadCopy says what *)
(* the tasks of the utility do.                                            *)
(***************************************************************************)
EXTENDS Naturals, FiniteSets

CONSTANT Plans  \* the plans a run may be started with

ASSUME PlanAssumption ==
  \A p \in Plans :
    /\ DOMAIN p \subseteq Nat /\ IsFiniteSet(DOMAIN p)
    /\ p \in [DOMAIN p -> SUBSET DOMAIN p]

VARIABLES
  failOnError, \* config_parameters['failOnError'], which no step changes
  plan,        \* the dependencies the tasks were added with
  tasks,       \* the tasks not executed yet
  deps,        \* the dependencies of every task not cleared yet
  todo,        \* tasks_clone of the current pass, without those visited
  hasFailed,   \* tasks with has_failed set
  succeeded,   \* completed_successfully_tasks
  failed,      \* completed_failed_tasks
  status       \* "running", "ended" (run() returned) or "exited" (sys.exit(2))

vars == <<failOnError, plan, tasks, deps, todo, hasFailed, succeeded, failed, status>>

Completed == succeeded \cup failed

Init ==
  /\ failOnError \in BOOLEAN
  /\ plan \in Plans
  /\ tasks = DOMAIN plan
  /\ deps = plan
  /\ todo = {} /\ hasFailed = {} /\ succeeded = {} /\ failed = {}
  /\ status = "running"

\* The next task of the pass.
Turn(t) ==
  /\ status = "running"
  /\ t \in todo /\ \A u \in todo : t <= u

\* Mutant: a failed dependency is never cleared.
MutUnmetKeepsFailed(t) == deps[t] \ succeeded

\* Dependencies that remove_fulfilled_dependencies() leaves.
Unmet(t) == deps[t] \ Completed

\* Mutant: has_failed is set when any task has failed.
MutClearAnyFailure(t) ==
  /\ deps' = [deps EXCEPT ![t] = Unmet(t)]
  /\ hasFailed' = IF failed # {} THEN hasFailed \cup {t} ELSE hasFailed

\* remove_fulfilled_dependencies(): the first thing done to every task visited.
ClearFulfilled(t) ==
  /\ deps' = [deps EXCEPT ![t] = Unmet(t)]
  /\ hasFailed' = IF deps[t] \cap failed # {} THEN hasFailed \cup {t} ELSE hasFailed

\* Mutant: a pass goes over the tasks the manager was given, done or not.
MutStartPassAll ==
  /\ status = "running" /\ todo = {} /\ tasks # {}
  /\ todo' = DOMAIN plan
  /\ UNCHANGED <<plan, tasks, deps, hasFailed, succeeded, failed, status>>

StartPass ==
  /\ status = "running" /\ todo = {} /\ tasks # {}
  /\ todo' = tasks
  /\ UNCHANGED <<plan, tasks, deps, hasFailed, succeeded, failed, status>>

\* A task with unmet dependencies waits for the next pass.
Wait(t) ==
  /\ Turn(t) /\ Unmet(t) # {}
  /\ ClearFulfilled(t)
  /\ todo' = todo \ {t}
  /\ UNCHANGED <<plan, tasks, succeeded, failed, status>>

\* Mutant: a task runs as soon as one of its dependencies has completed.
MutExecuteSome(t) ==
  /\ Turn(t) /\ (Unmet(t) = {} \/ Unmet(t) # deps[t])
  /\ ClearFulfilled(t)
  /\ tasks' = tasks \ {t}
  /\ todo' = todo \ {t}

\* What running a task has in common, whether execute() returns or raises.
Execute(t) ==
  /\ Turn(t) /\ Unmet(t) = {}
  /\ ClearFulfilled(t)
  /\ tasks' = tasks \ {t}
  /\ todo' = todo \ {t}

Succeed(t) ==
  /\ Execute(t)
  /\ succeeded' = succeeded \cup {t}
  /\ UNCHANGED <<plan, failed, status>>

\* Mutant: the task is not marked as failed.
MutFailUnmarked(t) ==
  /\ Execute(t)
  /\ status' = IF failOnError THEN "exited" ELSE status
  /\ UNCHANGED <<plan, succeeded, failed>>

\* Mutant: failOnError leaves the pass and not the program.
MutFailContinues(t) ==
  /\ Execute(t)
  /\ failed' = failed \cup {t}
  /\ UNCHANGED <<plan, succeeded, status>>

Fail(t) ==
  /\ Execute(t)
  /\ failed' = failed \cup {t}
  /\ status' = IF failOnError THEN "exited" ELSE status
  /\ UNCHANGED <<plan, succeeded>>

End ==
  /\ status = "running" /\ todo = {} /\ tasks = {}
  /\ status' = "ended"
  /\ UNCHANGED <<plan, tasks, deps, todo, hasFailed, succeeded, failed>>

Next ==
  /\ \/ StartPass \/ End
     \/ \E t \in todo : Wait(t) \/ Succeed(t) \/ Fail(t)
  /\ UNCHANGED failOnError

Spec == Init /\ [][Next]_vars

\* run() is one thread that keeps running; execute() returns or raises.
FairSpec == Spec /\ WF_vars(Next)

---------------------------------------------------------------------------
(* Properties.                                                             *)

TypeOK ==
  /\ failOnError \in BOOLEAN /\ plan \in Plans
  /\ tasks \in SUBSET DOMAIN plan /\ todo \in SUBSET tasks
  /\ deps \in [DOMAIN plan -> SUBSET DOMAIN plan]
  /\ hasFailed \in SUBSET DOMAIN plan
  /\ succeeded \in SUBSET DOMAIN plan /\ failed \in SUBSET DOMAIN plan
  /\ status \in {"running", "ended", "exited"}

\* Every task is in exactly one of the three dictionaries of the manager: none
\* is executed twice, none is dropped, and the two outcomes exclude each other.
OneOutcome ==
  /\ tasks \cap Completed = {} /\ succeeded \cap failed = {}
  /\ tasks \cup Completed = DOMAIN plan

\* A task is executed only after everything it was added to depend on has been
\* executed, in whatever order the tasks were added and the passes met them.
DependenciesFirst == \A t \in Completed : plan[t] \subseteq Completed

\* With failOnError a task is executed only if all it depends on succeeded, and
\* nothing at all is executed after the first failure.
StopsAtFailure ==
  failOnError =>
    /\ \A t \in Completed : plan[t] \subseteq succeeded
    /\ failed # {} => status = "exited" /\ Cardinality(failed) = 1

\* has_failed tells precisely which of the executed tasks had a failed
\* dependency.
FailureIsSeen ==
  \A t \in Completed : t \in hasFailed <=> plan[t] \cap failed # {}

\* What the manager says of its tasks is what became of them.
OutcomesAreTrue == OneOutcome /\ StopsAtFailure /\ FailureIsSeen

\* A plan without cycles is worked off: the loop of run() ends.
Terminates == <>(status # "running")
===========================================================================

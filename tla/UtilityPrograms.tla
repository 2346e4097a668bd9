--------------------------- MODULE UtilityPrograms ---------------------------
(***************************************************************************)
(* The utilities that run by themselves, side by side: each is a program   *)
(* of its own, started by hand, by cron or by a schedule, and none reads   *)
(* what another keeps.  Their steps interleave in any order.               *)
(***************************************************************************)
EXTENDS AnalyzeVacuum, SystemTables, WlmScheduler, LastLogin, QmrNotification,
        TableRestore, Automation

UtilitiesAssumption ==
  /\ AnalyzeVacuumAssumption /\ SystemTablesAssumption /\ WlmSchedulerAssumption
  /\ LastLoginAssumption /\ QmrNotificationAssumption /\ TableRestoreAssumption
  /\ AutomationAssumption

Programs == {"vacuum", "tables", "wlm", "login", "qmr", "restore", "lambda"}

allVars ==
  <<vacuumVars, tablesVars, wlmVars, loginVars, qmrVars, restoreVars, lambdaVars>>

Init ==
  /\ VacuumInit /\ TablesInit /\ WlmInit /\ LoginInit /\ QmrInit /\ RestoreInit
  /\ LambdaInit

StepOf(p) ==
  \/ p = "vacuum" /\ VacuumNext
  \/ p = "tables" /\ TablesNext
  \/ p = "wlm" /\ WlmNext
  \/ p = "login" /\ LoginNext
  \/ p = "qmr" /\ QmrNext
  \/ p = "restore" /\ RestoreNext
  \/ p = "lambda" /\ LambdaNext

\* All programs but p stay as they are.
Still(p) ==
  /\ p # "vacuum" => UNCHANGED vacuumVars
  /\ p # "tables" => UNCHANGED tablesVars
  /\ p # "wlm" => UNCHANGED wlmVars
  /\ p # "login" => UNCHANGED loginVars
  /\ p # "qmr" => UNCHANGED qmrVars
  /\ p # "restore" => UNCHANGED restoreVars
  /\ p # "lambda" => UNCHANGED lambdaVars

Next == \E p \in Programs : StepOf(p) /\ Still(p)

Spec == Init /\ [][Next]_allVars

TypeOK ==
  /\ VacuumTypeOK /\ TablesTypeOK /\ WlmTypeOK /\ LoginTypeOK /\ QmrTypeOK
  /\ RestoreTypeOK /\ LambdaTypeOK
===========================================================================

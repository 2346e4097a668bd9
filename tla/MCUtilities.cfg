SPECIFICATION FairSpec
CONSTANTS
  \* AnalyzeVacuum
  Tables = {t1, t2}
  t1 = t1
  t2 = t2
  Profiles <- AnyTable
  Options <- AnyOptions
  MaxChanges = 1
  MaxFaults = 1
  \* SystemTables
  MaxQuery = 3
  Settings <- AnySettings
  MaxSnapshots = 2
  MaxLapses = 1
  \* WlmScheduler
  Hours = 3
  Minutes = 2
  Schedules <- AnySchedules
  \* LastLogin
  Users = {"a", "b"}
  Nobody = ""
  MaxLogins = 2
  MaxTurns = 2
  MaxFailures = 1
  \* QmrNotification
  Actions = {1, 2}
  Calls = {1, 2, 3}
  Interval = 2
  PageRows = 1
  MaxTime = 4
  \* TableRestore
  NumTables = 3
  MaxCalls = 2
  MaxErrors = 1
  \* Automation
  Files <- AnyFiles
  MaxInvocations = 2
  MaxSlips = 1
\* Each program ends.
CHECK_DEADLOCK FALSE
INVARIANTS TypeOK OkMeansDone OffLimits HistoryIsTrue ScheduleHolds LoginsRecorded
  OnceOrTwice OneByOne ReturnsWhenAllRan
PROPERTIES NeverBackwards CallEnds

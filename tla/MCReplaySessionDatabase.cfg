SPECIFICATION Spec
CONSTANTS
  Workloads <- TwoDatabases
  MaxAttempts = 2
  MaxFaults = 0
INVARIANT RunsInRecordedDatabase
\* The worker ends.
CHECK_DEADLOCK FALSE

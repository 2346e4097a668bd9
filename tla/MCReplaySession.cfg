SPECIFICATION Spec
CONSTANTS
  Workloads <- SessionWorkloads
  MaxAttempts = 2
  MaxFaults = 2
INVARIANTS TypeOK CountsAddUp SuccessIsDurable AllOrNothing NoErrorHidden
\* The worker ends.
CHECK_DEADLOCK FALSE

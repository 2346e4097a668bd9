SPECIFICATION Spec
CONSTANTS
  NumTables = 1
  LargeTables = {}
  Configs <- DefaultConfigs
  MaxFaults = 0
INVARIANT ImportsInFull
\* The utility ends.
CHECK_DEADLOCK FALSE

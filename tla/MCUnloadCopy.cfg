SPECIFICATION Spec
CONSTANTS
  NumTables = 2
  LargeTables = {2}
  Configs <- AllConfigs
  MaxFaults = 1
INVARIANTS TypeOK NothingMovesBeforeTests SuccessMeansLoaded
PROPERTY DeletedAfterCopy
\* The utility ends.
CHECK_DEADLOCK FALSE

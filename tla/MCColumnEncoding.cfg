SPECIFICATION FairSpec
CONSTANTS
  w1 = w1
  w2 = w2
  Workers <- TwoWorkers
  NumTables = 2
  KeySets <- AllKeySets
  MaxAttempts = 2
  MaxFaults = 2
INVARIANTS TypeOK NothingLost KeysFollow KeysOnlyAfterSuccess
PROPERTIES AnalyzedOnce Terminates
\* The utility ends.
CHECK_DEADLOCK FALSE

SPECIFICATION Spec
CONSTANTS
  w1 = w1
  w2 = w2
  Workers = {w1}
  NumTables = 2
  KeySets <- OneKey
  MaxAttempts = 2
  MaxFaults = 0
INVARIANT ForeignKeysKept
CHECK_DEADLOCK FALSE

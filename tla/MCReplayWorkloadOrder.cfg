SPECIFICATION Spec
CONSTANTS
  k1 = k1
  k2 = k2
  Keys = {k1, k2}
  Texts <- PlainTexts
  Ranges <- ClosedRanges
  Filters <- All
  TicksPerSecond = 2
  FirstXid = 9
  MaxTime = 3
  MaxSessions = 2
  MaxStatements = 2
  MaxFiles = 2
  MaxFaults = 1
CHECK_DEADLOCK FALSE
INVARIANT OriginalOrder

SPECIFICATION Spec
CONSTANTS
  k1 = k1
  k2 = k2
  Keys = {k1, k2}
  Texts <- SomeTexts
  Ranges <- SomeRanges
  Filters <- AllOrNone
  TicksPerSecond = 2
  FirstXid = 1
  MaxTime = 4
  MaxSessions = 2
  MaxStatements = 2
  MaxFiles = 2
  MaxFaults = 1
SYMMETRY AnyClient
INVARIANTS TypeOK EachInItsSession OriginalOrder OnceEach ConnectionSpansStatements
CHECK_DEADLOCK FALSE

SPECIFICATION FairSpec
CONSTANTS
  Workers = {w1, w2}
  NoWorker = NoWorker
  NumJobs = 1
  Limit = 1
  QueueSize = 3
  MaxFaults = 0
CHECK_DEADLOCK FALSE
PROPERTY WorkersExitOnSignal

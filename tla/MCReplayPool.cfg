SPECIFICATION FairSpec
CONSTANTS
  Workers = {w1, w2}
  NoWorker = NoWorker
  NumJobs = 2
  Limit = 2
  QueueSize = 1
  MaxFaults = 1
\* The replay ends.
CHECK_DEADLOCK FALSE
INVARIANTS JobInOnePlace PermitAccounting CompleteIsAccounted
PROPERTIES QuietAfterComplete KeepsPromise Termination

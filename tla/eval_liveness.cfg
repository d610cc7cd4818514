SPECIFICATION FairSpec
CONSTANTS
  Recordings = {r1}
  Workers = {w1, w2}
  NoWorker = NoWorker
  Runs = {e1, e2, e3, e4}
  NoRun = NoRun
  Leave = Leave
  Stamps = {}
  NoTime = NoTime
  ResumeMaxAttempts = 1
  RetryLimit = 1
  Budget = 2
  Expired = {}
  Sweeping = TRUE
  InitialRetries = 0
  MaxFaults = 1
  MaxOperations = 1
INVARIANTS TypeOK OneEvaluationInside OrphansComeFromFaults
PROPERTY EveryRecordingLeavesEval
CHECK_DEADLOCK FALSE

SPECIFICATION Spec
CONSTANTS
  Recordings = {r1, r2, r3}
  Workers = {w1, w2}
  NoWorker = NoWorker
  Runs = {e1, e2, e3}
  NoRun = NoRun
  Leave = Leave
  Stamps = {}
  NoTime = NoTime
  ResumeMaxAttempts = 0
  RetryLimit = 0
  Budget = 2
  Expired = {r1}
  Sweeping = FALSE
  InitialRetries = 1
  MaxFaults = 1
  MaxOperations = 1
SYMMETRY Symmetry
INVARIANTS SpendBounded 
CHECK_DEADLOCK FALSE

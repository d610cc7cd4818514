SPECIFICATION FairSpec
CONSTANTS
  Recordings = {r1}
  Workers = {w1, w2}
  NoWorker = NoWorker
  Leave = Leave
  Stamps = {t1}
  NoTime = NoTime
  ResumeMaxAttempts = 0
  MonoMixed = {r1}
  SttMaxInFlight = 1
  Sweeping = TRUE
  InitialRetries = 0
  MaxCopies = 1
  MaxFaults = 1
  MaxOperations = 1
INVARIANTS TypeOK  OneDeliveryInside
PROPERTY EveryRecordingLeavesStt
CHECK_DEADLOCK FALSE

SPECIFICATION FairSpec
CONSTANTS
  Direct = {}
  Zipped = {r2}
  NoRecording = NoRecording
  Workers = {w1, w2}
  Stamps = {now}
  Now = now
  NoTime = NoTime
  ResumeMaxAttempts = 1
  SttMaxInFlight = 1
  InitialRetries = 0
  Sweeping = TRUE
  LateUploads = FALSE
  LossySends = FALSE
  MaxFaults = 0
  MaxOperations = 0
PROPERTY BatchFinishes
CHECK_DEADLOCK FALSE

SPECIFICATION Spec
CONSTANTS
  Direct = {r1, r2}
  Zipped = {}
  NoRecording = NoRecording
  Workers = {w1, w2}
  Stamps = {now}
  Now = now
  NoTime = NoTime
  ResumeMaxAttempts = 0
  SttMaxInFlight = 1
  InitialRetries = 0
  Sweeping = FALSE
  LateUploads = FALSE
  LossySends = TRUE
  MaxFaults = 1
  MaxOperations = 1
SYMMETRY Symmetry
INVARIANTS TypeOK EvaluatesATranscript VerdictIsTrue
CHECK_DEADLOCK FALSE

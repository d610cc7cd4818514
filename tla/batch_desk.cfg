SPECIFICATION FairSpec
CONSTANTS
  f1 = f1
  f2 = f2
  Files = {f1, f2}
  Digest <- Contents
  Zips = {f2}
  UploadConcurrency = 1
  MaxVisits = 1
  MaxLoads = 1
  MaxCalls = 1
  MaxFaults = 1
  OthersAct = TRUE
INVARIANTS TypeOK DoneIsStored
PROPERTIES FinalizesSomething UploadsKeepLedger UploadsSettle PageCatchesUp
CHECK_DEADLOCK FALSE

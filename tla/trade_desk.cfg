SPECIFICATION FairSpec
CONSTANTS
  t1 = t1
  r1 = r1
  Txns = {t1}
  Recs = {r1}
  Proposals <- Outcome
  Mark <- Marks
  Filters = {"none", "needs_review"}
  MaxRuns = 2
  MaxLoads = 1
  MaxRequests = 1
  MaxImports = 1
  MaxFaults = 1
 
PROPERTIES NoPairLost ResultAppears
CHECK_DEADLOCK FALSE

SPECIFICATION FairSpec
CONSTANTS
  greeting = greeting
  tone = tone
  Criteria = {greeting, tone}
  ScoreType <- Types
  Weight <- Weights
  Answers <- LLM
  MaxLoads = 1
  MaxRequests = 1
  MaxFaults = 1
INVARIANTS DecisionsOnFinishedRuns BreakdownAddsUp
PROPERTIES StatusCatchesUp PendingEnds
CHECK_DEADLOCK FALSE

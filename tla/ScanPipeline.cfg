SPECIFICATION PipelineSpec
CONSTANTS
  Sites <- AllSites
  Inputs <- MCInputs
  Visited <- MCVisited
INVARIANTS
  EverySignalCounts
  ImplicationsAreComplete
  TargetIsJudgedRight
PROPERTIES
  CrawlIsJudgedAfresh
CHECK_DEADLOCK FALSE

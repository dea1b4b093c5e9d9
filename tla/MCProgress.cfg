SPECIFICATION FairSpec
CONSTANTS
  Scenarios <- MCScenarios
  MaxStarts = 2
  WatchedStarts = 1
  MaxSteps = 2
  MaxFailures = 1
INVARIANTS
  ProgressIsTruthful
  ReportsAreSound
PROPERTIES
  CompletionIsReported
  RpcThreadReturns
CHECK_DEADLOCK FALSE

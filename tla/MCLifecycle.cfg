SPECIFICATION FairSpec
CONSTANTS
  Starts <- MCTwoStarts
  BlockingModes = {TRUE, FALSE}
  MaxFailures = 2
INVARIANTS
  LoopIsTracked
  RunningIsComplete
  LockProtects
PROPERTIES
  CallsReturn
CHECK_DEADLOCK FALSE

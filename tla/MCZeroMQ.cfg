SPECIFICATION FairSpec
CONSTANTS
  Servers = {s1, s2, s3}
  LateSubscribers <- MCNobody
  MaxStarts = 1
  MaxAborts = 0
  MaxSteps = 3
  MaxFailures = 0
PROPERTIES
  ImplementsLockStep
  CallsReturn
CHECK_DEADLOCK FALSE

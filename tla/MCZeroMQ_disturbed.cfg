SPECIFICATION Spec
CONSTANTS
  Servers = {s1, s2}
  LateSubscribers = {s1}
  MaxStarts = 3
  MaxAborts = 2
  MaxSteps = 3
  MaxFailures = 1
INVARIANTS
  StepCoversServers
  AnswersFitRequests
  ServersRunTheScenario
PROPERTIES
  KeepsLockStep
CHECK_DEADLOCK FALSE

SPECIFICATION Spec
CONSTANTS
  CoreFiles <- MCCoreFiles
  NoFile = NoFile
  NoPoint = 99
  Points <- MCPoints
  Roads <- MCRoads
  Dist <- MCDist
  NoNode = NoNode
  Speeds <- MCSpeeds
  Scenarios <- MCTwoFiles
  NoScenario = NoScenario
  TimeStep = 1
  NoMatrix = NoMatrix
INVARIANTS
  DocumentedSchedule

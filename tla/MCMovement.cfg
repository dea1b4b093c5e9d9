SPECIFICATION FairSpec
CONSTANTS
  CoreFiles <- MCCoreFiles
  NoFile = NoFile
  NoPoint = 99
  Points <- MCPoints
  Roads <- MCRoads
  Dist <- MCDist
  NoNode = NoNode
  Speeds <- MCSpeeds
  Scenarios <- MCScenarios
  NoScenario = NoScenario
  TimeStep = 2
  NoMatrix = NoMatrix
INVARIANTS
  FilesInTurn
  OnRoad
PROPERTIES
  TopologiesReturn

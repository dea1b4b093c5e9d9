SPECIFICATION LanSpec
CONSTANTS
  Nodes <- MCNodes
  Ifaces <- MCIfaces
  Events <- MCEvents
  IfPairs <- MCTwoTypes
  Distances = {"near", "mid", "far"}
  Linked = {"near", "mid"}
  NoEntry = "noentry"
  MaxSteps = 3
  FailPoints <- MCAllPoints
  MaxFailures = 1
  SubnetCounts = {1, 2}
INVARIANTS
  TypeOK
  TapOnOneBridge
  UpIffActive
  RefusedForAReason
  OwnSubnets
  LinksWork

SPECIFICATION FairShapedSpec
CONSTANTS
  Nodes <- MCNodes
  Events <- MCEvents
  IfPairs = {"wlan"}
  Distances = {"near", "mid", "far"}
  Linked = {"near", "mid"}
  NoEntry = "noentry"
  Inputs <- MCInputs
  MaxCopies = 1
  MaxSteps = 3
  FailPoints <- MCAllPoints
  MaxFailures = 1
INVARIANTS
  KernelFollowsMatrix
  StoreMatchesMatrix
  NoHalfOpenLink
  LinksShaped
  ShapingFailsForAReason
PROPERTIES
  ImplementsTopologySwitch

SPECIFICATION Spec
CONSTANTS
  Nodes <- MCNodes
  Ifaces <- MCIfaces
  Events <- MCEvents
  IfPairs <- MCOneType
  Distances = {"near", "far"}
  Linked = {"near"}
  NoEntry = "noentry"
  MaxSteps = 3
  FailPoints = {}
  MaxFailures = 0
INVARIANTS
  LinksComeBack

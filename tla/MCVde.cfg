SPECIFICATION Spec
CONSTANTS
  Nodes <- MCNodes
  Events = {}
  IfPairs = {"wlan"}
  Distances = {"near", "mid", "far"}
  Linked = {"near", "mid"}
  Limited = {"mid"}
  NoEntry = "noentry"
  NumPorts = 4
  IfaceTotal = 1
  SubnetSizes = {2, 4}
  MaxSteps = 3
  FailPoints = {"pairs", "ipconfig", "check", "post"}
  MaxFailures = 2
INVARIANTS
  StoreFollowsMatrix
  WantedLinksCarry
  PortsForFirstLinks

SPECIFICATION ScenarioSpec
CONSTANTS
  Nodes <- MCNodes
  Servers <- MCServers
  Distances = {10, 100}
  Linked = {10}
  MaxNodes = 5
  MaxServers = 3
  CpuScores <- MCCpu
  FreeMemories <- MCMemory
  VmSize = 1
INVARIANTS
  NodesPlacedOnce
  SharesKept
  BothEndsKnow
  ServersStartTheirNodes
  TunnelsMeet
CHECK_DEADLOCK FALSE

SPECIFICATION Spec
CONSTANTS
  Nodes <- MCNodes
  Scenarios <- MCScenarios
  NameOf <- MCNameOf
  NodesOf <- MCNodesOf
  MaxCalls = 3
  MaxTroubles = 1
INVARIANTS
  FreshGuests
  MachinesAccountedFor
PROPERTIES
  StartsEnd
CHECK_DEADLOCK FALSE

------------------------ MODULE DistributedScenario ------------------------
(***************************************************************************)
(* A scenario of the distributed mode from the information exchange on:    *)
(* the coordinator distributes the nodes over the servers, puts the        *)
(* mapping into the scenario config of each server and from then on        *)
(* distributes distance matrices according to it; a server that steps with *)
(* its part opens the tunnels for the links to nodes of other servers.     *)
(*                                                                         *)
(* The distribution is computed for scenarios of any size in the bounds.   *)
(* Those with the nodes and servers of DistributedMatrix go on.            *)
(***************************************************************************)
EXTENDS DistributedMatrix, NodeDistribution, Tunnel

CONSTANT Linked   \* distances at which the link quality model connects two nodes

ASSUME LinkedAssumption == Linked \subseteq Distances

VARIABLES
  configs,   \* the scenario config of each server, as it reads it
  tunnels    \* the tunnels of each server

scenarioVars == <<vars, distributionVars, configs, tunnels>>

NoMapping == <<>>
NoConfigs == <<>>

ScenarioInit ==
  /\ ScoresKnown
  /\ mode \in Modes
  /\ mapping = NoMapping
  /\ configs = NoConfigs
  /\ tunnels = [s \in Servers |-> {}]
  /\ MatrixInit

\* handle_state_information_exchange: the nodes are placed.
Exchange ==
  /\ DistributeEmulationNodes
  /\ UNCHANGED <<vars, configs, tunnels>>

\* The address that a server has sent in the exchange.
Ip(s) == <<"ip", s>>
Endpoints == [s \in Servers |-> Ip(s)]

\* Fault: the servers share one config, which is left with the last server id.
ScenarioConfigsShared ==
  [s \in Servers |-> ServerConfig(res, Endpoints, CHOOSE t \in Servers : \A u \in Servers : u <= t)]

\* create_scenario_configs sets the id and takes a deep copy, for one server after the other.
ScenarioConfigs == [s \in Servers |-> ServerConfig(res, Endpoints, s)]

\* The servers get their configs, the scores and the lists are dropped.
CreateScenarioConfigs ==
  /\ Done
  /\ DOMAIN res = Servers
  /\ 1..input.cnt_nodes = Nodes
  /\ mapping' = [x \in Nodes |-> CHOOSE s \in Servers : x \in res[s]]
  /\ configs' = ScenarioConfigs
  /\ input' = NoInput
  /\ res' = NotDistributed
  /\ UNCHANGED <<mode, distance_matrix, pending, wire, local, dead, tunnels>>

\* connection_across_servers, for the entries of the matrix a server has received:
\* a tunnel is created once and stays until the scenario is stopped.
OpenTunnels(s) ==
  {TunnelFor(configs[s], p) :
     p \in {q \in DOMAIN Received(s) : Received(s)[q] \in Linked /\ AmongServers(configs[s], q)}}

\* Steps of the simulation, once its mapping is known.
Simulate ==
  /\ mapping # NoMapping
  /\ \/ \E m \in Matrices : Distribute(m) /\ UNCHANGED tunnels
     \/ \E s \in Servers :
          /\ RecvDistanceMatrix(s)
          /\ tunnels' = [tunnels EXCEPT ![s] = @ \cup OpenTunnels(s)]
     \/ \E s \in Servers : RecvNothing(s) /\ UNCHANGED tunnels
  /\ UNCHANGED <<distributionVars, configs>>

ScenarioNext == Exchange \/ CreateScenarioConfigs \/ Simulate

ScenarioSpec == ScenarioInit /\ [][ScenarioNext]_scenarioVars
-----------------------------------------------------------------------------
(***************************************************************************)
(* Every server starts the nodes that the coordinator counts on it for:    *)
(* what get_local_node_ids reads from the server's own config, after two   *)
(* conversions to JSON, is its part of the distribution, so that together  *)
(* they start every node once (create_scenario_configs).                   *)
(***************************************************************************)
ServersStartTheirNodes ==
  configs # NoConfigs =>
    /\ \A s \in Servers : LocalNodeIds(configs[s]) = LocalNodes(mapping, s)
    /\ UNION {LocalNodeIds(configs[s]) : s \in Servers} = Nodes

(***************************************************************************)
(* The two ends of a tunnel are created by two servers that step at        *)
(* different times and never talk about it.  Once both have stepped with a *)
(* matrix that links two of their nodes, each has a tunnel to the other    *)
(* with the same key; and no two tunnels of a server share a key, which    *)
(* would mix the frames of two links (get_tunnel_id).                      *)
(***************************************************************************)
CrossLinks ==
  {p \in DOMAIN distance_matrix : distance_matrix[p] \in Linked /\ mapping[p[1]] # mapping[p[2]]}

TunnelsMeet ==
  /\ \A p \in CrossLinks :
       LET s == mapping[p[1]]
           t == mapping[p[2]]
       IN  {s, t} \cap pending = {} =>
             \E a \in tunnels[s], b \in tunnels[t] :
               /\ a.name = p /\ b.name = p
               /\ a.remote = Ip(t) /\ b.remote = Ip(s)
               /\ a.key = b.key
  /\ \A s \in Servers : \A a, b \in tunnels[s] : a.key = b.key => a = b
=============================================================================

--------------------------- MODULE ScenarioConfig ---------------------------
(***************************************************************************)
(* The part of a scenario config that the distributed mode adds and reads. *)
(* The coordinator's config is a Python dict with server ids as keys; on   *)
(* its way to a server it is JSON, twice, and its keys become strings,     *)
(* which json2dict turns into numbers where the config is read.            *)
(***************************************************************************)
EXTENDS Naturals

\* json.dumps and json.loads: the keys of an object are strings
JsonKey(x) == <<"json", x>>

Json(d) == [k \in {JsonKey(x) : x \in DOMAIN d} |-> d[k[2]]]

\* json2dict: {int(x): y for x, y in res.items()}
Json2Dict(d) == [x \in {k[2] : k \in DOMAIN d} |-> d[JsonKey(x)]]

(***************************************************************************)
(* What set_distributed_server_node_mapping, set_distributed_server_id and *)
(* set_network_backend_bridged_tunnel_endpoints put into the config of one *)
(* server, as the server reads it.                                         *)
(***************************************************************************)
ServerConfig(node_mapping, endpoints, server_id) ==
  [server_node_mapping |-> Json(node_mapping),
   tunnel_endpoints    |-> Json(endpoints),
   server_id           |-> server_id]

\* ScenarioConfig.get_local_node_ids, with a mapping
LocalNodeIds(config) == Json2Dict(config.server_node_mapping)[config.server_id]

\* DistributedModeSimulationManager.get_server_for_node
ServerForNode(config, n) ==
  LET node_mapping == Json2Dict(config.server_node_mapping)
  IN  CHOOSE s \in DOMAIN node_mapping : n \in node_mapping[s]

TunnelEndpoint(config, s) == Json2Dict(config.tunnel_endpoints)[s]
=============================================================================

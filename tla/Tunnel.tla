------------------------------- MODULE Tunnel -------------------------------
(***************************************************************************)
(* The tunnel between two servers that carries the link of two nodes.      *)
(* Each of the servers creates its end on its own: the ends belong         *)
(* together if each names the address of the other server and both have    *)
(* the same key.                                                           *)
(***************************************************************************)
EXTENDS Naturals, ScenarioConfig

\* NetworkBackendUtil.szudzik_pairing_function
SzudzikPairing(a, b) == IF a >= b THEN a * a + a + b ELSE a + b * b

\* is_connection_among_servers, for two emulation nodes
AmongServers(config, p) ==
  (p[1] \in LocalNodeIds(config)) # (p[2] \in LocalNodeIds(config))

\* Fault: the tunnel always leads to the server of the second node.
RemoteIpOfSecond(config, p) == TunnelEndpoint(config, ServerForNode(config, p[2]))

\* _step_inner: the address of the server of the node that is not local
RemoteIp(config, p) ==
  LET remote == IF p[1] \in LocalNodeIds(config) THEN p[2] ELSE p[1]
  IN  TunnelEndpoint(config, ServerForNode(config, remote))

\* The device is named after the two nodes; get_tunnel_id is the key.
TunnelFor(config, p) ==
  [name |-> p, remote |-> RemoteIp(config, p), key |-> SzudzikPairing(p[1], p[2])]
=============================================================================

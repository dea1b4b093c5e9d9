----------------------------- MODULE SameSubnet -----------------------------
(***************************************************************************)
(* NetworkConfiguratorSameSubnet: every interface number has a subnet of   *)
(* its own, in which a node's address is computed from its id alone, so    *)
(* that the servers of a distributed scenario agree without asking each    *)
(* other.  An address is its index in the subnet, 0 being the network's.   *)
(***************************************************************************)
EXTENDS Naturals

(***************************************************************************)
(* configure_connection: offset - 1 = id * (cnt_total_type_ifaces -        *)
(* cnt_type_ifaces + 1) - 1, and get_ip skips the network address.  The    *)
(* Counter is built from interface objects, which differ in their number,  *)
(* so cnt_type_ifaces is 1 for every interface.                            *)
(***************************************************************************)
Address(id, total) == id * (total - 1 + 1)

\* get_ip: subnet[1 + offset] raises IndexError behind the last address only.
HasAddress(size, a) == a < size

\* allocate_ips: the nodes, in the order of their ids, all find an address.
AllFit(nodes, total, size) == \A n \in nodes : HasAddress(size, Address(n, total))
=============================================================================

--------------------------- MODULE ConnectionStore ---------------------------
(***************************************************************************)
(* The NetworkManager's ConnectionStore: which pairs of nodes are joined,  *)
(* and over which pairs of interfaces, split into the active and the       *)
(* inactive connections.                                                   *)
(*                                                                         *)
(* In the code each half is a dict of dicts, node pair -> interface pair   *)
(* -> ConnectionDetails.  No operation leaves an empty inner dict behind,  *)
(* so a half is modelled as a total function from node pairs to sets of    *)
(* interface pairs, in which the empty set stands for a missing key.  The  *)
(* ConnectionDetails themselves (connection object, link quality) are left *)
(* out.                                                                    *)
(***************************************************************************)
CONSTANTS
  Pairs,     \* the node pairs (x, y) with x < y
  IfPairs    \* the interface pairs (interface_x, interface_y)

Stores == [active : [Pairs -> SUBSET IfPairs], inactive : [Pairs -> SUBSET IfPairs]]

EmptyStore == [active   |-> [p \in Pairs |-> {}],
               inactive |-> [p \in Pairs |-> {}]]

\* The node pairs with at least one active connection.
ActivePairs(s) == {p \in Pairs : s.active[p] # {}}

\* get_connections_for_nodes_implicit: is there a connection, active or not?
Known(s, p, ifs) == ifs \in s.active[p] \/ ifs \in s.inactive[p]

\* add_connection(..., active=True)
AddConnection(s, p, ifs) == [s EXCEPT !.active[p] = @ \cup {ifs}]

(***************************************************************************)
(* change_connection_state.  The entry is deleted from its half (and the   *)
(* inner dict with it, once empty); then it is written to the other half,  *)
(* through a lookup of the node pair that raises KeyError when that half   *)
(* has no inner dict for the pair.  The KeyError is swallowed, so the      *)
(* connection is then in neither half.                                     *)
(***************************************************************************)
PutIfKeyed(half, p, ifs) ==
  IF half[p] = {} THEN half ELSE [half EXCEPT ![p] = @ \cup {ifs}]

\* Fault: the KeyError is raised before anything is deleted.
ChangeStateLooksFirst(s, p, ifs, nowActive) == s

ChangeState(s, p, ifs, nowActive) ==
  LET wasActive == ifs \in s.active[p] IN
  IF wasActive = nowActive
  THEN s
  ELSE IF nowActive
       THEN [active   |-> PutIfKeyed(s.active, p, ifs),
             inactive |-> [s.inactive EXCEPT ![p] = @ \ {ifs}]]
       ELSE [active   |-> [s.active EXCEPT ![p] = @ \ {ifs}],
             inactive |-> PutIfKeyed(s.inactive, p, ifs)]
=============================================================================

-------------------------- MODULE DistributedMatrix --------------------------
(***************************************************************************)
(* What each emulation server learns of the distance matrix.               *)
(*                                                                         *)
(* The coordinator either sends every server the whole matrix, published   *)
(* ("mcast") or as a reply ("whole"), and the server cuts out its part; or *)
(* it cuts the parts itself ("individual").  On the wire a matrix is       *)
(* grouped by its first node, and as JSON object keys these nodes are      *)
(* strings.  A matrix is a function on pairs of nodes.                     *)
(***************************************************************************)
EXTENDS Naturals

CONSTANTS
  Nodes,      \* the node ids
  Servers,    \* the emulation servers
  Distances   \* the distances that occur

ASSUME MatrixAssumption == Nodes \subseteq Nat

Modes == {"mcast", "whole", "individual"}
Pairs == {p \in Nodes \X Nodes : p[1] < p[2]}
Matrices == UNION {[P -> Distances] : P \in SUBSET Pairs}

VARIABLES
  mode,              \* how the matrix is distributed
  mapping,           \* the server that maintains each node
  distance_matrix,   \* the coordinator's matrix
  pending,           \* servers that have not stepped with the last message
  wire,              \* the message to each server
  local,             \* the matrix that each server has stepped with
  dead               \* servers whose thread has ended with an exception

vars == <<mode, mapping, distance_matrix, pending, wire, local, dead>>
-----------------------------------------------------------------------------
\* str(x), as json.dumps does to the keys of an object; int() reads it back.
Str(x) == <<"str", x>>
IntOf(k) == k[2]

\* transform_distance_matrix and serialize.
Transform(m) ==
  [k \in {Str(p[1]) : p \in DOMAIN m} |->
     {<<p[2], m[p]>> : p \in {q \in DOMAIN m : Str(q[1]) = k}}]

\* deserialize and detransform_distance_matrix.
Detransform(w) ==
  LET entries == UNION {{<<IntOf(k), e[1], e[2]>> : e \in w[k]} : k \in DOMAIN w}
  IN  [p \in {<<e[1], e[2]>> : e \in entries} |->
         CHOOSE d \in {e[3] : e \in entries} : <<p[1], p[2], d>> \in entries]

Restricted(m, P) == [p \in P |-> m[p]]

\* Fault: an entry is only kept by the server of its first node.
PartFirstEnd(map, m, s) == Restricted(m, {p \in DOMAIN m : map[p[1]] = s})

\* map_distance_matrix_to_servers: the entry goes to the servers of both nodes.
Part(map, m, s) == Restricted(m, {p \in DOMAIN m : s \in {map[p[1]], map[p[2]]}})

LocalNodes(map, s) == {x \in DOMAIN map : map[x] = s}

\* get_local_distance_matrix_to_servers: the server looks for its own nodes.
LocalPart(map, m, s) ==
  Restricted(m, {p \in DOMAIN m : p[1] \in LocalNodes(map, s) \/ p[2] \in LocalNodes(map, s)})
-----------------------------------------------------------------------------
Empty == [p \in {} |-> 0]

\* No matrix has been distributed yet.
MatrixInit ==
  /\ distance_matrix = Empty
  /\ pending = {}
  /\ wire = [s \in Servers |-> Transform(Empty)]
  /\ local = [s \in Servers |-> Empty]
  /\ dead = {}

Init ==
  /\ mode \in Modes
  /\ mapping \in [Nodes -> Servers]
  /\ MatrixInit

\* The coordinator's step, after all servers have asked for the next matrix.
Distribute(m) ==
  /\ pending = {}
  /\ distance_matrix' = m
  /\ wire' = [s \in Servers |-> Transform(IF mode = "individual"
                                          THEN Part(mapping, m, s) ELSE m)]
  /\ pending' = Servers
  /\ UNCHANGED <<mode, mapping, local, dead>>

\* recv_distance_matrix, and in mode "whole" the cut in the run loop.
Received(s) ==
  IF mode = "individual" THEN Detransform(wire[s])
  ELSE LocalPart(mapping, Detransform(wire[s]), s)

\* A server takes its step and asks for the next matrix.
RecvDistanceMatrix(s) ==
  /\ s \in pending \ dead
  /\ Received(s) # Empty
  /\ local' = [local EXCEPT ![s] = Received(s)]
  /\ pending' = pending \ {s}
  /\ UNCHANGED <<mode, mapping, distance_matrix, wire, dead>>

(***************************************************************************)
(* An empty matrix is taken for a missing one, and the step turns to the   *)
(* movement director, which a server of the distributed mode does not      *)
(* have.  Nobody handles the exception: the server's thread ends.          *)
(***************************************************************************)
RecvNothing(s) ==
  /\ s \in pending \ dead
  /\ Received(s) = Empty
  /\ dead' = dead \cup {s}
  /\ UNCHANGED <<mode, mapping, distance_matrix, pending, wire, local>>

Next ==
  \/ \E m \in Matrices : Distribute(m)
  \/ \E s \in Servers : RecvDistanceMatrix(s) \/ RecvNothing(s)

Spec == Init /\ [][Next]_vars
-----------------------------------------------------------------------------
Touches(p, s) == mapping[p[1]] = s \/ mapping[p[2]] = s

\* Both ends of every link learn its distance, over any sequence of matrices and in
\* every mode: a server that has taken its step did so with exactly the entries that
\* touch its nodes, whoever has cut them out.
BothEndsKnow ==
  \A s \in Servers \ pending :
    local[s] = Restricted(distance_matrix, {p \in DOMAIN distance_matrix : Touches(p, s)})
=============================================================================

------------------------------ MODULE MapWalk ------------------------------
(***************************************************************************)
(* Nodes that walk on a street map.  A walker stands between two map nodes *)
(* of the map, current_map_node and next_map_node, and every step takes it *)
(* a distance further; where it arrives, its movement pattern chooses the  *)
(* next map node at random.  Operators only; MovementDirector holds the    *)
(* state.                                                                  *)
(***************************************************************************)
EXTENDS Naturals, FiniteSets

CONSTANTS
  Points,      \* map nodes
  Roads,       \* records [start, end, car_reverse, car_quality, name]
  Dist,        \* straight distance between two map nodes
  NoNode,      \* None
  Speeds       \* what get_speed may return, for each movement pattern

ASSUME MapAssumption ==
  /\ NoNode \notin Points
  /\ \A r \in Roads : {r.start, r.end} \subseteq Points /\ r.start # r.end
  /\ \A p, q \in Points : p # q => Dist[p, q] \in Nat \ {0} /\ Dist[p, q] = Dist[q, p]

OtherEnd(r, p) == IF r.start = p THEN r.end ELSE r.start

(***************************************************************************)
(* RandomWalk.get_next_map_node: any neighbour but the one the walker came *)
(* from, unless there is no other.                                         *)
(***************************************************************************)
Neighbours(p) == {OtherEnd(r, p) : r \in {s \in Roads : p \in {s.start, s.end}}}

NextOfRandomWalk(p, last) ==
  IF Neighbours(p) \ {last} # {} THEN Neighbours(p) \ {last}
  ELSE IF Neighbours(p) # {} THEN Neighbours(p)
  ELSE {NoNode}

(***************************************************************************)
(* MoveOnBigStreets.get_next_map_node: the roads a car may take, the best  *)
(* ones if there are any, else those of the first two neighbouring         *)
(* qualities that have one, best first.  The list holds a road twice if it *)
(* has the better of the two qualities.                                    *)
(***************************************************************************)
\* Fault: one-way roads are ignored.
NextRoadsBothWays(p, quality) ==
  {r \in Roads : p \in {r.start, r.end} /\ r.car_quality >= quality}

NextRoads(p, quality) ==
  {r \in Roads : /\ r.car_quality >= quality
                 /\ r.start = p \/ (r.end = p /\ r.car_reverse)}

Lowered(p) == {q \in 1..4 : NextRoads(p, q - 1) # {}}
Best(p)    == CHOOSE q \in Lowered(p) : \A o \in Lowered(p) : o <= q

Candidates(p) ==
  IF NextRoads(p, 5) # {} THEN NextRoads(p, 5)
  ELSE IF Lowered(p) # {} THEN NextRoads(p, Best(p) - 1)
  ELSE {}

ListLength(p) ==
  IF NextRoads(p, 5) # {} THEN Cardinality(NextRoads(p, 5))
  ELSE Cardinality(Candidates(p))
         + IF Lowered(p) # {} THEN Cardinality(NextRoads(p, Best(p))) ELSE 0

\* With one road there is no choice; else the road the car came on is left out.
RoadsOnwards(p, last) ==
  IF ListLength(p) >= 2 /\ last # NoNode
  THEN {r \in Candidates(p) : last \notin {r.start, r.end}}
  ELSE Candidates(p)

\* randint(0, -1): there are roads, but all lead back
Trapped(p, last) == Candidates(p) # {} /\ RoadsOnwards(p, last) = {}

NextOfCar(p, last) ==
  IF Candidates(p) = {} THEN {NoNode}
  ELSE {OtherEnd(r, p) : r \in RoadsOnwards(p, last)}

(***************************************************************************)
(* A walker: its pattern and speed, the map nodes it is between, how far   *)
(* it still has to go (left), and its location: gone metres from           *)
(* current_map_node in the direction heading.                              *)
(***************************************************************************)
NextMapNodes(pattern, p, last) ==
  IF pattern = "RandomWalk" THEN NextOfRandomWalk(p, last) ELSE NextOfCar(p, last)

Towards(w, p, q) ==
  [w EXCEPT !.at = p, !.next = q, !.gone = 0,
            !.left = IF q = NoNode THEN @ ELSE Dist[p, q],
            !.heading = IF q = NoNode THEN @ ELSE <<p, q>>]

\* AbstractMovementPattern.__init__; RandomWalk draws again until it can walk.
NewWalkers(pattern) ==
  LET blank(speed) == [pattern |-> pattern, speed |-> speed, at |-> NoNode, next |-> NoNode,
                       left |-> 0, gone |-> 0, heading |-> <<NoNode, NoNode>>]
      starts == IF pattern = "RandomWalk" THEN {p \in Points : Neighbours(p) # {}} ELSE Points
  IN  UNION {{Towards(blank(s), p, q) : q \in NextMapNodes(pattern, p, NoNode)} :
               p \in starts, s \in Speeds[pattern]}

Stands(w) == w.next = NoNode

StaysOnLeg(w, d) == d < w.left

Go(w, d) == [w EXCEPT !.left = @ - d, !.gone = @ + d]

\* The choice at next_map_node raises: everything before it is done already.
Stuck(w) == [w EXCEPT !.at = w.next, !.gone = 0]
=============================================================================

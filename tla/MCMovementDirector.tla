------------------------ MODULE MCMovementDirector ------------------------
(***************************************************************************)
(* Instance of MovementDirector for TLC.                                   *)
(***************************************************************************)
EXTENDS MovementDirector, TLC

File(version, channels, hosts) ==
  [version |-> version, channels |-> channels, hosts |-> hosts]

\* A chain, a hub named by its largest node, an old file, and files of the
\* WiFi mode: all placed, one host without point, no points.
MCCoreFiles ==
  "chain"    :> File(1, {<<1, 2>>, <<3, 2>>}, << >>) @@
  "hub"      :> File(1, {<<3, 1, 2>>}, <<4, 1, 1>>) @@
  "old"      :> File(0, {}, <<1, 2, 3>>) @@
  "placed"   :> File(1, {}, <<1, 5, 2>>) @@
  "unplaced" :> File(1, {}, <<1, NoPoint, 2>>)

Scenario(model, nodes, mode, changes, loop) ==
  [model |-> model, nodes |-> nodes, mode |-> mode, changes |-> changes, loop |-> loop]

MCScenarios ==
  {Scenario("none", 2, "lan", << >>, FALSE), Scenario("arma", 2, "lan", << >>, FALSE)}
  \cup {Scenario(m, 2, "lan", << >>, FALSE) : m \in MapModels}
  \cup {Scenario("core", 3, "lan", <<<<s, "chain">>, <<t, "hub">>>>, l) :
          s, t \in 0..5, l \in BOOLEAN}
  \cup {Scenario("core", 3, "lan", <<<<s, "chain">>, <<2, "old">>, <<1, "hub">>>>, l) :
          s \in 0..3, l \in BOOLEAN}
  \cup {Scenario("core", 3, "lan", <<<<s, "old">>, <<1, "hub">>>>, TRUE) : s \in 0..3}
  \cup {Scenario("core", 3, "wifi", <<<<s, "placed">>, <<t, f>>>>, l) :
          s, t \in 0..2, f \in {"hub", "unplaced", "chain"}, l \in BOOLEAN}

\* One list, in which no file has zero seconds.
MCTwoFiles == {Scenario("core", 3, "lan", <<<<1, "chain">>, <<2, "hub">>>>, TRUE)}

MCPoints == {"a", "b", "c", "d", "e", "f", "g"}

Road(name, start, end, reverse, quality) ==
  [name |-> name, start |-> start, end |-> end, car_reverse |-> reverse, car_quality |-> quality]

\* A big street, a one-way road, a side street, footpaths into a dead end, and
\* two parallel roads that lead nowhere else.
MCRoads ==
  {Road(1, "a", "b", TRUE, 5), Road(2, "b", "c", FALSE, 3), Road(3, "c", "a", TRUE, 1),
   Road(4, "c", "d", FALSE, 0), Road(5, "e", "d", FALSE, 0),
   Road(6, "f", "g", TRUE, 3), Road(7, "g", "f", TRUE, 3)}

MCDist == [p, q \in MCPoints |-> IF {p, q} = {"c", "a"} THEN 3
                                 ELSE IF {p, q} \in {{"a", "b"}, {"f", "g"}} THEN 2 ELSE 1]

MCSpeeds == "RandomWalk" :> {1, 4} @@ "MoveOnBigStreets" :> {1, 5}
=============================================================================

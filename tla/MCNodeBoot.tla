----------------------------- MODULE MCNodeBoot -----------------------------
(***************************************************************************)
(* Instance of NodeBoot for TLC: a scenario and an edited version of it    *)
(* that keeps the name but has fewer nodes.                                *)
(***************************************************************************)
EXTENDS NodeBoot

MCNodes     == 1..2
MCScenarios == {"lan", "lan edited"}
MCNameOf    == [s \in MCScenarios |-> "lan"]
MCNodesOf   == [s \in MCScenarios |-> IF s = "lan" THEN MCNodes ELSE {1}]
=============================================================================

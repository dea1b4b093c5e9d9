--------------------------- MODULE MCLanScenario ---------------------------
(***************************************************************************)
(* Instance of LanScenario for TLC: three nodes with two interfaces each,  *)
(* of two types (only equal numbers may be joined, so a triangle runs out  *)
(* of taps), and a base network with one or two subnets.                   *)
(***************************************************************************)
EXTENDS LanScenario

MCNodes     == 1..3
MCIfaces    == 1..2
MCEvents    == {"addbr", "addif", "conn"}
MCTwoTypes  == {<<i, i>> : i \in MCIfaces}
MCAllPoints == {"bridge", "batch", "ipconfig", "check", "post"}
=============================================================================

------------------------ MODULE MCBridgedMultiDevice ------------------------
(***************************************************************************)
(* Instances of BridgedMultiDevice for TLC: three nodes with two           *)
(* interfaces each, of one type (all four interface pairs may be joined)   *)
(* or of two types (only equal numbers may be joined, so a triangle runs   *)
(* out of taps).                                                           *)
(***************************************************************************)
EXTENDS BridgedMultiDevice

MCNodes     == 1..3
MCIfaces    == 1..2
MCEvents    == {"addbr", "addif", "conn"}
MCOneType   == MCIfaces \X MCIfaces
MCTwoTypes  == {<<i, i>> : i \in MCIfaces}
MCAllPoints == {"bridge", "batch", "ipconfig", "check", "post"}
=============================================================================

------------------------------ MODULE MCProgress ------------------------------
(***************************************************************************)
(* Instances of Progress for TLC: scenarios with one and with three nodes. *)
(***************************************************************************)
EXTENDS Progress

MCScenarios == {{1}, {1, 2, 3}}
=============================================================================

------------------------ MODULE MCSimulationLifecycle ------------------------
(***************************************************************************)
(* Instances of SimulationLifecycle for TLC.                               *)
(***************************************************************************)
EXTENDS SimulationLifecycle

MCTwoStarts == 1..2
=============================================================================

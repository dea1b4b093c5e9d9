----------------------- MODULE MCDistributedScenario -----------------------
(***************************************************************************)
(* Instance of DistributedScenario for TLC.                                *)
(***************************************************************************)
EXTENDS DistributedScenario

MCNodes   == 1..3
MCServers == 1..3
MCCpu     == {1, 2, 3}
MCMemory  == {0, 1, 3, 7}
=============================================================================

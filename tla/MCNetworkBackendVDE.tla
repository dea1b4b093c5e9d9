------------------------ MODULE MCNetworkBackendVDE ------------------------
(***************************************************************************)
(* Instance of NetworkBackendVDE for TLC: three nodes, switches with one   *)
(* port more than there are nodes.                                         *)
(***************************************************************************)
EXTENDS NetworkBackendVDE

MCNodes == 1..3
=============================================================================

-------------------------- MODULE MCZeroMQProtocol --------------------------
(***************************************************************************)
(* Instances of ZeroMQProtocol for TLC.                                    *)
(***************************************************************************)
EXTENDS ZeroMQProtocol

MCNobody == {}
=============================================================================

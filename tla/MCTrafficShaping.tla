-------------------------- MODULE MCTrafficShaping --------------------------
(***************************************************************************)
(* Instance of TrafficShaping for TLC, with three nodes: the matrices by   *)
(* which a node meets two others that do not meet, one of them at two      *)
(* linked distances, so that its tap has two classes and the bridge has    *)
(* ports that must not reach each other.                                   *)
(***************************************************************************)
EXTENDS TrafficShaping

MCNodes     == 1..3
MCEvents    == {"addbr", "addif", "chain", "rules"}
MCAllPoints == Phases \ {"idle", "pairs"}
MCInputs    == {m \in Matrices : /\ m[<<1, 3>>] = "far" /\ m[<<2, 3>>] # "mid"
                                 /\ m[<<1, 2>>] = "mid" => m[<<2, 3>>] = "near"}
=============================================================================

--------------------------- MODULE TopologySwitch ---------------------------
(***************************************************************************)
(* What a network backend promises the simulation: the topology that the   *)
(* nodes see is changed in one switch per step, from the topology of one   *)
(* distance matrix to that of the next, and every change of the matrix is  *)
(* followed by its switch.  No intermediate mix of two topologies is ever  *)
(* visible.                                                                *)
(***************************************************************************)
CONSTANTS Links     \* all links that may exist

VARIABLES
  wanted,    \* links the link quality model wants at the current distances
  visible,   \* links over which the nodes can communicate
  busy       \* is a changed matrix still to be brought to the nodes?

vars == <<wanted, visible, busy>>

Init == wanted = {} /\ visible = {} /\ busy = FALSE

\* A step starts with a matrix that differs from the last one.
Move ==
  /\ ~ busy
  /\ wanted' \in SUBSET Links
  /\ busy' = TRUE
  /\ UNCHANGED visible

Switch ==
  /\ busy
  /\ visible' = wanted
  /\ busy' = FALSE
  /\ UNCHANGED wanted

\* A command fails before anything has changed; the next move has to make up for it.
Fail ==
  /\ busy
  /\ busy' = FALSE
  /\ UNCHANGED <<wanted, visible>>

\* The scenario is stopped, or has failed in a way that only a new start can repair.
Stop ==
  /\ ~ busy
  /\ wanted' = {}
  /\ visible' = {}
  /\ UNCHANGED busy

Next == Move \/ Switch \/ Fail \/ Stop

SafeSpec == Init /\ [][Next]_vars

Spec == SafeSpec /\ WF_vars(Switch \/ Fail)
=============================================================================

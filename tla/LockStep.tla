------------------------------ MODULE LockStep ------------------------------
(***************************************************************************)
(* What the distributed mode promises: the coordinator hands out numbered  *)
(* distance matrices, every emulation server applies each of them, once    *)
(* and in order, and none is handed out before all servers have applied    *)
(* the one before.                                                         *)
(***************************************************************************)
EXTENDS Naturals

CONSTANTS Servers

VARIABLES
  published,   \* number of the last matrix handed out
  applied      \* number of the last matrix that each server has applied

vars == <<published, applied>>

Init == published = 0 /\ applied = [s \in Servers |-> 0]

Publish ==
  /\ \A s \in Servers : applied[s] = published
  /\ published' = published + 1
  /\ UNCHANGED applied

Apply(s) ==
  /\ applied[s] < published
  /\ applied' = [applied EXCEPT ![s] = published]
  /\ UNCHANGED published

Next == Publish \/ \E s \in Servers : Apply(s)

SafeSpec == Init /\ [][Next]_vars

\* ... and what is handed out is applied by every server.
Spec == SafeSpec /\ \A s \in Servers : WF_vars(Apply(s))
=============================================================================

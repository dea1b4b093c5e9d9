--------------------------- MODULE SimulationStep ---------------------------
(***************************************************************************)
(* One scenario as seen by SimulationManager.step: the movement director   *)
(* supplies a distance matrix, the pairs whose distance changed are        *)
(* processed one by one (store and command queue only), then the queued    *)
(* commands are run, the nodes are configured and checked, and             *)
(* current_step advances.  A step runs under the simulation lock; its      *)
(* phases are separate actions because an exception may end it between any *)
(* two of them.  In manual stepping the exception goes to the RPC client   *)
(* and the next simulation_step call runs on whatever state is left.       *)
(*                                                                         *)
(* This module holds the state and the control that all backends share.    *)
(* BridgedSingleDevice and BridgedMultiDevice extend it with their own     *)
(* state and conjoin it to the phases.                                     *)
(***************************************************************************)
EXTENDS Naturals, Sequences, FiniteSets

CONSTANTS
  Nodes,         \* node ids, a finite set of naturals
  Distances,     \* distances a movement director may report
  Linked,        \* the distances for which the link quality model says "connected"
  NoEntry,       \* the value of a pair that has no entry in the distance matrix
  IfPairs,       \* interface pairs the backend's InterfaceFilter yields
  Events,        \* events of the command queue
  MaxSteps,      \* bound on current_step
  FailPoints,    \* the phases in which the environment may make a command fail
  MaxFailures    \* bound on the number of such failures

ASSUME StepAssumption ==
  /\ Nodes \subseteq Nat
  /\ Linked \subseteq Distances
  /\ NoEntry \notin Distances
  /\ MaxSteps \in Nat
  /\ MaxFailures \in Nat

VARIABLES
  pc,                \* phase of the step, "idle" between steps
  distance_matrix,   \* SimulationManager.distance_matrix
  diff,              \* pairs of distance_matrix_diff that are not processed yet
  store,             \* NetworkManager.connection_store
  before,            \* active_interfaces_per_connection_before_distance_matrix_changed
  queue,             \* NetworkBackendBridged.shell_command_executor
  current_step,      \* SimulationManager.current_step
  outcome,           \* how the last step ended
  failures           \* number of environment failures so far

stepVars == <<pc, distance_matrix, diff, store, before, queue, current_step,
              outcome, failures>>

\* step() only looks at the upper triangular part of the matrix.
Pairs == {p \in Nodes \X Nodes : p[1] < p[2]}

Store == INSTANCE ConnectionStore
Shell == INSTANCE ShellCommandSerializer

Phases == {"idle", "pairs", "bridge", "ebtables", "batch", "ipconfig", "check", "post"}

Matrices == [Pairs -> Distances]

\* The pairs the link quality model wants connected at the current distances.
Wanted == {p \in Pairs : distance_matrix[p] \in Linked}

StepTypeOK ==
  /\ pc \in Phases
  /\ distance_matrix \in [Pairs -> Distances \cup {NoEntry}]
  /\ diff \in SUBSET Pairs
  /\ store \in Store!Stores
  /\ before \in SUBSET Pairs
  /\ Shell!IsQueue(queue)
  /\ current_step \in 0..MaxSteps
  /\ outcome \in {"none", "ok", "failed"}
  /\ failures \in 0..MaxFailures

(***************************************************************************)
(* SimulationManager.reset, NetworkManager.reset and the fresh backend of  *)
(* the next start.                                                         *)
(***************************************************************************)
StepInit ==
  /\ pc = "idle"
  /\ distance_matrix = [p \in Pairs |-> NoEntry]
  /\ diff = {}
  /\ store = Store!EmptyStore
  /\ before = {}
  /\ queue = Shell!FreshSerializer
  /\ current_step = 0
  /\ outcome = "none"
  /\ failures = 0

(***************************************************************************)
(* The head of _step: the director's matrix m replaces distance_matrix     *)
(* BEFORE anything is done about the difference.  Only in step 0, or if    *)
(* something changed, the topology is touched at all.                      *)
(***************************************************************************)
Changed(m) == {p \in Pairs : m[p] # distance_matrix[p]}

BeginStep(m) ==
  /\ pc = "idle"
  /\ current_step < MaxSteps
  /\ distance_matrix' = m
  /\ IF current_step = 0 \/ Changed(m) # {}
     THEN /\ pc' = "pairs"
          /\ diff' = Changed(m)
          /\ before' = Store!ActivePairs(store)
     ELSE /\ pc' = "post"
          /\ UNCHANGED <<diff, before>>
  /\ UNCHANGED <<store, queue, current_step, outcome, failures>>

\* Every movement director fills its matrix row by row.
RowOrder(p, r) == p[1] < r[1] \/ (p[1] = r[1] /\ p[2] <= r[2])

\* One iteration of the loop over distance_matrix_diff; the backend does the rest.
TakePair(p) ==
  /\ pc = "pairs"
  /\ p \in diff
  /\ \A r \in diff : RowOrder(p, r)
  /\ diff' = diff \ {p}
  /\ UNCHANGED <<pc, distance_matrix, before, current_step, outcome, failures>>

\* Fault: the first pair without link ends the loop instead of its iteration.
PairsDoneEarly ==
  /\ pc = "pairs"
  /\ pc' = "bridge"
  /\ diff' = {}
  /\ UNCHANGED <<distance_matrix, store, before, queue, current_step, outcome,
                 failures>>

PairsDone ==
  /\ pc = "pairs"
  /\ diff = {}
  /\ pc' = "bridge"
  /\ UNCHANGED <<distance_matrix, diff, store, before, queue, current_step,
                 outcome, failures>>

\* A phase that runs commands and lets the step go on to the next phase.
Advance(from, to) ==
  /\ pc = from
  /\ pc' = to
  /\ UNCHANGED <<distance_matrix, diff, store, before, queue, current_step,
                 outcome, failures>>

(***************************************************************************)
(* After the ip and tc batches: the executor is reset, which also drops    *)
(* its group order until reset_simulation_step creates a new one.          *)
(***************************************************************************)
BatchDone ==
  /\ pc = "batch"
  /\ pc' = "ipconfig"
  /\ queue' = Shell!ResetSerializer
  /\ UNCHANGED <<distance_matrix, diff, store, before, current_step, outcome,
                 failures>>

\* get_new_connections_with_interfaces_since_last_distance_matrix_change
NewPairs ==
  IF current_step = 0
  THEN Store!ActivePairs(store)
  ELSE Store!ActivePairs(store) \ before

\* The connectivity checks passed: after_simulation_step, reset_simulation_step.
CheckDone ==
  /\ pc = "check"
  /\ pc' = "post"
  /\ queue' = Shell!FreshSerializer
  /\ UNCHANGED <<distance_matrix, diff, store, before, current_step, outcome,
                 failures>>

\* after_network_setup_done and the end of _step
EndStep ==
  /\ pc = "post"
  /\ pc' = "idle"
  /\ current_step' = current_step + 1
  /\ outcome' = "ok"
  /\ UNCHANGED <<distance_matrix, diff, store, before, queue, failures>>

\* Fault: the exception path throws the queued commands away.
RaiseDropsQueue ==
  /\ pc' = "idle"
  /\ diff' = {}
  /\ outcome' = "failed"
  /\ queue' = Shell!FreshSerializer
  /\ UNCHANGED <<distance_matrix, store, before, current_step>>

\* An exception leaves _step: its local variables are gone, the rest stays.
Raise ==
  /\ pc' = "idle"
  /\ diff' = {}
  /\ outcome' = "failed"
  /\ UNCHANGED <<distance_matrix, store, before, queue, current_step>>

\* ... because a shell command or a command on a node failed.
EnvFailure(point) ==
  /\ pc = point
  /\ point \in FailPoints
  /\ failures < MaxFailures
  /\ failures' = failures + 1
  /\ Raise

\* abort() between steps: the scenario's state is thrown away.
AbortStep ==
  /\ pc = "idle"
  /\ pc' = "idle"
  /\ distance_matrix' = [p \in Pairs |-> NoEntry]
  /\ diff' = {}
  /\ store' = Store!EmptyStore
  /\ before' = {}
  /\ queue' = Shell!FreshSerializer
  /\ current_step' = 0
  /\ outcome' = "none"
  /\ UNCHANGED failures
=============================================================================

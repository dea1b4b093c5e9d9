------------------------ MODULE BridgedSingleDevice ------------------------
(***************************************************************************)
(* The bridged backend in single (WiFi) mode, batch execution with brctl   *)
(* and one shell call per event (the scenario defaults): the tap devices   *)
(* of all nodes are ports of one bridge, and ebtables rules in the         *)
(* bridge's own chain let the connected pairs talk.  One interface per     *)
(* node: EqualInterfaceNumbers joins the k-th interfaces only, so further  *)
(* interfaces would be further independent bridges.                        *)
(***************************************************************************)
EXTENDS SimulationStep, BridgeCommands

VARIABLES
  bridge,   \* does NetworkBackendBridgedSingleDevice.bridges hold the bridge?
  devices,  \* kernel: {Wifi} if the bridge device exists, else {}
  slaves,   \* kernel: the <<node, Wifi>> whose tap device is a port of the bridge
  table     \* kernel: the ebtables table, its chain for the bridge and the
            \* number of times each directed ACCEPT rule is in that chain

kernelVars == <<devices, slaves, table>>
vars == <<stepVars, bridge, kernelVars>>

\* The name of the only bridge, get_br_name(nr_host_interface).
Wifi == "wifi1"

Directions == {d \in Nodes \X Nodes : d[1] # d[2]}
Reverse(d) == <<d[2], d[1]>>
RuleCommands == {"I", "D"} \X Directions

EmptyTable == [chain |-> FALSE, rules |-> [d \in Directions |-> 0]]

Tables == [chain : BOOLEAN, rules : [Directions -> Nat]]

\* The interface pair of the only interface of both nodes.
TheIfs == CHOOSE ifs \in IfPairs : TRUE

ASSUME SingleAssumption ==
  /\ \E ifs \in IfPairs : IfPairs = {ifs}
  /\ Events = {"addbr", "addif", "chain", "rules"}
  /\ FailPoints \subseteq Phases \ {"idle", "pairs"}

TypeOK ==
  /\ StepTypeOK
  /\ queue.cmds["addbr"] \in Seq({Wifi})
  /\ queue.cmds["addif"] \in Seq(Nodes \X {Wifi})
  /\ queue.cmds["chain"] \in Seq({"new"})
  /\ queue.cmds["rules"] \in Seq(RuleCommands)
  /\ bridge \in BOOLEAN
  /\ devices \in SUBSET {Wifi}
  /\ slaves \in SUBSET (Nodes \X {Wifi})
  /\ table \in Tables

Init ==
  /\ StepInit
  /\ bridge = FALSE
  /\ devices = {}
  /\ slaves = {}
  /\ table = EmptyTable

(***************************************************************************)
(* before_simulation_step: in step 0 init_ebtables commits an empty table  *)
(* at once, outside the command queue.                                     *)
(***************************************************************************)
Begin(m) ==
  /\ BeginStep(m)
  /\ table' = IF current_step = 0 THEN EmptyTable ELSE table
  /\ UNCHANGED <<bridge, devices, slaves>>

\* Fault: link_down forgets the way back.
QueueRulesOneWay(q, p, op) ==
  IF op = "D" THEN Shell!AddCommand(q, "rules", <<op, p>>)
  ELSE Shell!AddCommand(Shell!AddCommand(q, "rules", <<op, p>>), "rules", <<op, Reverse(p)>>)

\* tap_link_up for both directions of the pair
QueueRules(q, p, op) ==
  Shell!AddCommand(Shell!AddCommand(q, "rules", <<op, p>>), "rules", <<op, Reverse(p)>>)

\* before_link_initial_start: the bridge and its chain once, both taps every time
QueueBridge(q, p) ==
  LET created == IF bridge THEN q
                 ELSE Shell!AddCommand(Shell!AddCommand(q, "chain", "new"), "addbr", Wifi)
  IN  Shell!AddCommand(Shell!AddCommand(created, "addif", <<p[1], Wifi>>),
                       "addif", <<p[2], Wifi>>)

(***************************************************************************)
(* _step_inner for a pair whose distance changed: nothing to do; a new     *)
(* connection is created, stored and brought up; an active connection      *)
(* changes its link quality (TrafficShaping); or it is taken down.         *)
(* The branch of _step_connection for a known inactive connection is never *)
(* taken, because ChangeState never finds a place for one; no action here  *)
(* would be enabled for it.                                                *)
(***************************************************************************)
LinkUp(p) ==
  /\ distance_matrix[p] \in Linked
  /\ ~ Store!Known(store, p, TheIfs)
  /\ bridge' = TRUE
  /\ store' = Store!ChangeState(Store!AddConnection(store, p, TheIfs), p, TheIfs, TRUE)
  /\ queue' = QueueRules(QueueBridge(queue, p), p, "I")

\* Fault: the store is changed, but no command is queued.
LinkDownStoreOnly(p) ==
  /\ distance_matrix[p] \notin Linked
  /\ store.active[p] # {}
  /\ store' = Store!ChangeState(store, p, TheIfs, FALSE)
  /\ UNCHANGED <<queue, bridge>>

LinkDown(p) ==
  /\ distance_matrix[p] \notin Linked
  /\ store.active[p] # {}
  /\ store' = Store!ChangeState(store, p, TheIfs, FALSE)
  /\ queue' = QueueRules(queue, p, "D")
  /\ UNCHANGED bridge

LinkKept(p) ==
  /\ IF distance_matrix[p] \in Linked
     THEN TheIfs \in store.active[p]
     ELSE store.active[p] = {}
  /\ UNCHANGED <<store, queue, bridge>>

ProcessPair(p) ==
  /\ TakePair(p)
  /\ LinkUp(p) \/ LinkDown(p) \/ LinkKept(p)
  /\ UNCHANGED kernelVars

EndOfPairs == PairsDone /\ UNCHANGED <<bridge, kernelVars>>

(***************************************************************************)
(* NetworkBackendBridgedBrctl: the bridge commands run first.              *)
(***************************************************************************)
ToAddBr == Shell!Runnable(queue, "addbr")
ToAddIf == Shell!Runnable(queue, "addif")

BridgeCommandsRun ==
  /\ devices' = AddBr(devices, ToAddBr)
  /\ slaves' = AddIf(devices', slaves, ToAddIf)
  /\ UNCHANGED <<bridge, table>>

RunBridge ==
  /\ AddBrOk(devices, ToAddBr)
  /\ Advance("bridge", "ebtables")
  /\ BridgeCommandsRun

BridgeError ==
  /\ pc = "bridge"
  /\ ~ AddBrOk(devices, ToAddBr)
  /\ Raise
  /\ UNCHANGED <<failures, bridge, kernelVars>>

(***************************************************************************)
(* The ebtables events.  All commands of an event go to one "sh -c 'a; b'" *)
(* call, whose exit status is the status of the last command: an earlier   *)
(* command that fails is skipped silently.  They edit a copy of the table  *)
(* (--atomic-file), which replaces the kernel's with the final commit.     *)
(***************************************************************************)
Fails(t, c) == ~ t.chain \/ (c[1] = "D" /\ t.rules[c[2]] = 0)

Edit(t, c) ==
  [t EXCEPT !.rules[c[2]] = IF c[1] = "I" THEN @ + 1 ELSE IF @ > 0 THEN @ - 1 ELSE @]

\* The table after the first n rule commands; without the chain all of them fail.
EditAll(t, cmds) ==
  LET after[n \in 0..Len(cmds)] ==
        IF n = 0 \/ ~ t.chain THEN t ELSE Edit(after[n-1], cmds[n])
  IN  after

EbtablesRun ==
  LET chain == Shell!Runnable(queue, "chain")
      rules == Shell!Runnable(queue, "rules")
      start == [table EXCEPT !.chain = @ \/ chain # <<>>]
      after == EditAll(start, rules)
      n     == Len(rules)
  IN  [ok    |-> /\ chain # <<>> => ~ table.chain
                 /\ rules # <<>> => ~ Fails(after[n-1], rules[n]),
       table |-> after[n]]

RunEbtables ==
  /\ EbtablesRun.ok
  /\ Advance("ebtables", "batch")
  /\ table' = EbtablesRun.table
  /\ UNCHANGED <<bridge, devices, slaves>>

\* A shell call of ebtables exits with an error: nothing is committed.
EbtablesError ==
  /\ pc = "ebtables"
  /\ ~ EbtablesRun.ok
  /\ Raise
  /\ UNCHANGED <<failures, bridge, kernelVars>>

\* The ip batch; TrafficShaping adds the tc batch.  A missing bridge would stop it, but
\* then its chain is missing too and the step has ended in EbtablesError before.
RunBatch ==
  /\ BatchDone
  /\ IpBatchOk(devices, ToAddIf)
  /\ UNCHANGED <<bridge, kernelVars>>

IpConfig == Advance("ipconfig", "check") /\ UNCHANGED <<bridge, kernelVars>>

\* Frames from x reach y: both taps on the bridge, and no chain or a rule in it.
Reaches(x, y) ==
  /\ {<<x, Wifi>>, <<y, Wifi>>} \subseteq slaves
  /\ table.chain => table.rules[<<x, y>>] > 0

CanTalk(p) == Reaches(p[1], p[2]) /\ Reaches(p[2], p[1])

\* The nodes of every new connection ping each other.
CheckPasses ==
  /\ CheckDone
  /\ \A p \in NewPairs : CanTalk(p)
  /\ UNCHANGED <<bridge, kernelVars>>

CheckFails ==
  /\ pc = "check"
  /\ \E p \in NewPairs : ~ CanTalk(p)
  /\ Raise
  /\ UNCHANGED <<failures, bridge, kernelVars>>

End == EndStep /\ UNCHANGED <<bridge, kernelVars>>

(***************************************************************************)
(* A failure of the environment.  The addresses are only configured, and   *)
(* the post network commands only run, in step 0; a check needs a new      *)
(* connection.  A failed shell call with bridge commands has failed in     *)
(* addbr, so that nothing was done, or in the last command only.           *)
(***************************************************************************)
Failure(point) ==
  /\ EnvFailure(point)
  /\ point \in {"ipconfig", "post"} => current_step = 0
  /\ point = "check" => NewPairs # {}
  /\ \/ UNCHANGED <<bridge, kernelVars>>
     \/ point = "bridge" /\ BridgeCommandsRun

\* abort(): the bridge is deleted and NetworkBackendBridgedSingleDevice.reset
\* commits an empty table; the next scenario has a new backend object.
Abort ==
  /\ AbortStep
  /\ bridge' = FALSE
  /\ devices' = {}
  /\ slaves' = {}
  /\ table' = EmptyTable

Next ==
  \/ \E m \in Matrices : Begin(m)
  \/ \E p \in Pairs : ProcessPair(p)
  \/ EndOfPairs
  \/ RunBridge
  \/ BridgeError
  \/ RunEbtables
  \/ EbtablesError
  \/ RunBatch
  \/ IpConfig
  \/ CheckPasses
  \/ CheckFails
  \/ End
  \/ \E point \in FailPoints : Failure(point)
  \/ Abort

Spec == Init /\ [][Next]_vars
-----------------------------------------------------------------------------
(***************************************************************************)
(* Between steps the store holds exactly the pairs the link quality model  *)
(* wants connected at the distances of the last matrix, whatever failed in *)
(* the steps before: the matrix is replaced before the pairs are           *)
(* processed (SimulationManager.step), so a pair skipped once would never  *)
(* be looked at again.                                                     *)
(***************************************************************************)
StoreMatchesMatrix == pc = "idle" => Store!ActivePairs(store) = Wanted

(***************************************************************************)
(* The kernel never lets one direction of a link through without the       *)
(* other: set_connection_state queues both directions, and duplicate       *)
(* suppression, failing commands and reruns of the queue never separate    *)
(* them.                                                                   *)
(***************************************************************************)
NoHalfOpenLink == \A d \in Directions : table.rules[d] = table.rules[Reverse(d)]

\* The last step ended well.
Settled == pc = "idle" /\ outcome = "ok"
=============================================================================

------------------------- MODULE NetworkBackendVDE -------------------------
(***************************************************************************)
(* The VDE backend: every node interface has a vde_switch, and a link is a *)
(* wirefilter process between two free ports of two switches.  In contrast *)
(* to the bridged backends nothing is queued: the processes are started    *)
(* and commanded while the pairs are processed, so an exception there      *)
(* leaves the pairs behind it untouched although distance_matrix has been  *)
(* replaced already.  Addresses come from NetworkConfiguratorSameSubnet.   *)
(* One interface per node: EqualInterfaceNumbers joins the k-th interfaces *)
(* only, each over switches of its own.                                    *)
(***************************************************************************)
EXTENDS SimulationStep, SameSubnet

CONSTANTS
  Limited,      \* distances for which the link quality has a bandwidth
  NumPorts,     \* ports of a switch, set_port_size
  IfaceTotal,   \* interfaces a node has of the type
  SubnetSizes   \* sizes a scenario may choose for its subnets

ASSUME VdeAssumption ==
  /\ IsFiniteSet(Nodes)
  /\ \E ifs \in IfPairs : IfPairs = {ifs}
  /\ Events = {}
  /\ Limited \subseteq Linked
  /\ FailPoints \subseteq {"pairs", "ipconfig", "check", "post"}
  /\ NumPorts \in Nat \ {0}
  /\ IfaceTotal \in Nat \ {0}
  /\ SubnetSizes \subseteq Nat

VARIABLES
  scenario,  \* the settings the backend reads
  switches,  \* nodes whose switch is started, sized, coloured and in its VLAN
  wires,     \* wirefilter processes of a pair; the last one owns the socket
  nics,      \* nodes whose interface has its address
  skipped    \* history: pairs whose processing an exception cut off

vdeVars == <<switches, wires, nics, skipped>>
vars == <<stepVars, scenario, vdeVars>>

TheIfs == CHOOSE ifs \in IfPairs : TRUE

\* A running process: does it drop all frames, are both its ports in the VLAN?
Wire == [drops : BOOLEAN, vlan : BOOLEAN]

\* The size of its subnets, and whether "bandwidth" is set for its links.
Scenarios == [subnet : SubnetSizes, bandwidth : BOOLEAN]

TypeOK ==
  /\ StepTypeOK
  /\ scenario \in Scenarios
  /\ switches \in SUBSET Nodes
  /\ wires \in [Pairs -> Seq(Wire)]
  /\ nics \in SUBSET Nodes
  /\ skipped \in SUBSET Pairs

Init ==
  /\ StepInit
  /\ scenario \in Scenarios
  /\ switches = {}
  /\ wires = [p \in Pairs |-> <<>>]
  /\ nics = {}
  /\ skipped = {}

(***************************************************************************)
(* The start of a node: VDESwitch._start, then after_pre_shell_commands    *)
(* sets the size, the colour and the VLAN of the port QEMU is plugged into.*)
(* A node that fails here ends the start of the simulation (NodeBoot).     *)
(***************************************************************************)
StartSwitch(n) ==
  /\ pc = "idle"
  /\ n \notin switches
  /\ switches' = switches \cup {n}
  /\ UNCHANGED <<stepVars, scenario, wires, nics, skipped>>

\* MaxFailures bounds all steps that end with an exception in this module: the
\* client then gives up.
Begin(m) ==
  /\ switches = Nodes
  /\ failures < MaxFailures
  /\ BeginStep(m)
  /\ UNCHANGED <<scenario, vdeVars>>

(***************************************************************************)
(* get_free_port chooses among range(PORT_QEMU, Numports + 1) without the  *)
(* used ports: QEMU's and one for each wire that ends at the switch.       *)
(***************************************************************************)
WiresAt(n) == {w \in Pairs \X (1..NumPorts) : n \in {w[1][1], w[1][2]} /\ w[2] <= Len(wires[w[1]])}

\* Fault: the last port is left out of the range.
FreePortBut(n) == 1 + Cardinality(WiresAt(n)) < NumPorts - 2

FreePort(n) == 1 + Cardinality(WiresAt(n)) < NumPorts - 1

FreePorts(p) == FreePort(p[1]) /\ FreePort(p[2])

(***************************************************************************)
(* Wirefilter.start launches the process with "-l 100" and waits for its   *)
(* socket.  The path of the socket depends on the interfaces only: while   *)
(* an earlier wire of the pair still has it, the new process either takes  *)
(* it over or exits, which nobody notices (supervise_process=False), and   *)
(* the wait ends all the same.                                             *)
(***************************************************************************)
Launched(p) ==
  {Append(wires[p], [drops |-> TRUE, vlan |-> FALSE])}
    \cup {ws \in {wires[p]} : ws # <<>>}

\* Both ports of the process just launched are moved to the interface's VLAN.
MovedToVlan(p, ws) ==
  IF Len(ws) > Len(wires[p]) THEN [ws EXCEPT ![Len(ws)].vlan = TRUE] ELSE ws

\* adjust_link_quality: "loss 0", sent to the process that owns the socket
Passing(ws) == [ws EXCEPT ![Len(ws)].drops = FALSE]

\* In step 0 the distance's link quality is merged into the initial one.
HasBandwidth(p) ==
  distance_matrix[p] \in Limited \/ (current_step = 0 /\ scenario.bandwidth)

NeedsWire(p) == distance_matrix[p] \in Linked /\ ~ Store!Known(store, p, TheIfs)

Stored(p) == Store!ChangeState(Store!AddConnection(store, p, TheIfs), p, TheIfs, TRUE)

\* Fault: the wire is left as it was started.
LinkUpDropping(p) ==
  /\ NeedsWire(p)
  /\ FreePorts(p)
  /\ ~ HasBandwidth(p)
  /\ \E ws \in Launched(p) : wires' = [wires EXCEPT ![p] = MovedToVlan(p, ws)]
  /\ store' = Stored(p)

LinkUp(p) ==
  /\ NeedsWire(p)
  /\ FreePorts(p)
  /\ ~ HasBandwidth(p)
  /\ \E ws \in Launched(p) : wires' = [wires EXCEPT ![p] = Passing(MovedToVlan(p, ws))]
  /\ store' = Stored(p)

\* An active connection stays one: its quality is set again.
Adjust(p) ==
  /\ distance_matrix[p] \in Linked
  /\ ~ HasBandwidth(p)
  /\ TheIfs \in store.active[p]
  /\ wires' = [wires EXCEPT ![p] = Passing(wires[p])]
  /\ UNCHANGED store

\* Fault: link_down looks for an inactive connection.
LinkDownInactive(p) ==
  /\ distance_matrix[p] \notin Linked
  /\ store.active[p] # {}
  /\ UNCHANGED <<store, wires>>

\* link_down is inherited from NetworkBackendNotifications: the store only.
LinkDown(p) ==
  /\ distance_matrix[p] \notin Linked
  /\ store.active[p] # {}
  /\ store' = Store!ChangeState(store, p, TheIfs, FALSE)
  /\ UNCHANGED wires

NotLinked(p) ==
  /\ distance_matrix[p] \notin Linked
  /\ store.active[p] = {}
  /\ UNCHANGED <<store, wires>>

ProcessPair(p) ==
  /\ TakePair(p)
  /\ LinkUp(p) \/ Adjust(p) \/ LinkDown(p) \/ NotLinked(p)
  /\ skipped' = skipped \ {p}
  /\ UNCHANGED <<queue, scenario, switches, nics>>

\* The exception takes the rest of distance_matrix_diff with it.
Lost ==
  /\ pc' = "idle"
  /\ diff' = {}
  /\ outcome' = "failed"
  /\ failures' = failures + 1
  /\ skipped' = skipped \cup diff
  /\ UNCHANGED <<distance_matrix, before, queue, current_step, scenario,
                 switches, nics>>

First(p) == pc = "pairs" /\ p \in diff /\ \A r \in diff : RowOrder(p, r)

\* random.randint(0, -1) raises ValueError.
NoFreePort(p) ==
  /\ First(p)
  /\ NeedsWire(p)
  /\ ~ FreePorts(p)
  /\ Lost
  /\ UNCHANGED <<store, wires>>

\* adjust_link_quality calls network_manager.set_bandwidth, which does not exist.
NoSetBandwidth(p) ==
  /\ First(p)
  /\ HasBandwidth(p)
  /\ \/ /\ NeedsWire(p)
        /\ FreePorts(p)
        /\ \E ws \in Launched(p) : wires' = [wires EXCEPT ![p] = MovedToVlan(p, ws)]
        /\ store' = Stored(p)
     \/ TheIfs \in store.active[p] /\ UNCHANGED <<store, wires>>
  /\ Lost

(***************************************************************************)
(* A switch or a wirefilter answers with a hiccup more than TRIES times,   *)
(* or the process cannot be started (fix_hiccup, ensure_successful): for   *)
(* a new link before the process runs, before its ports are in the VLAN,   *)
(* or after the connection was stored.                                     *)
(***************************************************************************)
Hiccup(p) ==
  /\ "pairs" \in FailPoints
  /\ First(p)
  /\ distance_matrix[p] \in Linked
  /\ \/ UNCHANGED <<store, wires>>
     \/ /\ NeedsWire(p) /\ FreePorts(p)
        /\ \E ws \in Launched(p) : wires' = [wires EXCEPT ![p] = ws]
        /\ UNCHANGED store
     \/ /\ NeedsWire(p) /\ FreePorts(p)
        /\ \E ws \in Launched(p) : wires' = [wires EXCEPT ![p] = MovedToVlan(p, ws)]
        /\ store' = Stored(p)
  /\ Lost

\* after_distance_matrix_changed does nothing in this backend.
EndOfPairs ==
  /\ pc = "pairs"
  /\ diff = {}
  /\ pc' = "ipconfig"
  /\ UNCHANGED <<distance_matrix, diff, store, before, queue, current_step, outcome,
                 failures, scenario, vdeVars>>

\* needs_reconfiguration: until a first step has been completed
NeedsReconfiguration == current_step < 1

IpConfig ==
  /\ Advance("ipconfig", "check")
  /\ NeedsReconfiguration => AllFit(Nodes, IfaceTotal, scenario.subnet)
  /\ nics' = IF NeedsReconfiguration THEN Nodes ELSE nics
  /\ UNCHANGED <<scenario, switches, wires, skipped>>

\* SubnetNoMoreIps
NoMoreIps ==
  /\ pc = "ipconfig"
  /\ NeedsReconfiguration
  /\ ~ AllFit(Nodes, IfaceTotal, scenario.subnet)
  /\ Raise
  /\ failures' = failures + 1
  /\ UNCHANGED <<scenario, vdeVars>>

\* A node's ifconfig fails; its siblings run in parallel threads.
IpConfigFails(done) ==
  /\ EnvFailure("ipconfig")
  /\ NeedsReconfiguration
  /\ AllFit(Nodes, IfaceTotal, scenario.subnet)
  /\ done # Nodes
  /\ nics' = nics \cup done
  /\ UNCHANGED <<scenario, switches, wires, skipped>>

\* Some process of the pair lets frames pass between the VLAN of both switches.
CanTalk(p) == \E k \in DOMAIN wires[p] : ~ wires[p][k].drops /\ wires[p][k].vlan

\* The first node pings the address of the second.
PingWorks(p) == CanTalk(p) /\ {p[1], p[2]} \subseteq nics

CheckPasses ==
  /\ CheckDone
  /\ \A p \in NewPairs : PingWorks(p)
  /\ UNCHANGED <<scenario, vdeVars>>

CheckFails ==
  /\ pc = "check"
  /\ \E p \in NewPairs : ~ PingWorks(p)
  /\ Raise
  /\ failures' = failures + 1
  /\ UNCHANGED <<scenario, vdeVars>>

End == EndStep /\ UNCHANGED <<scenario, vdeVars>>

Failure(point) ==
  /\ EnvFailure(point)
  /\ point = "check" => NewPairs # {}
  /\ point = "post" => current_step = 0
  /\ UNCHANGED <<scenario, vdeVars>>

\* abort(): ShellHelper.reset terminates the processes, the guests end with QEMU;
\* the next scenario has its own settings.
Abort ==
  /\ AbortStep
  /\ scenario' \in Scenarios
  /\ switches' = {}
  /\ wires' = [p \in Pairs |-> <<>>]
  /\ nics' = {}
  /\ skipped' = {}

Next ==
  \/ \E n \in Nodes : StartSwitch(n)
  \/ \E m \in Matrices : Begin(m)
  \/ \E p \in Pairs : ProcessPair(p)
  \/ \E p \in Pairs : NoFreePort(p)
  \/ \E p \in Pairs : NoSetBandwidth(p)
  \/ \E p \in Pairs : Hiccup(p)
  \/ EndOfPairs
  \/ IpConfig
  \/ NoMoreIps
  \/ \E done \in SUBSET Nodes : IpConfigFails(done)
  \/ CheckPasses
  \/ CheckFails
  \/ End
  \/ \E point \in FailPoints \cap {"check", "post"} : Failure(point)
  \/ Abort

Spec == Init /\ [][Next]_vars
-----------------------------------------------------------------------------
(***************************************************************************)
(* Between steps the store and the matrix disagree about a pair only if an *)
(* exception cut the loop over distance_matrix_diff off before the pair    *)
(* (SimulationManager.step replaces distance_matrix first) and the pair's  *)
(* distance has not changed since.                                         *)
(***************************************************************************)
StoreFollowsMatrix ==
  pc = "idle" => \A p \in Pairs \ skipped : store.active[p] # {} <=> p \in Wanted

(***************************************************************************)
(* A pair the last matrix wants connected can exchange frames, unless its  *)
(* processing was cut off or one of its wires was left outside the VLAN by *)
(* a start that failed: that wire keeps the socket, and the loss of the    *)
(* next connection is then set on it.  Once a step has been completed both *)
(* nodes have addresses, although these are configured in the first step   *)
(* only and may fail there: a failed first step is repeated as the first.  *)
(***************************************************************************)
WantedLinksCarry ==
  pc = "idle" =>
    \A p \in Wanted \ skipped :
      /\ (\A k \in DOMAIN wires[p] : wires[p][k].vlan) => CanTalk(p)
      /\ current_step > 0 => {p[1], p[2]} \subseteq nics

(***************************************************************************)
(* "we need N + 1 ports" (VDEConstants): with that many, a pair that never *)
(* had a wire finds a port on both switches, unless another pair holds     *)
(* ports of several processes.                                             *)
(***************************************************************************)
PortsForFirstLinks ==
  NumPorts >= Cardinality(Nodes) + 1 =>
    \A p \in Pairs : \/ wires[p] # <<>>
                     \/ FreePorts(p)
                     \/ \E q \in Pairs : Len(wires[q]) > 1
=============================================================================

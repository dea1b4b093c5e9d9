# A TLA+ model of the miniworld core

miniworld emulates mobile networks: every node is a virtual machine, a movement
director reports the distances between the nodes, and a network backend joins or
separates the virtual network cards accordingly. This directory holds TLA+ modules
of the part of miniworld that has to be right for an experiment to mean anything:
the simulation step that turns distances into a topology, the movement directors that
report them, the life cycle of a scenario around it, the start of its virtual machines and
the progress that is reported of it, and the protocol that keeps the servers of a
distributed emulation in step. TLC checks the modules on small instances; TLAPS proves the
most important safety properties for all instances. `PROJECT.json` maps each definition to its source
lines and lists runs, mutants, findings, hazards and theorems.

Paths below are relative to `src/miniworld/`.

## 1. Inventory

| Part | State | Operations | Correct if |
|---|---|---|---|
| `SimulationManager` (local) | `lock`, `running`, `auto_stepping`, `run_loop`, `network_backend`, `movement_director`, `current_step`, `distance_matrix`, the "fully started" event | `start`, `_start`, `step`, `abort`, `raise_run_loop_exception` | starts and steps exclude each other; what runs can be stopped; every call returns |
| `RunLoop`, `ExceptionStopThread`, `StopThread` | termination flag, `raise_objects` | loop, `terminate`, end by exception | one loop at a time, and it ends |
| `NetworkManager` | `connection_store`, interfaces active before the change | callbacks before and after step, matrix change, link change | new connections are configured and checked |
| `ConnectionStore` | active and inactive connections | add, change state, look up | agrees with the distances |
| `ShellCommandSerializer` | commands per group and event, the orders | add, run, reset | runs what was queued, once, in order |
| Bridged backend, single device | bridges, ebtables rules | one bridge for all nodes, rules per connected pair | frames pass between exactly the connected pairs |
| Bridged backend, multi device, `ConnectionBookKeeper` | used taps, known pairs | one bridge per link | a tap is on one bridge; frames pass between exactly the connected pairs |
| Network provisioners | `used_subnets`, the generator of subnets, `nic_check_commands` | configure, check | the ends of every connection have different addresses of one subnet |
| Link quality models, `Connection` | `shaped_ifaces`, stored qualities | adjust on a new distance, `tc` commands | a link has the quality of its present distance |
| VDE backend | switches, ports, wirefilter processes, VLANs | connect, link up and down, adjust | as the bridged backend; ports suffice |
| Movement directors, spatial model | list of Core files and seconds left, roads, walkers | `simulate_step`, `get_distances_from_nodes` | the topologies of the files in their time; walkers on roads |
| Tunnels between servers | tunnel devices, keys | open for a link between servers | the two ends fit together |
| Configuration of a server | node mapping, endpoints, server id | written by the coordinator, read by the server | every node is started once |
| Coordinator, ZeroMQ servers and clients | state of the barrier, server ids | register, exchange, start nodes, distribute matrices, reset | all servers take the same steps |
| `NodeDistributionStrategy` | server scores | distribute nodes | every node on one server, in proportion |
| `EventSystem` | progress per node and event, list of events, `ready` | init, update, finish, read | progress is what has happened; whoever asks is told so in the end |
| `SimulationStateGarbageCollector`, `StartableObject` | registered objects | reset | no state of a scenario survives it |
| Nodes, `NodeStarter`, Qemu, REPL, `ShellHelper` | `qemu_process_singletons`, `booted_from_snapshot`, snapshots inside the processes, subprocesses, sockets | boot, resume, run commands, snapshot, end | a start gives every node a machine of its scenario, fresh and only one |
| iproute2 and pyroute2 modes | open netlink sockets | the same commands by other means | as the bridged backend |
| RPC server, CLI, configuration | none of their own | remote calls | |

How the parts interact. The XML-RPC server answers one call at a time and calls the
`SimulationManager`. A non-blocking start continues in a thread of its own, and auto
stepping adds a `RunLoop` thread. `step` asks the movement director for a matrix,
calls `_step_inner` for the changed pairs, which goes through the `NetworkManager` to
the backend; the backend only changes its books and queues shell commands. After the
last pair the queue is run, nodes are configured over their consoles and checked with
pings. Before all that, `_start` boots the nodes in one thread each; in snapshot mode their
qemu processes outlive the scenario and are resumed by the next start of the same one.
Any of the shell calls may raise, and the exception leaves the step where it is.
The VDE backend queues nothing: its processes are started and commanded pair by pair.
Node threads, starts and steps report to the `EventSystem`, which a client of a non-blocking
start may ask through the one RPC thread.

In distributed mode a coordinator runs the movement director and emulation servers run
the nodes. Each server has one request socket to the coordinator's router socket and
subscriptions for resets and, in multicast mode, matrices. Servers register, exchange
addresses and scores for their part of the scenario, start their nodes, and then apply
matrix after matrix; the coordinator waits in each state for a request of every server.
Nodes are spread by a `NodeDistributionStrategy`.

What is hard: three kinds of threads on one manager with a lock that `abort` ignores;
steps that fail in the middle and are repeated by a user on the state they left; a
command queue with a life of its own; a book of used devices that only grows; machines
that outlive the scenario they were booted for, and a wait for their sockets without
timeout; an event system, a map and a file list that outlive a scenario or do not; in
distributed mode a barrier without timeouts, resets that are published and never
acknowledged, and threads of aborted scenarios that go on receiving.
The `hazards` of `PROJECT.json` list each of them at its line.

## 2. Modules

| Module | Models |
|---|---|
| `ConnectionStore` | the store as operators on a record of two functions |
| `ShellCommandSerializer` | the command queue as operators on a record |
| `SimulationStep` | the phases of `SimulationManager.step` that all backends share |
| `BridgeCommands` | what `brctl` and the `ip` batch do to the kernel (external) |
| `BridgedSingleDevice` | `SimulationStep` with the WiFi backend: bridge, ebtables |
| `TrafficShaping` | the WiFi backend with a link quality model: `tc` commands and qdiscs |
| `TopologySwitch` | what a backend promises: one visible switch per changed matrix |
| `BridgedMultiDevice` | `SimulationStep` with the LAN backend and its book keeper |
| `LanScenario` | the LAN backend together with the P2P provisioner |
| `SameSubnet` | the addresses of the other provisioner |
| `NetworkBackendVDE` | `SimulationStep` with the VDE backend and `SameSubnet` |
| `CoreConfigNodes` | the files of the CORE emulator, their schedule, their matrices |
| `MapWalk` | walkers on a street map: where a step takes them |
| `MovementDirector` | the director of a scenario over both, and the steps that ask it |
| `SimulationLifecycle` | start, step, abort and the run loop, thread by thread |
| `LockStep` | what the distributed mode promises: all servers apply each matrix before the next |
| `ZeroMQProtocol` | coordinator threads, servers and sockets of the distributed mode |
| `NodeDistribution` | the two strategies that spread nodes over servers |
| `DistributedMatrix` | which part of the matrix each server gets, and its way over the wire |
| `ScenarioConfig` | the config of each server: what the coordinator writes, what a server reads |
| `Tunnel` | address and key of a tunnel, from the config of the server that opens it |
| `DistributedScenario` | the four modules above together: the computed mapping goes into the configs, by which nodes are started, matrices cut and tunnels opened |
| `NodeBoot` | starting nodes: boot, resume from a snapshot, the processes that stay behind |
| `EventSystem` | progress per node and event as operators on a function |
| `Progress` | who writes and who reads it: starts, node threads, steps, the RPC thread |
| `LanScenario_proofs` | theorems about the LAN backend: alone, and with its provisioner |
| `TrafficShaping_proofs` | theorems about the WiFi backend: after any failures, and after at most one |
| `NetworkBackendVDE_proofs`, `MovementDirector_proofs`, `NodeBoot_proofs`, `SimulationLifecycle_proofs`, `ZeroMQProtocol_proofs`, `DistributedScenario_proofs` | theorems about the module they are named after |
| `MC*` | instances for TLC |

**The step** (`SimulationStep`). `pc` names the phase. `Begin` is the head of `_step`:
the director's matrix replaces `distance_matrix` before anything is done about the
difference. `ProcessPair` is one iteration of the loop (`_step_inner`), in the order in
which every director fills its matrix. `RunBridge`, `RunEbtables` and `RunBatch` are
the shell calls of `do_network_topology_change` (brctl mode, batch execution, one shell
call per event: the defaults), `IpConfig` the provisioner, `CheckPasses`/`CheckFails` the
pings, `End` the rest. `Failure(point)` is an exception of a command in a phase,
`BridgeError`, `EbtablesError` and `CheckFails` are the exceptions that follow from the
kernel's state. An exception ends the step (`Raise`): locals are lost, everything else
stays, and the next `simulation_step` goes on from there. `Abort` is `abort()` between
two steps. Distances are model values; `Linked` are those the link quality model
connects. Commands are small tuples, not strings: the model keeps their order, the
duplicate suppression, and that one shell call reports only its last command's status.

**Traffic shaping** (`TrafficShaping`). The step of the WiFi backend with the `tc` group of
the same queue. `shaped_ifaces` is the backend's memory of root qdiscs, `tc` the kernel's. The
class of a link with its netem qdisc and its filter is one command, and the quality of a link is
the distance it was computed from. `TcError` is the batch that the kernel refuses. Every step
of it is a step of `BridgedSingleDevice` or, with `TcError`, an exception of its batch phase,
so the run about the WiFi backend, `shaping`, is a run of this module.

**Addresses** (`LanScenario`, `SameSubnet`). `IpConfigP2P` gives every new connection a
subnet in the order of the pairs, its ends the addresses 1 and 2, and queues a ping for each
end; `IpConfigFails(done)` is a console that fails after the taps in `done` were addressed.
The check is no free choice any more: a ping works if the other end has that address and
frames pass.

**The VDE backend** (`NetworkBackendVDE`). A link is a sequence of wirefilter processes on
one socket path, the last of which takes the commands. Each holds a port of both switches
and is in the VLAN of the network or not. A pair may raise in its processing (no free port,
a bandwidth, a command that fails); the pairs behind it are then lost (`skipped`).

**Movement** (`MovementDirector`). `Start` is the factory, `Step` the director's part of a
simulation step: the Core file list, or the nodes that walk one after the other, then the
matrix. Points are names, lengths of roads and speeds small numbers; a walker is a record
of the map nodes before and after it, the way gone and the way left. The place
of a random choice is a set.

**Progress** (`Progress`). Every write of one node's progress is an action, and so is every
access of the reader, which takes no lock. The lock of the event system is left out because
those who write to several nodes never run at the same time. `rpc` is one call of
`get_progress` under way, `client` whoever calls it until a report
is complete. This client is external. The one in the repository (`mwcli start` with its
progress option) raises before it starts anything: `mwcli` line 178 passes
`force_snapshot_boot` as the connection, and under Python 3 `CliUtil.py` line 93 fails with the
import of `CLIEventDisplay` (whose line 3 imports `itertools.imap`); lines 96, 97 and 131 would
fail too. Only its notion of a complete report and of a value out of range is used. Where the rest of
a report can make no difference any more (`Determined`: a node was found behind and nothing
is added before the RPC thread is free again) it is not followed (`UnfinishedReport`).

**The life cycle** (`SimulationLifecycle`). One program counter for the RPC thread, one
per `_start`, one per `RunLoop`. `_start` is cut where other threads can see a
difference: taking the lock, creating backend, nodes, director and run loop, releasing
the lock, reading `auto_stepping`, polling the event, setting `running`. `abort()` is cut
at its two reads of `run_loop`, because it takes no lock. A step is one critical section
that succeeds or raises. `pause` and `resume` raise
`NotImplementedError`.

**The distributed mode** (`ZeroMQProtocol`). A server is a program counter with its id, the
number of its scenario and of the matrix it applied last. A request is the state it names,
a reply the state it answers and one value (id, scenario, matrix). Each server has at most
one request and one reply in transit, because its socket alternates strictly; resets and
matrices are queued per subscriber. Coordinator threads are the stepper (RunLoop or RPC
thread) and the ZeroMQ threads, the first and one more for each abort: an abort does not
end the threads before it, and any thread that is in a receive call may get the next
request. `mode` is the configured way of distribution, chosen in `Init` and the same for
all. A reset is handled in the two `select` calls only; in the second one the
following send is an error of the socket and ends the server's thread, as do nodes that
do not start and steps that raise (`ClientFails`). Assumptions: starts are blocking; as many
servers come up as the coordinator expects; messages between connected sockets are not
lost; a subscription may take effect late (`LateSubscribers`).

`NodeDistribution` computes one distribution per behaviour, from every input within the
bounds. `DistributedScenario` is its behaviour followed, for scenarios with the nodes and
servers of `DistributedMatrix`, by that of the latter (`CreateScenarioConfigs` hands over
the mapping). Lists of nodes are sets; shares are exact quotients, and a share that is a whole
number may be rounded up by one, which is what the floating point quotient can do.

`ScenarioConfig` and `Tunnel` are computed from that mapping: the coordinator changes one config
object for each server in turn, copies it and sends it as JSON, in which the integer keys become
strings. Every server decides by its own config which nodes to start and which tunnels to open.

`DistributedMatrix` follows the contents of the matrices that `ZeroMQProtocol` only counts.
Node ids become strings as keys of a JSON object and are turned back by the reader. A
server that gets an empty matrix fails (`RecvNothing`): `step` takes it for a missing one.

**Starting nodes** (`NodeBoot`). `pc[n]` is the thread that `NodeStarter` runs for a node,
`phase` the thread of the start around them; both boot modes are in `Init`, and starts
block or not. The qemu processes of a node are numbered; all use the same socket paths, so
the last one answers. A process carries its guest (image, options, how often the commands
of the scenario have run, whether a simulation has used it) and its snapshots by name. A
call stores its scenario and compares it with the stored one before it waits for the lock
(`StartCall`), which is why a refused or failed start matters to the next one. The dialogue
with a console or the monitor is one action per script with the outcomes that `CommandRunner`
has: success, a timeout (`TimesOut`), and, if the machine goes away, either a timeout or an
error of the socket that is logged and counts as success (`ConnectionLost`). A thread that is
not connected yet waits for as long as there is no socket. A new process may not come up at
all (`SpawnFails`: the overlay image or the process cannot be created), after the one it was to
replace was killed. `behind`, `last_up`, `repeat`, `flawed` and `unreplaced` are history:
nodes that were passed over by a comparison, the scenario that came up
last with nothing after it, whether the present start repeats it, whether one of
its snapshots is missing, and the nodes whose new process did not come up.

Several definitions carry the comment "Fault:". They are wrong variants of the
definition that follows them, each a plausible slip in the code, and are used by no
specification: with the variant in its place TLC refutes the property named in
`PROJECT.json`, which shows that the property depends on that code.

## 3. Runs

| Run | Instance | Checks | Result |
|---|---|---|---|
| `shaping` | 3 nodes, 3 distances (2 linked), 5 matrices, 3 steps, aborts, 1 failure in any phase | `StoreMatchesMatrix`, `NoHalfOpenLink`; `KernelFollowsMatrix` and the refinement of `TopologySwitch` with liveness until a failure that only an abort repairs; `LinksShaped`, `ShapingFailsForAReason` until a step fails late | holds |
| `lan` | 3 nodes, 2 interface types, 3 distances (2 linked), 1 or 2 subnets, 3 steps, aborts, 1 failure in any phase | `TypeOK`, `TapOnOneBridge`, `UpIffActive`, `RefusedForAReason`, `OwnSubnets`; `LinksWork` until the first failure | holds |
| `multi_reconnect` | 2 interfaces of one type, no failures | `LinksComeBack` | violated |
| `lifecycle` | 2 starts of either kind, 2 failures | `LoopIsTracked`, `RunningIsComplete`, `CallsReturn` while all starts block; `LockProtects` always | holds |
| `zeromq` | 3 servers, both modes, 1 start, 3 steps | refinement of `LockStep` with liveness, `CallsReturn` | holds |
| `zeromq_disturbed` | 2 servers, both modes, 3 starts, 2 aborts, 3 steps, 1 failing server, 1 late subscriber | `AnswersFitRequests`, `KeepsLockStep`, `ServersRunTheScenario`; `StepCoversServers` until the first abort | holds |
| `distributed_scenario` | distribution of up to 5 nodes on 3 servers; matrices for 3 nodes, 3 servers, 2 distances, all three modes | `NodesPlacedOnce`, `SharesKept`, `BothEndsKnow`, `ServersStartTheirNodes`, `TunnelsMeet` | holds |
| `nodes` | 2 nodes, 2 scenarios of one name, 3 starts, both boot modes, 1 failure, forced boot or call during a start | `FreshGuests`, `MachinesAccountedFor`, `StartsEnd` | holds |
| `vde` | 3 nodes, 3 distances (2 linked, 1 of them with a bandwidth), 4 ports, 2 sizes of subnet, 3 steps, aborts, 2 failures in any phase | `StoreFollowsMatrix`, `WantedLinksCarry`, `PortsForFirstLinks` | holds |
| `progress` | scenarios of 1 and 3 nodes, 2 starts with and without auto stepping, 2 steps, 1 failure, 1 client that asks | `ProgressIsTruthful`, `ReportsAreSound`, `CompletionIsReported`, `RpcThreadReturns` | holds |
| `movement` | Core lists of 2 and 3 files with 0 to 5 seconds in both modes, 2 walkers of both patterns on 7 map nodes and 7 roads | `FilesInTurn`, `OnRoad`, `TopologiesReturn` | holds |
| `movement_schedule` | one Core list of 2 files with 1 and 2 seconds, steps of one second | `DocumentedSchedule` | violated |

The `TypeOK` of the other modules says which values their variables take; it is not among the
properties of their runs.

What they show.

* A WiFi step is atomic to the nodes: the rules edit a copy of the table, and the commit
  is the single step of the abstract `TopologySwitch`. A failure while the bridge or the
  table is changed shows the nodes nothing of the step (its abstract action `Fail`); the
  commands stay in the queue, and the next step with a changed matrix makes up for it.
  This is so for one failed step. After two, the queue may hold the insertion and the
  deletion of a rule when a third step inserts it again: the third command is dropped as a
  duplicate, and the link is missing. The quality of a link that is near, then further, then
  near again is lost in the same way, so `LinksShaped` and `KernelFollowsMatrix` hold for one
  failure, `StoreMatchesMatrix` and `NoHalfOpenLink` for any number.
* A step that fails between `addbr` and the end of the bridge phase leaves `addbr` in the
  queue, and `brctl` refuses a bridge that exists: every later step with a link to set up fails.
  The same holds if the ebtables fail in the step that creates the bridge. A first step that
  fails at its end is repeated with `init_ebtables`, which empties the table; the chain it
  creates is not filled again, because the store has no new link.
* The store follows the matrix through every failure: the loop over the pairs only
  queues commands and cannot fail in these modes, so it is irrelevant that the matrix is
  replaced first.
* The topology change ends with `shell_command_executor.reset()`, which
  forgets the group order; only the end of a good step restores it. After a failed
  connectivity check the next changes are queued, never run, and the step still ends well.
  For this reason `LinksShaped` is stated until a step fails late, and `LinksWork` of
  the LAN backend until one fails at all.
* A step that fails in its `tc` batch after a root qdisc was created repeats the command,
  and an htb root cannot be changed into itself: every later batch fails, and every
  retry inserts the ebtables rules once more (`MaxCopies` bounds the copies).
  `ShapingFailsForAReason` says that nothing else makes a batch fail. With the range model and a
  bandwidth in the scenario, links are shaped in step 0 only; the model has the models
  whose quality depends on the distance. The handle of a netem qdisc has 16 bits and is
  exceeded from connection 1000 on.
* Subnets of LAN links are never mixed up (`OwnSubnets`), addresses may be. Which end gets
  which is told by whether the subnet is new. A first step that failed in the check leaves
  its pings behind and is repeated with the second address for both ends, so the ping of the
  first fails for ever; one that failed after the check ends well, with one address on both
  ends and pings of oneself. If the failure came before the provisioner, the connection is
  active and never addressed. A base network without a subnet left ends the step with
  `StopIteration`.
* `multi_reconnect`: `change_connection_state` loses a connection that goes down instead
  of moving it to the inactive ones, and the book keeper refuses to create it again. A LAN
  link that was taken down does not come back.
* With blocking starts the life cycle is sound, although `abort` takes no lock and a
  refused start aborts the running scenario. With non-blocking starts it is not: `running`
  is set long after it is checked, so that two of them may leave two run loops of which one is
  lost, and an abort may replace the event that a start is polling, so that its thread waits
  forever. That is why three properties are stated for `AllBlocking`. The lock itself does its
  work in all cases.
* A distributed scenario that is left alone runs in lock step, in both modes, and every
  call returns. Failing servers, refused starts and late subscribers can stop it, but no
  server ever applies a matrix before the others have applied the one before.
* Aborts do not fit the protocol. In multicast mode a server that waits for its first sync
  never sees the reset, so that after a start and a stop without a step the next start waits
  for it forever; one that waits for a later sync sees it when it may not send, and its
  thread ends (`HandleReset`); a reset that is read late takes the place of a matrix in the
  next scenario, whose step then counts although nobody took it, so `StepCoversServers` and,
  in this mode, `KeepsLockStep` hold until the first abort only. What survives any mix of
  aborts and threads is the pairing of requests and replies. With replies instead of
  publications servers ignore resets altogether; the order of steps is safe, and a stopped
  emulation hangs.
* A refused start replaces the scenario but leaves `wait_for_nodes_started` set: the next
  start steps servers of the old scenario. After a second abort an older ZeroMQ thread may
  have led the servers to the scenario before. `ServersRunTheScenario` holds in all other
  cases. The initial sync does not cover the subscriptions: with a late subscriber a step
  may wait forever, which is why `zeromq` has none.
* Every node is placed once for all scores. The remainder of the nodes is dealt out without
  a look at the memory, and shares that were rounded up for a ranking are handed out by
  server id, so only the upper bound of `SharesKept` holds.
* The two filters of the matrix agree and a link between servers reaches both. A server
  whose part is empty, such as one without nodes, fails in its first step
  (`RecvNothing`: `if not distance_matrix`, `SimulationManager.py` line 678); the
  coordinator then waits for it forever.
* The configs are right although they are copies of one object that is changed on the way:
  each is copied after the id of its server was set. Tunnels meet: both ends take the pair
  in the same order and address the other server. In VLAN mode the key, the pairing of two
  node ids (`a + b * b` for `a < b`), is a VLAN id, which is invalid from node 64 on; the
  check is commented out (`Tunnel.py` lines 106 to 109). Tunnels stay open when a link goes
  down, and a server without an endpoint in the config is only logged.
* Nodes come up fresh and with the right image as long as every scenario that is asked for
  is also started. The comparison is with the scenario asked for last, whether or not it
  was started, and snapshots are found by the name of the scenario: after a refused start,
  a start that fails before its nodes are reached, or a forced snapshot boot, the same call
  again resumes machines of the scenario before. `FreshGuests` leaves out exactly those
  nodes (`behind`) until they are booted anew.
* A booted machine is always known to somebody who will end it. This does not hold
  for a machine that is still booting: after a boot timeout in snapshot mode its process is
  in no list (`MachinesAccountedFor` speaks of machines that have come up).
* The pre-network commands run on a resumed machine too, so they run twice there: once
  before the snapshot and once after it. They do not pile up, because a resumed machine is
  not saved again.
* A start ends unless a machine goes away under it. The thread then waits for its socket
  without timeout if it is not yet connected, and `start_nodes` waits for the thread. There is
  one more case, without any machine lost: a start of a changed scenario kills the old process
  (`Qemu.py` line 320) and then cannot create the overlay image or the new process (lines 412,
  328). `qemu_process_singletons` keeps the killed one, and the next start of the same
  scenario asks it for a snapshot and waits for ever. `StartsEnd` names both exceptions.
* With VDE a pair may raise while the loop is under way, and the matrix has been replaced:
  the pairs behind it stay as they were until their distance changes (`skipped`). A quality
  with a bandwidth always raises: `set_bandwidth` exists nowhere (`Wirefilter.py` line 164),
  and the link stays at the loss of 100% it was started with. `link_down` does not close a
  wirefilter, so frames go on, and the next connection may start a second process on the
  same path, with two more ports. The "N + 1 ports" of `VDEConstants` are enough for first
  links only.
* The reports for a first start with manual stepping are true, although the averages are read
  without a lock, and the last one is complete. With auto stepping none ever is: nothing sets the
  progress of `network_backend_setup` (the code is commented out, `NetworkManager.py` lines
  294 to 305). In a second start the progress of the scenario before counts until the nodes
  are initialised, so a report may be complete at once. `get_progress` before the first start,
  or after one that died early, blocks the one RPC thread. Static events are registered
  twice and count twice in the total.
* `movement_schedule`: a Core file is shown one step longer than its number says, which the class
  comment calls "the steps until the next scenario becomes active" (`CoreConfigNodes.py` line
  31, also `MovementDirectorCoreConfig.py` line 10) and the sample scenario "the seconds a
  scenario lasts" (`sample_configs/scenario.json` line 106). The walk that loads a file does not
  count. The loop costs another step with the last file. `FilesInTurn` says that the deviation
  is no larger, whatever the seconds and the length of a step: order, completeness and matrices
  are right. With manual stepping there is no run loop and the second step raises (line 123)
  for ever. A file that cannot be read is skipped, and its time is spent with the topology before.
* Walkers keep to the roads. A car at a place with two or more listed roads that all lead
  back raises and is lost from then on; the shipped map has no such place. An abort takes
  the roads away, so no map scenario can be started after the first one (`Singleton.py` line
  34). Random walkers draw map nodes from 0, and the shipped ids begin with 1.

**Bounds.** Three nodes are the fewest with two pairs that share a node and a third that
does not contain it, and the fewest in which the taps of a LAN run out (with two interface
types a triangle of links needs more taps than there are). Two linked distances give a
change that keeps a link. `MaxSteps` 3 allows a link to come, go and come back; a failed step
does not count, and an abort starts the count again, so two steps still allow a failure
between a link that comes and one that goes. One failure, in any phase, is followed by the
step that has to repair it. In the life cycle two starts give one that is refused, one that
follows an abort, and two that overlap; two failures let both fail. All counters are bounded
in the guards: `MaxSteps`, `MaxFailures`, `Starts`. In the distributed mode two servers
suffice for one to lag behind the other, a third for two of them to agree against it. Two
aborts give three ZeroMQ threads, of which two are left over; three starts give a start, a
refused one and one after it. Five nodes on three servers make the shares uneven, leave a
remainder of two, and include fewer nodes than servers. Three nodes on three servers include
links within, between and away from a server, and servers without nodes. Two scenarios of
one name, of which one has fewer nodes, let a node be left out of a start and be found again
by the next one; three starts give one that boots, one that differs, and one that repeats
either. `MaxCalls` and `MaxTroubles` bound `NodeBoot`. In `shaping` the matrices leave one
pair far and let one other be linked at one distance, so that a tap has two classes of which
one changes its quality; `MaxCopies` allows no step to begin once a rule is there twice. In
`lan` one subnet is too few for two links, two are too few for three. In `vde` the four
ports are what the code sets for three nodes, and two failures let a wire be left outside
the VLAN and its repetition fail too; a subnet of size 2 is too small for the second node.
In `progress` one of the two scenarios has nodes that the other has not, so that a start
finds nodes and progress of the one before; three nodes are the fewest under which a node is
added while a reader is between two others; one client asks, since reports do not touch
the state of the event system. In `movement` the seconds are below, at and above multiples
of the time step of 2; the map has a one-way road, a dead end, and a place with two roads
back. There is no bound on its steps: the states repeat. `movement_schedule` has steps of one
second, for which the two documents of the schedule agree, and no file of zero seconds.

**Deadlock** is checked for the steps: these never stop, because a scenario may be aborted.
In `lifecycle` the RPC thread can wait forever once a start did not block: a blocking start
without auto stepping that reads the `auto_stepping` of the other start waits for a first
step that no run loop takes. The ZeroMQ runs end when the
calls within the bounds are made (no call is ever due) or when the barrier waits for a
dead server. `distributed_scenario` ends with a distribution of another size than the
matrices, or when a server has died; `nodes` when the calls within the bounds are made, or
when a start waits for a machine that is gone or was killed. `progress` ends when the starts and steps
within the bounds are made and the client has its report, or waits for one that never comes.
The VDE, LAN and WiFi steps and `movement` never stop.

**Fairness.** `StepFairness`: a step that has begun is carried on by the thread that holds
the lock; its commands end, or the environment has no hold on the model (a hanging
command is not modelled). Nothing forces a step to begin. In the life cycle every thread
that can go on does so (weak fairness), and a thread that waits for the lock gets it in
the end (strong fairness on taking it): `RunLoop._run` sleeps for the rest of the time
step between two steps. If steps take longer than the time step there is no rest, and
strong fairness is an assumption about the scheduler. No RPC call is ever bound to come.
In `ZeroMQProtocol` every thread of coordinator and servers that can go on does so, and a
late subscription takes effect in the end; no call has to come and no server has to fail.
Weak fairness per thread is enough, as nothing but a message or an event is waited for.
In `Progress` the writing side (start, node and step threads, which all end) and the reading
side (the client that asks again, the RPC thread) each go on when they can; no start, step or failure
is forced. In `MovementDirector` a step that has begun ends, and a run loop that is alive
begins the next one; users are not bound to step, start or abort.
In `NodeBoot` the thread of each node and the thread of the start go on when they can (a
machine that is alive boots and answers, or times out); calls, failures and the end of a
connection are not forced.

## 4. Proofs

All theorems are for every value of the constants that satisfies the named assumptions of the
modules (`StepAssumption`, `SingleAssumption`, ...): any set of nodes with an order (a finite
one in `LanScenario` and `NetworkBackendVDE`, where subnets and ports are counted), any distances, any bounds on steps, starts, aborts and failures. TLC evaluates the
assumptions on the instances of the runs.

`LanScenario_proofs`, first for the LAN backend alone:

* `TypeCorrect`: `Spec => []TypeOK`. The invariant is strengthened by `InStep`: the
  difference is empty outside the loop, and a step under way can still be counted.
* `BookKeeping`: `Spec => []BookInv`. None of the four safety properties
  is inductive. `BookInv` adds what ties the three books together: the inactive half is
  empty (`InactiveEmpty`); the taps of an active connection are booked and its pair is
  known (`ActiveBooked`); ends of different connections are disjoint (`EndsDisjoint`); a
  tap that any `addif` command names, queued or done, is booked as used (`UsedTaps`); and
  the pairs the loop has behind it have their link or a reason (`Reasons`). A new link
  takes unused taps, so nothing else can name them; a link that goes down keeps its taps
  booked. `TapsOnOneBridge`, `ConnectionsUnique` (a pair never has two connections, which
  `change_connection_state` relies on; no run checks it besides), `BookMatchesStore` and
  `RefusalsExplained` are its consequences. They hold for failures in any phase, also
  for those that leave half a queue behind.

and then for the LAN backend with its provisioner:

* `LanBooksAreKept`: the four properties above hold here as well. Every step of `LanSpec` is one
  of `BridgedMultiDevice`, or it ends a late phase and leaves the books alone (`LanSteps`).
* `SubnetsAreOwn` (`OwnSubnets`), after any failures. It is inductive with the ranges of the
  variables. The n-th fresh connection, counted by cardinality of what is before it in row order,
  takes the n-th subnet from the generator: ranks in a finite ordered set are the numbers from
  1 to its size, each taken once (`RanksNumber`), also when the generator runs dry in between.
* `LinksDoWork` (`LinksWork`), from `Works`, which holds until a step fails. Its parts: the
  group order is set whenever commands are run, and a tap has at most one command in the queue,
  so that "the last one wins" never matters (`Orderly`); kernel and queue together have the
  bridge of every connection and the ports of every active one (`Bridged`: `addif` skips a tap
  only if it is on this very bridge, by `TapOnOneBridge`); the taps are as the book keeper
  believes once the queue is run (`TapsSet`); connections that are new in this step have no
  subnet, the others have their addresses (`Provisioned`). The last part is what a failed step
  breaks: a connection then has a subnet and is new again.

`TrafficShaping_proofs`, for the WiFi backend after any number of failures in any phase:

* `TypeCorrect`: `ShapedSpec => []Typed`. The hard part is that the folds over command
  sequences (`tc` and ebtables) give well formed kernel tables.
* `StoreFollowsMatrix` (`StoreMatchesMatrix`), from `StoreInv`: a pair outside the difference
  is active exactly if its distance is linked, and nothing is inactive.
* `LinksAreSymmetric` (`NoHalfOpenLink`), from `Mirrored`: the rule commands in the queue come
  by twos, a direction and its reverse. Duplicate suppression keeps that shape, because both
  commands of a pair are dropped or neither; and an even prefix of edits keeps a symmetric table
  symmetric. A failing insertion or deletion fails for both directions.
* `BatchesAreAccepted` (`ShapingFailsForAReason`), from `RootInv`: until a step fails late,
  the taps with a root qdisc and those that have one queued are disjoint and together
  `shaped_ifaces`, and every queued class is for one of these taps.

Its second part is about the same module as long as at most one step has failed (the runs have
this bound as well, and the properties do not hold beyond it, see above):

* `LinksAreShaped` (`LinksShaped`, a failure in any phase). Of the class commands for a tap
  and a link the last one counts, and it has to be that of the present distance (`CoverInv`).
  With one failed step behind it the queue has at most two, of different distances
  (`ClassesInv`), so that none was dropped as a duplicate.
* `KernelFollows` (`KernelFollowsMatrix`, a failure in any phase; the property ends with one
  that only an abort repairs). `RulesInv`
  says of every direction that the rules in the kernel, followed by the commands in the queue,
  which alternate, make one rule if the pair is active and none otherwise; `BridgeInv` and
  `KernelInv` say the same of bridge, ports and chain.
* `ImplementsTopologySwitchSafely`: with these invariants every step maps to a step of
  `TopologySwitch` or to a stutter, which is the safety part (`SafeSpec`) of the refinement that
  `shaping` checks.

`SimulationLifecycle_proofs`, for any set of starts and any number of failures:

* `LifecycleTyped` and, for starts of either kind, `LockExcludes` (`LockProtects`), which is
  inductive with the types: whoever builds or steps owns the lock, and conversely.
* `BlockingStartsAreSound`: `BlockingInv` for the case that all starts block. At most one
  start is under way, and then the RPC thread is waiting for it or aborting it (`OneStart`); a
  live run loop is the one in `run_loop` or has been told to end (`LoopKnown`); what has been
  built at each point of `_start` is there (`Built`); and `running` with the event set means a
  first step or its exception (`BuiltRunning`). `LoopsAreTracked` and
  `RunningScenariosAreComplete` follow.

`ZeroMQProtocol_proofs`, for any finite set of servers and any number of starts, aborts,
failing servers and late subscribers:

* `RepliesAnswerRequests` (`AnswersFitRequests`), from `Dialogue`: a server has at most one
  message under way, as a request, stored by one thread, or as a reply, and it names the state
  the server is in. This survives leftover threads, because a thread only ever answers what it
  has received.
* `McastStepsCoverServers` and `LockStepIsKept` (`KeepsLockStep`), from `Steps`: who asks has applied
  every matrix so far, and who is behind has exactly the one missing matrix unread. In
  multicast mode it needs that there was no abort, in the other mode nothing.
* `ImplementsLockStepSafely`: the safety part of the refinement of `LockStep`, without aborts
  or with matrices as replies.
* `RunningScenarioIsLatest` (`ServersRunTheScenario`), from `Scenarios`, which follows the number
  of the scenario from the coordinator through the replies to the servers.

`DistributedScenario_proofs`, for any nodes, servers, scores, modes and distances:

* A matrix survives its encoding (`RoundTrip`), coordinator and server cut out the same part
  (`SamePart`) and, from both, `LinksKnown` (`Spec => []BothEndsKnow` of `DistributedMatrix`).
  The inductive invariant `WireInv` adds that the message to each server is the encoding of the
  current matrix or of its part: a new matrix is sent only when no server has an old one.
* `ScenarioInvariant`: `ScenarioSpec => []ScenarioInv`. A distribution under way is what the
  strategy computes from its input (`DistributionInv`). Then either nothing has been sent yet
  (`Fresh`), or the lists are gone and `WireInv` holds together with two facts: the config of each server is the
  one for the coordinator's mapping (`ConfigInv`), and a server that has stepped has a tunnel
  for each link from its nodes to another server (`TunnelInv`). `ScenarioLinksKnown` carries
  `BothEndsKnow` over to the computed mapping.
* `NodesArePlacedOnce` and `SharesAreKept`. Nodes are handed out in intervals between the partial
  sums of the shares (`PrefixSums` of `NodeDistribution`); the partial sums grow, the last one is
  the number of nodes, and so every node is in one interval. The shares are bounded by linear
  facts about quotients and remainders, and by the sum of the scores.
* `ServersStart` (`ServersStartTheirNodes`): the keys of a config that were made strings twice
  are found again, and the parts of the mapping cover the nodes. `TunnelEndsMeet`
  (`TunnelsMeet`): both ends compute the key from the same pair, and the pairing of ids is
  injective on ordered pairs.

`NodeBoot_proofs`, for any nodes, scenarios, names of scenarios, calls and failures:

* `BootInvariant`, with the types (`BootTypes`). Neither property below is inductive. `Inv` says
  what a call knows while it waits and while it runs (`CallInv`, `LastUpInv`) and, of each node: which
  machines somebody is going to end, and that a node without a machine of its own has no ready one
  before it spawns one (`OwnerInv`); what its thread has found out at each label (`ThreadInv`);
  how often the commands have run in guest and snapshots (`CommandsInv`); that the guest and the
  snapshot it would be resumed from are of the scenario that is started, unless the comparison of
  scenarios is still to come (`FreshInv`); and that a start of the scenario that came up last
  finds a snapshot of each machine (`ResumeInv`).
* `MachinesFound` (`MachinesAccountedFor`) and `GuestsFresh` (`FreshGuests`) follow from it.

`NetworkBackendVDE_proofs`, for any finite set of nodes, any ports, distances and failures:

* `VdeInvariant`: `Spec => []Inv`. Store and wires of a pair are as the matrix wants them once the
  pair is neither waiting in the difference nor cut off (`SettledInv`); a connection has a
  process and none is inactive (`StoreInv`); nodes have addresses from the first completed
  configuration on (`AddressInv`). `StoreFollows` and `LinksCarry` follow.
* `FirstLinksFindPorts` (`PortsForFirstLinks`) is a fact about every typed state: a switch holds
  at most one port per other node if no pair has several processes, which is counted
  by an injection into the other nodes.

`MovementDirector_proofs`, for any Core files, maps, speeds, scenarios and length of a step,
through any number of scenarios, steps that raise and aborts:

* `DirectorInvariant`, with the types (`DirectorTypes`). `MapInv`: walkers are there on a map only,
  each is on its leg (`WalkerInv`), and those that still have to walk are the ones from some id on.
  `CoreInv`: what is left of the list of files is its end (`ListInv`), and as long as no step
  raised, the file shown and its remaining seconds are a function of the walks since the list was
  filled (`ScheduleInv`): the seconds of the file minus one time step per walk after the first.
* `FilesComeInTurn` (`FilesInTurn`). The seconds are over in the walk in which the rounded up
  quotient of `StepsOf` says so (`ShownForIs`); the sums of these grow with the list
  (`EndsGrow`), so the walk determines the file. `LanMatrixJoins` says which pairs the matrix of a
  file joins.
* `WalkersStayOnRoads` (`OnRoad`): the next map node, of a walker or a car, is the other end
  of a road it may take from where it is; the way gone and the way left are exchanged metre for metre.

Induction over data. The induction theorems of the library take an operator as parameter,
which the provers cannot instantiate. Where an induction is needed (the fold over a command
sequence, partial sums of shares and of times) it is stated with sets: `UpTo` says that a set of
naturals that contains 0 and is closed under successor up to n contains 0..n, and
`RecursionExists` (in `TrafficShaping_proofs`) that a function defined by recursion on the
naturals satisfies its equation.

Only model-checked: `ProgressIsTruthful` and `ReportsAreSound` of `Progress`, for which an
inductive invariant has not been worked out (a reader without a lock sees a mixture of states,
so it has to relate each value read to a later one of every writer); and all liveness, which is
beyond the prover: both `CallsReturn`, `StartsEnd`, `CompletionIsReported`, `RpcThreadReturns`,
`TopologiesReturn`, and the fairness part of the two refinements.

## 5. Not modelled

* Hub interfaces (central nodes) and the management network, in all backends.
* The kernel devices of tunnels and their rules on the bridge. Only the link to the
  remote server and its key are modelled.
* Non-blocking starts and servers that are restarted in distributed mode; the MessagePack
  encoding; the backend of a server of a distributed scenario.
* Execution modes other than brctl with batch (iproute2, pyroute2): the same commands, sent
  one by one or over netlink. The parallel mode of the command executor. Commands that hang.
* The numbers of link qualities, the quality of step 0, and shaping of LAN links.
* The SameSubnet provisioner with the bridged backends: its phases are there, its addresses
  only with VDE.
* Replaying a recorded scenario; the Arma director, whose factory raises
  `NotImplementedError`; the map database and the projection of coordinates.
* The interactive REPL, the text of the dialogues with consoles and monitors, the thread
  that writes their logs.
* The RPC methods that read state only, and whether they fail during a start or an abort.
  (`get_distance_matrix` returns nothing.)
* Reading configurations and scenarios, except what the distributed mode writes into them; the
  command line, whose progress display does not run under Python 3 (section 2); logging.

Details that are coarser than the code; no property depends on them:

* A batch that fails in `BridgedMultiDevice` changes nothing, although the ip batch may have
  run before the tc batch failed. An interface is addressed or not (`IpConfigFails`), although the
  code issues several commands for it.
* `SimulationLifecycle` has one outcome for a build that fails. That the director or the snapshots
  failed (`SimulationManager.py` lines 500 to 504) is not told apart from nodes that failed;
  `NodeBoot` has them apart.
* The number of servers that the coordinator counts is constant (`HeardAll`), while `send_reset`
  sets it to `None` (`ZeroMQProtoServer.py` line 94) until the next `start` of the thread sets it
  again: a leftover thread that enters a new state in between raises instead of waiting.
* If the second command that moves a wire into the VLAN fails (`port/setvlan`), the code does not
  notice, because `run_commands` returns the first output only (`REPLable.py` line 118). In
  `NetworkBackendVDE` a failure of either raises. The wire is outside the VLAN in both cases, and
  `WantedLinksCarry` leaves such wires out.
* In `MovementDirector` an abort comes between two steps. `abort()` takes no lock, so in the code
  it may also come while the director computes a step, whose result then goes to a scenario that
  is over (see `SimulationLifecycle` for that race).
* `Boot` is one step from the boot signal over the prompt of the console to the entry in
  `qemu_process_singletons`. A failure in between leaves a machine that is not stored, as one
  before does.

## 6. Plan

Done: the step with the three backends, traffic shaping and provisioners, movement, the
life cycle, the start of nodes and its progress, the distributed mode with configs and
tunnels; the proofs about the step of all three backends, the LAN provisioner, movement, the
life cycle, the start of nodes, the protocol and the distributed scenario. Left for proofs: an
inductive invariant of `Progress`.

Left for the model: the commands of the other execution modes as further refinements of
`TopologySwitch`, central nodes, and the queries of the RPC server.

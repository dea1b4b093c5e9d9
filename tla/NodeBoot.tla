------------------------------ MODULE NodeBoot ------------------------------
(***************************************************************************)
(* Starting the nodes of a scenario: one thread per node boots a qemu      *)
(* process, or resumes the process of an earlier start from a snapshot.    *)
(*                                                                         *)
(* simulation_start stores the scenario globally and compares it with the  *)
(* previous one before it waits for the simulation lock.  In snapshot mode *)
(* a qemu process outlives the simulation: it is kept per node in          *)
(* qemu_process_singletons.  Otherwise the ShellHelper owns it and ends it *)
(* with the simulation.  What happens between the release of the lock and  *)
(* running = True is the subject of SimulationLifecycle.                   *)
(*                                                                         *)
(* The processes of a node are numbered in the order of their start; all   *)
(* use the same socket paths, so the last one is the one that answers.     *)
(* behind, last_up, repeat, flawed and unreplaced only record what has     *)
(* happened.                                                               *)
(***************************************************************************)
EXTENDS Naturals, Sequences

CONSTANTS
  Nodes,         \* the node ids
  Scenarios,     \* the scenario configs
  NameOf,        \* the name in a config, which is also the id of its snapshots
  NodesOf,       \* the nodes of a config
  MaxCalls,      \* bound on the calls of simulation_start
  MaxTroubles    \* bound on failures, forced boots and calls during a start

NoScenario == "none"
NoProcess  == 0

ASSUME NodeBootAssumption ==
  /\ NodesOf \in [Scenarios -> SUBSET Nodes]
  /\ DOMAIN NameOf = Scenarios
  /\ NoScenario \notin Scenarios
  /\ MaxCalls \in Nat /\ MaxTroubles \in Nat

VARIABLES
  snapshot_boot,          \* config.is_qemu_snapshot_boot()
  scenario,               \* scenario_config.data
  scenario_changed,       \* SimulationManager.scenario_changed
  waiting,                \* the call that waits for the lock, if any
  started,                \* the call that has, or had, the lock
  phase,                  \* how far that call has come
  backend,                \* SimulationManager.network_backend is not None
  pc,                     \* the thread of each node
  booted_from_snapshot,   \* Qemu.booted_from_snapshot
  singleton,              \* qemu_process_singletons
  procs,                  \* the qemu processes of each node
  owned,                  \* ShellHelper.subprocesses
  calls,                  \* number of calls so far
  troubles,               \* number of failures, forced boots and calls during a start so far
  behind,                 \* nodes for which the comparison of scenarios says nothing
  last_up,                \* scenario whose nodes all came up and were saved last
  repeat,                 \* the start under way is that of last_up again
  flawed,                 \* a snapshot of this start is missing
  unreplaced              \* nodes whose last new process could not be started

globalVars == <<snapshot_boot, scenario, scenario_changed>>
callVars   == <<waiting, started, calls>>
startVars  == <<globalVars, callVars, phase, backend>>
nodeVars   == <<pc, booted_from_snapshot>>
qemuVars   == <<singleton, procs, owned>>
ghostVars  == <<behind, last_up, repeat, flawed, unreplaced>>
vars == <<startVars, nodeVars, qemuVars, troubles, ghostVars>>
-----------------------------------------------------------------------------
Call(s, blocking) == [scn |-> s, blocking |-> blocking]
NoCall == Call(NoScenario, FALSE)

Starting == phase \in {"starting", "saving"}

\* The XML-RPC server answers one call at a time, and a blocking start is answered late.
RpcBusy == waiting.blocking \/ (Starting /\ started.blocking)

StartNodes == NodesOf[started.scn]

\* The process behind the socket paths of a node.
Last(n) == Len(procs[n])
Proc(n) == procs[n][Last(n)]
Listening(n) == Last(n) > 0 /\ Proc(n).state = "alive"

\* The machine has gone away although nobody who starts nodes has killed it.
Lost(n) == Last(n) > 0 /\ Proc(n).state = "lost"

Ended(n, k, how) == [procs EXCEPT ![n][k].state = IF @ = "alive" THEN how ELSE @]

\* A machine that boots: the image of the call, the options of the stored scenario.
Booting ==
  [state |-> "alive", ready |-> FALSE, snapshots |-> << >>,
   guest |-> [image |-> started.scn, options |-> scenario, commands |-> 0, used |-> FALSE]]

Init ==
  /\ snapshot_boot \in BOOLEAN
  /\ scenario = NoScenario /\ scenario_changed = FALSE
  /\ waiting = NoCall /\ started = NoCall /\ calls = 0
  /\ phase = "idle" /\ backend = FALSE
  /\ pc = [n \in Nodes |-> "idle"]
  /\ booted_from_snapshot = [n \in Nodes |-> FALSE]
  /\ singleton = [n \in Nodes |-> NoProcess]
  /\ procs = [n \in Nodes |-> << >>]
  /\ owned = {}
  /\ troubles = 0
  /\ behind = {} /\ last_up = NoScenario /\ repeat = FALSE /\ flawed = FALSE
  /\ unreplaced = {}

Trouble == troubles < MaxTroubles /\ troubles' = troubles + 1
-----------------------------------------------------------------------------
(***************************************************************************)
(* The calls.                                                              *)
(***************************************************************************)

\* simulation_start up to the lock.
StartCall(s, blocking, force_snapshot_boot) ==
  /\ calls < MaxCalls /\ calls' = calls + 1
  /\ waiting = NoCall /\ ~RpcBusy
  /\ scenario' = s
  /\ scenario_changed' = (~force_snapshot_boot /\ scenario # s)
  /\ waiting' = Call(s, blocking)
  /\ behind' = IF Starting \/ (force_snapshot_boot /\ scenario # s) THEN Nodes ELSE behind
  /\ repeat' = FALSE
  /\ IF Starting \/ force_snapshot_boot THEN Trouble ELSE UNCHANGED troubles
  /\ UNCHANGED <<snapshot_boot, started, phase, backend, nodeVars, qemuVars, last_up, flawed,
                 unreplaced>>

\* try_simulation lets the call in; the backend and the threads of the nodes are started.
TakeLock ==
  /\ waiting # NoCall /\ phase = "idle"
  /\ started' = waiting /\ waiting' = NoCall
  /\ phase' = "starting" /\ backend' = TRUE
  /\ pc' = [n \in Nodes |-> IF n \in NodesOf[waiting.scn] THEN "begin" ELSE "idle"]
  /\ booted_from_snapshot' = [n \in Nodes |-> FALSE]
  /\ repeat' = (waiting.scn = last_up)
  /\ last_up' = NoScenario /\ flawed' = FALSE
  /\ UNCHANGED <<globalVars, calls, qemuVars, troubles, behind, unreplaced>>

\* ShellHelper.reset, part of every abort(): SIGTERM to all owned processes.
TerminateOwned ==
  /\ procs' = [n \in Nodes |->
                 [k \in DOMAIN procs[n] |->
                    IF <<n, k>> \in owned /\ procs[n][k].state = "alive"
                    THEN [procs[n][k] EXCEPT !.state = "lost"] ELSE procs[n][k]]]
  /\ owned' = {}
  /\ backend' = FALSE
  /\ UNCHANGED singleton

\* An exception of a blocking start ends in abort(); that of a thread is only logged.
AbortIf(blocking) ==
  IF blocking THEN TerminateOwned ELSE UNCHANGED <<qemuVars, backend>>

\* SimulationStateAlreadyStarted.
Refused ==
  /\ waiting # NoCall /\ phase \in {"up", "running"}
  /\ waiting' = NoCall
  /\ AbortIf(waiting.blocking)
  /\ phase' = IF waiting.blocking THEN "idle" ELSE phase
  /\ behind' = Nodes /\ last_up' = NoScenario
  /\ UNCHANGED <<globalVars, started, calls, nodeVars, troubles, repeat, flawed,
                 unreplaced>>

\* simulation_abort, which does not take the lock.
Abort ==
  /\ ~RpcBusy
  /\ phase # "idle"
  /\ TerminateOwned
  /\ phase' = IF Starting THEN phase ELSE "idle"
  /\ IF Starting THEN Trouble ELSE UNCHANGED troubles
  /\ UNCHANGED <<globalVars, callVars, nodeVars, ghostVars>>
-----------------------------------------------------------------------------
(***************************************************************************)
(* The thread of a node.                                                   *)
(***************************************************************************)

Goto(n, label) == pc' = [pc EXCEPT ![n] = label]

\* Fault: the old process is dropped without being killed.
ForgetOldProcess(n) ==
  /\ pc[n] = "begin"
  /\ Goto(n, IF snapshot_boot /\ singleton[n] # NoProcess /\ ~scenario_changed
             THEN "load" ELSE "spawn")
  /\ UNCHANGED <<startVars, booted_from_snapshot, qemuVars, troubles, ghostVars>>

\* Fault: the old process is resumed although the scenario has changed.
ResumeAnyway(n) ==
  /\ pc[n] = "begin"
  /\ Goto(n, IF snapshot_boot /\ singleton[n] # NoProcess THEN "load" ELSE "spawn")
  /\ UNCHANGED <<startVars, booted_from_snapshot, qemuVars, troubles, ghostVars>>

\* Look for a process of an earlier start; a changed scenario ends it.
FindProcess(n) ==
  /\ pc[n] = "begin"
  /\ IF snapshot_boot /\ singleton[n] # NoProcess
     THEN IF scenario_changed
          THEN Goto(n, "spawn") /\ procs' = Ended(n, singleton[n], "killed")
          ELSE Goto(n, "load") /\ UNCHANGED procs
     ELSE Goto(n, "spawn") /\ UNCHANGED procs
  /\ UNCHANGED <<startVars, booted_from_snapshot, singleton, owned, troubles, ghostVars>>

\* The switches of the node cannot be set up, or the image is empty.
NetworkFails(n) ==
  /\ pc[n] = "begin"
  /\ Trouble /\ Goto(n, "failed")
  /\ behind' = behind \cup {n}
  /\ UNCHANGED <<startVars, booted_from_snapshot, qemuVars, last_up, repeat, flawed,
                 unreplaced>>

\* store process singleton
Store(n) ==
  singleton' = IF snapshot_boot /\ ~booted_from_snapshot'[n]
               THEN [singleton EXCEPT ![n] = Last(n)] ELSE singleton

\* Fault: the snapshot is asked for again after the process was killed.
LoadVmRetries(n) ==
  /\ pc[n] = "load" /\ Listening(n)
  /\ IF NameOf[scenario] \in DOMAIN Proc(n).snapshots
     THEN /\ procs' = [procs EXCEPT ![n][Last(n)].guest = Proc(n).snapshots[NameOf[scenario]]]
          /\ booted_from_snapshot' = [booted_from_snapshot EXCEPT ![n] = TRUE]
          /\ Goto(n, "commands")
     ELSE procs' = Ended(n, singleton[n], "killed") /\ UNCHANGED nodeVars
  /\ UNCHANGED <<startVars, singleton, owned, troubles, ghostVars>>

\* loadvm over the monitor: the snapshot is known by the name of the stored scenario.
LoadVm(n) ==
  /\ pc[n] = "load" /\ Listening(n)
  /\ IF NameOf[scenario] \in DOMAIN Proc(n).snapshots
     THEN /\ procs' = [procs EXCEPT ![n][Last(n)].guest = Proc(n).snapshots[NameOf[scenario]]]
          /\ booted_from_snapshot' = [booted_from_snapshot EXCEPT ![n] = TRUE]
          /\ Goto(n, "commands")
     ELSE /\ procs' = Ended(n, singleton[n], "killed")
          /\ Goto(n, "spawn")
          /\ UNCHANGED booted_from_snapshot
  /\ UNCHANGED <<startVars, singleton, owned, troubles, ghostVars>>

\* run_shell_async
Spawn(n) ==
  /\ pc[n] = "spawn"
  /\ procs' = [procs EXCEPT ![n] = Append(@, Booting)]
  /\ owned' = IF snapshot_boot THEN owned ELSE owned \cup {<<n, Last(n) + 1>>}
  /\ Goto(n, "boot")
  /\ unreplaced' = unreplaced \ {n}
  /\ UNCHANGED <<startVars, booted_from_snapshot, singleton, troubles, behind, last_up, repeat,
                 flawed>>

\* The overlay image or the process cannot be created.  A process of an earlier start is
\* killed by then, and qemu_process_singletons keeps it.
SpawnFails(n) ==
  /\ pc[n] = "spawn"
  /\ Trouble /\ Goto(n, "failed")
  /\ unreplaced' = unreplaced \cup {n}
  /\ UNCHANGED <<startVars, booted_from_snapshot, qemuVars, behind, last_up, repeat, flawed>>

\* The boot signal and then the prompt of the console are seen, and the process is stored.
\* A failure on the way has the outcome of one before it (TimesOut, ConnectionLost): a
\* machine that was not stored.
Boot(n) ==
  /\ pc[n] = "boot" /\ Listening(n)
  /\ procs' = [procs EXCEPT ![n][Last(n)].ready = TRUE]
  /\ UNCHANGED booted_from_snapshot
  /\ Store(n)
  /\ Goto(n, "commands")
  /\ UNCHANGED <<startVars, owned, troubles, ghostVars>>

\* run_pre_network_shell_commands, also on a resumed machine.
RunCommands(n) ==
  /\ pc[n] = "commands" /\ Listening(n)
  /\ procs' = [procs EXCEPT ![n][Last(n)].guest.commands = @ + 1]
  /\ Goto(n, "done")
  /\ UNCHANGED <<startVars, booted_from_snapshot, singleton, owned, troubles, ghostVars>>

\* savevm
SaveVm(n) ==
  procs' = IF booted_from_snapshot[n] THEN procs
           ELSE [procs EXCEPT ![n][Last(n)].snapshots =
                   [m \in DOMAIN @ \cup {NameOf[scenario]} |->
                      IF m = NameOf[scenario] THEN Proc(n).guest ELSE @[m]]]

\* make_snapshot
MakeSnapshot(n) ==
  /\ pc[n] = "save"
  /\ booted_from_snapshot[n] \/ Listening(n)
  /\ SaveVm(n)
  /\ Goto(n, "done")
  /\ UNCHANGED <<startVars, booted_from_snapshot, singleton, owned, troubles, ghostVars>>

\* An error of savevm is not looked for in the answer of the monitor.
SaveRefused(n) ==
  /\ pc[n] = "save" /\ ~booted_from_snapshot[n] /\ Listening(n)
  /\ Trouble /\ flawed' = TRUE
  /\ Goto(n, "done")
  /\ UNCHANGED <<startVars, booted_from_snapshot, qemuVars, behind, last_up, repeat,
                 unreplaced>>

UsesSocket(n) ==
  pc[n] \in {"load", "boot", "commands"} \/ (pc[n] = "save" /\ ~booted_from_snapshot[n])

\* QemuBootWaitTimeout or REPLTimeout: nothing is cleaned up.
TimesOut(n) ==
  /\ UsesSocket(n) /\ Listening(n)
  /\ Trouble /\ Goto(n, "failed")
  /\ UNCHANGED <<startVars, booted_from_snapshot, qemuVars, ghostVars>>

(***************************************************************************)
(* The machine goes away while the thread is connected.  The end of the    *)
(* stream leads to a timeout; an error of the socket is logged by the      *)
(* CommandRunner and the commands count as executed.  A thread that is not *)
(* connected yet waits for the socket without a timeout.                   *)
(***************************************************************************)
ConnectionLost(n) ==
  /\ UsesSocket(n) /\ Lost(n)
  /\ \/ Goto(n, "failed") /\ UNCHANGED <<booted_from_snapshot, singleton>>
     \/ /\ Goto(n, IF pc[n] \in {"load", "boot"} THEN "commands" ELSE "done")
        /\ booted_from_snapshot' = [booted_from_snapshot EXCEPT ![n] = @ \/ pc[n] = "load"]
        /\ IF pc[n] \in {"load", "boot"} THEN Store(n) ELSE UNCHANGED singleton
  /\ UNCHANGED <<startVars, procs, owned, troubles, ghostVars>>

\* A qemu process ends by itself.
QemuExits(n) ==
  /\ Listening(n)
  /\ Trouble
  /\ procs' = Ended(n, Last(n), "lost")
  /\ last_up' = NoScenario /\ flawed' = TRUE
  /\ UNCHANGED <<startVars, nodeVars, singleton, owned, behind, repeat, unreplaced>>
-----------------------------------------------------------------------------
(***************************************************************************)
(* The thread of the start.                                                *)
(***************************************************************************)

ThreadsEnded == \A n \in StartNodes : pc[n] \in {"done", "failed"}
Failed == \E n \in StartNodes : pc[n] = "failed"

StartFailed ==
  /\ phase' = "idle"
  /\ pc' = [n \in Nodes |-> "idle"]
  /\ AbortIf(started.blocking)
  /\ UNCHANGED <<globalVars, callVars, booted_from_snapshot>>

StartSucceeded ==
  /\ phase' = "up"
  /\ pc' = [n \in Nodes |-> "idle"]
  /\ IF waiting = NoCall
     THEN /\ behind' = behind \ {n \in StartNodes : ~booted_from_snapshot[n]}
          /\ last_up' = IF flawed THEN NoScenario ELSE started.scn
     ELSE UNCHANGED <<behind, last_up>>
  /\ UNCHANGED <<globalVars, callVars, backend, booted_from_snapshot, qemuVars, troubles,
                 repeat, flawed, unreplaced>>

\* network_backend.start() raises before any node is touched.
BackendFails ==
  /\ phase = "starting"
  /\ \A n \in StartNodes : pc[n] = "begin"
  /\ Trouble /\ StartFailed
  /\ behind' = Nodes
  /\ UNCHANGED <<last_up, repeat, flawed, unreplaced>>

\* start_nodes has waited for all threads; an abort() meanwhile has taken the backend away.
NodesStarted ==
  /\ phase = "starting" /\ ThreadsEnded
  /\ IF Failed \/ ~backend
     THEN StartFailed /\ UNCHANGED <<troubles, ghostVars>>
     ELSE IF snapshot_boot
     THEN /\ phase' = "saving"
          /\ pc' = [n \in Nodes |-> IF n \in StartNodes THEN "save" ELSE "idle"]
          /\ UNCHANGED <<globalVars, callVars, backend, booted_from_snapshot, qemuVars,
                         troubles, ghostVars>>
     ELSE StartSucceeded

\* The director cannot be created.
DirectorFails ==
  /\ phase = "starting" /\ ThreadsEnded
  /\ Trouble /\ StartFailed
  /\ UNCHANGED ghostVars

\* create_snapshots_parallel has waited for all threads.
SnapshotsCreated ==
  /\ phase = "saving" /\ ThreadsEnded
  /\ IF Failed THEN StartFailed /\ UNCHANGED <<troubles, ghostVars>> ELSE StartSucceeded

\* The simulation goes on and changes its machines.
UseNodes ==
  /\ phase = "up"
  /\ phase' = "running"
  /\ procs' = [n \in Nodes |->
                 IF n \in StartNodes
                 THEN [procs[n] EXCEPT ![Last(n)].guest.used = TRUE] ELSE procs[n]]
  /\ UNCHANGED <<globalVars, callVars, backend, nodeVars, singleton, owned, troubles,
                 ghostVars>>
-----------------------------------------------------------------------------
NodeThread(n) ==
  FindProcess(n) \/ LoadVm(n) \/ Spawn(n) \/ Boot(n) \/ RunCommands(n) \/ MakeSnapshot(n)

Starter == TakeLock \/ Refused \/ NodesStarted \/ SnapshotsCreated

Next ==
  \/ \E s \in Scenarios, b, f \in BOOLEAN : StartCall(s, b, f)
  \/ Starter \/ Abort \/ UseNodes \/ BackendFails \/ DirectorFails
  \/ \E n \in Nodes : \/ NodeThread(n) \/ NetworkFails(n) \/ SpawnFails(n) \/ SaveRefused(n)
                      \/ TimesOut(n) \/ ConnectionLost(n) \/ QemuExits(n)

\* Threads go on; nobody has to call and nothing has to fail.
Fairness == WF_vars(Starter) /\ \A n \in Nodes : WF_vars(NodeThread(n))

Spec == Init /\ [][Next]_vars /\ Fairness
-----------------------------------------------------------------------------
\* Nodes start fresh: whoever comes up runs the image and options of the scenario that was
\* started, unused by an earlier simulation, whether booted or resumed, after any failed
\* boot.  behind lists the nodes whose scenario was replaced without them being started.
\* The commands of the scenario do not pile up in the machines: they have run once before
\* the snapshot and at most once after it.  Starting the same scenario again, with nothing
\* failed or asked for in between, resumes every node from its snapshot (_start, step 2).
FreshGuests ==
  phase = "up" =>
    /\ \A n \in StartNodes \ behind :
         Listening(n) => /\ Proc(n).guest.image = started.scn
                         /\ Proc(n).guest.options = started.scn
                         /\ ~Proc(n).guest.used
    /\ \A n \in StartNodes : Listening(n) => Proc(n).guest.commands <= 2
    /\ snapshot_boot /\ repeat => \A n \in StartNodes : booted_from_snapshot[n]

\* Every booted machine that is alive is found again: by the next start in
\* qemu_process_singletons, or by the ShellHelper that ends it.
MachinesAccountedFor ==
  \A n \in Nodes : \A k \in DOMAIN procs[n] :
    procs[n][k].state = "alive" /\ procs[n][k].ready
      => singleton[n] = k \/ <<n, k>> \in owned

\* A start ends, though the wait for a socket has no timeout and the process that is kept
\* for a node may be dead.  Two things stop it: a machine that goes away by itself or by
\* abort() while a thread waits for it, and a node whose machine an earlier start killed
\* without being able to start another.  The next start of the same scenario takes the
\* killed process for one to resume, and waits for its monitor for ever.
StartsEnd ==
  Starting ~> \/ ~Starting
              \/ \E n \in Nodes : UsesSocket(n) /\ Lost(n)
              \/ \E n \in unreplaced : pc[n] = "load"
=============================================================================

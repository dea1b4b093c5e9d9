------------------------- MODULE SimulationLifecycle -------------------------
(***************************************************************************)
(* Starting, stepping and aborting scenarios in the local mode.            *)
(*                                                                         *)
(* Three kinds of threads share the SimulationManager: the RPC thread (the *)
(* XML-RPC server answers one call at a time), one starter thread for each *)
(* non-blocking start, and the RunLoop thread of each scenario that was    *)
(* started with auto stepping.  A start and a step hold the simulation     *)
(* lock; abort() does not.  A blocking start runs in the RPC thread, so it *)
(* is modelled as a starter for which the RPC thread waits.                *)
(*                                                                         *)
(* What a step does to the network is the subject of SimulationStep; here  *)
(* it succeeds or raises.                                                  *)
(***************************************************************************)
EXTENDS Naturals, FiniteSets

CONSTANTS
  Starts,          \* ids of the simulation_start calls, made in this order
  BlockingModes,   \* the values of the blocking argument that clients use
  MaxFailures      \* bound on the failures of backend, nodes and steps

ASSUME LifecycleAssumption ==
  /\ Starts \subseteq Nat \ {0}
  /\ BlockingModes \subseteq BOOLEAN
  /\ MaxFailures \in Nat

VARIABLES
  rpc,             \* what the RPC thread does
  joined,          \* the RunLoop that abort() joins
  starter,         \* program counter of _start, per call
  blocking,        \* the calls made with blocking=True
  auto,            \* the calls made with auto_stepping=True
  loop,            \* program counter of the RunLoop that the call created
  terminate,       \* the RunLoops whose shall_terminate_event is set
  raised,          \* the RunLoops that ended with raise_objects
  lock,            \* owner of SimulationManager.lock
  running,         \* SimulationManager.running
  auto_stepping,   \* SimulationManager.auto_stepping
  backend,         \* SimulationManager.network_backend is not None
  director,        \* SimulationManager.movement_director is not None
  run_loop,        \* SimulationManager.run_loop, NoLoop = None
  event,           \* simulation_fully_started_and_network_connected_event is set
  stepped,         \* SimulationManager.current_step > 0
  errors,          \* singletons.simulation_errors is not empty
  failures         \* number of failures so far

rpcVars      == <<rpc, joined>>
callVars     == <<blocking, auto>>
loopVars     == <<loop, terminate, raised>>
threadVars   == <<starter, callVars, loopVars>>
scenarioVars == <<auto_stepping, backend, director, run_loop>>
vars == <<rpcVars, threadVars, lock, running, scenarioVars, event, stepped, errors,
          failures>>

NoLoop == 0

Free       == <<"free", 0>>
Starter(s) == <<"starter", s>>
Loop(s)    == <<"loop", s>>

StarterPcs == {"none", "lock", "backend", "nodes", "director", "runloop", "decide",
               "wait", "running", "done", "failed"}
LoopPcs == {"none", "top", "lock", "step", "doomed", "ended"}
Live == {"top", "lock", "step", "doomed"}

ThreadsOK ==
  /\ rpc \in {"ready", "start", "steplock", "abort", "join", "joining", "reset"}
  /\ joined \in Starts \cup {NoLoop}
  /\ starter \in [Starts -> StarterPcs]
  /\ blocking \in SUBSET Starts
  /\ auto \in SUBSET Starts
  /\ loop \in [Starts -> LoopPcs]
  /\ terminate \in SUBSET Starts
  /\ raised \in SUBSET Starts
  /\ lock \in {Free} \cup ({"starter", "loop"} \X Starts)
  /\ run_loop \in Starts \cup {NoLoop}
  /\ failures \in 0..MaxFailures

FlagsOK ==
  /\ running \in BOOLEAN /\ auto_stepping \in BOOLEAN
  /\ backend \in BOOLEAN /\ director \in BOOLEAN
  /\ event \in BOOLEAN /\ stepped \in BOOLEAN /\ errors \in BOOLEAN

TypeOK == ThreadsOK /\ FlagsOK

Init ==
  /\ rpc = "ready" /\ joined = NoLoop
  /\ starter = [s \in Starts |-> "none"]
  /\ blocking = {} /\ auto = {}
  /\ loop = [s \in Starts |-> "none"]
  /\ terminate = {} /\ raised = {}
  /\ lock = Free
  /\ running = FALSE /\ auto_stepping = FALSE
  /\ backend = FALSE /\ director = FALSE
  /\ run_loop = NoLoop
  /\ event = FALSE /\ stepped = FALSE /\ errors = FALSE
  /\ failures = 0
-----------------------------------------------------------------------------
(***************************************************************************)
(* SimulationManager.start and _start                                      *)
(***************************************************************************)

\* The RPC call.  A non-blocking start hands over to a thread and returns.
SimulationStart(s, isBlocking, isAuto) ==
  /\ rpc = "ready"
  /\ starter[s] = "none"
  /\ \A r \in Starts : r < s => starter[r] # "none"
  /\ starter' = [starter EXCEPT ![s] = "lock"]
  /\ blocking' = IF isBlocking THEN blocking \cup {s} ELSE blocking
  /\ auto' = IF isAuto THEN auto \cup {s} ELSE auto
  /\ rpc' = IF isBlocking THEN "start" ELSE "ready"
  /\ UNCHANGED <<joined, loopVars, lock, running, scenarioVars, event, stepped,
                 errors, failures>>

StarterAt(s, pc) == starter[s] = pc
StarterGoes(s, pc) == starter' = [starter EXCEPT ![s] = pc]

(***************************************************************************)
(* An exception leaves _start.  The blocking start() answers every one of  *)
(* them with abort(), the refusal by try_simulation included; the thread   *)
(* of a non-blocking start records it in simulation_errors.                *)
(***************************************************************************)
StartRaises(s) ==
  /\ StarterGoes(s, "failed")
  /\ lock' = Free
  /\ IF s \in blocking
     THEN rpc' = "abort" /\ UNCHANGED errors
     ELSE errors' = TRUE /\ UNCHANGED rpc
  /\ UNCHANGED <<joined, callVars, loopVars, running, scenarioVars, event,
                 stepped>>

\* try_simulation: the lock, then the check of running.
StartEnters(s) ==
  /\ StarterAt(s, "lock")
  /\ lock = Free
  /\ ~ running
  /\ lock' = Starter(s)
  /\ StarterGoes(s, "backend")
  /\ UNCHANGED <<rpcVars, callVars, loopVars, running, scenarioVars, event,
                 stepped, errors, failures>>

StartRefused(s) ==
  /\ StarterAt(s, "lock")
  /\ lock = Free
  /\ running
  /\ StartRaises(s)
  /\ UNCHANGED failures

\* The network backend is created and started.
CreateBackend(s) ==
  /\ StarterAt(s, "backend")
  /\ StarterGoes(s, "nodes")
  /\ backend' = TRUE
  /\ auto_stepping' = (s \in auto)
  /\ UNCHANGED <<rpcVars, callVars, loopVars, lock, running, director, run_loop,
                 event, stepped, errors, failures>>

\* The nodes are started on self.network_backend.
StartNodes(s) ==
  /\ StarterAt(s, "nodes")
  /\ backend
  /\ StarterGoes(s, "director")
  /\ UNCHANGED <<rpcVars, callVars, loopVars, lock, running, scenarioVars,
                 event, stepped, errors, failures>>

\* ... which raises if an abort() has set it to None meanwhile.
BackendGone(s) ==
  /\ StarterAt(s, "nodes")
  /\ ~ backend
  /\ StartRaises(s)
  /\ UNCHANGED failures

\* The backend or a node cannot be started.
BuildFails(s) ==
  /\ starter[s] \in {"backend", "nodes"}
  /\ failures < MaxFailures
  /\ failures' = failures + 1
  /\ StartRaises(s)

CreateDirector(s) ==
  /\ StarterAt(s, "director")
  /\ StarterGoes(s, "runloop")
  /\ director' = TRUE
  /\ UNCHANGED <<rpcVars, callVars, loopVars, lock, running, auto_stepping,
                 backend, run_loop, event, stepped, errors, failures>>

\* try_start_run_loop and the end of the locked part
TryStartRunLoop(s) ==
  /\ StarterAt(s, "runloop")
  /\ StarterGoes(s, "decide")
  /\ lock' = Free
  /\ auto_stepping' = IF director THEN (s \in auto) ELSE auto_stepping
  /\ IF director /\ s \in auto
     THEN /\ run_loop' = s
          /\ loop' = [loop EXCEPT ![s] = "top"]
     ELSE UNCHANGED <<run_loop, loop>>
  /\ UNCHANGED <<rpcVars, callVars, terminate, raised, running, backend,
                 director, event, stepped, errors, failures>>

\* self.auto_stepping is read again, after the lock was released.
Decide(s) ==
  /\ StarterAt(s, "decide")
  /\ StarterGoes(s, IF auto_stepping THEN "wait" ELSE "running")
  /\ UNCHANGED <<rpcVars, callVars, loopVars, lock, running, scenarioVars,
                 event, stepped, errors, failures>>

\* wait_until_network_topology_was_created polls the current event object.
TopologyCreated(s) ==
  /\ StarterAt(s, "wait")
  /\ event
  /\ StarterGoes(s, "running")
  /\ UNCHANGED <<rpcVars, callVars, loopVars, lock, running, scenarioVars,
                 event, stepped, errors, failures>>

SetRunning(s) ==
  /\ StarterAt(s, "running")
  /\ StarterGoes(s, "done")
  /\ running' = TRUE
  /\ rpc' = IF s \in blocking THEN "ready" ELSE rpc
  /\ UNCHANGED <<joined, callVars, loopVars, lock, scenarioVars, event, stepped,
                 errors, failures>>
-----------------------------------------------------------------------------
(***************************************************************************)
(* RunLoop._run and step                                                   *)
(***************************************************************************)

\* The loop condition
RunLoopTop(s) ==
  /\ loop[s] = "top"
  /\ loop' = [loop EXCEPT ![s] = IF s \in terminate THEN "ended" ELSE "lock"]
  /\ UNCHANGED <<rpcVars, starter, callVars, terminate, raised, lock, running,
                 scenarioVars, event, stepped, errors, failures>>

\* Fault: step() does not wait for the lock.
StepEntersUnlocked(s) ==
  /\ loop[s] = "lock"
  /\ lock' = Loop(s)
  /\ loop' = [loop EXCEPT ![s] = IF director /\ backend THEN "step" ELSE "doomed"]
  /\ UNCHANGED <<rpcVars, starter, callVars, terminate, raised, running,
                 scenarioVars, event, stepped, errors, failures>>

\* step() takes the lock; without director or backend it is bound to raise.
StepEnters(s) ==
  /\ loop[s] = "lock"
  /\ lock = Free
  /\ lock' = Loop(s)
  /\ loop' = [loop EXCEPT ![s] = IF director /\ backend THEN "step" ELSE "doomed"]
  /\ UNCHANGED <<rpcVars, starter, callVars, terminate, raised, running,
                 scenarioVars, event, stepped, errors, failures>>

\* The step ends, well or not: the finally clause sets the event.
StepLeaves ==
  /\ lock' = Free
  /\ event' = TRUE
  /\ UNCHANGED <<rpcVars, starter, callVars, running, scenarioVars, errors>>

StepSucceeds(s) ==
  /\ loop[s] = "step"
  /\ loop' = [loop EXCEPT ![s] = "top"]
  /\ stepped' = TRUE
  /\ StepLeaves
  /\ UNCHANGED <<terminate, raised, failures>>

\* Fault: the event is only set after a step that ended well.
StepRaisesQuietly(s) ==
  /\ loop[s] = "doomed" \/ loop[s] = "step"
  /\ loop[s] = "step" => failures < MaxFailures
  /\ failures' = IF loop[s] = "step" THEN failures + 1 ELSE failures
  /\ loop' = [loop EXCEPT ![s] = "ended"]
  /\ raised' = raised \cup {s}
  /\ terminate' = terminate \cup {s}
  /\ lock' = Free
  /\ UNCHANGED <<rpcVars, starter, callVars, running, scenarioVars, event, stepped,
                 errors>>

(***************************************************************************)
(* The exception ends the thread (ExceptionStopThread.run).  An abort()    *)
(* during the step makes it raise as well, or comes too late to matter.    *)
(***************************************************************************)
StepRaises(s) ==
  /\ \/ loop[s] = "doomed" /\ UNCHANGED failures
     \/ loop[s] = "step" /\ ~ (director /\ backend) /\ UNCHANGED failures
     \/ loop[s] = "step" /\ failures < MaxFailures /\ failures' = failures + 1
  /\ loop' = [loop EXCEPT ![s] = "ended"]
  /\ raised' = raised \cup {s}
  /\ terminate' = terminate \cup {s}
  /\ StepLeaves
  /\ UNCHANGED stepped
-----------------------------------------------------------------------------
(***************************************************************************)
(* The other RPC calls                                                     *)
(***************************************************************************)

\* simulation_step requires a running simulation.
SimulationStep ==
  /\ rpc = "ready"
  /\ running
  /\ rpc' = "steplock"
  /\ UNCHANGED <<joined, threadVars, lock, running, scenarioVars, event,
                 stepped, errors, failures>>

\* The RPC thread does the step: nothing that it reads can change meanwhile.
RpcStep ==
  /\ rpc = "steplock"
  /\ lock = Free
  /\ rpc' = "ready"
  /\ event' = TRUE
  /\ \/ director /\ backend /\ stepped' = TRUE /\ UNCHANGED failures
     \/ ~ (director /\ backend) /\ UNCHANGED <<stepped, failures>>
     \/ failures < MaxFailures /\ failures' = failures + 1 /\ UNCHANGED stepped
  /\ UNCHANGED <<joined, threadVars, lock, running, scenarioVars, errors>>

\* simulation_abort, also the answer of start() to a scenario it cannot read
SimulationAbort ==
  /\ rpc = "ready"
  /\ rpc' = "abort"
  /\ UNCHANGED <<joined, threadVars, lock, running, scenarioVars, event,
                 stepped, errors, failures>>

\* raise_run_loop_exception, reached only while simulation_errors is empty
SimulationEncounteredException ==
  /\ rpc = "ready"
  /\ ~ errors
  /\ run_loop \in raised
  /\ rpc' = "abort"
  /\ UNCHANGED <<joined, threadVars, lock, running, scenarioVars, event,
                 stepped, errors, failures>>
-----------------------------------------------------------------------------
(***************************************************************************)
(* abort().  Only a scenario that is running with auto stepping has its    *)
(* RunLoop stopped; run_loop is read once for terminate() and once for     *)
(* join().                                                                 *)
(***************************************************************************)
AbortTerminates ==
  /\ rpc = "abort"
  /\ running /\ auto_stepping
  /\ run_loop # NoLoop
  /\ terminate' = terminate \cup {run_loop}
  /\ rpc' = "join"
  /\ UNCHANGED <<joined, starter, callVars, loop, raised, lock, running,
                 scenarioVars, event, stepped, errors, failures>>

\* None has no terminate(): abort() raises and resets nothing.
AbortRaises ==
  /\ rpc = "abort"
  /\ running /\ auto_stepping
  /\ run_loop = NoLoop
  /\ rpc' = "ready"
  /\ UNCHANGED <<joined, threadVars, lock, running, scenarioVars, event,
                 stepped, errors, failures>>

AbortSkipsLoop ==
  /\ rpc = "abort"
  /\ ~ (running /\ auto_stepping)
  /\ rpc' = "reset"
  /\ UNCHANGED <<joined, threadVars, lock, running, scenarioVars, event,
                 stepped, errors, failures>>

AbortJoins ==
  /\ rpc = "join"
  /\ rpc' = "joining"
  /\ joined' = run_loop
  /\ UNCHANGED <<threadVars, lock, running, scenarioVars, event, stepped,
                 errors, failures>>

\* Fault: abort() does not wait for the RunLoop to end.
AbortJoinedEarly ==
  /\ rpc = "joining"
  /\ rpc' = "reset"
  /\ joined' = NoLoop
  /\ UNCHANGED <<threadVars, lock, running, scenarioVars, event, stepped, errors,
                 failures>>

AbortJoined ==
  /\ rpc = "joining"
  /\ loop[joined] = "ended"
  /\ rpc' = "reset"
  /\ joined' = NoLoop
  /\ UNCHANGED <<threadVars, lock, running, scenarioVars, event, stepped,
                 errors, failures>>

\* Fault: the flag survives the reset.
AbortResetsNotRunning ==
  /\ rpc = "reset"
  /\ rpc' = "ready"
  /\ run_loop' = NoLoop
  /\ director' = FALSE /\ backend' = FALSE
  /\ event' = FALSE /\ stepped' = FALSE /\ errors' = FALSE
  /\ UNCHANGED <<joined, threadVars, lock, running, auto_stepping, failures>>

\* reset_simulation_scenario_state and reset(): auto_stepping keeps its value.
AbortResets ==
  /\ rpc = "reset"
  /\ rpc' = "ready"
  /\ running' = FALSE
  /\ run_loop' = NoLoop
  /\ director' = FALSE
  /\ backend' = FALSE
  /\ event' = FALSE
  /\ stepped' = FALSE
  /\ errors' = FALSE
  /\ UNCHANGED <<joined, threadVars, lock, auto_stepping, failures>>
-----------------------------------------------------------------------------
StarterStep(s) ==
  \/ StartEnters(s) \/ StartRefused(s)
  \/ CreateBackend(s) \/ StartNodes(s) \/ BackendGone(s) \/ BuildFails(s)
  \/ CreateDirector(s) \/ TryStartRunLoop(s)
  \/ Decide(s) \/ TopologyCreated(s) \/ SetRunning(s)

LoopStep(s) ==
  RunLoopTop(s) \/ StepEnters(s) \/ StepSucceeds(s) \/ StepRaises(s)

AbortStep ==
  \/ AbortTerminates \/ AbortRaises \/ AbortSkipsLoop
  \/ AbortJoins \/ AbortJoined \/ AbortResets

RpcCall ==
  \/ \E s \in Starts : \E isBlocking \in BlockingModes : \E isAuto \in BOOLEAN :
       SimulationStart(s, isBlocking, isAuto)
  \/ SimulationStep
  \/ SimulationAbort
  \/ SimulationEncounteredException

Next ==
  \/ RpcCall
  \/ RpcStep
  \/ AbortStep
  \/ \E s \in Starts : StarterStep(s) \/ LoopStep(s)

Spec == Init /\ [][Next]_vars

(***************************************************************************)
(* Every thread that can go on does so.  A thread that waits for the lock  *)
(* gets it in the end: a RunLoop sleeps for the rest of its time step      *)
(* after it has released it.  (If steps take longer than the time step     *)
(* there is no rest; then this is an assumption on the scheduler.)         *)
(* Nobody is bound to make an RPC call.                                    *)
(***************************************************************************)
Fairness ==
  /\ WF_vars(AbortStep)
  /\ SF_vars(RpcStep)
  /\ \A s \in Starts : /\ WF_vars(StarterStep(s))
                       /\ SF_vars(StartEnters(s) \/ StartRefused(s))
                       /\ WF_vars(LoopStep(s))
                       /\ SF_vars(StepEnters(s))

FairSpec == Spec /\ Fairness
-----------------------------------------------------------------------------
\* Until now every client has waited for its start.
AllBlocking == \A s \in Starts : starter[s] # "none" => s \in blocking

(***************************************************************************)
(* abort() can stop whatever steps, as long as starts block: every RunLoop *)
(* thread that is alive is the manager's run_loop, and none is alive in a  *)
(* scenario that is stepped by hand.                                       *)
(***************************************************************************)
LoopIsTracked ==
  AllBlocking => \A s \in Starts : loop[s] \in Live => run_loop = s /\ auto_stepping

(***************************************************************************)
(* What the RPC methods behind dec_requires_simulation_running rely on: a  *)
(* running scenario has its backend and its director, and if it is stepped *)
(* automatically, abort() finds the RunLoop it has to stop, and the first  *)
(* step is done, or it raised and simulation_encountered_exception will    *)
(* report it.  (A start that does not block can finish after an abort()    *)
(* has taken them away.)                                                   *)
(***************************************************************************)
RunningIsComplete ==
  AllBlocking /\ running =>
    /\ backend
    /\ director
    /\ auto_stepping => /\ run_loop # NoLoop
                        /\ stepped \/ (~ errors /\ run_loop \in raised)

(***************************************************************************)
(* While starts block, the RPC server answers every call, so it never      *)
(* waits forever for the lock, for the event or for a RunLoop to end.      *)
(***************************************************************************)
CallsReturn == rpc # "ready" /\ AllBlocking ~> rpc = "ready"

(***************************************************************************)
(* A start builds the scenario and a step changes it only while they hold  *)
(* the lock, so no two of them overlap, whatever calls the clients make.   *)
(***************************************************************************)
Building == {"backend", "nodes", "director", "runloop"}
Stepping == {"step", "doomed"}

LockProtects ==
  \A s \in Starts : /\ starter[s] \in Building <=> lock = Starter(s)
                    /\ loop[s] \in Stepping <=> lock = Loop(s)
=============================================================================

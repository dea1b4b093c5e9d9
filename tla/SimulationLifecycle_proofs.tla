--------------------- MODULE SimulationLifecycle_proofs ---------------------
(***************************************************************************)
(* Proofs about the simulation lock, for any number of start calls, any    *)
(* mix of blocking and non-blocking ones and any number of aborts; and     *)
(* about run loops and running scenarios while all starts block.           *)
(***************************************************************************)
EXTENDS SimulationLifecycle, TLAPS

\* SimulationManager.__init__ leaves a typed state.
LEMMA TypeInit == Init => TypeOK
<1>1. Init => ThreadsOK
  BY LifecycleAssumption DEF Init, ThreadsOK, StarterPcs, LoopPcs, Free, NoLoop
<1>2. Init => FlagsOK
  BY Zenon DEF Init, FlagsOK
<1>3. QED
  BY <1>1, <1>2 DEF TypeOK

\* Every action keeps the types of program counters, lock and run_loop.
LEMMA ThreadsStep == ASSUME ThreadsOK, [Next]_vars PROVE ThreadsOK'
<1> USE LifecycleAssumption DEF rpcVars, callVars, loopVars, threadVars, scenarioVars,
    Free, Starter, Loop, NoLoop, ThreadsOK
<1>1. ASSUME NEW s \in Starts, NEW b \in BlockingModes, NEW a \in BOOLEAN,
             SimulationStart(s, b, a)
      PROVE  ThreadsOK'
  BY <1>1 DEF SimulationStart, StarterPcs
<1>2. ASSUME NEW s \in Starts, StarterStep(s)
      PROVE  ThreadsOK'
  <2> USE DEF StarterGoes, StarterPcs
  <2>1. CASE StartEnters(s)
    BY <2>1 DEF StartEnters
  <2>2. CASE StartRefused(s) \/ BackendGone(s) \/ BuildFails(s)
    <3>1. StartRaises(s)
      BY <2>2 DEF StartRefused, BackendGone, BuildFails
    <3>2. failures' \in 0..MaxFailures
      BY <2>2 DEF StartRefused, BackendGone, BuildFails
    <3>3. starter' \in [Starts -> StarterPcs] /\ lock' = Free
      BY <3>1 DEF StartRaises
    <3>4. rpc' \in {rpc, "abort"}
      BY <3>1, Zenon DEF StartRaises
    <3>5. QED
      BY <3>1, <3>2, <3>3, <3>4 DEF StartRaises
  <2>3. CASE CreateBackend(s) \/ CreateDirector(s)
    <3>1. starter' \in [Starts -> StarterPcs]
      BY <2>3 DEF CreateBackend, CreateDirector
    <3>2. QED
      BY <2>3, <3>1, Zenon DEF CreateBackend, CreateDirector
  <2>4. CASE StartNodes(s) \/ Decide(s) \/ TopologyCreated(s)
    BY <2>4 DEF StartNodes, Decide, TopologyCreated
  <2>5. CASE TryStartRunLoop(s)
    BY <2>5 DEF TryStartRunLoop, LoopPcs
  <2>6. CASE SetRunning(s)
    BY <2>6 DEF SetRunning
  <2>7. QED
    BY <1>2, <2>1, <2>2, <2>3, <2>4, <2>5, <2>6 DEF StarterStep
<1>3. ASSUME NEW s \in Starts, LoopStep(s)
      PROVE  ThreadsOK'
  <2>1. CASE RunLoopTop(s)
    BY <2>1 DEF RunLoopTop, LoopPcs
  <2>2. CASE StepEnters(s)
    BY <2>2 DEF StepEnters, LoopPcs
  <2>3. CASE StepSucceeds(s)
    BY <2>3 DEF StepSucceeds, StepLeaves, LoopPcs
  <2>4. CASE StepRaises(s)
    BY <2>4 DEF StepRaises, StepLeaves, LoopPcs
  <2>5. QED
    BY <1>3, <2>1, <2>2, <2>3, <2>4 DEF LoopStep
<1>4. CASE AbortStep
  BY <1>4 DEF AbortStep, AbortTerminates, AbortRaises, AbortSkipsLoop, AbortJoins,
              AbortJoined, AbortResets
<1>5. CASE SimulationStep \/ SimulationAbort \/ SimulationEncounteredException
  BY <1>5 DEF SimulationStep, SimulationAbort, SimulationEncounteredException
<1>6. CASE RpcStep
  BY <1>6 DEF RpcStep
<1>7. CASE UNCHANGED vars
  BY <1>7 DEF vars
<1>8. QED
  BY <1>1, <1>2, <1>3, <1>4, <1>5, <1>6, <1>7 DEF Next, RpcCall

\* Every action keeps the manager's flags Boolean.
LEMMA FlagsStep == ASSUME FlagsOK, [Next]_vars PROVE FlagsOK'
<1> USE DEF rpcVars, callVars, loopVars, threadVars, scenarioVars, FlagsOK
<1>1. ASSUME NEW s \in Starts, NEW b \in BlockingModes, NEW a \in BOOLEAN,
             SimulationStart(s, b, a)
      PROVE  FlagsOK'
  BY <1>1, Zenon DEF SimulationStart
<1>2. ASSUME NEW s \in Starts, StarterStep(s)
      PROVE  FlagsOK'
  <2>1. CASE StartEnters(s)
    BY <2>1, Zenon DEF StartEnters
  <2>2. CASE StartRefused(s) \/ BackendGone(s) \/ BuildFails(s)
    BY <2>2, Zenon DEF StartRefused, BackendGone, BuildFails, StartRaises
  <2>3. CASE CreateBackend(s) \/ CreateDirector(s)
    <3>1. (s \in auto) \in BOOLEAN
      OBVIOUS
    <3>2. QED
      BY <2>3, <3>1, Zenon DEF CreateBackend, CreateDirector
  <2>4. CASE StartNodes(s) \/ Decide(s) \/ TopologyCreated(s)
    BY <2>4, Zenon DEF StartNodes, Decide, TopologyCreated
  <2>5. CASE TryStartRunLoop(s)
    <3>1. (s \in auto) \in BOOLEAN
      OBVIOUS
    <3>2. auto_stepping' \in BOOLEAN
      BY <2>5, <3>1, Zenon DEF TryStartRunLoop
    <3>3. QED
      BY <2>5, <3>2, Zenon DEF TryStartRunLoop
  <2>6. CASE SetRunning(s)
    BY <2>6, Zenon DEF SetRunning
  <2>7. QED
    BY <1>2, <2>1, <2>2, <2>3, <2>4, <2>5, <2>6 DEF StarterStep
<1>3. ASSUME NEW s \in Starts, LoopStep(s)
      PROVE  FlagsOK'
  <2>1. CASE RunLoopTop(s)
    BY <2>1, Zenon DEF RunLoopTop
  <2>2. CASE StepEnters(s)
    BY <2>2, Zenon DEF StepEnters
  <2>3. CASE StepSucceeds(s)
    BY <2>3, Zenon DEF StepSucceeds, StepLeaves
  <2>4. CASE StepRaises(s)
    BY <2>4, Zenon DEF StepRaises, StepLeaves
  <2>5. QED
    BY <1>3, <2>1, <2>2, <2>3, <2>4 DEF LoopStep
<1>4. CASE AbortStep
  BY <1>4, Zenon DEF AbortStep, AbortTerminates, AbortRaises, AbortSkipsLoop, AbortJoins,
              AbortJoined, AbortResets
<1>5. CASE SimulationStep \/ SimulationAbort \/ SimulationEncounteredException
  BY <1>5, Zenon DEF SimulationStep, SimulationAbort, SimulationEncounteredException
<1>6. CASE RpcStep
  BY <1>6, Zenon DEF RpcStep
<1>7. CASE UNCHANGED vars
  BY <1>7, Zenon DEF vars
<1>8. QED
  BY <1>1, <1>2, <1>3, <1>4, <1>5, <1>6, <1>7 DEF Next, RpcCall

\* Nobody holds the lock at first, and nobody builds or steps.
LEMMA LockInit == Init => LockProtects
  BY DEF Init, LockProtects, Building, Stepping, Free, Starter, Loop

(***************************************************************************)
(* The program counters that matter to the lock are moved only by their    *)
(* own thread, and only together with the lock.                            *)
(***************************************************************************)
LEMMA LockStep == ASSUME TypeOK, LockProtects, [Next]_vars PROVE LockProtects'
<1> USE DEF rpcVars, callVars, loopVars, threadVars, scenarioVars, LockProtects, Building, Stepping, Free,
            Starter, Loop
<1>1. ASSUME NEW s \in Starts, NEW b \in BlockingModes, NEW a \in BOOLEAN,
             SimulationStart(s, b, a)
      PROVE  LockProtects'
  BY <1>1 DEF SimulationStart, TypeOK, ThreadsOK
<1>2. ASSUME NEW s \in Starts, StarterStep(s)
      PROVE  LockProtects'
  <2>1. CASE StartEnters(s)
    BY <2>1 DEF StartEnters, StarterAt, StarterGoes, TypeOK, ThreadsOK
  <2>2. CASE StartRefused(s)
    BY <2>2 DEF StartRefused, StartRaises, StarterAt, StarterGoes, TypeOK, ThreadsOK
  <2>3. CASE BackendGone(s) \/ BuildFails(s)
    BY <2>3 DEF BackendGone, BuildFails, StartRaises, StarterAt, StarterGoes, TypeOK, ThreadsOK
  <2>4. CASE CreateBackend(s) \/ StartNodes(s) \/ CreateDirector(s)
    BY <2>4 DEF CreateBackend, StartNodes, CreateDirector, StarterAt, StarterGoes, TypeOK, ThreadsOK
  <2>5. CASE TryStartRunLoop(s)
    BY <2>5 DEF TryStartRunLoop, StarterAt, StarterGoes, TypeOK, ThreadsOK
  <2>6. CASE Decide(s) \/ TopologyCreated(s) \/ SetRunning(s)
    BY <2>6 DEF Decide, TopologyCreated, SetRunning, StarterAt, StarterGoes, TypeOK, ThreadsOK
  <2>7. QED
    BY <1>2, <2>1, <2>2, <2>3, <2>4, <2>5, <2>6 DEF StarterStep
<1>3. ASSUME NEW s \in Starts, LoopStep(s)
      PROVE  LockProtects'
  <2>1. CASE RunLoopTop(s)
    BY <2>1 DEF RunLoopTop, TypeOK, ThreadsOK
  <2>2. CASE StepEnters(s)
    BY <2>2 DEF StepEnters, TypeOK, ThreadsOK
  <2>3. CASE StepSucceeds(s) \/ StepRaises(s)
    BY <2>3 DEF StepSucceeds, StepRaises, StepLeaves, TypeOK, ThreadsOK
  <2>4. QED
    BY <1>3, <2>1, <2>2, <2>3 DEF LoopStep
<1>4. CASE AbortStep
  BY <1>4 DEF AbortStep, AbortTerminates, AbortRaises, AbortSkipsLoop, AbortJoins,
              AbortJoined, AbortResets
<1>5. CASE SimulationStep \/ RpcStep \/ SimulationAbort \/ SimulationEncounteredException
  BY <1>5 DEF SimulationStep, RpcStep, SimulationAbort, SimulationEncounteredException
<1>6. CASE UNCHANGED vars
  BY <1>6 DEF vars
<1>7. QED
  BY <1>1, <1>2, <1>3, <1>4, <1>5, <1>6 DEF Next, RpcCall

(***************************************************************************)
(* Every reachable state of the lifecycle is well typed.                   *)
(***************************************************************************)
THEOREM LifecycleTyped == Spec => []TypeOK
<1>1. TypeOK /\ [Next]_vars => TypeOK'
  BY ThreadsStep, FlagsStep DEF TypeOK
<1>2. QED
  BY TypeInit, <1>1, PTL DEF Spec

(***************************************************************************)
(* The lock excludes: whatever starts and aborts clients issue, no two     *)
(* threads build or step at the same time.                                 *)
(***************************************************************************)
THEOREM LockExcludes == Spec => []LockProtects
  BY LifecycleTyped, LockInit, LockStep, PTL DEF Spec
-----------------------------------------------------------------------------
(***************************************************************************)
(* While all starts block.  LoopIsTracked and RunningIsComplete are not    *)
(* inductive: abort() takes no lock, so that they rest on the RPC thread   *)
(* doing one thing at a time.  BlockingInv says what that gives.           *)
(***************************************************************************)
Inactive == {"none", "done", "failed"}
Opening  == {"decide", "wait", "running"}    \* _start has released the lock

AliveLoops == {s \in Starts : loop[s] \in Live}
OpeningNow == {s \in Starts : starter[s] \in Opening}

\* At most one _start is under way; the RPC thread waits for it.
OneStart ==
  /\ ~ errors
  /\ \A s \in blocking : starter[s] # "none"
  /\ \A s, t \in Starts : starter[s] \notin Inactive /\ starter[t] \notin Inactive => s = t
  /\ rpc # "start" => \A s \in Starts : starter[s] \in Inactive
  /\ \A s \in Starts : starter[s] \in Building \cup Opening => ~ running

\* Where a RunLoop may be alive, and what abort() knows of it on its way.
LoopKnown ==
  /\ \A s \in AliveLoops : run_loop = s /\ auto_stepping
  /\ ~ running /\ OpeningNow = {} => AliveLoops = {} /\ ~ event
  /\ rpc = "reset" => AliveLoops = {}
  /\ rpc = "steplock" => running
  /\ rpc \in {"join", "joining"} => running /\ auto_stepping /\ run_loop # NoLoop
  /\ rpc = "joining" => joined = run_loop

\* What _start has built by the time it gets to each of its points.
Built ==
  /\ \A s \in Starts : starter[s] \in {"nodes", "director", "runloop"} \cup Opening => backend
  /\ \A s \in Starts : starter[s] \in {"runloop"} \cup Opening => director
  /\ \A s \in OpeningNow : auto_stepping => run_loop = s
  /\ \A s \in Starts : starter[s] = "wait" => auto_stepping
  /\ \A s \in Starts : starter[s] = "running" /\ auto_stepping => event

\* The same for a scenario that runs; the event is set by a step only.
BuiltRunning ==
  /\ running => backend /\ director
  /\ running /\ auto_stepping => event /\ run_loop # NoLoop
  /\ (running \/ OpeningNow # {}) /\ auto_stepping /\ event => stepped \/ run_loop \in raised

Sound == OneStart /\ LoopKnown /\ Built /\ BuiltRunning

BlockingInv == AllBlocking => Sound
\* Nothing is under way at first.
LEMMA BlockingInit == Init => BlockingInv
  BY DEF Init, BlockingInv, Sound, OneStart, LoopKnown, Built, BuiltRunning, AliveLoops,
         OpeningNow, Inactive, Opening, Building, Live

\* A client that did not wait for its start is never forgotten.
LEMMA BlockingHistory == ASSUME TypeOK, [Next]_vars, AllBlocking' PROVE AllBlocking
<1> USE DEF AllBlocking, TypeOK, ThreadsOK
<1>1. ASSUME NEW s \in Starts, NEW b \in BlockingModes, NEW a \in BOOLEAN,
             SimulationStart(s, b, a)
      PROVE  AllBlocking
  BY <1>1 DEF SimulationStart
<1>2. ASSUME NEW s \in Starts, StarterStep(s)
      PROVE  AllBlocking
  BY <1>2 DEF StarterStep, StartEnters, StartRefused, CreateBackend, StartNodes, BackendGone,
              BuildFails, CreateDirector, TryStartRunLoop, Decide, TopologyCreated,
              SetRunning, StartRaises, StarterAt, StarterGoes, callVars
<1>3. ASSUME NEW s \in Starts, LoopStep(s)
      PROVE  AllBlocking
  BY <1>3 DEF LoopStep, RunLoopTop, StepEnters, StepSucceeds, StepRaises, StepLeaves, callVars
<1>4. CASE AbortStep
  BY <1>4 DEF AbortStep, AbortTerminates, AbortRaises, AbortSkipsLoop, AbortJoins,
              AbortJoined, AbortResets, threadVars, callVars
<1>5. CASE SimulationStep \/ RpcStep \/ SimulationAbort \/ SimulationEncounteredException
  BY <1>5 DEF SimulationStep, RpcStep, SimulationAbort, SimulationEncounteredException,
              threadVars, callVars
<1>6. CASE UNCHANGED vars
  BY <1>6 DEF vars, threadVars, callVars
<1>7. QED
  BY <1>1, <1>2, <1>3, <1>4, <1>5, <1>6 DEF Next, RpcCall

(***************************************************************************)
(* A step of _start.                                                       *)
(***************************************************************************)
LEMMA BlockingStarter ==
  ASSUME TypeOK, AllBlocking, Sound, NEW s \in Starts, StarterStep(s)
  PROVE  Sound'
<1> USE DEF TypeOK, ThreadsOK, FlagsOK, Sound, OneStart, LoopKnown, Built, BuiltRunning,
            AliveLoops, OpeningNow, Inactive, Opening, Building, Live,
            StarterAt, StarterGoes, rpcVars, callVars, loopVars, scenarioVars, StarterPcs, LoopPcs
<1>1. CASE StartEnters(s)
  BY <1>1 DEF StartEnters
<1>2. CASE StartRefused(s) \/ BackendGone(s) \/ BuildFails(s)
  BY <1>2 DEF StartRefused, BackendGone, BuildFails, StartRaises, AllBlocking
<1>3. CASE CreateBackend(s)
  BY <1>3 DEF CreateBackend
<1>4. CASE StartNodes(s)
  BY <1>4 DEF StartNodes
<1>5. CASE CreateDirector(s)
  BY <1>5 DEF CreateDirector
<1>6. CASE TryStartRunLoop(s)
  BY <1>6 DEF TryStartRunLoop
<1>7. CASE Decide(s)
  BY <1>7 DEF Decide
<1>8. CASE TopologyCreated(s)
  BY <1>8 DEF TopologyCreated
<1>9. CASE SetRunning(s)
  <2>1. rpc' = "ready" /\ running' /\ starter' = [starter EXCEPT ![s] = "done"]
    BY <1>9 DEF SetRunning, AllBlocking
  <2>2. \A t \in Starts : starter'[t] \in Inactive
    BY <1>9, <2>1 DEF SetRunning
  <2>3. OneStart' /\ Built'
    BY <1>9, <2>1, <2>2 DEF SetRunning
  <2>4. LoopKnown'
    BY <1>9, <2>1, <2>2 DEF SetRunning
  <2>5. BuiltRunning'
    BY <1>9, <2>1, <2>2, LifecycleAssumption DEF SetRunning, NoLoop
  <2>6. QED
    BY <2>3, <2>4, <2>5
<1>10. QED
  BY <1>1, <1>2, <1>3, <1>4, <1>5, <1>6, <1>7, <1>8, <1>9 DEF StarterStep

(***************************************************************************)
(* A step of a RunLoop.                                                    *)
(***************************************************************************)
LEMMA BlockingLoop ==
  ASSUME TypeOK, AllBlocking, Sound, NEW s \in Starts, LoopStep(s)
  PROVE  Sound'
<1> USE DEF TypeOK, ThreadsOK, FlagsOK, Sound, OneStart, LoopKnown, Built, BuiltRunning,
            AliveLoops, OpeningNow, Inactive, Opening, Building, Live,
            rpcVars, callVars, loopVars, scenarioVars, StarterPcs, LoopPcs
<1>1. CASE RunLoopTop(s)
  BY <1>1 DEF RunLoopTop
<1>2. CASE StepEnters(s)
  BY <1>2 DEF StepEnters
<1>3. CASE StepSucceeds(s)
  BY <1>3 DEF StepSucceeds, StepLeaves
<1>4. CASE StepRaises(s)
  BY <1>4 DEF StepRaises, StepLeaves
<1>5. QED
  BY <1>1, <1>2, <1>3, <1>4 DEF LoopStep

(***************************************************************************)
(* A step of abort().                                                      *)
(***************************************************************************)
LEMMA BlockingAbort ==
  ASSUME TypeOK, AllBlocking, Sound, AbortStep
  PROVE  Sound'
<1> USE DEF TypeOK, ThreadsOK, FlagsOK, Sound, OneStart, LoopKnown, Built, BuiltRunning,
            AliveLoops, OpeningNow, Inactive, Opening, Building, Live,
            threadVars, callVars, loopVars, scenarioVars, StarterPcs, LoopPcs
<1>1. CASE AbortTerminates
  BY <1>1 DEF AbortTerminates
<1>2. CASE AbortRaises
  BY <1>2 DEF AbortRaises
<1>3. CASE AbortSkipsLoop
  BY <1>3 DEF AbortSkipsLoop
<1>4. CASE AbortJoins
  BY <1>4 DEF AbortJoins
<1>5. CASE AbortJoined
  BY <1>5 DEF AbortJoined
<1>6. CASE AbortResets
  BY <1>6 DEF AbortResets
<1>7. QED
  BY <1>1, <1>2, <1>3, <1>4, <1>5, <1>6 DEF AbortStep

(***************************************************************************)
(* A call, or the step of the RPC thread.                                  *)
(***************************************************************************)
LEMMA BlockingCall ==
  ASSUME TypeOK, AllBlocking, AllBlocking', Sound, RpcCall \/ RpcStep
  PROVE  Sound'
<1> USE DEF TypeOK, ThreadsOK, FlagsOK, Sound, OneStart, LoopKnown, Built, BuiltRunning,
            AliveLoops, OpeningNow, Inactive, Opening, Building, Live,
            threadVars, callVars, loopVars, scenarioVars, StarterPcs, LoopPcs
<1>1. ASSUME NEW s \in Starts, NEW b \in BlockingModes, NEW a \in BOOLEAN,
             SimulationStart(s, b, a)
      PROVE  Sound'
  <2>1. b = TRUE
    <3>1. s \in blocking' /\ s \notin blocking
      BY <1>1 DEF SimulationStart, AllBlocking
    <3>2. CASE b = FALSE
      BY <1>1, <3>1, <3>2, Zenon DEF SimulationStart
    <3>3. QED
      BY <3>2, LifecycleAssumption
  <2>2. QED
    BY <1>1, <2>1 DEF SimulationStart
<1>2. CASE SimulationStep
  BY <1>2 DEF SimulationStep
<1>3. CASE SimulationAbort
  BY <1>3 DEF SimulationAbort
<1>4. CASE SimulationEncounteredException
  BY <1>4 DEF SimulationEncounteredException
<1>5. CASE RpcStep
  BY <1>5 DEF RpcStep
<1>6. QED
  BY <1>1, <1>2, <1>3, <1>4, <1>5 DEF RpcCall

\* Every step keeps BlockingInv.
LEMMA BlockingStep == ASSUME TypeOK, BlockingInv, [Next]_vars PROVE BlockingInv'
<1> SUFFICES ASSUME AllBlocking' PROVE Sound'
  BY DEF BlockingInv
<1>1. AllBlocking /\ Sound
  BY BlockingHistory DEF BlockingInv
<1>2. CASE UNCHANGED vars
  BY <1>1, <1>2 DEF vars, rpcVars, threadVars, callVars, loopVars, scenarioVars, Sound,
       OneStart, LoopKnown, Built, BuiltRunning, AliveLoops, OpeningNow
<1>3. QED
  BY <1>1, <1>2, BlockingStarter, BlockingLoop, BlockingAbort, BlockingCall DEF Next

(***************************************************************************)
(* While all starts block, the RPC thread, abort() and the RunLoops keep   *)
(* the scenario consistent.                                                *)
(***************************************************************************)
THEOREM BlockingStartsAreSound == Spec => []BlockingInv
  BY LifecycleTyped, BlockingInit, BlockingStep, PTL DEF Spec

(***************************************************************************)
(* abort() can stop whatever steps, whatever fails and however often       *)
(* scenarios are started.                                                  *)
(***************************************************************************)
THEOREM LoopsAreTracked == Spec => []LoopIsTracked
<1>1. BlockingInv => LoopIsTracked
  BY DEF BlockingInv, Sound, LoopKnown, AliveLoops, LoopIsTracked
<1>2. QED
  BY BlockingStartsAreSound, <1>1, PTL

(***************************************************************************)
(* A running scenario is complete: dec_requires_simulation_running is      *)
(* enough to rely on backend, director, and the outcome of the first step. *)
(***************************************************************************)
THEOREM RunningScenariosAreComplete == Spec => []RunningIsComplete
<1>1. BlockingInv => RunningIsComplete
  BY DEF BlockingInv, Sound, OneStart, BuiltRunning, RunningIsComplete
<1>2. QED
  BY BlockingStartsAreSound, <1>1, PTL
=============================================================================

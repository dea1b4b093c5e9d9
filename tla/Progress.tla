------------------------------ MODULE Progress ------------------------------
(***************************************************************************)
(* How the progress of a scenario is written and read.  The writers are    *)
(* the thread of a start, its node threads, and the threads of a step; the *)
(* reader is the RPC thread, which answers calls of get_progress.          *)
(*                                                                         *)
(* The client is whoever calls simulation_start without blocking and then  *)
(* get_progress until a report is complete.  It is external: the one in    *)
(* the repository (CliUtil.start_scenario) fails before its first call,    *)
(* under Python 3 with the import of CLIEventDisplay.  What counts as      *)
(* complete and as out of range is taken from CLIEventDisplay.             *)
(*                                                                         *)
(* Updates take the lock of the event system, the reader does not, so it   *)
(* sees updates of several nodes one node at a time.  The writers that     *)
(* touch several nodes never run at the same time, hence the lock itself   *)
(* is left out and every write of one node is a step.  The event system    *)
(* survives the scenario: no reset reaches it.                             *)
(***************************************************************************)
EXTENDS EventSystem, FiniteSetsExt

CONSTANTS
  Scenarios,    \* the node sets of the scenarios that may be started
  MaxStarts,    \* bound on the number of simulation_start calls
  WatchedStarts,\* bound on the starts whose client asks for the progress
  MaxSteps,     \* bound on the steps of a scenario
  MaxFailures   \* bound on the number of failing nodes and backends

ASSUME ProgressAssumption ==
  /\ \A s \in Scenarios : s # {} /\ s \subseteq Nat /\ IsFiniteSet(s)
  /\ {MaxStarts, WatchedStarts, MaxSteps, MaxFailures} \subseteq Nat

VARIABLES
  data, events, ready,   \* the event system
  pc,        \* where the start is: "idle", "backend", "insert", "boot", "run", "dead"
  scenario,  \* the node ids of the scenario
  auto,      \* SimulationManager.auto_stepping
  boot,      \* how many of the static events each node has passed
  failed,    \* the nodes whose thread has raised
  phase,     \* the part of a step that is executed, "none" between steps
  todo,      \* the nodes that this part has not handled yet
  fault,     \* the part of the last step that failed on some node, or "none"
  step,      \* current_step
  rpc,       \* the RPC thread and its partly computed answer
  client,    \* the client: "none", "polls", "done" (the last report was complete), "error"
  starts,    \* number of starts
  failures,  \* number of failures
  rejected,  \* has update_event ever raised its ValueError?
  grew       \* has a node or an event come up while the last report was made?

storeVars   == <<data, events, ready>>
startVars   == <<pc, scenario, auto, boot, failed, starts>>
stepVars    == <<phase, todo, fault, step>>
readVars    == <<rpc, client, grew>>
vars == <<storeVars, startVars, stepVars, readVars, failures, rejected>>

AllNodes == UNION Scenarios

\* 1.0 is modelled as Whole, so that averages over nodes are whole numbers.
Whole == IF Cardinality(AllNodes) > 2 THEN 6 ELSE 2

NoRead == [at |-> "idle", left |-> <<>>, index |-> 0, cntEvents |-> 0, cnt |-> 0,
           size |-> 0, nodes |-> {}, sum |-> 0, total |-> 0, all1 |-> TRUE, over |-> FALSE]

Phases == {"none", "backend0", "setup0", "setup", "setup1",
           "check0", "check", "check1", "post"}

TypeOK ==
  /\ DOMAIN data \subseteq AllNodes
  /\ \A n \in DOMAIN data : data[n] \in [Events -> 0..1]
  /\ events \in Seq(Events)
  /\ ready \in BOOLEAN
  /\ pc \in {"idle", "backend", "insert", "boot", "run", "dead"}
  /\ scenario \subseteq AllNodes /\ auto \in BOOLEAN
  /\ boot \in [AllNodes -> 0..3] /\ failed \subseteq AllNodes
  /\ phase \in Phases /\ todo \subseteq AllNodes /\ fault \in Phases
  /\ step \in 0..MaxSteps
  /\ rpc.at \in {"idle", "step", "wait", "event", "count", "sum"}
  /\ rpc.left \in Seq(Events) /\ rpc.nodes \subseteq AllNodes
  /\ client \in {"none", "polls", "done", "error"}
  /\ starts \in 0..MaxStarts /\ failures \in 0..MaxFailures
  /\ rejected \in BOOLEAN /\ grew \in BOOLEAN

Init ==
  /\ data = <<>> /\ events = InitialEvents /\ ready = FALSE
  /\ pc = "idle" /\ scenario = {} /\ auto = FALSE
  /\ boot = [n \in AllNodes |-> 0] /\ failed = {}
  /\ phase = "none" /\ todo = {} /\ fault = "none" /\ step = 0
  /\ rpc = NoRead /\ client = "none"
  /\ starts = 0 /\ failures = 0 /\ rejected = FALSE /\ grew = FALSE

(***************************************************************************)
(* The start, which does not block the RPC thread.  start() extends the    *)
(* events before anything else, also when the start is refused later       *)
(* because a scenario is running.                                          *)
(***************************************************************************)
SteppingEvents == <<"network_backend_setup", "vm_shell_post_network_commands">>

SimulationStart(s, a, watch) ==
  /\ rpc.at = "idle" /\ client # "polls"
  /\ watch => starts < WatchedStarts
  /\ pc \in {"idle", "run", "dead"}
  /\ starts < MaxStarts
  /\ starts' = starts + 1
  /\ events' = IF a THEN events \o SteppingEvents ELSE events
  /\ client' = IF watch THEN "polls" ELSE "none"
  /\ IF pc = "run"
     THEN UNCHANGED <<pc, scenario, auto, boot, failed, step, fault>>
     ELSE /\ pc' = "backend" /\ scenario' = s /\ auto' = a
          /\ boot' = [n \in AllNodes |-> 0] /\ failed' = {} /\ step' = 0
          /\ fault' = "none"
  /\ UNCHANGED <<data, ready, phase, todo, rpc, failures, rejected, grew>>

\* The backend cannot be created: the start ends before the event system is ready.
BackendFails ==
  /\ pc = "backend"
  /\ failures < MaxFailures
  /\ failures' = failures + 1
  /\ pc' = "dead"
  /\ UNCHANGED <<storeVars, scenario, auto, boot, failed, starts, stepVars, readVars, rejected>>

\* Fault: the event system is made ready for auto stepping only.
InitForAutoStepping ==
  /\ pc = "backend"
  /\ pc' = "insert"
  /\ todo' = scenario
  /\ ready' = (ready \/ auto)
  /\ events' = IF auto THEN events \o <<"network_setup", "network_check">> ELSE events
  /\ grew' = (grew \/ auto)
  /\ UNCHANGED <<data, scenario, auto, boot, failed, starts, phase, fault, step,
                 rpc, client, failures, rejected>>

\* NetworkManager.init_for_next_scenario
InitForNextScenario ==
  /\ pc = "backend"
  /\ pc' = "insert"
  /\ todo' = scenario
  /\ ready' = TRUE
  /\ events' = IF auto THEN events \o <<"network_setup", "network_check">> ELSE events
  /\ grew' = (grew \/ auto)
  /\ UNCHANGED <<data, scenario, auto, boot, failed, starts, phase, fault, step,
                 rpc, client, failures, rejected>>

\* Fault: a node that is known from an earlier scenario is not initialised again.
InitEventsForNewNode(n) ==
  IF n \in DOMAIN data THEN data ELSE UpdateEvent(data, n, "vm_boot", 0, FALSE)

\* init_events_for_node: all registered events at 0.  They are set one by one, but a
\* node of a start that is watched is new, so that a reader cannot tell.
InitEventsForNode(n) ==
  [m \in DOMAIN data \cup {n} |->
     IF m = n THEN [e \in Events |-> IF e \in ToSet(events) THEN 0 ELSE Known(data, n)[n][e]]
              ELSE data[m]]

\* start_nodes, before any node is started
InsertNode ==
  /\ pc = "insert" /\ todo # {}
  /\ LET n == Min(todo) IN
       /\ data' = InitEventsForNode(n)
       /\ todo' = todo \ {n}
       /\ grew' = (grew \/ n \notin DOMAIN data)
  /\ pc' = IF todo' = {} THEN "boot" ELSE pc
  /\ UNCHANGED <<events, ready, scenario, auto, boot, failed, starts, phase, fault,
                 step, rpc, client, failures, rejected>>

\* Qemu._start and EmulationNode._start: boot, shell, pre network commands
NodePasses(n) ==
  /\ pc = "boot" /\ n \in scenario \ failed /\ boot[n] < 3
  /\ boot' = [boot EXCEPT ![n] = @ + 1]
  /\ data' = UpdateEvent(data, n, StaticEvents[boot[n] + 1], 1, FALSE)
  /\ UNCHANGED <<events, ready, pc, scenario, auto, failed, starts, stepVars, readVars,
                 failures, rejected>>

NodeFails(n) ==
  /\ pc = "boot" /\ n \in scenario \ failed /\ boot[n] < 3
  /\ failures < MaxFailures
  /\ failures' = failures + 1
  /\ failed' = failed \cup {n}
  /\ UNCHANGED <<storeVars, pc, scenario, auto, boot, starts, stepVars, readVars, rejected>>

\* The executor waits for all threads; one exception ends the start.
NodesStarted ==
  /\ pc = "boot"
  /\ \A n \in scenario : n \in failed \/ boot[n] = 3
  /\ pc' = IF failed = {} THEN "run" ELSE "dead"
  /\ UNCHANGED <<storeVars, scenario, auto, boot, failed, starts, stepVars, readVars,
                 failures, rejected>>

\* abort(): the scenario is gone, the event system is not
SimulationAbort ==
  /\ pc \in {"run", "dead"} /\ phase = "none"
  /\ rpc.at = "idle" /\ client # "polls"
  /\ pc' = "idle"
  /\ UNCHANGED <<storeVars, scenario, auto, boot, failed, starts, stepVars, readVars,
                 failures, rejected>>
-----------------------------------------------------------------------------
(***************************************************************************)
(* A step, by the run loop or, in manual stepping, by the RPC thread.      *)
(***************************************************************************)
EventOf(ph) ==
  CASE ph = "backend0"                      -> "network_backend_setup"
    [] ph \in {"setup0", "setup", "setup1"} -> "network_setup"
    [] ph \in {"check0", "check", "check1"} -> "network_check"
    [] OTHER                                -> "vm_shell_post_network_commands"

\* before_distance_matrix_changed clears the progress of the backend setup.
BeginStep ==
  /\ pc = "run" /\ phase = "none" /\ step < MaxSteps
  /\ IF auto THEN UNCHANGED rpc
             ELSE /\ rpc.at = "idle" /\ client # "polls"
                  /\ rpc' = [rpc EXCEPT !.at = "step"]
  /\ phase' = "backend0"
  /\ todo' = DOMAIN data
  /\ fault' = "none"
  /\ UNCHANGED <<storeVars, startVars, step, client, grew, failures, rejected>>

EndOfStep(ok) ==
  /\ phase' = "none"
  /\ todo' = {}
  /\ step' = IF ok THEN step + 1 ELSE step
  /\ rpc' = IF auto THEN rpc ELSE NoRead
  /\ pc' = IF ok \/ ~ auto THEN pc ELSE "dead"
  /\ UNCHANGED <<storeVars, scenario, auto, boot, failed, starts, fault, client, grew,
                 failures, rejected>>

\* The body of event_init writes 0, the end of the with statement writes 1.
Writes == {"backend0", "setup0", "setup1", "check0", "check1"}

WriteOne ==
  /\ phase \in Writes /\ todo # {}
  /\ LET n == Min(todo) IN
       /\ data' = UpdateEvent(data, n, EventOf(phase),
                              IF phase \in {"setup1", "check1"} THEN 1 ELSE 0, FALSE)
       /\ todo' = todo \ {n}
  /\ UNCHANGED <<events, ready, startVars, phase, fault, step, readVars, failures, rejected>>

\* The next part of the step and the nodes it is for.
GoTo(ph, ns) ==
  /\ phase' = ph
  /\ todo' = ns
  /\ UNCHANGED <<storeVars, startVars, fault, step, readVars, failures, rejected>>

\* needs_reconfiguration: in step 0, or in every step with the P2P provisioner
BackendCleared ==
  /\ phase = "backend0" /\ todo = {}
  /\ \/ GoTo("setup0", DOMAIN data)
     \/ step >= 1 /\ GoTo("check0", DOMAIN data)

\* run_emulation_node_commands, for the nodes that have commands
CommandsBegin ==
  /\ phase \in {"setup0", "check0"} /\ todo = {}
  /\ \E ns \in SUBSET scenario : GoTo(IF phase = "setup0" THEN "setup" ELSE "check", ns)

\* One thread is done: ev.update([id], 1.0, add=True), which may exceed 1.0.
CommandDone(n) ==
  /\ phase \in {"setup", "check"} /\ n \in todo
  /\ todo' = todo \ {n}
  /\ IF NewProgress(data, n, EventOf(phase), 1, TRUE) > 1
     THEN /\ rejected' = TRUE /\ fault' = phase
          /\ UNCHANGED data
     ELSE /\ data' = UpdateEvent(data, n, EventOf(phase), 1, TRUE)
          /\ UNCHANGED <<rejected, fault>>
  /\ UNCHANGED <<events, ready, startVars, phase, step, readVars, failures>>

CommandFails(n) ==
  /\ phase \in {"setup", "check", "post"} /\ n \in todo
  /\ failures < MaxFailures
  /\ failures' = failures + 1
  /\ todo' = todo \ {n}
  /\ fault' = phase
  /\ UNCHANGED <<storeVars, startVars, phase, step, readVars, rejected>>

\* The results are collected: an exception leaves event_init without its finish.
CommandsEnd ==
  /\ phase \in {"setup", "check"} /\ todo = {}
  /\ IF fault # "none" THEN EndOfStep(FALSE)
     ELSE GoTo(IF phase = "setup" THEN "setup1" ELSE "check1", DOMAIN data)

SetupFinished == phase = "setup1" /\ todo = {} /\ GoTo("check0", DOMAIN data)

\* after_network_setup_done runs the post network commands in step 0 only.
CheckFinished ==
  /\ phase = "check1" /\ todo = {}
  /\ IF step = 0 THEN GoTo("post", scenario) ELSE EndOfStep(TRUE)

PostDone(n) ==
  /\ phase = "post" /\ n \in todo
  /\ todo' = todo \ {n}
  /\ data' = UpdateEvent(data, n, EventOf(phase), 1, FALSE)
  /\ UNCHANGED <<events, ready, startVars, phase, fault, step, readVars, failures, rejected>>

PostFinished == phase = "post" /\ todo = {} /\ EndOfStep(fault = "none")

StepThread ==
  \/ WriteOne \/ BackendCleared \/ CommandsBegin \/ CommandsEnd
  \/ SetupFinished \/ CheckFinished \/ PostFinished
  \/ \E n \in AllNodes : CommandDone(n) \/ PostDone(n)
-----------------------------------------------------------------------------
(***************************************************************************)
(* get_progress(False).  The averages of the events are computed one after *)
(* the other, the total (over the list as it is then) last.  An average    *)
(* counts the nodes first and visits them afterwards, one by one.          *)
(***************************************************************************)
Writers == <<storeVars, startVars, stepVars, failures, rejected>>

\* External: the client asks (RPCServer.get_progress).
Poll ==
  /\ client = "polls" /\ rpc.at = "idle"
  /\ rpc' = [NoRead EXCEPT !.at = "wait"]
  /\ grew' = FALSE
  /\ UNCHANGED <<Writers, client>>

GetEvents ==
  /\ rpc.at = "wait" /\ ready
  /\ rpc' = [rpc EXCEPT !.at = "event", !.left = Reverse(AllEvents(events))]
  /\ UNCHANGED <<Writers, client, grew>>

(***************************************************************************)
(* The rest of a report is not followed where it makes no difference: some *)
(* node was found behind, so not all events are finished, and neither      *)
(* nodes nor events are added before the RPC thread is free again, so no   *)
(* more average is above 1, nor the total if it is not so already.         *)
(***************************************************************************)
FoundBehind == ~ rpc.all1 \/ rpc.sum < rpc.size - Cardinality(rpc.nodes)

Determined ==
  /\ pc \notin {"backend", "insert"}
  /\ rpc.total <= Whole * rpc.index /\ rpc.cntEvents \in {0, Len(events)}
  /\ rpc.at = "event" \/ (rpc.at = "sum" /\ rpc.cnt = rpc.size)
  /\ FoundBehind

\* Fault: the total, which get_all_events lists, is counted as an event.
CountAllEvents == Len(events) + 1

\* get_average_complete_progress counts the events before it walks over them.
CountEvents == Len(events)

CountNodes ==
  /\ rpc.at = "event"
  /\ rpc.left # <<>> \/ rpc.index < Len(events)
  /\ ~ Determined
  /\ rpc' = [rpc EXCEPT !.at = "count", !.cnt = Cardinality(DOMAIN data),
                        !.cntEvents = IF rpc.left = <<>> /\ rpc.index = 0
                                      THEN CountEvents ELSE @]
  /\ UNCHANGED <<Writers, client, grew>>

CurrentEvent == IF rpc.left # <<>> THEN Head(rpc.left) ELSE events[rpc.index + 1]

\* Fault: the average of no nodes is complete.
AverageOrWhole(sum) == IF rpc.cnt = 0 THEN Whole ELSE (sum * Whole) \div rpc.cnt

Average(sum) == IF rpc.cnt = 0 THEN 0 ELSE (sum * Whole) \div rpc.cnt

\* The sum over all nodes is known: on to the next event of the report or of the total.
WithAverage(avg) ==
  IF rpc.left # <<>>
  THEN [rpc EXCEPT !.at = "event", !.left = Tail(@), !.cnt = 0, !.size = 0, !.sum = 0,
                   !.all1 = @ /\ avg = Whole, !.over = @ \/ avg > Whole]
  ELSE [rpc EXCEPT !.at = "event", !.index = @ + 1, !.cnt = 0, !.size = 0, !.sum = 0,
                   !.total = @ + avg]

\* The nodes that are still to be visited: all of them, when the iteration begins.
Unvisited == IF rpc.at = "count" THEN DOMAIN data ELSE rpc.nodes

\* The order of the nodes is that of their insertion, which follows their ids.
SumNode ==
  /\ \/ rpc.at = "count" /\ DOMAIN data # {}
     \/ rpc.at = "sum" /\ rpc.size = Cardinality(DOMAIN data) /\ ~ Determined
  /\ LET n    == Min(Unvisited)
         rest == Unvisited \ {n}
         sum  == rpc.sum + data[n][CurrentEvent]
     IN  rpc' = IF rest = {} THEN [WithAverage(Average(sum)) EXCEPT !.nodes = {}]
                ELSE [rpc EXCEPT !.at = "sum", !.sum = sum, !.nodes = rest,
                                 !.size = Cardinality(DOMAIN data)]
  /\ UNCHANGED <<Writers, client, grew>>

NoNodes ==
  /\ rpc.at = "count" /\ DOMAIN data = {}
  /\ rpc' = WithAverage(Average(0))
  /\ UNCHANGED <<Writers, client, grew>>

\* A dict that grows under its iterator raises; the client is told so.
SumRaises ==
  /\ rpc.at = "sum"
  /\ rpc.size # Cardinality(DOMAIN data)
  /\ rpc' = NoRead
  /\ client' = "error"
  /\ UNCHANGED <<Writers, grew>>

\* External: every value of a complete report is 1.0, and none may be above it.
AllFinished == rpc.all1 /\ rpc.total = Whole * rpc.cntEvents

OutOfRange == rpc.over \/ rpc.total > Whole * rpc.cntEvents

Report ==
  /\ rpc.at = "event" /\ rpc.left = <<>> /\ rpc.index >= Len(events) /\ ~ Determined
  /\ rpc' = NoRead
  /\ client' = CASE OutOfRange  -> "error"
                 [] AllFinished -> "done"
                 [] OTHER       -> "polls"
  /\ grew' = (grew /\ client' = "error")
  /\ UNCHANGED Writers

UnfinishedReport ==
  /\ Determined
  /\ rpc' = NoRead
  /\ client' = IF rpc.over THEN "error" ELSE "polls"
  /\ grew' = (grew /\ rpc.over)
  /\ UNCHANGED Writers

ReadThread == GetEvents \/ CountNodes \/ SumNode \/ NoNodes \/ SumRaises \/ Report
              \/ UnfinishedReport
-----------------------------------------------------------------------------
StartThread == InitForNextScenario \/ InsertNode \/ NodesStarted

Next ==
  \/ \E s \in Scenarios, a \in BOOLEAN, watch \in BOOLEAN : SimulationStart(s, a, watch)
  \/ BackendFails
  \/ StartThread
  \/ \E n \in AllNodes : NodePasses(n) \/ NodeFails(n) \/ CommandFails(n)
  \/ SimulationAbort
  \/ BeginStep
  \/ StepThread
  \/ Poll
  \/ ReadThread

Spec == Init /\ [][Next]_vars

\* What has been started goes on, and the client asks again; both sides get their
\* turns.  The threads on the writing side all end, so none of them can be starved
\* by the others.
Fairness ==
  /\ WF_vars(StartThread \/ StepThread \/ \E n \in AllNodes : NodePasses(n))
  /\ WF_vars(Poll \/ ReadThread)

FairSpec == Spec /\ Fairness
-----------------------------------------------------------------------------
(***************************************************************************)
(* From the start of its nodes on, the progress of a scenario's own nodes  *)
(* is what they have really passed, also in a later scenario, for which    *)
(* the event system still has the nodes of the earlier ones.  A network    *)
(* setup or a check that failed on some node is not complete: event_init   *)
(* does not finish the event when its body raises.  And update_event never *)
(* raises its ValueError: whatever failed before, event_init has cleared   *)
(* the progress of every node to which run_emulation_node_commands adds.   *)
(***************************************************************************)
ProgressIsTruthful ==
  /\ pc \in {"boot", "run"} =>
       \A n \in scenario, i \in 1..3 : data[n][StaticEvents[i]] = 1 <=> boot[n] >= i
  /\ fault \in {"setup", "check"} => \E n \in scenario : data[n][EventOf(fault)] = 0
  /\ ~ rejected

(***************************************************************************)
(* The reports for the first start are complete only when all its nodes    *)
(* have started: no report mixes its averages, which are read without the  *)
(* lock at different times, into a completeness that never was.  (In later *)
(* starts the progress of the scenario before counts until the nodes are   *)
(* initialised, and a report may be complete at once.)  And a report       *)
(* raises, or has a value above 1.0, only if a node or an event came up    *)
(* while it was made.                                                      *)
(***************************************************************************)
ReportsAreSound ==
  /\ client = "done" /\ starts = 1 => \A n \in scenario : boot[n] = 3
  /\ client = "error" => grew

(***************************************************************************)
(* get_progress does report the end of a first start that is stepped       *)
(* manually and in which nothing fails: whoever keeps asking is given a    *)
(* complete report, or one that fails as above.  (With auto stepping no    *)
(* report is ever complete: nothing sets the progress of                   *)
(* network_backend_setup to 1.0.)                                          *)
(***************************************************************************)
CompletionIsReported == []<>(client = "polls" /\ starts = 1 /\ ~ auto => failures > 0)

(***************************************************************************)
(* The RPC thread, which serves all calls, gets free again, unless a start *)
(* died before the event system was ready.                                 *)
(***************************************************************************)
RpcThreadReturns == []<>(rpc.at = "idle" \/ (pc = "dead" /\ ~ ready))
=============================================================================

--------------------------- MODULE ZeroMQProtocol ---------------------------
(***************************************************************************)
(* The distributed mode: a coordinator and its emulation servers.          *)
(*                                                                         *)
(* A server holds one request socket to the coordinator's router socket,   *)
(* and one subscription each for matrices and for resets.  It registers,   *)
(* exchanges its address for the scenario, starts its nodes and then takes *)
(* one matrix after the other, over the subscription (mode "mcast") or as  *)
(* the reply to a request (mode "p2p").  The coordinator waits in every    *)
(* state for a request of every server before it answers any of them.      *)
(*                                                                         *)
(* Threads of the coordinator: the RPC thread, one ZeroMQ thread that goes *)
(* through the first three states (each simulation_abort starts a further  *)
(* one on the same socket), and the thread that steps, which is the        *)
(* RunLoop or the RPC thread itself.  Starts are blocking calls.           *)
(***************************************************************************)
EXTENDS Naturals, Sequences, FiniteSets

CONSTANTS
  Servers,           \* the emulation servers, all that the coordinator expects
  LateSubscribers,   \* servers whose subscriptions may take effect late
  MaxStarts,         \* bound on the calls of simulation_start
  MaxAborts,         \* bound on the calls of simulation_abort
  MaxSteps,          \* bound on the matrices handed out
  MaxFailures        \* bound on the failures of servers

ASSUME ZeroMQAssumption ==
  /\ IsFiniteSet(Servers) /\ Servers # {}
  /\ LateSubscribers \subseteq Servers
  /\ MaxStarts \in Nat /\ MaxAborts \in Nat /\ MaxSteps \in Nat
  /\ MaxFailures \in Nat

VARIABLES
  mode,             \* how matrices are distributed (Config), the same everywhere
  pc,               \* what each server does
  server_id,        \* ZeroMQClient.server_id, 0 = None
  scenario,         \* number of the scenario config that each server runs
  applied,          \* number of the last matrix that each server has applied
  request,          \* state named in the server's unread request, or NoMessage
  reply,            \* the server's unread reply, or NoMessage
  matrices,         \* the server's unread matrices (sub_socket)
  resets,           \* number of the server's unread resets (reset_socket)
  subscribed,       \* servers whose subscriptions are in effect
  failures,         \* number of servers that failed
  rpc,              \* what the RPC thread does: "ready" or "start"
  thread,           \* program counters of the stepping and the ZeroMQ threads
  expect_storage,   \* servers heard in the Expecter of each thread, in order
  cnt_zmq_threads,  \* ZeroMQ threads started so far
  config_set,       \* the event wait_for_scenario_config
  nodes_started,    \* the event wait_for_nodes_started
  running,          \* SimulationManager.running
  current_step,     \* SimulationManager.current_step
  scenario_config,  \* number of the last scenario given to simulation_start
  refused,          \* a start was refused since the last abort (history)
  published         \* number of matrices handed out

clientVars == <<pc, server_id, scenario, applied, failures>>
netVars    == <<request, reply, matrices, resets, subscribed>>
threadVars == <<thread, expect_storage, cnt_zmq_threads>>
eventVars  == <<config_set, nodes_started>>
configVars == <<scenario_config, refused>>
coordVars  == <<running, current_step, configVars, published>>
vars == <<mode, clientVars, netVars, rpc, threadVars, eventVars, coordVars>>

States == {"register", "exchange", "start_nodes", "distance_matrix"}
NoMessage == "none"
NoReply == [state |-> NoMessage, value |-> 0]
cnt_peers == Cardinality(Servers)

Stepper    == 0
ZmqThreads == 1..(MaxAborts + 1)
Threads    == {Stepper} \cup ZmqThreads

\* The state that the Expecter of a thread waits for, by program counter.
ExpectedIn ==
  [register |-> "register", exchange |-> "exchange", start_nodes |-> "start_nodes",
   sync0 |-> "distance_matrix", sync |-> "distance_matrix",
   matrix |-> "distance_matrix"]

\* The state for which a server waits for the reply, by program counter.
AwaitedIn == ExpectedIn

ClientPcs == DOMAIN AwaitedIn \cup {"boot", "nodes", "select", "dead"}
ThreadPcs == DOMAIN ExpectedIn \cup {"none", "idle", "config", "publish", "done"}

ClientsOK ==
  /\ pc \in [Servers -> ClientPcs]
  /\ server_id \in [Servers -> 0..cnt_peers]
  /\ scenario \in [Servers -> 0..MaxStarts]
  /\ applied \in [Servers -> 0..MaxSteps]
  /\ failures \in 0..MaxFailures

NetworkOK ==
  /\ request \in [Servers -> States \cup {NoMessage}]
  /\ reply \in [Servers -> [state : States \cup {NoMessage}, value : Nat]]
  /\ matrices \in [Servers -> Seq(1..MaxSteps)]
  /\ resets \in [Servers -> 0..MaxAborts]
  /\ subscribed \in SUBSET Servers

CoordinatorOK ==
  /\ mode \in {"mcast", "p2p"}
  /\ rpc \in {"ready", "start"}
  /\ thread \in [Threads -> ThreadPcs]
  /\ expect_storage \in [Threads -> Seq(Servers)]
  /\ cnt_zmq_threads \in ZmqThreads
  /\ config_set \in BOOLEAN /\ nodes_started \in BOOLEAN /\ running \in BOOLEAN
  /\ current_step \in 0..MaxSteps
  /\ scenario_config \in 0..MaxStarts /\ refused \in BOOLEAN
  /\ published \in 0..MaxSteps

TypeOK == ClientsOK /\ NetworkOK /\ CoordinatorOK

Init ==
  /\ mode \in {"mcast", "p2p"}
  /\ pc = [s \in Servers |-> "boot"]
  /\ server_id = [s \in Servers |-> 0]
  /\ scenario = [s \in Servers |-> 0]
  /\ applied = [s \in Servers |-> 0]
  /\ failures = 0
  /\ request = [s \in Servers |-> NoMessage]
  /\ reply = [s \in Servers |-> NoReply]
  /\ matrices = [s \in Servers |-> <<>>]
  /\ resets = [s \in Servers |-> 0]
  /\ subscribed = Servers \ LateSubscribers
  /\ rpc = "ready"
  /\ thread = [t \in Threads |-> CASE t = Stepper -> "idle"
                                   [] t = 1 -> "register"
                                   [] OTHER -> "none"]
  /\ expect_storage = [t \in Threads |-> <<>>]
  /\ cnt_zmq_threads = 1
  /\ config_set = FALSE /\ nodes_started = FALSE
  /\ running = FALSE
  /\ current_step = 0 /\ scenario_config = 0 /\ refused = FALSE /\ published = 0
-----------------------------------------------------------------------------
(***************************************************************************)
(* The emulation server (ZeroMQClient)                                     *)
(***************************************************************************)

ClientAt(s, p) == pc[s] = p
ClientGoes(s, p) == pc' = [pc EXCEPT ![s] = p]

\* send_multi_part: the request waits at the router socket.
SendTo(state, s) == request' = [request EXCEPT ![s] = state]

\* recv of the request socket: takes the reply that is there.
Recv(s) ==
  /\ reply[s] # NoReply
  /\ reply' = [reply EXCEPT ![s] = NoReply]

\* start(): the first request.
Register(s) ==
  /\ ClientAt(s, "boot")
  /\ ClientGoes(s, "register")
  /\ SendTo("register", s)
  /\ UNCHANGED <<mode, server_id, scenario, applied, failures, reply, matrices, resets,
                 subscribed, rpc, threadVars, eventVars, coordVars>>

\* The reply is the server id; the tunnel address and the score are sent.
Exchange(s) ==
  /\ ClientAt(s, "register")
  /\ Recv(s)
  /\ server_id' = [server_id EXCEPT ![s] = reply[s].value]
  /\ ClientGoes(s, "exchange")
  /\ SendTo("exchange", s)
  /\ UNCHANGED <<mode, scenario, applied, failures, matrices, resets, subscribed, rpc,
                 threadVars, eventVars, coordVars>>

\* The reply is the scenario config.
RecvScenario(s) ==
  /\ ClientAt(s, "exchange")
  /\ Recv(s)
  /\ scenario' = [scenario EXCEPT ![s] = reply[s].value]
  /\ ClientGoes(s, "nodes")
  /\ UNCHANGED <<mode, server_id, applied, failures, request, matrices, resets,
                 subscribed, rpc, threadVars, eventVars, coordVars>>

StartNodes(s) ==
  /\ ClientAt(s, "nodes")
  /\ ClientGoes(s, "start_nodes")
  /\ SendTo("start_nodes", s)
  /\ UNCHANGED <<mode, server_id, scenario, applied, failures, reply, matrices, resets,
                 subscribed, rpc, threadVars, eventVars, coordVars>>

\* All nodes are started: enter_run_loop sends its first request.
EnterRunLoop(s) ==
  /\ ClientAt(s, "start_nodes")
  /\ Recv(s)
  /\ ClientGoes(s, IF mode = "mcast" THEN "sync0" ELSE "matrix")
  /\ SendTo("distance_matrix", s)
  /\ UNCHANGED <<mode, server_id, scenario, applied, failures, matrices, resets,
                 subscribed, rpc, threadVars, eventVars, coordVars>>

\* The reply to a sync request, mode "mcast".
Synced(s) ==
  /\ pc[s] \in {"sync0", "sync"}
  /\ Recv(s)
  /\ ClientGoes(s, "select")
  /\ UNCHANGED <<mode, server_id, scenario, applied, failures, request, matrices,
                 resets, subscribed, rpc, threadVars, eventVars, coordVars>>

\* Fault: the matrix is acknowledged when it arrives and applied after the reply.
StepMcastSyncsFirst(s) ==
  /\ UNCHANGED <<mode, server_id, scenario, failures, reply, resets, subscribed, rpc,
                 threadVars, eventVars, coordVars>>
  /\ matrices[s] # <<>>
  /\ \/ /\ ClientAt(s, "select")
        /\ ClientGoes(s, "sync")
        /\ SendTo("distance_matrix", s)
        /\ UNCHANGED <<applied, matrices>>
     \/ /\ ClientAt(s, "sync")
        /\ applied' = [applied EXCEPT ![s] = Head(matrices[s])]
        /\ matrices' = [matrices EXCEPT ![s] = Tail(@)]
        /\ UNCHANGED <<pc, request>>

\* A matrix of the subscription: one simulation step, then the sync request.
StepMcast(s) ==
  /\ ClientAt(s, "select")
  /\ matrices[s] # <<>>
  /\ applied' = [applied EXCEPT ![s] = Head(matrices[s])]
  /\ matrices' = [matrices EXCEPT ![s] = Tail(@)]
  /\ ClientGoes(s, "sync")
  /\ SendTo("distance_matrix", s)
  /\ UNCHANGED <<mode, server_id, scenario, failures, reply, resets, subscribed, rpc,
                 threadVars, eventVars, coordVars>>

\* A matrix as a reply: one simulation step, then the request for the next one.
StepP2P(s) ==
  /\ ClientAt(s, "matrix")
  /\ Recv(s)
  /\ applied' = [applied EXCEPT ![s] = reply[s].value]
  /\ SendTo("distance_matrix", s)
  /\ UNCHANGED <<mode, pc, server_id, scenario, failures, matrices, resets, subscribed,
                 rpc, threadVars, eventVars, coordVars>>

\* Fault: the socket would accept a second request before the reply.
HandleResetRelaxed(s) ==
  /\ pc[s] \in {"select", "sync"}
  /\ resets[s] > 0
  /\ resets' = [resets EXCEPT ![s] = @ - 1]
  /\ ClientGoes(s, "register")
  /\ SendTo("register", s)
  /\ UNCHANGED <<mode, server_id, scenario, applied, failures, reply, matrices,
                 subscribed, rpc, threadVars, eventVars, coordVars>>

(***************************************************************************)
(* reset() in one of the two select calls: abort, then start() on the same *)
(* request socket.  Sending is an error of a request socket whose reply is *)
(* outstanding, read or not, and nobody handles it: the thread ends.  When *)
(* a reply or a matrix arrives as well, either may be seen first.          *)
(***************************************************************************)
HandleReset(s) ==
  /\ pc[s] \in {"select", "sync"}
  /\ resets[s] > 0
  /\ resets' = [resets EXCEPT ![s] = @ - 1]
  /\ IF pc[s] = "select"
     THEN ClientGoes(s, "register") /\ SendTo("register", s)
     ELSE ClientGoes(s, "dead") /\ UNCHANGED request
  /\ UNCHANGED <<mode, server_id, scenario, applied, failures, reply, matrices,
                 subscribed, rpc, threadVars, eventVars, coordVars>>

\* The nodes do not start, or the simulation step raises: the thread ends.
ClientFails(s) ==
  /\ pc[s] \in {"nodes", "select", "matrix"}
  /\ ClientAt(s, "select") => matrices[s] # <<>>
  /\ ClientAt(s, "matrix") => reply[s] # NoReply
  /\ failures < MaxFailures
  /\ failures' = failures + 1
  /\ ClientGoes(s, "dead")
  /\ UNCHANGED <<mode, server_id, scenario, applied, netVars, rpc, threadVars,
                 eventVars, coordVars>>

\* The subscriptions reach the publisher; what was published before is lost.
Subscribe(s) ==
  /\ s \notin subscribed
  /\ subscribed' = subscribed \cup {s}
  /\ UNCHANGED <<mode, clientVars, request, reply, matrices, resets, rpc, threadVars,
                 eventVars, coordVars>>
-----------------------------------------------------------------------------
(***************************************************************************)
(* Expecter and Responder                                                  *)
(***************************************************************************)

Expecting(t) == thread[t] \in DOMAIN ExpectedIn

\* Fault: expect_for_all stops one peer too early.
HeardAllButOne(t) == Len(expect_storage[t]) + 1 >= cnt_peers

\* expect_for_all is done.
HeardAll(t) == Len(expect_storage[t]) = cnt_peers

(***************************************************************************)
(* Expecter.expect: the next request of the router socket, which every     *)
(* thread in a recv call may get.  A request in another state is dropped.  *)
(***************************************************************************)
Expect(t, s) ==
  /\ Expecting(t)
  /\ ~ HeardAll(t)
  /\ request[s] # NoMessage
  /\ request' = [request EXCEPT ![s] = NoMessage]
  /\ expect_storage' = IF request[s] = ExpectedIn[thread[t]]
                       THEN [expect_storage EXCEPT ![t] = Append(@, s)]
                       ELSE expect_storage
  /\ UNCHANGED <<mode, clientVars, reply, matrices, resets, subscribed, rpc, thread,
                 cnt_zmq_threads, eventVars, coordVars>>

Heard(t) == {expect_storage[t][i] : i \in DOMAIN expect_storage[t]}

\* Responder.respond: one reply for each stored request; the Expecter is gone.
Respond(t, values) ==
  /\ HeardAll(t)
  /\ reply' = [s \in Servers |->
                IF s \in Heard(t)
                THEN [state |-> ExpectedIn[thread[t]], value |-> values[s]]
                ELSE reply[s]]
  /\ expect_storage' = [expect_storage EXCEPT ![t] = <<>>]

ThreadGoes(t, p) == thread' = [thread EXCEPT ![t] = p]

\* ResponderServerID: first come, first served.
RegisterId(t, s) == CHOOSE i \in DOMAIN expect_storage[t] : expect_storage[t][i] = s

(***************************************************************************)
(* ZeroMQServer.start                                                      *)
(***************************************************************************)
StateRegister(t) ==
  /\ thread[t] = "register"
  /\ Respond(t, [s \in Heard(t) |-> RegisterId(t, s)])
  /\ ThreadGoes(t, "config")
  /\ UNCHANGED <<mode, clientVars, request, matrices, resets, subscribed, rpc,
                 cnt_zmq_threads, eventVars, coordVars>>

WaitForScenarioConfig(t) ==
  /\ thread[t] = "config"
  /\ config_set
  /\ ThreadGoes(t, "exchange")
  /\ UNCHANGED <<mode, clientVars, netVars, rpc, expect_storage, cnt_zmq_threads,
                 eventVars, coordVars>>

StateInformationExchange(t) ==
  /\ thread[t] = "exchange"
  /\ Respond(t, [s \in Servers |-> scenario_config])
  /\ ThreadGoes(t, "start_nodes")
  /\ UNCHANGED <<mode, clientVars, request, matrices, resets, subscribed, rpc,
                 cnt_zmq_threads, eventVars, coordVars>>

\* Fault: the event is not set.
StateStartNodesQuietly(t) ==
  /\ thread[t] = "start_nodes"
  /\ Respond(t, [s \in Servers |-> 0])
  /\ ThreadGoes(t, "done")
  /\ UNCHANGED <<mode, clientVars, request, matrices, resets, subscribed, rpc,
                 cnt_zmq_threads, eventVars, coordVars>>

StateStartNodes(t) ==
  /\ thread[t] = "start_nodes"
  /\ Respond(t, [s \in Servers |-> 0])
  /\ ThreadGoes(t, "done")
  /\ nodes_started' = TRUE
  /\ UNCHANGED <<mode, clientVars, request, matrices, resets, subscribed, rpc,
                 cnt_zmq_threads, config_set, coordVars>>
-----------------------------------------------------------------------------
(***************************************************************************)
(* The coordinator's step.  The bound is on all matrices.                  *)
(***************************************************************************)
Step ==
  /\ thread[Stepper] = "idle"
  /\ rpc = "ready"
  /\ running
  /\ nodes_started
  /\ published < MaxSteps
  /\ ThreadGoes(Stepper, IF mode = "p2p" THEN "matrix"
                         ELSE IF current_step = 0 THEN "sync0" ELSE "publish")
  /\ UNCHANGED <<mode, clientVars, netVars, rpc, expect_storage, cnt_zmq_threads,
                 eventVars, coordVars>>

\* sync_subscribers before the first matrix.
InitialSync ==
  /\ thread[Stepper] = "sync0"
  /\ Respond(Stepper, [s \in Servers |-> 0])
  /\ ThreadGoes(Stepper, "publish")
  /\ UNCHANGED <<mode, clientVars, request, matrices, resets, subscribed, rpc,
                 cnt_zmq_threads, eventVars, coordVars>>

SendDistanceMatrix ==
  /\ thread[Stepper] = "publish"
  /\ published' = published + 1
  /\ matrices' = [s \in Servers |-> IF s \in subscribed
                                    THEN Append(matrices[s], published + 1)
                                    ELSE matrices[s]]
  /\ ThreadGoes(Stepper, "sync")
  /\ UNCHANGED <<mode, clientVars, request, reply, resets, subscribed, rpc,
                 expect_storage, cnt_zmq_threads, eventVars, running, current_step,
                 configVars>>

SyncSubscribers ==
  /\ thread[Stepper] = "sync"
  /\ Respond(Stepper, [s \in Servers |-> 0])
  /\ ThreadGoes(Stepper, "idle")
  /\ current_step' = current_step + 1
  /\ UNCHANGED <<mode, clientVars, request, matrices, resets, subscribed, rpc,
                 cnt_zmq_threads, eventVars, running, configVars, published>>

\* Fault: the matrix is sent to every server that has asked so far.
ReplyDistanceMatrixEarly ==
  /\ thread[Stepper] = "matrix"
  /\ expect_storage[Stepper] # <<>>
  /\ reply' = [s \in Servers |->
                IF s \in Heard(Stepper)
                THEN [state |-> "distance_matrix", value |-> published + 1]
                ELSE reply[s]]
  /\ expect_storage' = [expect_storage EXCEPT ![Stepper] = <<>>]
  /\ published' = published + 1
  /\ ThreadGoes(Stepper, "idle")
  /\ current_step' = current_step + 1
  /\ UNCHANGED <<mode, clientVars, request, matrices, resets, subscribed, rpc,
                 cnt_zmq_threads, eventVars, running, configVars>>

\* ZeroMQServerRouter: each server's part of the matrix is the reply.
ReplyDistanceMatrix ==
  /\ thread[Stepper] = "matrix"
  /\ Respond(Stepper, [s \in Servers |-> published + 1])
  /\ published' = published + 1
  /\ ThreadGoes(Stepper, "idle")
  /\ current_step' = current_step + 1
  /\ UNCHANGED <<mode, clientVars, request, matrices, resets, subscribed, rpc,
                 cnt_zmq_threads, eventVars, running, configVars>>
-----------------------------------------------------------------------------
(***************************************************************************)
(* RPC calls on the coordinator.  They wait for a step under way: a start  *)
(* for the lock, an abort for the RunLoop.                                 *)
(***************************************************************************)
RpcCall == rpc = "ready" /\ thread[Stepper] = "idle"

SimulationStart ==
  /\ RpcCall
  /\ ~ running
  /\ scenario_config < MaxStarts
  /\ scenario_config' = scenario_config + 1
  /\ config_set' = TRUE
  /\ rpc' = "start"
  /\ UNCHANGED <<mode, clientVars, netVars, threadVars, nodes_started, running,
                 current_step, refused, published>>

\* The start is refused, and start() answers the exception with abort().
StartRefused ==
  /\ RpcCall
  /\ running
  /\ scenario_config < MaxStarts
  /\ scenario_config' = scenario_config + 1
  /\ refused' = TRUE
  /\ running' = FALSE
  /\ current_step' = 0
  /\ UNCHANGED <<mode, clientVars, netVars, rpc, threadVars, eventVars, published>>

SimulationStarted ==
  /\ rpc = "start"
  /\ nodes_started
  /\ running' = TRUE
  /\ rpc' = "ready"
  /\ UNCHANGED <<mode, clientVars, netVars, threadVars, eventVars, current_step,
                 configVars, published>>

\* Fault: the event wait_for_nodes_started survives the abort.
SimulationAbortKeepsEvent ==
  /\ RpcCall
  /\ cnt_zmq_threads <= MaxAborts
  /\ running' = FALSE
  /\ current_step' = 0
  /\ resets' = [s \in Servers |-> IF s \in subscribed THEN resets[s] + 1 ELSE resets[s]]
  /\ config_set' = FALSE
  /\ refused' = FALSE
  /\ cnt_zmq_threads' = cnt_zmq_threads + 1
  /\ ThreadGoes(cnt_zmq_threads + 1, "register")
  /\ UNCHANGED <<mode, clientVars, request, reply, matrices, subscribed, rpc,
                 expect_storage, nodes_started, scenario_config, published>>

(***************************************************************************)
(* simulation_abort: the manager's abort, the reset to all subscribers, a  *)
(* new ZeroMQ thread.  Nobody tells an old thread that it should end.      *)
(***************************************************************************)
SimulationAbort ==
  /\ RpcCall
  /\ cnt_zmq_threads <= MaxAborts
  /\ running' = FALSE
  /\ current_step' = 0
  /\ resets' = [s \in Servers |-> IF s \in subscribed THEN resets[s] + 1 ELSE resets[s]]
  /\ config_set' = FALSE
  /\ nodes_started' = FALSE
  /\ refused' = FALSE
  /\ cnt_zmq_threads' = cnt_zmq_threads + 1
  /\ ThreadGoes(cnt_zmq_threads + 1, "register")
  /\ UNCHANGED <<mode, clientVars, request, reply, matrices, subscribed, rpc,
                 expect_storage, scenario_config, published>>
-----------------------------------------------------------------------------
Client(s) ==
  \/ Register(s) \/ Exchange(s) \/ RecvScenario(s) \/ StartNodes(s) \/ EnterRunLoop(s)
  \/ Synced(s) \/ StepMcast(s) \/ StepP2P(s) \/ HandleReset(s)

ZmqThread(t) ==
  \/ \E s \in Servers : Expect(t, s)
  \/ StateRegister(t) \/ WaitForScenarioConfig(t) \/ StateInformationExchange(t)
  \/ StateStartNodes(t)

StepThread ==
  \/ \E s \in Servers : Expect(Stepper, s)
  \/ InitialSync \/ SendDistanceMatrix \/ SyncSubscribers \/ ReplyDistanceMatrix

Next ==
  \/ \E s \in Servers : Client(s) \/ ClientFails(s) \/ Subscribe(s)
  \/ \E t \in ZmqThreads : ZmqThread(t)
  \/ StepThread \/ Step
  \/ SimulationStart \/ StartRefused \/ SimulationStarted \/ SimulationAbort

Spec == Init /\ [][Next]_vars

\* Threads that can go on do so.  No call has to be made and nobody has to fail.
Fairness ==
  /\ \A s \in Servers : WF_vars(Client(s)) /\ WF_vars(Subscribe(s))
  /\ \A t \in ZmqThreads : WF_vars(ZmqThread(t))
  /\ WF_vars(StepThread)
  /\ WF_vars(SimulationStarted)

FairSpec == Spec /\ Fairness
-----------------------------------------------------------------------------
Barrier == INSTANCE LockStep

\* Every matrix is applied by all servers, in order, before the next one is handed
\* out (StateMachine.Expecter, handle_state_distance_matrix).
ImplementsLockStep == Barrier!Spec

\* Failing servers, refused starts and late subscriptions may stop the steps but never
\* break their order; nor do aborts when the matrices are replies.
KeepsLockStep ==
  [][mode = "p2p" \/ cnt_zmq_threads = 1 => Barrier!Next]_<<published, applied>>

\* A multicast step returns when all servers have applied its matrix: the sync of
\* _handle_state_distance_matrix covers the step of each server, not just its arrival.
\* (After an abort a reset read in place of a matrix may be taken for the step.)
StepCoversServers ==
  mode = "mcast" /\ cnt_zmq_threads = 1 /\ thread[Stepper] = "idle"
    => \A s \in Servers : applied[s] = published /\ matrices[s] = <<>>

\* A reply answers the request its reader is waiting for.  Requests and replies carry
\* no correlation id, and resets restart the dialogue on the same socket.
AnswersFitRequests ==
  \A s \in Servers : reply[s] # NoReply /\ pc[s] # "dead"
    => /\ pc[s] \in DOMAIN AwaitedIn
       /\ AwaitedIn[pc[s]] = reply[s].state
       /\ request[s] = NoMessage

(***************************************************************************)
(* What runs is what was started last: when simulation_start has returned, *)
(* the servers have read this scenario and no other.  A start that is      *)
(* refused replaces the scenario without a reset, so that the next one     *)
(* finds wait_for_nodes_started set and steps servers of the old scenario: *)
(* nothing is said from then on until an abort.  Neither after a second    *)
(* abort, when an older ZeroMQ thread may have led the servers.            *)
(***************************************************************************)
ServersRunTheScenario ==
  running /\ ~ refused /\ cnt_zmq_threads <= 2 =>
    \A s \in Servers : pc[s] # "dead" => scenario[s] = scenario_config

\* simulation_start returns: the servers come through the three states; and every
\* simulation_step does.
CallsReturn ==
  /\ rpc = "start" ~> rpc = "ready"
  /\ thread[Stepper] # "idle" ~> thread[Stepper] = "idle"
=============================================================================

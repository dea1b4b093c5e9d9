----------------------- MODULE ZeroMQProtocol_proofs -----------------------
(***************************************************************************)
(* Proofs about the protocol of the distributed mode, for any number of    *)
(* servers, late subscribers, starts, aborts, steps and failures.          *)
(***************************************************************************)
EXTENDS ZeroMQProtocol, FiniteSetTheorems, TLAPS

(***************************************************************************)
(* The types that the proofs rest on.  Bounds on numbers are left out.     *)
(***************************************************************************)
ClientsTyped ==
  /\ pc \in [Servers -> ClientPcs]
  /\ scenario \in [Servers -> Nat]
  /\ applied \in [Servers -> Nat]
  /\ request \in [Servers -> States \cup {NoMessage}]
  /\ reply \in [Servers -> [state : States \cup {NoMessage}, value : Nat]]
  /\ matrices \in [Servers -> Seq(Nat)]
  /\ resets \in [Servers -> Nat]

ThreadsTyped ==
  /\ thread \in [Threads -> ThreadPcs]
  /\ expect_storage \in [Threads -> Seq(Servers)]
  /\ cnt_zmq_threads \in ZmqThreads
  /\ mode \in {"mcast", "p2p"}
  /\ rpc \in {"ready", "start"}
  /\ current_step \in Nat /\ scenario_config \in Nat /\ published \in Nat

\* A ZeroMQ thread goes through the first three states, the stepping thread has its own.
Roles ==
  /\ thread[Stepper] \in {"idle", "sync0", "publish", "sync", "matrix"}
  /\ \A t \in ZmqThreads :
       thread[t] \in {"none", "register", "config", "exchange", "start_nodes", "done"}
  /\ \A t \in ZmqThreads : t > cnt_zmq_threads => thread[t] = "none"

Typed == ClientsTyped /\ ThreadsTyped /\ Roles

(***************************************************************************)
(* The dialogue.  A server sends its next request only when the last one   *)
(* was answered, so that at most one message of its dialogue is under way: *)
(* as a request, as a stored request, or as a reply.  (It may also be      *)
(* lost: a thread drops requests of a state it does not expect.)           *)
(***************************************************************************)
Unread(s) ==
  request[s] # NoMessage => /\ reply[s] = NoReply
                            /\ \A t \in Threads : s \notin Heard(t)

Stored(s) ==
  \A t \in Threads : s \in Heard(t) =>
    /\ reply[s] = NoReply
    /\ \A u \in Threads : s \in Heard(u) => u = t

\* A server that waits, waits for the answer to the message that is under way.
Awaits(s, state) ==
  pc[s] # "dead" => pc[s] \in DOMAIN AwaitedIn /\ AwaitedIn[pc[s]] = state

Fitting(s) ==
  /\ request[s] # NoMessage => Awaits(s, request[s])
  /\ \A t \in Threads : s \in Heard(t) => Awaits(s, ExpectedIn[thread[t]])
  /\ reply[s] # NoReply => Awaits(s, reply[s].state)

\* The Expecter of a thread stores every server once, and is gone with its state.
Storage(t) ==
  /\ ~ Expecting(t) => expect_storage[t] = <<>>
  /\ \A i, j \in DOMAIN expect_storage[t] :
       expect_storage[t][i] = expect_storage[t][j] => i = j

Dialogue ==
  /\ \A s \in Servers : Unread(s) /\ Stored(s) /\ Fitting(s)
  /\ \A t \in Threads : Storage(t)

(***************************************************************************)
(* The steps.  A server asks when its request is there or was stored.      *)
(***************************************************************************)
Asks(s) == request[s] # NoMessage \/ \E t \in Threads : s \in Heard(t)

\* Mode "p2p": who asks for a matrix has applied all, who has one unread lacks that one.
ServerP2P(s) ==
  /\ pc[s] \notin {"sync0", "sync", "select"}
  /\ pc[s] = "dead" => ~ Asks(s)
  /\ pc[s] = "matrix" /\ Asks(s) => applied[s] = published
  /\ pc[s] = "matrix" /\ reply[s] # NoReply
       => published = applied[s] + 1 /\ reply[s].value = published
  /\ published > 0 => pc[s] \in {"matrix", "dead"}
  /\ published = 0 => applied[s] = 0

StepsP2P ==
  /\ thread[Stepper] \in {"idle", "matrix"}
  /\ \A s \in Servers : ServerP2P(s)

\* Mode "mcast": between two steps all servers have applied all matrices.  While the
\* coordinator waits for the acknowledgements a server has either applied the matrix,
\* or not yet and then it has not acknowledged it.
UpToDate(s) == applied[s] = published /\ matrices[s] = <<>>

Behind(s) ==
  /\ published = applied[s] + 1
  /\ matrices[s] \in {<<>>, <<published>>}
  /\ ~ Asks(s)

\* After the first sync the servers only take matrices.
Synchronised == published > 0 \/ thread[Stepper] \in {"publish", "sync"}

ServerMcast(s) ==
  /\ resets[s] = 0 /\ pc[s] # "matrix"
  /\ pc[s] = "dead" => ~ Asks(s)
  /\ UpToDate(s) \/ (thread[Stepper] = "sync" /\ Behind(s))
  /\ Synchronised => /\ pc[s] \in {"sync0", "select", "sync", "dead"}
                     /\ thread[Stepper] # "sync" => ~ Asks(s)

StepsMcast ==
  /\ thread[Stepper] # "matrix"
  /\ thread[Stepper] = "sync" => published > 0
  /\ current_step > 0 => published > 0
  /\ \A s \in Servers : ServerMcast(s)

Steps ==
  /\ mode = "p2p" => StepsP2P
  /\ mode = "mcast" /\ cnt_zmq_threads = 1 => StepsMcast

(***************************************************************************)
(* The scenario.  A server is reading one from the reply in the second     *)
(* state until the reply in the third one.                                 *)
(***************************************************************************)
Reading(s) ==
  \/ pc[s] = "exchange" /\ reply[s] # NoReply
  \/ pc[s] = "nodes"
  \/ pc[s] = "start_nodes" /\ reply[s] = NoReply

ReadBy(s) == IF pc[s] = "exchange" THEN reply[s].value ELSE scenario[s]

\* The first ZeroMQ thread leads the servers while a start waits for them, only then.
FirstThread ==
  /\ nodes_started => thread[1] = "done"
  /\ rpc = "ready" /\ config_set => thread[1] = "done"
  /\ thread[1] \in {"exchange", "start_nodes"} => rpc = "start"
  /\ thread[1] # "start_nodes" => \A s \in Servers : ~ Reading(s)

\* Before a start nobody has a scenario or is being led to one.
BeforeStart ==
  /\ ~ config_set /\ ~ nodes_started
  /\ \A t \in ZmqThreads : thread[t] \notin {"exchange", "start_nodes"}
  /\ \A s \in Servers : ~ Reading(s)

LatestScenario ==
  /\ rpc = "start" => ~ running
  /\ ~ running /\ rpc = "ready" => BeforeStart
  /\ \A s \in Servers : Reading(s) => ReadBy(s) = scenario_config
  /\ nodes_started =>
       \A s \in Servers : pc[s] # "dead" => scenario[s] = scenario_config
  /\ running => nodes_started

Scenarios ==
  /\ cnt_zmq_threads = 1 => FirstThread
  /\ ~ refused /\ cnt_zmq_threads <= 2 => LatestScenario

\* The states by program counter.
LEMMA ExpectedStates ==
  /\ AwaitedIn = ExpectedIn
  /\ DOMAIN ExpectedIn = {"register", "exchange", "start_nodes", "sync0", "sync", "matrix"}
  /\ ExpectedIn["register"] = "register"
  /\ ExpectedIn["exchange"] = "exchange"
  /\ ExpectedIn["start_nodes"] = "start_nodes"
  /\ ExpectedIn["sync0"] = "distance_matrix"
  /\ ExpectedIn["sync"] = "distance_matrix"
  /\ ExpectedIn["matrix"] = "distance_matrix"
  BY DEF ExpectedIn, AwaitedIn

\* Stepper and the ZeroMQ threads are different threads.
LEMMA ThreadIds ==
  /\ Stepper \in Threads
  /\ ZmqThreads \subseteq Threads
  /\ \A t \in ZmqThreads : t # Stepper /\ t \in Nat
  /\ 1 \in ZmqThreads
  BY ZeroMQAssumption DEF Stepper, Threads, ZmqThreads

(***************************************************************************)
(* Expecter and Responder.                                                 *)
(***************************************************************************)

\* What is stored are servers.
LEMMA HeardServers ==
  ASSUME Typed, NEW t \in Threads
  PROVE  /\ Heard(t) \subseteq Servers
         /\ Heard(t) = {} => expect_storage[t] = <<>>
         /\ expect_storage[t] = <<>> => Heard(t) = {}
<1> DEFINE f == expect_storage[t]
<1>1. f \in Seq(Servers)
  BY DEF Typed, ThreadsTyped
<1>2. Len(f) \in Nat /\ DOMAIN f = 1..Len(f) /\ \A i \in 1..Len(f) : f[i] \in Servers
  BY <1>1
<1>3. Heard(t) = {} => f = <<>>
  <2> SUFFICES ASSUME f # <<>> PROVE Heard(t) # {}
    OBVIOUS
  <2>1. 1 \in DOMAIN f
    BY <1>1
  <2> QED
    BY <2>1 DEF Heard
<1>4. f = <<>> => Heard(t) = {}
  BY DEF Heard
<1> QED
  BY <1>2, <1>3, <1>4 DEF Heard

\* expect_for_all: as every server is stored at most once, all have asked at the end.
LEMMA AllHeard ==
  ASSUME Typed, NEW t \in Threads, Storage(t), HeardAll(t)
  PROVE  Heard(t) = Servers
<1> DEFINE f == expect_storage[t]
<1>1. cnt_peers \in Nat
  BY FS_CardinalityType, ZeroMQAssumption DEF cnt_peers
<1>2. f \in Seq(Servers) /\ Len(f) = cnt_peers
  BY DEF Typed, ThreadsTyped, HeardAll
<1>3. f \in [1..cnt_peers -> Servers] /\ DOMAIN f = 1..cnt_peers
  BY <1>1, <1>2
<1>4. f \in Injection(1..cnt_peers, Servers)
  BY <1>3 DEF Storage, Injection, IsInjective
<1>5. Cardinality(1..cnt_peers) = Cardinality(Servers)
  BY <1>1, FS_Interval, SMT DEF cnt_peers
<1>6. f \in Surjection(1..cnt_peers, Servers)
  BY <1>4, <1>5, FS_Injection, ZeroMQAssumption
<1> QED
  BY <1>3, <1>6 DEF Surjection, Heard

\* Expecter.expect stores the server or drops its request.
LEMMA ExpectEffect ==
  ASSUME Typed, NEW t \in Threads, NEW s \in Servers, Expect(t, s)
  PROVE  /\ \A u \in Threads : u # t => expect_storage'[u] = expect_storage[u]
         /\ \A u \in Threads : u # t => Heard(u)' = Heard(u)
         /\ IF request[s] = ExpectedIn[thread[t]]
            THEN /\ expect_storage'[t] = Append(expect_storage[t], s)
                 /\ Heard(t)' = Heard(t) \cup {s}
            ELSE /\ expect_storage'[t] = expect_storage[t]
                 /\ Heard(t)' = Heard(t)
<1>1. expect_storage \in [Threads -> Seq(Servers)]
  BY DEF Typed, ThreadsTyped
<1>2. \A u \in Threads : u # t => expect_storage'[u] = expect_storage[u]
  BY <1>1 DEF Expect
<1>3. \A u \in Threads : u # t => Heard(u)' = Heard(u)
  BY <1>2 DEF Heard
<1>4. CASE request[s] = ExpectedIn[thread[t]]
  <2>1. expect_storage'[t] = Append(expect_storage[t], s)
    BY <1>1, <1>4 DEF Expect
  <2>2. Heard(t)' = Heard(t) \cup {s}
    <3> DEFINE f == expect_storage[t]
               g == expect_storage'[t]
    <3>1. f \in Seq(Servers) /\ g = Append(f, s)
      BY <1>1, <2>1
    <3>2. /\ Len(f) \in Nat /\ DOMAIN f = 1..Len(f) /\ DOMAIN g = 1..(Len(f) + 1)
          /\ \A i \in 1..Len(f) : g[i] = f[i]
          /\ g[Len(f) + 1] = s
      BY <3>1
    <3> HIDE DEF f, g
    <3>3. {g[i] : i \in DOMAIN g} = {f[i] : i \in DOMAIN f} \cup {s}
      BY <3>2
    <3> QED
      BY <3>3 DEF Heard, f, g
  <2> QED
    BY <1>2, <1>3, <1>4, <2>1, <2>2
<1>5. CASE request[s] # ExpectedIn[thread[t]]
  BY <1>2, <1>3, <1>5 DEF Expect, Heard
<1> QED
  BY <1>4, <1>5

\* Responder.respond: every server asked this thread, and now has its answer.
LEMMA RespondEffect ==
  ASSUME Typed, Dialogue, NEW t \in Threads, Expecting(t), NEW v, Respond(t, v)
  PROVE  /\ \A s \in Servers :
              /\ s \in Heard(t)
              /\ request[s] = NoMessage /\ reply[s] = NoReply
              /\ Awaits(s, ExpectedIn[thread[t]])
              /\ reply'[s] # NoReply
              /\ reply'[s].state = ExpectedIn[thread[t]] /\ reply'[s].value = v[s]
         /\ \A u \in Threads : expect_storage'[u] = <<>> /\ Heard(u)' = {}
<1>1. Heard(t) = Servers
  BY AllHeard DEF Respond, Dialogue
<1>2. \A s \in Servers : reply'[s] = [state |-> ExpectedIn[thread[t]], value |-> v[s]]
  BY <1>1 DEF Respond
<1>3. ExpectedIn[thread[t]] \in States
  BY ExpectedStates DEF Expecting, States
<1>4. \A s \in Servers :
        /\ reply'[s] # NoReply
        /\ reply'[s].state = ExpectedIn[thread[t]] /\ reply'[s].value = v[s]
  <2> SUFFICES ASSUME NEW s \in Servers
               PROVE  /\ reply'[s] # NoReply
                      /\ reply'[s].state = ExpectedIn[thread[t]]
                      /\ reply'[s].value = v[s]
    OBVIOUS
  <2>1. reply'[s].state = ExpectedIn[thread[t]] /\ reply'[s].value = v[s]
    <3> DEFINE r == reply'[s]
               a == ExpectedIn[thread[t]]
               b == v[s]
    <3>1. r = [state |-> a, value |-> b]
      BY <1>2
    <3> HIDE DEF r, a, b
    <3>2. r.state = a /\ r.value = b
      BY <3>1
    <3> QED
      BY <3>2 DEF r, a, b
  <2>2. NoReply.state \notin States
    BY DEF NoReply, NoMessage, States
  <2> QED
    BY <1>3, <2>1, <2>2
<1>5. \A s \in Servers : /\ request[s] = NoMessage /\ reply[s] = NoReply
                         /\ Awaits(s, ExpectedIn[thread[t]])
  BY <1>1 DEF Dialogue, Unread, Stored, Fitting
<1>6. \A u \in Threads : u # t => Heard(u) = {}
  BY <1>1, HeardServers DEF Dialogue, Stored
<1>7. \A u \in Threads : u # t => expect_storage[u] = <<>>
  BY <1>6, HeardServers
<1>8. \A u \in Threads : expect_storage'[u] = <<>>
  BY <1>7 DEF Respond, Typed, ThreadsTyped
<1>9. \A u \in Threads : Heard(u)' = {}
  BY <1>8 DEF Heard
<1> QED
  BY <1>1, <1>4, <1>5, <1>8, <1>9

(***************************************************************************)
(* Types.                                                                  *)
(***************************************************************************)
LEMMA RespondTyped ==
  ASSUME Typed, NEW t \in Threads, Expecting(t), NEW v, Respond(t, v),
         \A s \in Heard(t) : v[s] \in Nat
  PROVE  /\ reply' \in [Servers -> [state : States \cup {NoMessage}, value : Nat]]
         /\ expect_storage' \in [Threads -> Seq(Servers)]
<1>1. ExpectedIn[thread[t]] \in States
  BY ExpectedStates DEF Expecting, States
<1>2. reply' \in [Servers -> [state : States \cup {NoMessage}, value : Nat]]
  BY <1>1 DEF Respond, Typed, ClientsTyped
<1>3. expect_storage' \in [Threads -> Seq(Servers)]
  BY DEF Respond, Typed, ThreadsTyped
<1> QED
  BY <1>2, <1>3

LEMMA TypedInit == Init => Typed
<1> SUFFICES ASSUME Init PROVE Typed
  OBVIOUS
<1> USE DEF Init
<1>1. ClientsTyped
  BY ExpectedStates DEF ClientsTyped, ClientPcs, NoReply
<1>2. ThreadsTyped
  BY ExpectedStates, ThreadIds DEF ThreadsTyped, ThreadPcs
<1>3. Roles
  BY ThreadIds, ZeroMQAssumption DEF Roles, ZmqThreads, Stepper, Threads
<1> QED
  BY <1>1, <1>2, <1>3 DEF Typed

LEMMA TypedStep == Typed /\ [Next]_vars => Typed'
<1> SUFFICES ASSUME Typed, [Next]_vars PROVE Typed'
  OBVIOUS
<1> USE ExpectedStates, ThreadIds
<1>u. CASE UNCHANGED vars
  BY <1>u DEF Typed, ClientsTyped, ThreadsTyped, Roles, vars, clientVars, netVars,
              threadVars, eventVars, configVars, coordVars
<1>c. CASE \E s \in Servers : Client(s) \/ ClientFails(s) \/ Subscribe(s)
  <2> PICK s \in Servers : Client(s) \/ ClientFails(s) \/ Subscribe(s)
    BY <1>c
  <2>1. ThreadsTyped' /\ Roles'
    BY DEF Client, Register, Exchange, RecvScenario, StartNodes, EnterRunLoop, Synced,
           StepMcast, StepP2P, HandleReset, ClientFails, Subscribe, Typed, ThreadsTyped,
           Roles, threadVars, coordVars, configVars
  <2>2. ClientsTyped'
    <3> USE DEF Typed, ClientsTyped, ClientPcs, States, NoReply, NoMessage, ClientGoes, SendTo, Recv
    <3>1. CASE Register(s) \/ StartNodes(s)
      BY <3>1 DEF Register, StartNodes
    <3>2. CASE Exchange(s)
      BY <3>2 DEF Exchange
    <3>9. CASE EnterRunLoop(s)
      <4>1. pc' \in [Servers -> ClientPcs]
        BY <3>9 DEF EnterRunLoop
      <4> QED
        BY <3>9, <4>1 DEF EnterRunLoop
    <3>3. CASE RecvScenario(s)
      BY <3>3 DEF RecvScenario
    <3>4. CASE Synced(s)
      BY <3>4 DEF Synced
    <3>5. CASE StepMcast(s)
      <4>1. Head(matrices[s]) \in Nat /\ Tail(matrices[s]) \in Seq(Nat)
        BY <3>5 DEF StepMcast
      <4> QED
        BY <3>5, <4>1 DEF StepMcast
    <3>6. CASE StepP2P(s)
      BY <3>6 DEF StepP2P
    <3>7. CASE HandleReset(s)
      <4>1. resets' \in [Servers -> Nat]
        BY <3>7 DEF HandleReset
      <4>2. CASE pc[s] = "select"
        BY <3>7, <4>1, <4>2 DEF HandleReset
      <4>3. CASE pc[s] = "sync"
        BY <3>7, <4>1, <4>3 DEF HandleReset
      <4> QED
        BY <3>7, <4>2, <4>3 DEF HandleReset
    <3>8. CASE ClientFails(s) \/ Subscribe(s)
      BY <3>8 DEF ClientFails, Subscribe, clientVars, netVars
    <3> QED
      BY <3>1, <3>2, <3>3, <3>4, <3>5, <3>6, <3>7, <3>8, <3>9 DEF Client
  <2> QED
    BY <2>1, <2>2 DEF Typed
<1>e. ASSUME NEW t \in Threads, NEW s \in Servers, Expect(t, s) PROVE Typed'
  <2>1. ClientsTyped'
    BY <1>e DEF Expect, Typed, ClientsTyped, clientVars
  <2>2. expect_storage' \in [Threads -> Seq(Servers)]
    BY <1>e DEF Expect, Typed, ThreadsTyped
  <2> QED
    BY <1>e, <2>1, <2>2 DEF Expect, Typed, ThreadsTyped, Roles, coordVars, configVars
<1>r. ASSUME NEW t \in Threads, NEW v, Expecting(t), Respond(t, v),
             \A s \in Heard(t) : v[s] \in Nat,
             NEW p \in {"config", "start_nodes", "done", "publish", "idle"}, ThreadGoes(t, p),
             t = Stepper <=> p \in {"publish", "idle"},
             t \in ZmqThreads => t <= cnt_zmq_threads,
             UNCHANGED <<mode, clientVars, request, matrices, resets, rpc,
                         cnt_zmq_threads, scenario_config>>,
             published' \in Nat, current_step' \in Nat
      PROVE  Typed'
  <2>1. ClientsTyped'
    BY <1>r, RespondTyped DEF Typed, ClientsTyped, clientVars
  <2>2. ThreadsTyped'
    BY <1>r, RespondTyped DEF Typed, ThreadsTyped, ThreadGoes, ThreadPcs
  <2>3. Roles'
    BY <1>r DEF Typed, ThreadsTyped, Roles, ThreadGoes
  <2> QED
    BY <2>1, <2>2, <2>3 DEF Typed
<1>z. CASE \E t \in ZmqThreads : ZmqThread(t)
  <2> PICK t \in ZmqThreads : ZmqThread(t)
    BY <1>z
  <2>0. t \in Threads /\ t # Stepper /\ cnt_zmq_threads \in Nat /\ t \in Nat
    BY DEF Typed, ThreadsTyped
  <2>a. thread[t] # "none" => t <= cnt_zmq_threads
    BY <2>0 DEF Typed, Roles
  <2>1. CASE \E s \in Servers : Expect(t, s)
    BY <1>e, <2>0, <2>1
  <2>2. CASE StateRegister(t)
    <3> DEFINE v == [s \in Heard(t) |-> RegisterId(t, s)]
    <3>1. \A s \in Heard(t) : v[s] \in Nat
      <4> SUFFICES ASSUME NEW s \in Heard(t) PROVE RegisterId(t, s) \in Nat
        OBVIOUS
      <4>1. \E i \in DOMAIN expect_storage[t] : expect_storage[t][i] = s
        BY DEF Heard
      <4>2. RegisterId(t, s) \in DOMAIN expect_storage[t]
        BY <4>1 DEF RegisterId
      <4> QED
        BY <2>0, <4>2 DEF Typed, ThreadsTyped
    <3>2. Respond(t, v) /\ Expecting(t) /\ ThreadGoes(t, "config")
      BY <2>2 DEF StateRegister, Expecting
    <3>3. /\ UNCHANGED <<mode, clientVars, request, matrices, resets, rpc,
                         cnt_zmq_threads, scenario_config>>
          /\ published' \in Nat /\ current_step' \in Nat
      BY <2>2 DEF StateRegister, coordVars, configVars, Typed, ThreadsTyped
    <3> HIDE DEF v
    <3> QED
      BY <1>r, <2>0, <2>a, <2>2, <3>1, <3>2, <3>3 DEF StateRegister
  <2>3. CASE WaitForScenarioConfig(t)
    <3>1. ClientsTyped'
      BY <2>3 DEF WaitForScenarioConfig, clientVars, netVars, Typed, ClientsTyped
    <3> QED
      BY <2>0, <2>a, <2>3, <3>1 DEF WaitForScenarioConfig, Typed, ThreadsTyped, Roles, ThreadGoes,
         ThreadPcs, coordVars, configVars
  <2>4. CASE StateInformationExchange(t)
    <3> DEFINE v == [s \in Servers |-> scenario_config]
    <3>1. \A s \in Heard(t) : v[s] \in Nat
      BY <2>0, HeardServers DEF Typed, ThreadsTyped
    <3>2. Respond(t, v) /\ Expecting(t) /\ ThreadGoes(t, "start_nodes")
      BY <2>4 DEF StateInformationExchange, Expecting
    <3>3. /\ UNCHANGED <<mode, clientVars, request, matrices, resets, rpc,
                         cnt_zmq_threads, scenario_config>>
          /\ published' \in Nat /\ current_step' \in Nat
      BY <2>4 DEF StateInformationExchange, coordVars, configVars, Typed, ThreadsTyped
    <3> HIDE DEF v
    <3> QED
      BY <1>r, <2>0, <2>a, <2>4, <3>1, <3>2, <3>3 DEF StateInformationExchange
  <2>5. CASE StateStartNodes(t)
    <3> DEFINE v == [s \in Servers |-> 0]
    <3>1. \A s \in Heard(t) : v[s] \in Nat
      BY <2>0, HeardServers DEF Typed, ThreadsTyped
    <3>2. Respond(t, v) /\ Expecting(t) /\ ThreadGoes(t, "done")
      BY <2>5 DEF StateStartNodes, Expecting
    <3>3. /\ UNCHANGED <<mode, clientVars, request, matrices, resets, rpc,
                         cnt_zmq_threads, scenario_config>>
          /\ published' \in Nat /\ current_step' \in Nat
      BY <2>5 DEF StateStartNodes, coordVars, configVars, Typed, ThreadsTyped
    <3> HIDE DEF v
    <3> QED
      BY <1>r, <2>0, <2>a, <2>5, <3>1, <3>2, <3>3 DEF StateStartNodes
  <2> QED
    BY <2>1, <2>2, <2>3, <2>4, <2>5 DEF ZmqThread
<1>s. CASE StepThread
  <2>1. CASE \E s \in Servers : Expect(Stepper, s)
    BY <1>e, <2>1
  <2>2. CASE InitialSync \/ SyncSubscribers
    <3> DEFINE v == [s \in Servers |-> 0]
    <3>1. \A s \in Heard(Stepper) : v[s] \in Nat
      BY HeardServers DEF Typed, ThreadsTyped
    <3>2. /\ Respond(Stepper, v) /\ Expecting(Stepper)
          /\ ThreadGoes(Stepper, "publish") \/ ThreadGoes(Stepper, "idle")
      BY <2>2 DEF InitialSync, SyncSubscribers, Expecting
    <3>3. /\ UNCHANGED <<mode, clientVars, request, matrices, resets, rpc,
                         cnt_zmq_threads, scenario_config>>
          /\ published' \in Nat /\ current_step' \in Nat
      BY <2>2 DEF InitialSync, SyncSubscribers, coordVars, configVars, Typed, ThreadsTyped
    <3> HIDE DEF v
    <3> QED
      BY <1>r, <2>2, <3>1, <3>2, <3>3
  <2>3. CASE SendDistanceMatrix
    <3>1. ClientsTyped'
      BY <2>3 DEF SendDistanceMatrix, clientVars, Typed, ClientsTyped, ThreadsTyped
    <3> QED
      BY <2>3, <3>1 DEF SendDistanceMatrix, Typed, ThreadsTyped, Roles, ThreadGoes,
         ThreadPcs, configVars
  <2>4. CASE ReplyDistanceMatrix
    <3> DEFINE v == [s \in Servers |-> published + 1]
    <3>1. \A s \in Heard(Stepper) : v[s] \in Nat
      BY HeardServers DEF Typed, ThreadsTyped
    <3>2. Respond(Stepper, v) /\ Expecting(Stepper) /\ ThreadGoes(Stepper, "idle")
      BY <2>4 DEF ReplyDistanceMatrix, Expecting
    <3>3. /\ UNCHANGED <<mode, clientVars, request, matrices, resets, rpc,
                         cnt_zmq_threads, scenario_config>>
          /\ published' \in Nat /\ current_step' \in Nat
      BY <2>4 DEF ReplyDistanceMatrix, coordVars, configVars, Typed, ThreadsTyped
    <3> HIDE DEF v
    <3> QED
      BY <1>r, <2>4, <3>1, <3>2, <3>3
  <2> QED
    BY <1>s, <2>1, <2>2, <2>3, <2>4 DEF StepThread
<1>o. CASE Step \/ SimulationStart \/ StartRefused \/ SimulationStarted \/ SimulationAbort
  <2>1. ClientsTyped'
    <3>1. CASE SimulationAbort
      <4>1. resets' \in [Servers -> Nat]
        BY <3>1 DEF SimulationAbort, Typed, ClientsTyped
      <4> QED
        BY <3>1, <4>1 DEF SimulationAbort, clientVars, Typed, ClientsTyped
    <3> QED
      BY <1>o, <3>1 DEF Step, SimulationStart, StartRefused, SimulationStarted, clientVars,
                        netVars, Typed, ClientsTyped
  <2>2. CASE Step
    BY <2>1, <2>2 DEF Step, Typed, ThreadsTyped, Roles, ThreadGoes, ThreadPcs, coordVars,
                      configVars
  <2>4. CASE SimulationStart \/ StartRefused \/ SimulationStarted
    BY <2>1, <2>4 DEF SimulationStart, StartRefused, SimulationStarted, Typed,
                      ThreadsTyped, Roles, threadVars, coordVars, configVars
  <2>3. CASE SimulationAbort
    <3>1. cnt_zmq_threads' \in ZmqThreads /\ cnt_zmq_threads \in Nat
      BY <2>3, ZeroMQAssumption DEF SimulationAbort, Typed, ThreadsTyped, ZmqThreads
    <3> QED
      BY <2>1, <2>3, <3>1 DEF SimulationAbort, Typed, ThreadsTyped, Roles, ThreadGoes, ThreadPcs
  <2> QED
    BY <1>o, <2>2, <2>3, <2>4
<1> QED
  BY <1>u, <1>c, <1>z, <1>s, <1>o DEF Next

(***************************************************************************)
(* The dialogue, by what a step does to it: a server sends its next        *)
(* request or goes on without one, a thread stores or drops a request,     *)
(* answers all of them, or moves on without an Expecter.                   *)
(***************************************************************************)

\* A server that does not wait, or has its reply, has no request under way.
LEMMA NothingUnderWay ==
  ASSUME Typed, Dialogue, NEW s \in Servers, pc[s] # "dead",
         reply[s] # NoReply \/ pc[s] \notin DOMAIN AwaitedIn
  PROVE  /\ ~ Asks(s)
         /\ request[s] = NoMessage
         /\ \A t \in Threads : s \notin Heard(t)
         /\ pc[s] \notin DOMAIN AwaitedIn => reply[s] = NoReply
  BY DEF Dialogue, Unread, Stored, Fitting, Awaits, Asks

LEMMA DialogueUnchanged ==
  ASSUME Dialogue, UNCHANGED <<pc, request, reply, thread, expect_storage>>
  PROVE  Dialogue'
  BY DEF Dialogue, Unread, Stored, Fitting, Awaits, Storage, Heard, Expecting

LEMMA DialogueSend ==
  ASSUME Typed, Dialogue, NEW s \in Servers, NEW p \in DOMAIN AwaitedIn,
         pc[s] # "dead", reply[s] # NoReply \/ pc[s] \notin DOMAIN AwaitedIn,
         pc' = [pc EXCEPT ![s] = p],
         request' = [request EXCEPT ![s] = AwaitedIn[p]],
         reply' = [reply EXCEPT ![s] = NoReply],
         UNCHANGED <<thread, expect_storage>>
  PROVE  Dialogue'
<1>1. \A t \in Threads : Heard(t)' = Heard(t) /\ Storage(t)' = Storage(t)
  BY DEF Heard, Storage, Expecting
<1>2. \A x \in Servers : x # s =>
        pc'[x] = pc[x] /\ request'[x] = request[x] /\ reply'[x] = reply[x]
  BY DEF Typed, ClientsTyped
<1>3. pc'[s] = p /\ request'[s] = AwaitedIn[p] /\ reply'[s] = NoReply
  BY DEF Typed, ClientsTyped
<1>4. \A t \in Threads : s \notin Heard(t)
  BY NothingUnderWay
<1>5. ASSUME NEW x \in Servers PROVE Unread(x)' /\ Stored(x)' /\ Fitting(x)'
  <2>1. CASE x = s
    BY <1>1, <1>3, <1>4, <2>1 DEF Unread, Stored, Fitting, Awaits
  <2>2. CASE x # s
    <3>1. Unread(x) /\ Stored(x) /\ Fitting(x)
      BY DEF Dialogue
    <3> QED
      BY <1>1, <1>2, <2>2, <3>1 DEF Unread, Stored, Fitting, Awaits
  <2> QED
    BY <2>1, <2>2
<1> QED
  BY <1>1, <1>5 DEF Dialogue

LEMMA DialogueReceive ==
  ASSUME Typed, Dialogue, NEW s \in Servers, NEW p, p \notin DOMAIN AwaitedIn,
         reply[s] # NoReply, pc[s] # "dead",
         pc' = [pc EXCEPT ![s] = p],
         reply' = [reply EXCEPT ![s] = NoReply],
         UNCHANGED <<request, thread, expect_storage>>
  PROVE  Dialogue'
<1>1. \A t \in Threads : Heard(t)' = Heard(t) /\ Storage(t)' = Storage(t)
  BY DEF Heard, Storage, Expecting
<1>2. \A x \in Servers : x # s =>
        pc'[x] = pc[x] /\ request'[x] = request[x] /\ reply'[x] = reply[x]
  BY DEF Typed, ClientsTyped
<1>3. request'[s] = NoMessage /\ reply'[s] = NoReply
  BY NothingUnderWay DEF Typed, ClientsTyped
<1>4. \A t \in Threads : s \notin Heard(t)
  BY NothingUnderWay
<1>5. ASSUME NEW x \in Servers PROVE Unread(x)' /\ Stored(x)' /\ Fitting(x)'
  <2>1. CASE x = s
    BY <1>1, <1>3, <1>4, <2>1 DEF Unread, Stored, Fitting, Awaits
  <2>2. CASE x # s
    <3>1. Unread(x) /\ Stored(x) /\ Fitting(x)
      BY DEF Dialogue
    <3> QED
      BY <1>1, <1>2, <2>2, <3>1 DEF Unread, Stored, Fitting, Awaits
  <2> QED
    BY <2>1, <2>2
<1> QED
  BY <1>1, <1>5 DEF Dialogue

LEMMA DialogueDies ==
  ASSUME Typed, Dialogue, NEW s \in Servers, pc' = [pc EXCEPT ![s] = "dead"],
         UNCHANGED <<request, reply, thread, expect_storage>>
  PROVE  Dialogue'
<1>1. \A t \in Threads : Heard(t)' = Heard(t) /\ Storage(t)' = Storage(t)
  BY DEF Heard, Storage, Expecting
<1>2. \A x \in Servers : pc'[x] = pc[x] \/ pc'[x] = "dead"
  BY DEF Typed, ClientsTyped
<1>3. ASSUME NEW x \in Servers PROVE Unread(x)' /\ Stored(x)' /\ Fitting(x)'
  <2>1. Unread(x) /\ Stored(x) /\ Fitting(x)
    BY DEF Dialogue
  <2> QED
    BY <1>1, <1>2, <2>1 DEF Unread, Stored, Fitting, Awaits
<1> QED
  BY <1>1, <1>3 DEF Dialogue

LEMMA DialogueExpect ==
  ASSUME Typed, Dialogue, NEW t \in Threads, NEW s \in Servers, Expect(t, s)
  PROVE  Dialogue'
<1>1. UNCHANGED <<pc, reply, thread>> /\ request[s] # NoMessage /\ Expecting(t)
  BY DEF Expect, clientVars
<1>2. /\ request'[s] = NoMessage
      /\ \A x \in Servers : x # s => request'[x] = request[x]
  BY DEF Expect, Typed, ClientsTyped
<1>3. /\ reply[s] = NoReply /\ Awaits(s, request[s])
      /\ \A u \in Threads : s \notin Heard(u)
  BY <1>1 DEF Dialogue, Unread, Fitting
<1>4. \A u \in Threads : u # t => Heard(u)' = Heard(u)
  BY ExpectEffect
<1>5. \/ Heard(t)' = Heard(t)
      \/ Heard(t)' = Heard(t) \cup {s} /\ request[s] = ExpectedIn[thread[t]]
  BY ExpectEffect
<1>6. ASSUME NEW x \in Servers PROVE Unread(x)' /\ Stored(x)' /\ Fitting(x)'
  <2>1. CASE x = s
    <3>1. Unread(x)'
      BY <1>2, <2>1 DEF Unread
    <3>2. Stored(x)'
      BY <1>1, <1>3, <1>4, <1>5, <2>1 DEF Stored
    <3>3. Fitting(x)'
      <4>1. \A u \in Threads : s \in Heard(u)' => u = t /\ request[s] = ExpectedIn[thread[t]]
        BY <1>3, <1>4, <1>5
      <4> QED
        BY <1>1, <1>2, <1>3, <2>1, <4>1 DEF Fitting, Awaits
    <3> QED
      BY <3>1, <3>2, <3>3
  <2>2. CASE x # s
    <3>1. Unread(x) /\ Stored(x) /\ Fitting(x)
      BY DEF Dialogue
    <3>2. \A u \in Threads : x \in Heard(u)' <=> x \in Heard(u)
      BY <1>4, <1>5, <2>2
    <3> QED
      BY <1>1, <1>2, <2>2, <3>1, <3>2 DEF Unread, Stored, Fitting, Awaits
  <2> QED
    BY <2>1, <2>2
<1>7. ASSUME NEW u \in Threads PROVE Storage(u)'
  <2>1. CASE u # t
    BY <1>1, <2>1, ExpectEffect DEF Dialogue, Storage, Expecting
  <2>2. CASE u = t
    <3>1. Expecting(t)'
      BY <1>1 DEF Expecting
    <3>2. CASE expect_storage'[t] = expect_storage[t]
      BY <2>2, <3>1, <3>2 DEF Dialogue, Storage
    <3>3. CASE expect_storage'[t] = Append(expect_storage[t], s)
      <4> DEFINE f == expect_storage[t]
                 g == expect_storage'[t]
      <4>1. f \in Seq(Servers) /\ g = Append(f, s)
        BY <3>3 DEF Typed, ThreadsTyped
      <4>2. /\ Len(f) \in Nat /\ DOMAIN f = 1..Len(f) /\ DOMAIN g = 1..(Len(f) + 1)
            /\ \A i \in 1..Len(f) : g[i] = f[i]
            /\ g[Len(f) + 1] = s
        BY <4>1
      <4>3. \A i \in DOMAIN f : f[i] # s
        BY <1>3 DEF Heard
      <4>4. \A i, j \in DOMAIN f : f[i] = f[j] => i = j
        BY DEF Dialogue, Storage
      <4> HIDE DEF f, g
      <4>5. \A i, j \in DOMAIN g : g[i] = g[j] => i = j
        BY <4>2, <4>3, <4>4
      <4> QED
        BY <2>2, <3>1, <4>5 DEF Storage, g
    <3> QED
      BY <3>2, <3>3, ExpectEffect
  <2> QED
    BY <2>1, <2>2
<1> QED
  BY <1>6, <1>7 DEF Dialogue

LEMMA DialogueRespond ==
  ASSUME Typed, Dialogue, NEW t \in Threads, Expecting(t), NEW v, Respond(t, v),
         UNCHANGED <<pc, request>>
  PROVE  Dialogue'
<1>1. \A u \in Threads : Heard(u)' = {} /\ expect_storage'[u] = <<>>
  BY RespondEffect
<1>2. ASSUME NEW x \in Servers PROVE Unread(x)' /\ Stored(x)' /\ Fitting(x)'
  <2>1. /\ request'[x] = NoMessage /\ Awaits(x, reply'[x].state)
    BY RespondEffect
  <2> QED
    BY <1>1, <2>1 DEF Unread, Stored, Fitting, Awaits
<1>3. ASSUME NEW u \in Threads PROVE Storage(u)'
  BY <1>1 DEF Storage
<1> QED
  BY <1>2, <1>3 DEF Dialogue

LEMMA DialogueThread ==
  ASSUME Typed, Dialogue, NEW t \in Threads, ~ Expecting(t), NEW p, ThreadGoes(t, p),
         UNCHANGED <<pc, request, reply, expect_storage>>
  PROVE  Dialogue'
<1>1. \A u \in Threads : Heard(u)' = Heard(u)
  BY DEF Heard
<1>2. \A u \in Threads : u # t => thread'[u] = thread[u]
  BY DEF ThreadGoes, Typed, ThreadsTyped
<1>3. expect_storage[t] = <<>> /\ Heard(t) = {}
  BY HeardServers DEF Dialogue, Storage
<1>4. ASSUME NEW x \in Servers PROVE Unread(x)' /\ Stored(x)' /\ Fitting(x)'
  <2>1. Unread(x) /\ Stored(x) /\ Fitting(x)
    BY DEF Dialogue
  <2> QED
    BY <1>1, <1>2, <1>3, <2>1 DEF Unread, Stored, Fitting, Awaits
<1>5. ASSUME NEW u \in Threads PROVE Storage(u)'
  BY <1>2, <1>3 DEF Dialogue, Storage, Expecting
<1> QED
  BY <1>4, <1>5 DEF Dialogue

LEMMA DialogueInit == Init => Dialogue
<1> SUFFICES ASSUME Init PROVE Dialogue
  OBVIOUS
<1>1. \A s \in Servers : request[s] = NoMessage /\ reply[s] = NoReply
  BY DEF Init
<1>2. \A t \in Threads : expect_storage[t] = <<>> /\ Heard(t) = {}
  BY DEF Init, Heard
<1> QED
  BY <1>1, <1>2 DEF Dialogue, Unread, Stored, Fitting, Storage

LEMMA DialogueStep == Typed /\ Dialogue /\ [Next]_vars => Dialogue'
<1> SUFFICES ASSUME Typed, Dialogue, [Next]_vars PROVE Dialogue'
  OBVIOUS
<1> USE ExpectedStates, ThreadIds
<1>u. CASE UNCHANGED vars
  BY <1>u, DialogueUnchanged DEF vars, clientVars, netVars, threadVars
<1>c. ASSUME NEW s \in Servers, Client(s) \/ ClientFails(s) \/ Subscribe(s)
      PROVE  Dialogue'
  <2> USE DEF ClientAt, ClientGoes, SendTo, Recv
  <2>0. pc \in [Servers -> ClientPcs] /\ reply \in [Servers -> [state : States \cup {NoMessage}, value : Nat]]
    BY DEF Typed, ClientsTyped
  <2>1. ASSUME pc[s] \notin DOMAIN AwaitedIn, pc[s] # "dead", reply' = reply
        PROVE  reply' = [reply EXCEPT ![s] = NoReply]
    BY <2>0, <2>1, NothingUnderWay
  <2>2. CASE Register(s) \/ StartNodes(s)
    <3>1. /\ pc[s] \notin DOMAIN AwaitedIn /\ pc[s] # "dead" /\ reply' = reply
          /\ UNCHANGED <<thread, expect_storage>>
      BY <2>2 DEF Register, StartNodes, threadVars
    <3>2. \E p \in DOMAIN AwaitedIn : /\ pc' = [pc EXCEPT ![s] = p]
                                      /\ request' = [request EXCEPT ![s] = AwaitedIn[p]]
      BY <2>2 DEF Register, StartNodes
    <3> QED
      BY <2>1, <3>1, <3>2, DialogueSend
  <2>3. CASE Exchange(s) \/ EnterRunLoop(s) \/ StepP2P(s)
    <3>1. /\ pc[s] # "dead" /\ reply[s] # NoReply
          /\ reply' = [reply EXCEPT ![s] = NoReply]
          /\ UNCHANGED <<thread, expect_storage>>
      BY <2>3 DEF Exchange, EnterRunLoop, StepP2P, threadVars
    <3>2. \E p \in DOMAIN AwaitedIn : /\ pc' = [pc EXCEPT ![s] = p]
                                      /\ request' = [request EXCEPT ![s] = AwaitedIn[p]]
      <4>1. CASE Exchange(s)
        BY <4>1 DEF Exchange
      <4>2. CASE EnterRunLoop(s)
        BY <4>2 DEF EnterRunLoop
      <4>3. CASE StepP2P(s)
        <5>1. pc' = [pc EXCEPT ![s] = "matrix"]
          BY <2>0, <4>3 DEF StepP2P
        <5> QED
          BY <4>3, <5>1 DEF StepP2P
      <4> QED
        BY <2>3, <4>1, <4>2, <4>3
    <3> QED
      BY <3>1, <3>2, DialogueSend
  <2>4. CASE RecvScenario(s) \/ Synced(s)
    BY <2>4, DialogueReceive DEF RecvScenario, Synced, threadVars
  <2>5. CASE StepMcast(s)
    <3>1. /\ pc[s] \notin DOMAIN AwaitedIn /\ pc[s] # "dead" /\ reply' = reply
          /\ UNCHANGED <<thread, expect_storage>>
          /\ pc' = [pc EXCEPT ![s] = "sync"]
          /\ request' = [request EXCEPT ![s] = AwaitedIn["sync"]]
      BY <2>5 DEF StepMcast, threadVars
    <3> QED
      BY <2>1, <3>1, DialogueSend
  <2>6. CASE HandleReset(s)
    <3>1. CASE pc[s] = "select"
      <4>1. /\ pc[s] \notin DOMAIN AwaitedIn /\ pc[s] # "dead" /\ reply' = reply
            /\ UNCHANGED <<thread, expect_storage>>
            /\ pc' = [pc EXCEPT ![s] = "register"]
            /\ request' = [request EXCEPT ![s] = AwaitedIn["register"]]
        BY <2>6, <3>1 DEF HandleReset, threadVars
      <4> QED
        BY <2>1, <4>1, DialogueSend
    <3>2. CASE pc[s] = "sync"
      BY <2>6, <3>2, DialogueDies DEF HandleReset, threadVars
    <3> QED
      BY <2>6, <3>1, <3>2 DEF HandleReset
  <2>7. CASE ClientFails(s)
    BY <2>7, DialogueDies DEF ClientFails, netVars, threadVars
  <2>8. CASE Subscribe(s)
    BY <2>8, DialogueUnchanged DEF Subscribe, clientVars, threadVars
  <2> QED
    BY <1>c, <2>2, <2>3, <2>4, <2>5, <2>6, <2>7, <2>8 DEF Client
<1>z. ASSUME NEW t \in ZmqThreads, ZmqThread(t) PROVE Dialogue'
  <2>1. CASE \E s \in Servers : Expect(t, s)
    BY <2>1, DialogueExpect
  <2>2. CASE StateRegister(t)
    BY <2>2, DialogueRespond DEF StateRegister, Expecting, clientVars
  <2>3. CASE WaitForScenarioConfig(t)
    BY <2>3, DialogueThread DEF WaitForScenarioConfig, Expecting, clientVars, netVars
  <2>4. CASE StateInformationExchange(t)
    BY <2>4, DialogueRespond DEF StateInformationExchange, Expecting, clientVars
  <2>5. CASE StateStartNodes(t)
    BY <2>5, DialogueRespond DEF StateStartNodes, Expecting, clientVars
  <2> QED
    BY <1>z, <2>1, <2>2, <2>3, <2>4, <2>5 DEF ZmqThread
<1>s. CASE StepThread
  <2>1. CASE \E s \in Servers : Expect(Stepper, s)
    BY <2>1, DialogueExpect
  <2>2. CASE InitialSync \/ SyncSubscribers
    BY <2>2, DialogueRespond DEF InitialSync, SyncSubscribers, Expecting, clientVars
  <2>3. CASE SendDistanceMatrix
    BY <2>3, DialogueThread DEF SendDistanceMatrix, Expecting, clientVars
  <2>4. CASE ReplyDistanceMatrix
    BY <2>4, DialogueRespond DEF ReplyDistanceMatrix, Expecting, clientVars
  <2> QED
    BY <1>s, <2>1, <2>2, <2>3, <2>4 DEF StepThread
<1>o. CASE SimulationStart \/ StartRefused \/ SimulationStarted
  BY <1>o, DialogueUnchanged DEF SimulationStart, StartRefused, SimulationStarted,
     clientVars, netVars, threadVars
<1>p. CASE Step
  <2>1. ~ Expecting(Stepper) /\ UNCHANGED <<pc, request, reply, expect_storage>>
    BY <1>p DEF Step, Expecting, clientVars, netVars
  <2> QED
    BY <1>p, <2>1, DialogueThread DEF Step
<1>a. CASE SimulationAbort
  <2>1. cnt_zmq_threads + 1 \in ZmqThreads /\ cnt_zmq_threads \in Nat
    BY <1>a, ZeroMQAssumption DEF SimulationAbort, Typed, ThreadsTyped, ZmqThreads
  <2>2. thread[cnt_zmq_threads + 1] = "none"
    BY <2>1 DEF Typed, Roles
  <2> QED
    BY <1>a, <2>1, <2>2, DialogueThread DEF SimulationAbort, Expecting, clientVars
<1> QED
  BY <1>u, <1>c, <1>z, <1>s, <1>o, <1>p, <1>a DEF Next

\* A reply answers the request its reader waits for, whatever resets, aborts, failures
\* and leftover ZeroMQ threads do to the uncorrelated dialogue.
THEOREM RepliesAnswerRequests == Spec => []AnswersFitRequests
<1>1. Init => Typed /\ Dialogue
  BY TypedInit, DialogueInit
<1>2. Typed /\ Dialogue /\ [Next]_vars => Typed' /\ Dialogue'
  BY TypedStep, DialogueStep
<1>3. Dialogue => AnswersFitRequests
  BY DEF Dialogue, Fitting, Unread, Awaits, AnswersFitRequests
<1> QED
  BY <1>1, <1>2, <1>3, PTL DEF Spec

(***************************************************************************)
(* Who asks, after a step.                                                 *)
(***************************************************************************)
LEMMA AsksUnchanged ==
  ASSUME NEW s \in Servers, UNCHANGED <<request, expect_storage>>
  PROVE  Asks(s)' <=> Asks(s)
  BY DEF Asks, Heard

LEMMA AsksSend ==
  ASSUME Typed, NEW s \in Servers, NEW m, request' = [request EXCEPT ![s] = m],
         UNCHANGED expect_storage, NEW x \in Servers, x # s
  PROVE  Asks(x)' <=> Asks(x)
  BY DEF Asks, Heard, Typed, ClientsTyped

LEMMA AsksExpect ==
  ASSUME Typed, NEW t \in Threads, NEW s \in Servers, Expect(t, s), NEW x \in Servers
  PROVE  Asks(x)' => Asks(x)
<1>1. /\ request[s] # NoMessage /\ request'[s] = NoMessage
      /\ \A y \in Servers : y # s => request'[y] = request[y]
  BY DEF Expect, Typed, ClientsTyped
<1>2. \A u \in Threads : Heard(u)' \subseteq Heard(u) \cup {s}
  BY ExpectEffect
<1> QED
  BY <1>1, <1>2 DEF Asks

LEMMA AsksRespond ==
  ASSUME Typed, Dialogue, NEW t \in Threads, Expecting(t), NEW v, Respond(t, v),
         UNCHANGED request, NEW x \in Servers
  PROVE  ~ Asks(x)' /\ Asks(x)
<1>1. request'[x] = NoMessage /\ x \in Heard(t)
  BY RespondEffect
<1>2. \A u \in Threads : Heard(u)' = {}
  BY RespondEffect
<1> QED
  BY <1>1, <1>2 DEF Asks

(***************************************************************************)
(* The steps, mode "p2p".                                                  *)
(***************************************************************************)
LEMMA P2PClient ==
  ASSUME Typed, Dialogue, mode = "p2p", StepsP2P, NEW s \in Servers,
         Client(s) \/ ClientFails(s) \/ Subscribe(s)
  PROVE  StepsP2P'
<1> USE ExpectedStates DEF ClientAt, ClientGoes, SendTo, Recv
<1>0. ServerP2P(s)
  BY DEF StepsP2P
<1>t. pc \in [Servers -> ClientPcs] /\ reply \in [Servers -> [state : States \cup {NoMessage}, value : Nat]] /\ applied \in [Servers -> Nat] /\ published \in Nat
  BY DEF Typed, ClientsTyped, ThreadsTyped
<1>1. UNCHANGED <<published, thread, expect_storage>>
  BY DEF Client, Register, Exchange, RecvScenario, StartNodes, EnterRunLoop, Synced,
         StepMcast, StepP2P, HandleReset, ClientFails, Subscribe, threadVars, coordVars
<1>2. ASSUME NEW x \in Servers, x # s
      PROVE  pc'[x] = pc[x] /\ reply'[x] = reply[x] /\ applied'[x] = applied[x]
  BY <1>2, <1>t DEF Client, Register, Exchange, RecvScenario, StartNodes, EnterRunLoop, Synced,
         StepMcast, StepP2P, HandleReset, ClientFails, Subscribe, clientVars, netVars
<1>3. UNCHANGED request \/ \E m : request' = [request EXCEPT ![s] = m]
  BY DEF Client, Register, Exchange, RecvScenario, StartNodes, EnterRunLoop, Synced,
         StepMcast, StepP2P, HandleReset, ClientFails, Subscribe, clientVars, netVars
<1>4. ASSUME NEW x \in Servers, x # s PROVE ServerP2P(x)'
  <2>1. ServerP2P(x)
    BY DEF StepsP2P
  <2>2. Asks(x)' <=> Asks(x)
    BY <1>1, <1>3, <1>4, AsksUnchanged, AsksSend
  <2> QED
    BY <1>1, <1>2, <1>4, <2>1, <2>2 DEF ServerP2P
<1>5. ServerP2P(s)'
  <2> USE <1>t
  <2>1. CASE Register(s) \/ StartNodes(s)
    BY <1>0, <1>1, <2>1 DEF Register, StartNodes, ServerP2P
  <2>2. CASE Exchange(s) \/ RecvScenario(s)
    BY <1>0, <1>1, <2>2 DEF Exchange, RecvScenario, ServerP2P
  <2>3. CASE EnterRunLoop(s)
    BY <1>0, <1>1, <2>3 DEF EnterRunLoop, ServerP2P
  <2>4. CASE StepP2P(s)
    BY <1>0, <1>1, <2>4 DEF StepP2P, ServerP2P
  <2>5. CASE ClientFails(s)
    <3>1. ~ Asks(s)
      BY <2>5, NothingUnderWay DEF ClientFails
    <3>2. ~ Asks(s)'
      BY <1>1, <2>5, <3>1, AsksUnchanged DEF ClientFails, netVars
    <3> QED
      BY <1>0, <1>1, <2>5, <3>2 DEF ClientFails, ServerP2P
  <2>6. CASE Subscribe(s)
    <3>1. Asks(s)' <=> Asks(s)
      BY <1>1, <2>6, AsksUnchanged DEF Subscribe
    <3> QED
      BY <1>0, <1>1, <2>6, <3>1 DEF Subscribe, ServerP2P, clientVars
  <2>7. ~ Synced(s) /\ ~ StepMcast(s) /\ ~ HandleReset(s)
    BY <1>0 DEF ServerP2P, Synced, StepMcast, HandleReset
  <2> QED
    BY <2>1, <2>2, <2>3, <2>4, <2>5, <2>6, <2>7 DEF Client
<1> QED
  BY <1>1, <1>4, <1>5 DEF StepsP2P

\* An answer of a ZeroMQ thread is never taken for a matrix.
LEMMA P2PRespond ==
  ASSUME Typed, Dialogue, StepsP2P, NEW t \in ZmqThreads, Expecting(t), NEW v,
         Respond(t, v), UNCHANGED <<pc, request, applied, published>>
  PROVE  \A x \in Servers : ServerP2P(x)'
<1> SUFFICES ASSUME NEW x \in Servers PROVE ServerP2P(x)'
  OBVIOUS
<1> USE ExpectedStates, ThreadIds
<1>1. ServerP2P(x)
  BY DEF StepsP2P
<1>2. ~ Asks(x)' /\ Asks(x)
  BY AsksRespond
<1>3. Awaits(x, ExpectedIn[thread[t]])
  BY RespondEffect
<1>4. ExpectedIn[thread[t]] # "distance_matrix"
  BY DEF Typed, Roles, Expecting
<1>5. pc[x] # "matrix"
  BY <1>3, <1>4 DEF Awaits
<1> QED
  BY <1>1, <1>2, <1>5 DEF ServerP2P

\* What makes the barrier: when all have asked, all have applied all matrices.
LEMMA P2PBarrier ==
  ASSUME Typed, Dialogue, StepsP2P, ReplyDistanceMatrix
  PROVE  \A s \in Servers : pc[s] = "matrix" /\ applied[s] = published
<1> SUFFICES ASSUME NEW s \in Servers PROVE pc[s] = "matrix" /\ applied[s] = published
  OBVIOUS
<1> USE ExpectedStates, ThreadIds
<1>1. ServerP2P(s)
  BY DEF StepsP2P
<1>2. Expecting(Stepper) /\ ExpectedIn[thread[Stepper]] = "distance_matrix"
  BY DEF ReplyDistanceMatrix, Expecting
<1>3. Asks(s) /\ Awaits(s, "distance_matrix")
  BY <1>2, AsksRespond, RespondEffect DEF ReplyDistanceMatrix
<1> QED
  BY <1>1, <1>3 DEF ServerP2P, Awaits

LEMMA P2PStep ==
  ASSUME Typed, Dialogue, mode = "p2p", StepsP2P, [Next]_vars
  PROVE  StepsP2P'
<1> USE ExpectedStates, ThreadIds
<1>k. ASSUME UNCHANGED <<pc, request, reply, expect_storage, applied, published>>
      PROVE  \A x \in Servers : ServerP2P(x)'
  BY <1>k, AsksUnchanged DEF StepsP2P, ServerP2P
<1>u. CASE UNCHANGED vars
  BY <1>u, <1>k DEF vars, clientVars, netVars, threadVars, coordVars, StepsP2P
<1>c. CASE \E s \in Servers : Client(s) \/ ClientFails(s) \/ Subscribe(s)
  BY <1>c, P2PClient
<1>e. ASSUME NEW t \in Threads, NEW s \in Servers, Expect(t, s) PROVE StepsP2P'
  <2>1. UNCHANGED <<pc, reply, applied, published, thread>>
    BY <1>e DEF Expect, clientVars, coordVars
  <2>2. \A x \in Servers : Asks(x)' => Asks(x)
    BY <1>e, AsksExpect
  <2> QED
    BY <2>1, <2>2 DEF StepsP2P, ServerP2P
<1>z. ASSUME NEW t \in ZmqThreads, ZmqThread(t) PROVE StepsP2P'
  <2>0. thread'[Stepper] = thread[Stepper]
    BY <1>z DEF ZmqThread, Expect, StateRegister, WaitForScenarioConfig,
       StateInformationExchange, StateStartNodes, ThreadGoes, Typed, ThreadsTyped
  <2>1. CASE \E s \in Servers : Expect(t, s)
    BY <1>e, <2>1
  <2>2. CASE StateRegister(t) \/ StateInformationExchange(t) \/ StateStartNodes(t)
    <3>1. UNCHANGED <<pc, request, applied, published>> /\ Expecting(t)
      BY <2>2 DEF StateRegister, StateInformationExchange, StateStartNodes, Expecting,
                  clientVars, coordVars
    <3>2. \A x \in Servers : ServerP2P(x)'
      BY <2>2, <3>1, P2PRespond DEF StateRegister, StateInformationExchange, StateStartNodes
    <3> QED
      BY <2>0, <3>2 DEF StepsP2P
  <2>3. CASE WaitForScenarioConfig(t)
    BY <1>k, <2>0, <2>3 DEF WaitForScenarioConfig, clientVars, netVars, coordVars, StepsP2P
  <2> QED
    BY <1>z, <2>1, <2>2, <2>3 DEF ZmqThread
<1>s. CASE StepThread
  <2>1. CASE \E s \in Servers : Expect(Stepper, s)
    BY <1>e, <2>1
  <2>2. CASE ReplyDistanceMatrix
    <3>1. UNCHANGED <<pc, request, applied>> /\ published' = published + 1
          /\ thread' = [thread EXCEPT ![Stepper] = "idle"]
      BY <2>2 DEF ReplyDistanceMatrix, clientVars, ThreadGoes
    <3>2. Expecting(Stepper)
      BY <2>2 DEF ReplyDistanceMatrix, Expecting
    <3>3. ASSUME NEW x \in Servers PROVE ServerP2P(x)'
      <4>1. ~ Asks(x)'
        BY <2>2, <3>1, <3>2, AsksRespond DEF ReplyDistanceMatrix
      <4>2. reply'[x].value = published + 1
        <5> DEFINE v == [y \in Servers |-> published + 1]
        <5>1. Respond(Stepper, v) /\ v[x] = published + 1
          BY <2>2 DEF ReplyDistanceMatrix
        <5> HIDE DEF v
        <5>2. reply'[x].value = v[x]
          BY <3>2, <5>1, RespondEffect
        <5> QED
          BY <5>1, <5>2
      <4>3. pc[x] = "matrix" /\ applied[x] = published
        BY <2>2, P2PBarrier
      <4> QED
        BY <3>1, <4>1, <4>2, <4>3 DEF ServerP2P, Typed, ThreadsTyped
    <3> QED
      BY <3>1, <3>3 DEF StepsP2P, Typed, ThreadsTyped
  <2>3. ~ InitialSync /\ ~ SendDistanceMatrix /\ ~ SyncSubscribers
    BY DEF StepsP2P, InitialSync, SendDistanceMatrix, SyncSubscribers
  <2> QED
    BY <1>s, <2>1, <2>2, <2>3 DEF StepThread
<1>o. CASE SimulationStart \/ StartRefused \/ SimulationStarted
  BY <1>k, <1>o DEF SimulationStart, StartRefused, SimulationStarted, clientVars, netVars,
     threadVars, coordVars, configVars, StepsP2P
<1>p. CASE Step
  BY <1>k, <1>p DEF Step, ThreadGoes, clientVars, netVars, threadVars, coordVars,
     StepsP2P, Typed, ThreadsTyped
<1>a. CASE SimulationAbort
  <2>1. thread'[Stepper] = thread[Stepper]
    BY <1>a DEF SimulationAbort, ThreadGoes, Typed, ThreadsTyped, Stepper
  <2> QED
    BY <1>k, <1>a, <2>1 DEF SimulationAbort, clientVars, StepsP2P
<1> QED
  BY <1>u, <1>c, <1>z, <1>s, <1>o, <1>p, <1>a DEF Next

(***************************************************************************)
(* The steps, mode "mcast", before the first abort.                        *)
(***************************************************************************)
LEMMA McastClient ==
  ASSUME Typed, Dialogue, mode = "mcast", StepsMcast, NEW s \in Servers,
         Client(s) \/ ClientFails(s) \/ Subscribe(s)
  PROVE  StepsMcast'
<1> USE ExpectedStates DEF ClientAt, ClientGoes, SendTo, Recv
<1>0. ServerMcast(s)
  BY DEF StepsMcast
<1>t. /\ pc \in [Servers -> ClientPcs] /\ applied \in [Servers -> Nat]
      /\ matrices \in [Servers -> Seq(Nat)] /\ resets \in [Servers -> Nat]
      /\ published \in Nat
  BY DEF Typed, ClientsTyped, ThreadsTyped
<1>1. UNCHANGED <<published, thread, expect_storage, current_step>>
  BY DEF Client, Register, Exchange, RecvScenario, StartNodes, EnterRunLoop, Synced,
         StepMcast, StepP2P, HandleReset, ClientFails, Subscribe, threadVars, coordVars
<1>2. ASSUME NEW x \in Servers, x # s
      PROVE  /\ pc'[x] = pc[x] /\ applied'[x] = applied[x]
             /\ matrices'[x] = matrices[x] /\ resets'[x] = resets[x]
  BY <1>2, <1>t DEF Client, Register, Exchange, RecvScenario, StartNodes, EnterRunLoop,
     Synced, StepMcast, StepP2P, HandleReset, ClientFails, Subscribe, clientVars, netVars
<1>3. UNCHANGED request \/ \E m : request' = [request EXCEPT ![s] = m]
  BY DEF Client, Register, Exchange, RecvScenario, StartNodes, EnterRunLoop, Synced,
         StepMcast, StepP2P, HandleReset, ClientFails, Subscribe, clientVars, netVars
<1>4. ASSUME NEW x \in Servers, x # s PROVE ServerMcast(x)'
  <2>1. ServerMcast(x)
    BY DEF StepsMcast
  <2>2. Asks(x)' <=> Asks(x)
    BY <1>1, <1>3, <1>4, AsksUnchanged, AsksSend
  <2> QED
    BY <1>1, <1>2, <1>4, <2>1, <2>2 DEF ServerMcast, UpToDate, Behind, Synchronised
<1>5. ServerMcast(s)'
  <2> USE <1>t
  <2>1. CASE Register(s) \/ StartNodes(s) \/ Exchange(s) \/ RecvScenario(s) \/ EnterRunLoop(s)
    <3>1. /\ ~ Synchronised
          /\ UNCHANGED <<applied, matrices, resets>>
          /\ pc'[s] \notin {"matrix", "dead"}
      BY <1>0, <2>1 DEF ServerMcast, Register, StartNodes, Exchange, RecvScenario, EnterRunLoop
    <3> QED
      BY <1>0, <1>1, <3>1 DEF ServerMcast, UpToDate, Synchronised
  <2>2. CASE Synced(s)
    <3>1. Asks(s)' <=> Asks(s)
      BY <1>1, <2>2, AsksUnchanged DEF Synced
    <3>2. UNCHANGED <<applied, matrices, resets>> /\ pc'[s] = "select"
      BY <2>2 DEF Synced
    <3> QED
      BY <1>0, <1>1, <3>1, <3>2 DEF ServerMcast, UpToDate, Behind, Synchronised
  <2>3. CASE StepMcast(s)
    <3>1. thread[Stepper] = "sync" /\ matrices[s] = <<published>>
      BY <1>0, <2>3 DEF StepMcast, ServerMcast, UpToDate, Behind
    <3>2. Head(matrices[s]) = published /\ Tail(matrices[s]) = <<>>
      BY <3>1
    <3>3. applied'[s] = published /\ matrices'[s] = <<>> /\ pc'[s] = "sync" /\ resets' = resets
      BY <2>3, <3>2 DEF StepMcast
    <3> QED
      BY <1>0, <1>1, <3>1, <3>3 DEF ServerMcast, UpToDate, Synchronised
  <2>4. CASE ClientFails(s)
    <3>1. ~ Asks(s)
      BY <2>4, NothingUnderWay DEF ClientFails
    <3>2. ~ Asks(s)'
      BY <1>1, <2>4, <3>1, AsksUnchanged DEF ClientFails, netVars
    <3>3. UNCHANGED <<applied, matrices, resets>> /\ pc'[s] = "dead"
      BY <2>4 DEF ClientFails, netVars
    <3> QED
      BY <1>0, <1>1, <3>1, <3>2, <3>3 DEF ServerMcast, UpToDate, Behind, Synchronised
  <2>5. CASE Subscribe(s)
    <3>1. Asks(s)' <=> Asks(s)
      BY <1>1, <2>5, AsksUnchanged DEF Subscribe
    <3> QED
      BY <1>0, <1>1, <2>5, <3>1
      DEF Subscribe, clientVars, ServerMcast, UpToDate, Behind, Synchronised
  <2>6. ~ StepP2P(s) /\ ~ HandleReset(s)
    BY <1>0 DEF ServerMcast, StepP2P, HandleReset
  <2> QED
    BY <2>1, <2>2, <2>3, <2>4, <2>5, <2>6 DEF Client
<1> QED
  BY <1>1, <1>4, <1>5 DEF StepsMcast

\* What makes the barrier: when all have acknowledged, all have applied the matrix.
LEMMA McastBarrier ==
  ASSUME Typed, Dialogue, StepsMcast, InitialSync \/ SyncSubscribers,
         NEW s \in Servers
  PROVE  /\ ~ Asks(s)' /\ UpToDate(s)
         /\ pc[s] \in {"sync0", "select", "sync", "dead"}
<1> USE ExpectedStates, ThreadIds
<1>0. ServerMcast(s)
  BY DEF StepsMcast
<1>1. /\ Expecting(Stepper) /\ ExpectedIn[thread[Stepper]] = "distance_matrix"
      /\ UNCHANGED request
  BY DEF InitialSync, SyncSubscribers, Expecting
<1>2. Asks(s) /\ ~ Asks(s)' /\ Awaits(s, "distance_matrix")
  BY <1>1, AsksRespond, RespondEffect DEF InitialSync, SyncSubscribers
<1> QED
  BY <1>0, <1>2 DEF Awaits, ServerMcast, Behind

LEMMA McastStep ==
  ASSUME Typed, Dialogue, mode = "mcast", cnt_zmq_threads = 1, cnt_zmq_threads' = 1,
         StepsMcast, [Next]_vars
  PROVE  StepsMcast'
<1> USE ExpectedStates, ThreadIds
<1>t. /\ applied \in [Servers -> Nat] /\ matrices \in [Servers -> Seq(Nat)]
      /\ published \in Nat /\ current_step \in Nat /\ thread \in [Threads -> ThreadPcs]
  BY DEF Typed, ClientsTyped, ThreadsTyped
\* Steps that leave the servers alone, and with them the matrices.
<1>k. ASSUME UNCHANGED <<pc, applied, matrices, resets, published>>,
             thread'[Stepper] = thread[Stepper],
             \A x \in Servers : Asks(x)' => Asks(x)
      PROVE  \A x \in Servers : ServerMcast(x)'
  BY <1>k DEF StepsMcast, ServerMcast, UpToDate, Behind, Synchronised
<1>u. CASE UNCHANGED vars
  BY <1>u, <1>k, AsksUnchanged DEF vars, clientVars, netVars, threadVars, coordVars, StepsMcast
<1>c. CASE \E s \in Servers : Client(s) \/ ClientFails(s) \/ Subscribe(s)
  BY <1>c, McastClient
<1>e. ASSUME NEW t \in Threads, NEW s \in Servers, Expect(t, s) PROVE StepsMcast'
  <2>1. UNCHANGED <<pc, applied, matrices, resets, published, thread, current_step>>
    BY <1>e DEF Expect, clientVars, coordVars
  <2>2. \A x \in Servers : Asks(x)' => Asks(x)
    BY <1>e, AsksExpect
  <2> QED
    BY <1>k, <2>1, <2>2 DEF StepsMcast
<1>z. ASSUME NEW t \in ZmqThreads, ZmqThread(t) PROVE StepsMcast'
  <2>0. thread'[Stepper] = thread[Stepper]
    BY <1>t, <1>z DEF ZmqThread, Expect, StateRegister, WaitForScenarioConfig,
       StateInformationExchange, StateStartNodes, ThreadGoes
  <2>1. UNCHANGED <<pc, applied, matrices, resets, published, current_step>>
    BY <1>z DEF ZmqThread, Expect, StateRegister, WaitForScenarioConfig, netVars,
       StateInformationExchange, StateStartNodes, clientVars, coordVars
  <2>2. CASE \E s \in Servers : Expect(t, s)
    BY <1>e, <2>2
  <2>3. CASE StateRegister(t) \/ StateInformationExchange(t) \/ StateStartNodes(t)
    <3>1. UNCHANGED request /\ Expecting(t)
      BY <2>3 DEF StateRegister, StateInformationExchange, StateStartNodes, Expecting
    <3>2. \A x \in Servers : ~ Asks(x)'
      BY <2>3, <3>1, AsksRespond DEF StateRegister, StateInformationExchange, StateStartNodes
    <3> QED
      BY <1>k, <2>0, <2>1, <3>2 DEF StepsMcast
  <2>4. CASE WaitForScenarioConfig(t)
    <3>1. \A x \in Servers : Asks(x)' <=> Asks(x)
      BY <2>4, AsksUnchanged DEF WaitForScenarioConfig, netVars
    <3> QED
      BY <1>k, <2>0, <2>1, <3>1 DEF StepsMcast
  <2> QED
    BY <1>z, <2>2, <2>3, <2>4 DEF ZmqThread
<1>s. CASE StepThread
  <2>1. CASE \E s \in Servers : Expect(Stepper, s)
    BY <1>e, <2>1
  <2>2. CASE InitialSync
    <3>1. /\ UNCHANGED <<pc, applied, matrices, resets, published, current_step>>
          /\ thread'[Stepper] = "publish"
      BY <1>t, <2>2 DEF InitialSync, clientVars, coordVars, ThreadGoes
    <3> QED
      BY <2>2, <3>1, McastBarrier DEF StepsMcast, ServerMcast, UpToDate
  <2>3. CASE SyncSubscribers
    <3>1. /\ UNCHANGED <<pc, applied, matrices, resets, published>>
          /\ thread'[Stepper] = "idle" /\ published > 0
      BY <1>t, <2>3 DEF SyncSubscribers, clientVars, ThreadGoes, StepsMcast
    <3> QED
      BY <2>3, <3>1, McastBarrier DEF StepsMcast, ServerMcast, UpToDate
  <2>4. CASE SendDistanceMatrix
    <3>1. /\ UNCHANGED <<pc, applied, resets, request, expect_storage>>
          /\ thread'[Stepper] = "sync" /\ published' = published + 1
      BY <1>t, <2>4 DEF SendDistanceMatrix, clientVars, ThreadGoes
    <3>2. ASSUME NEW x \in Servers PROVE ServerMcast(x)'
      <4>1. ServerMcast(x) /\ thread[Stepper] = "publish"
        BY <2>4 DEF StepsMcast, SendDistanceMatrix
      <4>2. UpToDate(x) /\ ~ Asks(x) /\ pc[x] \in {"sync0", "select", "sync", "dead"}
        BY <4>1 DEF ServerMcast, Synchronised
      <4>3. ~ Asks(x)'
        BY <3>1, <4>2, AsksUnchanged
      <4>4. matrices'[x] \in {<<>>, <<published + 1>>}
        <5>1. Append(matrices[x], published + 1) = <<published + 1>>
          BY <1>t, <4>2 DEF UpToDate
        <5> QED
          BY <2>4, <4>2, <5>1 DEF SendDistanceMatrix, UpToDate
      <4>5. Behind(x)'
        BY <1>t, <3>1, <4>2, <4>3, <4>4 DEF Behind, UpToDate
      <4> QED
        BY <3>1, <4>1, <4>2, <4>3, <4>5 DEF ServerMcast
    <3> QED
      BY <1>t, <3>1, <3>2 DEF StepsMcast
  <2>5. ~ ReplyDistanceMatrix
    BY DEF ReplyDistanceMatrix, StepsMcast
  <2> QED
    BY <1>s, <2>1, <2>2, <2>3, <2>4, <2>5 DEF StepThread
<1>o. CASE SimulationStart \/ StartRefused \/ SimulationStarted
  <2>1. /\ UNCHANGED <<pc, applied, matrices, resets, published, thread, request, expect_storage>>
        /\ current_step' \in {current_step, 0}
    BY <1>o DEF SimulationStart, StartRefused, SimulationStarted, clientVars, netVars,
                threadVars, coordVars
  <2>2. \A x \in Servers : Asks(x)' <=> Asks(x)
    BY <2>1, AsksUnchanged
  <2> QED
    BY <1>k, <2>1, <2>2 DEF StepsMcast
<1>p. CASE Step
  <2>1. /\ UNCHANGED <<pc, applied, matrices, resets, published, request, expect_storage, current_step>>
        /\ thread[Stepper] = "idle"
        /\ thread'[Stepper] = IF current_step = 0 THEN "sync0" ELSE "publish"
    BY <1>p, <1>t DEF Step, ThreadGoes, clientVars, netVars, threadVars, coordVars
  <2>2. \A x \in Servers : Asks(x)' <=> Asks(x)
    BY <2>1, AsksUnchanged
  <2> QED
    BY <1>t, <2>1, <2>2 DEF StepsMcast, ServerMcast, UpToDate, Behind, Synchronised
<1>a. ~ SimulationAbort
  BY DEF SimulationAbort
<1> QED
  BY <1>u, <1>c, <1>z, <1>s, <1>o, <1>p, <1>a DEF Next

LEMMA StepsInit == Init => Steps
<1> SUFFICES ASSUME Init PROVE Steps
  OBVIOUS
<1> USE ThreadIds
<1>1. thread[Stepper] = "idle"
  BY DEF Init
<1>2. \A s \in Servers : ~ Asks(s)
  BY DEF Init, Asks, Heard
<1>3. StepsP2P
  BY <1>1, <1>2 DEF Init, StepsP2P, ServerP2P
<1>4. StepsMcast
  BY <1>1, <1>2 DEF Init, StepsMcast, ServerMcast, UpToDate, Synchronised
<1> QED
  BY <1>3, <1>4 DEF Steps

LEMMA ModeKept == [Next]_vars => mode' = mode
  BY DEF Next, Client, Register, Exchange, RecvScenario, StartNodes, EnterRunLoop, Synced,
     StepMcast, StepP2P, HandleReset, ClientFails, Subscribe, ZmqThread, Expect,
     StateRegister, WaitForScenarioConfig, StateInformationExchange, StateStartNodes,
     StepThread, InitialSync, SendDistanceMatrix, SyncSubscribers, ReplyDistanceMatrix,
     Step, SimulationStart, StartRefused, SimulationStarted, SimulationAbort, vars

\* Nobody takes a ZeroMQ thread away.
LEMMA ThreadsGrow == Typed /\ [Next]_vars => cnt_zmq_threads' \in {cnt_zmq_threads, cnt_zmq_threads + 1}
  BY DEF Next, Client, Register, Exchange, RecvScenario, StartNodes, EnterRunLoop, Synced,
     StepMcast, StepP2P, HandleReset, ClientFails, Subscribe, ZmqThread, Expect,
     StateRegister, WaitForScenarioConfig, StateInformationExchange, StateStartNodes,
     StepThread, InitialSync, SendDistanceMatrix, SyncSubscribers, ReplyDistanceMatrix,
     Step, SimulationStart, StartRefused, SimulationStarted, SimulationAbort, vars, threadVars

LEMMA StepsStep == Typed /\ Dialogue /\ Steps /\ [Next]_vars => Steps'
<1> SUFFICES ASSUME Typed, Dialogue, Steps, [Next]_vars PROVE Steps'
  OBVIOUS
<1>1. ASSUME mode' = "p2p" PROVE StepsP2P'
  BY <1>1, ModeKept, P2PStep DEF Steps
<1>2. ASSUME mode' = "mcast", cnt_zmq_threads' = 1 PROVE StepsMcast'
  <2>1. mode = "mcast" /\ cnt_zmq_threads = 1
    BY <1>2, ModeKept, ThreadsGrow DEF Typed, ThreadsTyped, ZmqThreads
  <2> QED
    BY <1>2, <2>1, McastStep DEF Steps
<1> QED
  BY <1>1, <1>2 DEF Steps

\* The first two parts of the invariant, which need nothing of the scenarios.
LEMMA StepsAlways == Spec => [](Typed /\ Dialogue /\ Steps)
<1>1. Init => Typed /\ Dialogue /\ Steps
  BY TypedInit, DialogueInit, StepsInit
<1>2. Typed /\ Dialogue /\ Steps /\ [Next]_vars => (Typed /\ Dialogue /\ Steps)'
  BY TypedStep, DialogueStep, StepsStep
<1> QED
  BY <1>1, <1>2, PTL DEF Spec

\* A multicast step that has returned was applied by all servers: the sync covers the
\* simulation step of each server, also with late subscriptions and failing servers.
THEOREM McastStepsCoverServers == Spec => []StepCoversServers
<1>1. Steps => StepCoversServers
  BY DEF Steps, StepsMcast, ServerMcast, UpToDate, StepCoversServers
<1> QED
  BY <1>1, StepsAlways, PTL

LEMMA LockStepKept ==
  ASSUME Typed, Dialogue, Steps, [Next]_vars, mode = "p2p" \/ cnt_zmq_threads = 1
  PROVE  [Barrier!Next]_<<published, applied>>
<1> USE ExpectedStates, ThreadIds
<1>t. published \in Nat /\ applied \in [Servers -> Nat] /\ mode \in {"mcast", "p2p"}
  BY DEF Typed, ClientsTyped, ThreadsTyped
<1>1. ASSUME NEW s \in Servers, StepMcast(s) PROVE Barrier!Apply(s)
  <2>1. mode # "p2p"
    BY <1>1 DEF Steps, StepsP2P, ServerP2P, StepMcast, ClientAt
  <2>2. ServerMcast(s) /\ matrices[s] # <<>>
    BY <1>1, <1>t, <2>1 DEF Steps, StepsMcast, StepMcast
  <2>3. published = applied[s] + 1 /\ matrices[s] = <<published>>
    BY <2>2 DEF ServerMcast, UpToDate, Behind
  <2>4. Head(matrices[s]) = published
    BY <2>3
  <2> QED
    BY <1>1, <1>t, <2>3, <2>4 DEF StepMcast, Barrier!Apply, coordVars
<1>2. ASSUME NEW s \in Servers, StepP2P(s) PROVE Barrier!Apply(s)
  <2>1. mode = "p2p"
    BY <1>2, <1>t DEF Steps, StepsMcast, ServerMcast, StepP2P, ClientAt
  <2>2. published = applied[s] + 1 /\ reply[s].value = published
    BY <1>2, <2>1 DEF Steps, StepsP2P, ServerP2P, StepP2P, ClientAt, Recv
  <2> QED
    BY <1>2, <1>t, <2>2 DEF StepP2P, Barrier!Apply, coordVars
<1>3. CASE SendDistanceMatrix
  <2>1. mode # "p2p"
    BY <1>3 DEF Steps, StepsP2P, SendDistanceMatrix
  <2>2. \A s \in Servers : applied[s] = published
    BY <1>3, <1>t, <2>1 DEF Steps, StepsMcast, ServerMcast, UpToDate, SendDistanceMatrix
  <2> QED
    BY <1>3, <2>2 DEF SendDistanceMatrix, Barrier!Next, Barrier!Publish, clientVars
<1>4. CASE ReplyDistanceMatrix
  <2>1. mode = "p2p"
    BY <1>4, <1>t DEF Steps, StepsMcast, ReplyDistanceMatrix
  <2>2. \A s \in Servers : applied[s] = published
    BY <1>4, <2>1, P2PBarrier DEF Steps
  <2> QED
    BY <1>4, <2>2 DEF ReplyDistanceMatrix, Barrier!Next, Barrier!Publish, clientVars
<1>5. CASE \E s \in Servers : Client(s) \/ ClientFails(s) \/ Subscribe(s)
  BY <1>1, <1>2, <1>5 DEF Client, Register, Exchange, RecvScenario, StartNodes,
     EnterRunLoop, Synced, HandleReset, ClientFails, Subscribe, clientVars, coordVars,
     Barrier!Next
<1>6. CASE \E t \in ZmqThreads : ZmqThread(t)
  BY <1>6 DEF ZmqThread, Expect, StateRegister, WaitForScenarioConfig,
     StateInformationExchange, StateStartNodes, clientVars, coordVars
<1>7. CASE StepThread
  BY <1>3, <1>4, <1>7 DEF StepThread, Expect, InitialSync, SyncSubscribers, clientVars, coordVars
<1>8. CASE Step \/ SimulationStart \/ StartRefused \/ SimulationStarted \/ SimulationAbort
  BY <1>8 DEF Step, SimulationStart, StartRefused, SimulationStarted, SimulationAbort,
     clientVars, coordVars
<1>9. CASE UNCHANGED vars
  BY <1>9 DEF vars, clientVars, coordVars
<1> QED
  BY <1>5, <1>6, <1>7, <1>8, <1>9 DEF Next

\* No matrix is handed out before all servers have applied the one before, and each is
\* applied once and in order: with any number of failing servers and refused starts,
\* and in mode "p2p" with any number of aborts.
THEOREM LockStepIsKept == Spec => KeepsLockStep
<1>1. Typed /\ Dialogue /\ Steps /\ [Next]_vars
        => [mode = "p2p" \/ cnt_zmq_threads = 1 => Barrier!Next]_<<published, applied>>
  BY LockStepKept
<1> QED
  BY <1>1, StepsAlways, PTL DEF Spec, KeepsLockStep

\* The safety part of ImplementsLockStep: the protocol is a lock-step barrier, whatever
\* fails, when nobody aborts or when the matrices are replies.
THEOREM ImplementsLockStepSafely ==
  Spec /\ (MaxAborts = 0 \/ mode = "p2p") => Barrier!SafeSpec
<1> DEFINE Quiet == MaxAborts = 0 \/ mode = "p2p"
<1>1. Quiet /\ [Next]_vars => Quiet'
  BY ModeKept
<1>2. Init => Barrier!Init
  BY DEF Init, Barrier!Init
<1>3. Quiet /\ Typed => mode = "p2p" \/ cnt_zmq_threads = 1
  BY DEF Typed, ThreadsTyped, ZmqThreads
<1>4. Quiet /\ Typed /\ Dialogue /\ Steps /\ [Next]_vars => [Barrier!Next]_Barrier!vars
  BY <1>3, LockStepKept DEF Barrier!vars
<1> QED
  BY <1>1, <1>2, <1>4, StepsAlways, PTL DEF Spec, Barrier!SafeSpec

(***************************************************************************)
(* The scenarios.                                                          *)
(***************************************************************************)

\* Steps that do not touch who reads what.
LEMMA ReadingUnchanged ==
  ASSUME NEW s \in Servers, UNCHANGED <<pc, reply, scenario>>
  PROVE  (Reading(s)' <=> Reading(s)) /\ ReadBy(s)' = ReadBy(s)
  BY DEF Reading, ReadBy

\* A server's own step: it reads on what it was sent, or is not reading.
LEMMA ReadingClient ==
  ASSUME Typed, Dialogue, NEW s \in Servers,
         Client(s) \/ ClientFails(s) \/ Subscribe(s), NEW x \in Servers
  PROVE  /\ Reading(x)' => Reading(x) /\ ReadBy(x)' = ReadBy(x)
         /\ \/ scenario'[x] = scenario[x] 
            \/ scenario'[x] = ReadBy(x) /\ Reading(x)
         /\ pc'[x] # "dead" => pc[x] # "dead"
<1> USE ExpectedStates DEF ClientAt, ClientGoes, SendTo, Recv
<1>t. /\ pc \in [Servers -> ClientPcs] /\ scenario \in [Servers -> Nat]
      /\ reply \in [Servers -> [state : States \cup {NoMessage}, value : Nat]]
  BY DEF Typed, ClientsTyped
<1>1. CASE x # s
  <2>1. pc'[x] = pc[x] /\ reply'[x] = reply[x] /\ scenario'[x] = scenario[x]
    BY <1>1, <1>t DEF Client, Register, Exchange, RecvScenario, StartNodes, EnterRunLoop,
       Synced, StepMcast, StepP2P, HandleReset, ClientFails, Subscribe, clientVars, netVars
  <2> QED
    BY <2>1 DEF Reading, ReadBy
<1>2. CASE x = s
  <2> USE <1>t, <1>2
  <2>1. CASE RecvScenario(s)
    BY <2>1 DEF RecvScenario, Reading, ReadBy
  <2>2. CASE StartNodes(s)
    BY <2>2 DEF StartNodes, Reading, ReadBy
  <2>3. CASE Exchange(s) \/ Register(s)
    <3>1. reply'[s] = NoReply \/ Register(s)
      BY <2>3 DEF Exchange
    <3> QED
      BY <2>3, <3>1 DEF Exchange, Register, Reading, ReadBy
  <2>4. CASE EnterRunLoop(s) \/ Synced(s) \/ StepMcast(s) \/ StepP2P(s)
    BY <2>4 DEF EnterRunLoop, Synced, StepMcast, StepP2P, Reading
  <2>5. CASE HandleReset(s)
    BY <2>5 DEF HandleReset, Reading
  <2>6. CASE ClientFails(s)
    BY <2>6 DEF ClientFails, Reading
  <2>7. CASE Subscribe(s)
    BY <2>7 DEF Subscribe, clientVars, Reading, ReadBy
  <2> QED
    BY <2>1, <2>2, <2>3, <2>4, <2>5, <2>6, <2>7 DEF Client
<1> QED
  BY <1>1, <1>2

\* An answer in the second state makes every server a reader of the scenario config,
\* one in the third state ends the reading, any other leaves nobody reading.
LEMMA ReadingRespond ==
  ASSUME Typed, Dialogue, NEW t \in Threads, Expecting(t), NEW v, Respond(t, v),
         UNCHANGED <<pc, scenario>>, NEW x \in Servers
  PROVE  /\ Reading(x)' => thread[t] = "exchange" /\ ReadBy(x)' = v[x]
         /\ thread[t] = "start_nodes" /\ pc[x] # "dead" => Reading(x) /\ ReadBy(x) = scenario[x]
<1> USE ExpectedStates
<1>1. /\ reply[x] = NoReply /\ Awaits(x, ExpectedIn[thread[t]])
      /\ reply'[x] # NoReply /\ reply'[x].value = v[x]
  BY RespondEffect
<1>2. thread[t] \in DOMAIN ExpectedIn
  BY DEF Expecting
<1> QED
  BY <1>1, <1>2 DEF Reading, ReadBy, Awaits

\* A ZeroMQ thread that takes a step was started.
LEMMA StartedThread ==
  ASSUME Typed, NEW t \in ZmqThreads, ZmqThread(t)
  PROVE  t <= cnt_zmq_threads
<1>1. thread[t] # "none"
  BY ExpectedStates DEF ZmqThread, Expect, Expecting, StateRegister, WaitForScenarioConfig,
     StateInformationExchange, StateStartNodes
<1> QED
  BY <1>1, ThreadIds DEF Typed, ThreadsTyped, Roles, ZmqThreads

LEMMA FirstThreadStep ==
  ASSUME Typed, Dialogue, cnt_zmq_threads = 1, cnt_zmq_threads' = 1, FirstThread, [Next]_vars
  PROVE  FirstThread'
<1> USE ExpectedStates, ThreadIds DEF FirstThread
<1>t. thread \in [Threads -> ThreadPcs] /\ rpc \in {"ready", "start"}
  BY DEF Typed, ThreadsTyped
<1>u. CASE UNCHANGED vars
  BY <1>u, ReadingUnchanged DEF vars, clientVars, netVars, threadVars, eventVars
<1>c. ASSUME NEW s \in Servers, Client(s) \/ ClientFails(s) \/ Subscribe(s)
      PROVE  FirstThread'
  <2>1. UNCHANGED <<thread, rpc, config_set, nodes_started>>
    BY <1>c DEF Client, Register, Exchange, RecvScenario, StartNodes, EnterRunLoop, Synced,
       StepMcast, StepP2P, HandleReset, ClientFails, Subscribe, threadVars, eventVars
  <2> QED
    BY <1>c, <2>1, ReadingClient
<1>e. ASSUME NEW t \in Threads, NEW s \in Servers, Expect(t, s) PROVE FirstThread'
  BY <1>e, ReadingUnchanged DEF Expect, clientVars, eventVars
<1>z. ASSUME NEW t \in ZmqThreads, ZmqThread(t) PROVE FirstThread'
  <2>0. t = 1
    BY <1>z, StartedThread DEF ZmqThreads
  <2>1. CASE \E s \in Servers : Expect(t, s)
    BY <1>e, <2>1
  <2>2. CASE StateRegister(t)
    <3>1. \A x \in Servers : ~ Reading(x)'
      BY <2>2, ReadingRespond DEF StateRegister, Expecting, clientVars
    <3> QED
      BY <1>t, <2>0, <2>2, <3>1 DEF StateRegister, ThreadGoes, eventVars
  <2>3. CASE WaitForScenarioConfig(t)
    <3>1. \A x \in Servers : Reading(x)' <=> Reading(x)
      BY <2>3, ReadingUnchanged DEF WaitForScenarioConfig, clientVars, netVars
    <3> QED
      BY <1>t, <2>0, <2>3, <3>1 DEF WaitForScenarioConfig, ThreadGoes, eventVars
  <2>4. CASE StateInformationExchange(t)
    BY <1>t, <2>0, <2>4 DEF StateInformationExchange, ThreadGoes, eventVars
  <2>5. CASE StateStartNodes(t)
    <3>1. \A x \in Servers : ~ Reading(x)'
      BY <2>5, ReadingRespond DEF StateStartNodes, Expecting, clientVars
    <3> QED
      BY <1>t, <2>0, <2>5, <3>1 DEF StateStartNodes, ThreadGoes
  <2> QED
    BY <1>z, <2>1, <2>2, <2>3, <2>4, <2>5 DEF ZmqThread
<1>s. CASE StepThread
  <2>1. CASE \E s \in Servers : Expect(Stepper, s)
    BY <1>e, <2>1
  <2>2. CASE SendDistanceMatrix
    <3>1. \A x \in Servers : Reading(x)' <=> Reading(x)
      BY <2>2, ReadingUnchanged DEF SendDistanceMatrix, clientVars
    <3> QED
      BY <1>t, <2>2, <3>1 DEF SendDistanceMatrix, ThreadGoes, eventVars
  <2>3. CASE InitialSync \/ SyncSubscribers \/ ReplyDistanceMatrix
    <3>1. \A x \in Servers : ~ Reading(x)'
      BY <2>3, ReadingRespond
      DEF InitialSync, SyncSubscribers, ReplyDistanceMatrix, Expecting, clientVars
    <3> QED
      BY <1>t, <2>3, <3>1
      DEF InitialSync, SyncSubscribers, ReplyDistanceMatrix, ThreadGoes, eventVars, coordVars
  <2> QED
    BY <1>s, <2>1, <2>2, <2>3 DEF StepThread
<1>o. CASE SimulationStart \/ StartRefused \/ SimulationStarted
  <2>1. \A x \in Servers : Reading(x)' <=> Reading(x)
    BY <1>o, ReadingUnchanged DEF SimulationStart, StartRefused, SimulationStarted,
       clientVars, netVars
  <2> QED
    BY <1>o, <2>1 DEF SimulationStart, StartRefused, SimulationStarted, threadVars, eventVars
<1>p. CASE Step
  <2>1. \A x \in Servers : Reading(x)' <=> Reading(x)
    BY <1>p, ReadingUnchanged DEF Step, clientVars, netVars
  <2> QED
    BY <1>p, <1>t, <2>1 DEF Step, ThreadGoes, eventVars
<1>a. ~ SimulationAbort
  BY DEF SimulationAbort
<1> QED
  BY <1>u, <1>c, <1>z, <1>s, <1>o, <1>p, <1>a DEF Next

\* After the first abort nobody is being led to a scenario.
LEMMA AbortResets ==
  ASSUME Typed, Typed', cnt_zmq_threads = 1, FirstThread, SimulationAbort
  PROVE  LatestScenario'
<1> USE ThreadIds
<1>1. rpc = "ready" /\ UNCHANGED <<rpc, pc, reply, scenario>>
  BY DEF SimulationAbort, RpcCall, clientVars
<1>2. thread[1] \notin {"exchange", "start_nodes"}
  BY <1>1 DEF FirstThread
<1>3. \A x \in Servers : ~ Reading(x)'
  BY <1>1, <1>2, ReadingUnchanged DEF FirstThread
<1>4. cnt_zmq_threads' = 2 /\ thread' = [thread EXCEPT ![2] = "register"]
  BY DEF SimulationAbort, ThreadGoes
<1>5. ASSUME NEW t \in ZmqThreads PROVE thread'[t] \notin {"exchange", "start_nodes"}
  <2>1. CASE t = 1
    BY <1>2, <1>4, <2>1 DEF Typed, ThreadsTyped
  <2>2. CASE t = 2
    BY <1>4, <2>2 DEF Typed, ThreadsTyped
  <2>3. CASE t > 2
    BY <1>4, <2>3 DEF Typed, Roles
  <2> QED
    BY <2>1, <2>2, <2>3 DEF ZmqThreads
<1>6. ~ running' /\ ~ config_set' /\ ~ nodes_started'
  BY DEF SimulationAbort
<1> QED
  BY <1>1, <1>3, <1>5, <1>6 DEF LatestScenario, BeforeStart

LEMMA LatestScenarioStep ==
  ASSUME Typed, Dialogue, LatestScenario, [Next]_vars, ~ refused', ~ SimulationAbort
  PROVE  LatestScenario'
<1> USE ExpectedStates, ThreadIds DEF LatestScenario
<1>t. thread \in [Threads -> ThreadPcs] /\ rpc \in {"ready", "start"}
  BY DEF Typed, ThreadsTyped
<1>k. ASSUME UNCHANGED <<pc, reply, scenario>>
      PROVE  \A x \in Servers : (Reading(x)' <=> Reading(x)) /\ ReadBy(x)' = ReadBy(x)
  BY <1>k, ReadingUnchanged
<1>u. CASE UNCHANGED vars
  BY <1>u, <1>k DEF vars, clientVars, netVars, threadVars, eventVars, coordVars, configVars,
     BeforeStart
<1>c. ASSUME NEW s \in Servers, Client(s) \/ ClientFails(s) \/ Subscribe(s)
      PROVE  LatestScenario'
  <2>1. UNCHANGED <<thread, rpc, config_set, nodes_started, running, scenario_config>>
    BY <1>c DEF Client, Register, Exchange, RecvScenario, StartNodes, EnterRunLoop, Synced,
       StepMcast, StepP2P, HandleReset, ClientFails, Subscribe, threadVars, eventVars,
       coordVars, configVars
  <2>2. \A x \in Servers : /\ Reading(x)' => Reading(x) /\ ReadBy(x)' = ReadBy(x)
                           /\ \/ scenario'[x] = scenario[x]
                              \/ scenario'[x] = ReadBy(x) /\ Reading(x)
                           /\ pc'[x] # "dead" => pc[x] # "dead"
    BY <1>c, ReadingClient
  <2> QED
    BY <2>1, <2>2 DEF BeforeStart
<1>e. ASSUME NEW t \in Threads, NEW s \in Servers, Expect(t, s) PROVE LatestScenario'
  <2>1. UNCHANGED <<pc, reply, scenario, thread, rpc, config_set, nodes_started, running,
                    scenario_config>>
    BY <1>e DEF Expect, clientVars, eventVars, coordVars, configVars
  <2> QED
    BY <1>k, <2>1 DEF BeforeStart
<1>z. ASSUME NEW t \in ZmqThreads, ZmqThread(t) PROVE LatestScenario'
  <2>0. UNCHANGED <<rpc, config_set, running, scenario_config, pc, scenario>>
    BY <1>z DEF ZmqThread, Expect, StateRegister, WaitForScenarioConfig,
       StateInformationExchange, StateStartNodes, clientVars, eventVars, coordVars, configVars
  <2>1. CASE \E s \in Servers : Expect(t, s)
    BY <1>e, <2>1
  <2>2. CASE StateRegister(t)
    <3>1. \A x \in Servers : ~ Reading(x)'
      BY <2>2, ReadingRespond DEF StateRegister, Expecting, clientVars
    <3>2. UNCHANGED nodes_started /\ thread' = [thread EXCEPT ![t] = "config"]
      BY <2>2 DEF StateRegister, ThreadGoes, eventVars
    <3> QED
      BY <1>t, <2>0, <3>1, <3>2 DEF BeforeStart
  <2>3. CASE WaitForScenarioConfig(t)
    <3>1. config_set /\ UNCHANGED <<nodes_started, reply>>
      BY <2>3 DEF WaitForScenarioConfig, netVars, eventVars
    <3> QED
      BY <1>k, <2>0, <3>1 DEF BeforeStart
  <2>4. CASE StateInformationExchange(t)
    <3>1. thread[t] = "exchange" /\ UNCHANGED nodes_started
      BY <2>4 DEF StateInformationExchange, eventVars
    <3>2. ASSUME NEW x \in Servers, Reading(x)' PROVE ReadBy(x)' = scenario_config
      <4> DEFINE v == [y \in Servers |-> scenario_config]
      <4>1. Respond(t, v) /\ v[x] = scenario_config /\ Expecting(t)
        BY <2>4 DEF StateInformationExchange, Expecting
      <4> HIDE DEF v
      <4>2. ReadBy(x)' = v[x]
        BY <2>0, <3>2, <4>1, ReadingRespond
      <4> QED
        BY <4>1, <4>2
    <3> QED
      BY <2>0, <3>1, <3>2 DEF BeforeStart
  <2>5. CASE StateStartNodes(t)
    <3>1. thread[t] = "start_nodes" /\ nodes_started'
      BY <2>5 DEF StateStartNodes
    <3>2. \A x \in Servers : /\ ~ Reading(x)'
                             /\ pc[x] # "dead" => Reading(x) /\ ReadBy(x) = scenario[x]
      BY <2>0, <2>5, ReadingRespond DEF StateStartNodes, Expecting
    <3> QED
      BY <2>0, <3>1, <3>2 DEF BeforeStart
  <2> QED
    BY <1>z, <2>1, <2>2, <2>3, <2>4, <2>5 DEF ZmqThread
<1>s. CASE StepThread
  <2>0. /\ UNCHANGED <<rpc, config_set, nodes_started, running, scenario_config, pc, scenario>>
        /\ \A t \in ZmqThreads : thread'[t] = thread[t]
    BY <1>s, <1>t DEF StepThread, Expect, InitialSync, SendDistanceMatrix, SyncSubscribers,
       ReplyDistanceMatrix, ThreadGoes, clientVars, eventVars, coordVars, configVars
  <2>1. CASE \E s \in Servers : Expect(Stepper, s)
    BY <1>e, <2>1
  <2>2. CASE SendDistanceMatrix
    BY <1>k, <2>0, <2>2 DEF SendDistanceMatrix, BeforeStart
  <2>3. CASE InitialSync \/ SyncSubscribers \/ ReplyDistanceMatrix
    <3>1. \A x \in Servers : ~ Reading(x)'
      BY <2>0, <2>3, ReadingRespond
      DEF InitialSync, SyncSubscribers, ReplyDistanceMatrix, Expecting
    <3> QED
      BY <2>0, <3>1 DEF BeforeStart
  <2> QED
    BY <1>s, <2>1, <2>2, <2>3 DEF StepThread
<1>o. CASE SimulationStart
  <2>1. ~ running /\ BeforeStart
    BY <1>o DEF SimulationStart, RpcCall
  <2> QED
    BY <1>k, <1>o, <2>1 DEF SimulationStart, BeforeStart, clientVars, netVars
<1>d. CASE SimulationStarted
  BY <1>k, <1>d DEF SimulationStarted, clientVars, netVars, eventVars, configVars
<1>p. CASE Step
  <2>1. /\ UNCHANGED <<rpc, config_set, nodes_started, running, scenario_config, pc, scenario, reply>>
        /\ \A t \in ZmqThreads : thread'[t] = thread[t]
    BY <1>p, <1>t DEF Step, ThreadGoes, clientVars, netVars, eventVars, coordVars, configVars
  <2> QED
    BY <1>k, <2>1 DEF BeforeStart
<1>r. ~ StartRefused
  BY DEF StartRefused
<1> QED
  BY <1>u, <1>c, <1>z, <1>s, <1>o, <1>d, <1>p, <1>r DEF Next

LEMMA ScenariosInit == Init => Scenarios
<1> SUFFICES ASSUME Init PROVE Scenarios
  OBVIOUS
<1> USE ThreadIds
<1>1. \A s \in Servers : ~ Reading(s)
  BY DEF Init, Reading
<1>2. \A t \in ZmqThreads : thread[t] \in {"register", "none"}
  BY DEF Init
<1>3. FirstThread
  BY <1>1, <1>2 DEF Init, FirstThread
<1>4. LatestScenario
  BY <1>1, <1>2 DEF Init, LatestScenario, BeforeStart
<1> QED
  BY <1>3, <1>4 DEF Scenarios

\* Only an abort forgets that a start was refused, or starts a ZeroMQ thread.
LEMMA OnlyAbortForgets ==
  ASSUME [Next]_vars, ~ SimulationAbort
  PROVE  (refused => refused') /\ cnt_zmq_threads' = cnt_zmq_threads
<1> USE DEF coordVars, configVars, threadVars
<1>1. CASE UNCHANGED vars
  BY <1>1 DEF vars
<1>2. CASE \E s \in Servers : Client(s) \/ ClientFails(s) \/ Subscribe(s)
  BY <1>2 DEF Client, Register, Exchange, RecvScenario, StartNodes, EnterRunLoop, Synced,
     StepMcast, StepP2P, HandleReset, ClientFails, Subscribe
<1>3. CASE \E t \in ZmqThreads : ZmqThread(t)
  BY <1>3 DEF ZmqThread, Expect, StateRegister, WaitForScenarioConfig,
     StateInformationExchange, StateStartNodes
<1>4. CASE StepThread
  BY <1>4 DEF StepThread, Expect, InitialSync, SendDistanceMatrix, SyncSubscribers,
     ReplyDistanceMatrix
<1>5. CASE Step \/ SimulationStart \/ StartRefused \/ SimulationStarted
  BY <1>5 DEF Step, SimulationStart, StartRefused, SimulationStarted
<1> QED
  BY <1>1, <1>2, <1>3, <1>4, <1>5 DEF Next

LEMMA ScenariosStep ==
  Typed /\ Typed' /\ Dialogue /\ Scenarios /\ [Next]_vars => Scenarios'
<1> SUFFICES ASSUME Typed, Typed', Dialogue, Scenarios, [Next]_vars PROVE Scenarios'
  OBVIOUS
<1>t. cnt_zmq_threads \in Nat /\ cnt_zmq_threads > 0
  BY DEF Typed, ThreadsTyped, ZmqThreads
<1>1. ASSUME cnt_zmq_threads' = 1 PROVE FirstThread'
  <2>1. cnt_zmq_threads = 1
    BY <1>1, <1>t, ThreadsGrow
  <2> QED
    BY <1>1, <2>1, FirstThreadStep DEF Scenarios
<1>2. ASSUME ~ refused', cnt_zmq_threads' <= 2 PROVE LatestScenario'
  <2>1. CASE SimulationAbort
    <3>1. cnt_zmq_threads = 1
      BY <1>2, <1>t, <2>1 DEF SimulationAbort
    <3> QED
      BY <2>1, <3>1, AbortResets DEF Scenarios
  <2>2. CASE ~ SimulationAbort
    <3>1. ~ refused /\ cnt_zmq_threads <= 2
      BY <1>2, <2>2, OnlyAbortForgets
    <3> QED
      BY <1>2, <2>2, <3>1, LatestScenarioStep DEF Scenarios
  <2> QED
    BY <2>1, <2>2
<1> QED
  BY <1>1, <1>2 DEF Scenarios

\* What runs is what was started last, on every server that lives: from the first start
\* to the second abort, until a start is refused.
THEOREM RunningScenarioIsLatest == Spec => []ServersRunTheScenario
<1>1. Init => Scenarios
  BY ScenariosInit
<1>2. Typed /\ Dialogue /\ Scenarios /\ [Next]_vars => Scenarios'
  BY ScenariosStep, TypedStep
<1>3. Scenarios => ServersRunTheScenario
  BY DEF Scenarios, LatestScenario, ServersRunTheScenario
<1> QED
  BY <1>1, <1>2, <1>3, StepsAlways, PTL DEF Spec
=============================================================================

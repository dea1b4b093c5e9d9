------------------------- MODULE BridgedMultiDevice -------------------------
(***************************************************************************)
(* The bridged backend in multi (LAN) mode, batch execution with brctl:    *)
(* every link gets a bridge of its own and one tap device at either end.   *)
(* The ConnectionBookKeeper decides whether a link may be created: at most *)
(* one per node pair, and only over taps that no link has used yet.  It    *)
(* forgets nothing before the scenario is reset.                           *)
(***************************************************************************)
EXTENDS SimulationStep, BridgeCommands

CONSTANTS Ifaces   \* interface numbers of every node, a set of naturals

ASSUME MultiAssumption ==
  /\ Ifaces \subseteq Nat
  /\ IfPairs \subseteq Ifaces \X Ifaces
  /\ Events = {"addbr", "addif", "conn"}
  /\ FailPoints \subseteq {"bridge", "batch", "ipconfig", "check", "post"}

VARIABLES
  connections,       \* ConnectionBookKeeper.connections: the pairs set to True
  interface_states,  \* ConnectionBookKeeper.interface_states; "unused" = no key
  devices,           \* kernel: the bridges that exist, named after their pair
  slaves,            \* kernel: <<tap, bridge>> for the ports of the bridges
  up                 \* kernel: the taps that are up

bookVars == <<connections, interface_states>>
kernelVars == <<devices, slaves, up>>
vars == <<stepVars, bookVars, kernelVars>>

Taps == Nodes \X Ifaces

\* The taps at both ends of the link of pair p over the interfaces ifs.
TapX(p, ifs) == <<p[1], ifs[1]>>
TapY(p, ifs) == <<p[2], ifs[2]>>
Ends(p, ifs) == {TapX(p, ifs), TapY(p, ifs)}

TypeOK ==
  /\ StepTypeOK
  /\ queue.cmds["addbr"] \in Seq(Pairs)
  /\ queue.cmds["addif"] \in Seq(Taps \X Pairs)
  /\ queue.cmds["conn"] \in Seq(Taps \X {"up", "down"})
  /\ connections \in SUBSET Pairs
  /\ interface_states \in [Taps -> {"unused", "down", "up"}]
  /\ devices \in SUBSET Pairs
  /\ slaves \in SUBSET (Taps \X Pairs)
  /\ up \in SUBSET Taps

Init ==
  /\ StepInit
  /\ connections = {}
  /\ interface_states = [t \in Taps |-> "unused"]
  /\ devices = {}
  /\ slaves = {}
  /\ up = {}

Begin(m) == BeginStep(m) /\ UNCHANGED <<bookVars, kernelVars>>

\* Fault: only the tap of the first node is looked up.
FreeX(p, ifs) == interface_states[TapX(p, ifs)] = "unused"

\* should_create_new_connection, its part about the tap devices
Free(p, ifs) == \A t \in Ends(p, ifs) : interface_states[t] = "unused"

(***************************************************************************)
(* AllInterfaces yields every interface pair, row by row; the first one    *)
(* whose taps are both unused gets the link, and then should_create_new_   *)
(* connection refuses the others.                                          *)
(***************************************************************************)
FirstFree(p, ifs) ==
  /\ Free(p, ifs)
  /\ \A other \in IfPairs : Free(p, other) => RowOrder(ifs, other)

\* Fault: the bridge is named after the pair in the wrong order.
QueueLinkSwapped(q, p, ifs) ==
  Shell!AddCommand(q, "addbr", <<p[2], p[1]>>)

\* create_connection and link_up: a bridge, both taps on it, both taps up
QueueLink(q, p, ifs) ==
  LET br == Shell!AddCommand(q, "addbr", p)
      bx == Shell!AddCommand(br, "addif", <<TapX(p, ifs), p>>)
      by == Shell!AddCommand(bx, "addif", <<TapY(p, ifs), p>>)
      ux == Shell!AddCommand(by, "conn", <<TapX(p, ifs), "up">>)
  IN  Shell!AddCommand(ux, "conn", <<TapY(p, ifs), "up">>)

SetTaps(p, ifs, state) ==
  [t \in Taps |-> IF t \in Ends(p, ifs) THEN state ELSE interface_states[t]]

LinkUp(p, ifs) ==
  /\ distance_matrix[p] \in Linked
  /\ p \notin connections
  /\ FirstFree(p, ifs)
  /\ connections' = connections \cup {p}
  /\ interface_states' = SetTaps(p, ifs, "up")
  /\ store' = Store!ChangeState(Store!AddConnection(store, p, ifs), p, ifs, TRUE)
  /\ queue' = QueueLink(queue, p, ifs)

\* The book keeper refuses every interface pair; an active link stays as it is.
LinkRefused(p) ==
  /\ distance_matrix[p] \in Linked
  /\ p \in connections \/ \A ifs \in IfPairs : ~ Free(p, ifs)
  /\ UNCHANGED <<store, queue, bookVars>>

\* Fault: the taps stay up in the book.
LinkDownNotBooked(p, ifs) ==
  /\ distance_matrix[p] \notin Linked
  /\ ifs \in store.active[p]
  /\ store' = Store!ChangeState(store, p, ifs, FALSE)
  /\ queue' = Shell!AddCommand(queue, "conn", <<TapX(p, ifs), "down">>)
  /\ UNCHANGED bookVars

\* Fault: the store is changed, but no command is queued.
LinkDownStoreOnly(p, ifs) ==
  /\ distance_matrix[p] \notin Linked
  /\ ifs \in store.active[p]
  /\ store' = Store!ChangeState(store, p, ifs, FALSE)
  /\ interface_states' = SetTaps(p, ifs, "down")
  /\ UNCHANGED <<queue, connections>>

LinkDown(p, ifs) ==
  /\ distance_matrix[p] \notin Linked
  /\ ifs \in store.active[p]
  /\ store' = Store!ChangeState(store, p, ifs, FALSE)
  /\ queue' = Shell!AddCommand(Shell!AddCommand(queue, "conn", <<TapX(p, ifs), "down">>),
                               "conn", <<TapY(p, ifs), "down">>)
  /\ interface_states' = SetTaps(p, ifs, "down")
  /\ UNCHANGED connections

NotLinked(p) ==
  /\ distance_matrix[p] \notin Linked
  /\ store.active[p] = {}
  /\ UNCHANGED <<store, queue, bookVars>>

(***************************************************************************)
(* _step_inner.  A pair has at most one connection (OneConnectionPerPair), *)
(* so taking the link down is one LinkDown.                                *)
(***************************************************************************)
ProcessPair(p) ==
  /\ TakePair(p)
  /\ \/ \E ifs \in IfPairs : LinkUp(p, ifs)
     \/ LinkRefused(p)
     \/ \E ifs \in IfPairs : LinkDown(p, ifs)
     \/ NotLinked(p)
  /\ UNCHANGED kernelVars

EndOfPairs == PairsDone /\ UNCHANGED <<bookVars, kernelVars>>

ToAddBr == Shell!Runnable(queue, "addbr")
ToAddIf == Shell!Runnable(queue, "addif")
ToSet   == Shell!Runnable(queue, "conn")

\* The bridge group: addbr, then addif and "ip link set <tap> up" for its taps.
BridgeCommandsRun ==
  /\ devices' = AddBr(devices, ToAddBr)
  /\ slaves' = AddIf(devices', slaves, ToAddIf)
  /\ up' = up \cup {c[1] : c \in Shell!Queued(ToAddIf)}
  /\ UNCHANGED bookVars

RunBridge ==
  /\ AddBrOk(devices, ToAddBr)
  /\ Advance("bridge", "batch")
  /\ BridgeCommandsRun

\* The last addbr of the shell call finds its bridge; the earlier ones were run.
BridgeError ==
  /\ pc = "bridge"
  /\ ~ AddBrOk(devices, ToAddBr)
  /\ Raise
  /\ devices' = AddBr(devices, ToAddBr)
  /\ UNCHANGED <<failures, bookVars, slaves, up>>

(***************************************************************************)
(* The ip batch sets the taps up and down, the last command for a tap      *)
(* wins.  The "up" of the bridge group comes last, but every tap it names  *)
(* has the same command in the connection group, of which it is then a     *)
(* duplicate.                                                              *)
(***************************************************************************)
LastCommand(cmds, c) ==
  \E k \in DOMAIN cmds : /\ cmds[k] = c
                         /\ \A j \in DOMAIN cmds : cmds[j][1] = c[1] => j <= k

RunBatch ==
  /\ BatchDone
  /\ IpBatchOk(devices, ToAddIf)
  /\ up' = {t \in Taps : \/ LastCommand(ToSet, <<t, "up">>)
                         \/ t \in up /\ ~ LastCommand(ToSet, <<t, "down">>)}
  /\ UNCHANGED <<bookVars, devices, slaves>>

IpConfig == Advance("ipconfig", "check") /\ UNCHANGED <<bookVars, kernelVars>>

\* Frames pass over the bridge of p: it has an upped tap of either node as port.
CanTalk(p) ==
  /\ p \in devices
  /\ \A n \in {p[1], p[2]} : \E t \in up : t[1] = n /\ <<t, p>> \in slaves

CheckPasses ==
  /\ CheckDone
  /\ \A p \in NewPairs : CanTalk(p)
  /\ UNCHANGED <<bookVars, kernelVars>>

CheckFails ==
  /\ pc = "check"
  /\ \E p \in NewPairs : ~ CanTalk(p)
  /\ Raise
  /\ UNCHANGED <<failures, bookVars, kernelVars>>

End == EndStep /\ UNCHANGED <<bookVars, kernelVars>>

(***************************************************************************)
(* A failure of the environment.  NetworkConfiguratorP2P configures and    *)
(* checks the new connections of every step.                               *)
(***************************************************************************)
Failure(point) ==
  /\ EnvFailure(point)
  /\ point \in {"ipconfig", "check"} => NewPairs # {}
  /\ point = "post" => current_step = 0
  /\ \/ UNCHANGED <<bookVars, kernelVars>>
     \/ point = "bridge" /\ BridgeCommandsRun

\* abort(): the bridges are deleted, and the book keeper is replaced.
Abort ==
  /\ AbortStep
  /\ connections' = {}
  /\ interface_states' = [t \in Taps |-> "unused"]
  /\ devices' = {}
  /\ slaves' = {}
  /\ up' = {}

Next ==
  \/ \E m \in Matrices : Begin(m)
  \/ \E p \in Pairs : ProcessPair(p)
  \/ EndOfPairs
  \/ RunBridge
  \/ BridgeError
  \/ RunBatch
  \/ IpConfig
  \/ CheckPasses
  \/ CheckFails
  \/ End
  \/ \E point \in FailPoints : Failure(point)
  \/ Abort

Spec == Init /\ [][Next]_vars

\* A step that was begun is executed to its end by the thread that holds the lock.
FairSpec == Spec /\ WF_vars(pc # "idle" /\ Next)
-----------------------------------------------------------------------------
(***************************************************************************)
(* "A tap device can only be connected to exactly one bridge"              *)
(* (ConnectionBookKeeper.remember_bidirectional_connection): no two addif  *)
(* commands, queued or executed, put one tap on two bridges.               *)
(***************************************************************************)
AddIfs == Shell!Queued(queue.cmds["addif"]) \cup slaves

TapOnOneBridge == \A a, b \in AddIfs : a[1] = b[1] => a[2] = b[2]

(***************************************************************************)
(* The store never holds two connections of one pair: the code relies on   *)
(* it when it takes the first ConnectionDetails of a pair as the details   *)
(* of the connection (change_connection_state).                            *)
(***************************************************************************)
OneConnectionPerPair == \A p \in Pairs : \A a, b \in store.active[p] : a = b

(***************************************************************************)
(* The book keeper's interface states agree with the store: a tap is       *)
(* remembered as up exactly while it is an end of an active connection.    *)
(* tap_link_up skips the command for a tap that it believes to be up.      *)
(***************************************************************************)
UpIffActive ==
  \A t \in Taps : interface_states[t] = "up" <=>
                    \E p \in Pairs : \E ifs \in store.active[p] : t \in Ends(p, ifs)

(***************************************************************************)
(* Between steps a wanted link is missing only if the pair had one before, *)
(* or if no pair of unused interfaces of the same type is left.            *)
(***************************************************************************)
RefusedForAReason ==
  pc = "idle" =>
    \A p \in Wanted : \/ store.active[p] # {}
                      \/ p \in connections
                      \/ \A ifs \in IfPairs : ~ Free(p, ifs)

Settled == pc = "idle" /\ outcome = "ok"

(***************************************************************************)
(* The backend takes links "up and down" (doc/source/usage/concepts.rst):  *)
(* after a step that ended well, a wanted pair that has had its link has   *)
(* it again.                                                               *)
(***************************************************************************)
LinksComeBack == Settled => \A p \in Wanted \cap connections : CanTalk(p)
=============================================================================

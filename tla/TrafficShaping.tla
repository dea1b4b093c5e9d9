--------------------------- MODULE TrafficShaping ---------------------------
(***************************************************************************)
(* The WiFi backend with a link quality model that gives every linked      *)
(* distance a bandwidth (LinkQualityModelWiFiLinear, ...Exponential): tc   *)
(* commands shape the tap devices of both ends of a link.  A tap gets one  *)
(* root qdisc, for which the backend remembers in shaped_ifaces that it    *)
(* has asked, and below it a class for every link.                         *)
(*                                                                         *)
(* The tc commands are in the same executor as those of the bridge, in a   *)
(* group of their own.  They are a variable here, which is emptied         *)
(* whenever the executor is, and of which nothing is run while the         *)
(* executor has no group order.                                            *)
(***************************************************************************)
EXTENDS BridgedSingleDevice

CONSTANTS
  Inputs,     \* the matrices that the movement director may report
  MaxCopies   \* bound: no step begins with more copies of an ebtables rule

ASSUME ShapingAssumption == Inputs \subseteq Matrices /\ MaxCopies \in Nat

VARIABLES
  shaped_ifaces,   \* the nodes whose tap device counts as shaped
  tc_cmds,         \* the tc commands of the executor
  tc,              \* kernel: the taps with a root qdisc, and the distance whose
                   \* quality the class of each link has on each tap
  late,            \* history: has a step failed after its commands began to run?
  redone           \* history: has step 0 failed in its last phase, so that it is
                   \* repeated on the bridge that it has set up?

shapeVars == <<shaped_ifaces, tc_cmds, tc>>
shapedVars == <<vars, shapeVars, late, redone>>

NoTc == [qdisc |-> <<>>, class |-> <<>>]
NoShape == [root |-> {}, class |-> [n \in Nodes |-> [p \in Pairs |-> NoEntry]]]

TcCommands == [qdisc : Seq(Nodes), class : Seq(Nodes \X Pairs \X Linked)]
Shapes == [root : SUBSET Nodes, class : [Nodes -> [Pairs -> Linked \cup {NoEntry}]]]

ShapeTypeOK ==
  /\ shaped_ifaces \in SUBSET Nodes
  /\ tc_cmds \in TcCommands
  /\ tc \in Shapes
  /\ late \in BOOLEAN /\ redone \in BOOLEAN

ShapedInit ==
  /\ Init
  /\ shaped_ifaces = {}
  /\ tc_cmds = NoTc
  /\ tc = NoShape
  /\ late = FALSE /\ redone = FALSE

(***************************************************************************)
(* shape_device.  The class, its netem qdisc and its filter are queued     *)
(* together and are one command here; the quality is that of the distance. *)
(***************************************************************************)
QueueClass(cmds, n, p, d) == [cmds EXCEPT !.class = Shell!AddUnique(@, <<n, p, d>>)]

\* Fault: nobody remembers that the device has a root qdisc.
ShapeDeviceForgetful(s, n, p, d) ==
  [ifaces |-> s.ifaces,
   cmds   |-> QueueClass([s.cmds EXCEPT !.qdisc = Shell!AddUnique(@, n)], n, p, d)]

ShapeDevice(s, n, p, d) ==
  LET rooted == IF n \in s.ifaces THEN s.cmds
                ELSE [s.cmds EXCEPT !.qdisc = Shell!AddUnique(@, n)]
  IN  [ifaces |-> s.ifaces \cup {n}, cmds |-> QueueClass(rooted, n, p, d)]

\* Fault: the quality of a link is set when it comes up, and not adjusted later.
AdjustsFirst(p) == distance_matrix[p] \in Linked /\ store.active[p] = {}

\* _step_connection calls adjust_link_quality for a connection that is active,
\* one that _step_no_connection_yet has just created included.
Adjusts(p) == distance_matrix[p] \in Linked /\ store'.active[p] # {}

ProcessPairShaped(p) ==
  /\ ProcessPair(p)
  /\ LET d == distance_matrix[p]
         s == ShapeDevice(ShapeDevice([ifaces |-> shaped_ifaces, cmds |-> tc_cmds],
                                      p[1], p, d), p[2], p, d)
     IN  IF Adjusts(p)
         THEN shaped_ifaces' = s.ifaces /\ tc_cmds' = s.cmds
         ELSE UNCHANGED <<shaped_ifaces, tc_cmds>>
  /\ UNCHANGED tc

(***************************************************************************)
(* do_queueing_discipline: one "tc -batch", which ends with the first      *)
(* command that fails.  The kernel refuses to change a root qdisc of the   *)
(* kind htb into itself, and a class without it.                           *)
(***************************************************************************)
ToShape ==
  IF queue.ordered
  THEN [k \in DOMAIN tc_cmds.qdisc |-> <<"qdisc", tc_cmds.qdisc[k]>>]
         \o [k \in DOMAIN tc_cmds.class |-> <<"class", tc_cmds.class[k]>>]
  ELSE <<>>

TcFails(t, c) == IF c[1] = "qdisc" THEN c[2] \in t.root ELSE c[2][1] \notin t.root

TcEdit(t, c) ==
  IF c[1] = "qdisc" THEN [t EXCEPT !.root = @ \cup {c[2]}]
  ELSE [t EXCEPT !.class[c[2][1]][c[2][2]] = c[2][3]]

\* The kernel after the first k commands.
TcAfter ==
  LET after[k \in 0..Len(ToShape)] ==
        IF k = 0 THEN tc ELSE TcEdit(after[k-1], ToShape[k])
  IN  after

\* The numbers of commands that the batch may get through.
TcReaches ==
  {k \in 0..Len(ToShape) : \A j \in 1..k : ~ TcFails(TcAfter[j-1], ToShape[j])}

TcOk == Len(ToShape) \in TcReaches

RunBatchShaped ==
  /\ RunBatch
  /\ TcOk
  /\ tc' = TcAfter[Len(ToShape)]
  /\ tc_cmds' = NoTc
  /\ UNCHANGED shaped_ifaces

TcError ==
  /\ pc = "batch"
  /\ ~ TcOk
  /\ Raise
  /\ tc' = TcAfter[CHOOSE k \in TcReaches : \A j \in TcReaches : j <= k]
  /\ UNCHANGED <<failures, bridge, kernelVars, shaped_ifaces, tc_cmds>>

\* The environment lets the ip batch fail, or the tc batch on its way.
BatchFails ==
  /\ Failure("batch")
  /\ \E k \in TcReaches \ ({Len(ToShape)} \ {0}) : tc' = TcAfter[k]
  /\ UNCHANGED <<shaped_ifaces, tc_cmds>>

\* A new executor after the checks: reset_simulation_step.
CheckPassesShaped ==
  /\ CheckPasses
  /\ tc_cmds' = NoTc
  /\ UNCHANGED <<shaped_ifaces, tc>>

\* ConnectionDummy.reset: shaped_ifaces is emptied, and the cleanup commands
\* delete the root qdiscs.
AbortShaped ==
  /\ Abort
  /\ shaped_ifaces' = {}
  /\ tc_cmds' = NoTc
  /\ tc' = NoShape
  /\ late' = FALSE /\ redone' = FALSE

\* Steps that fail in tc again and again add a copy of their rules each time.
BeginShaped(m) ==
  /\ \A d \in Directions : table.rules[d] <= MaxCopies
  /\ Begin(m)
  /\ UNCHANGED shapeVars

ShapedStep ==
  \/ \E m \in Inputs : BeginShaped(m)
  \/ \E p \in Pairs : ProcessPairShaped(p)
  \/ EndOfPairs /\ UNCHANGED shapeVars
  \/ RunBridge /\ UNCHANGED shapeVars
  \/ BridgeError /\ UNCHANGED shapeVars
  \/ RunEbtables /\ UNCHANGED shapeVars
  \/ EbtablesError /\ UNCHANGED shapeVars
  \/ RunBatchShaped
  \/ TcError
  \/ BatchFails
  \/ IpConfig /\ UNCHANGED shapeVars
  \/ CheckPassesShaped
  \/ CheckFails /\ UNCHANGED shapeVars
  \/ End /\ UNCHANGED shapeVars
  \/ \E point \in FailPoints \ {"batch"} : Failure(point) /\ UNCHANGED shapeVars

ShapedNext ==
  \/ /\ ShapedStep
     /\ late' = (late \/ (pc \in {"batch", "ipconfig", "check"} /\ pc' = "idle"))
     /\ redone' = (redone \/ (pc = "post" /\ outcome' = "failed"))
  \/ AbortShaped

ShapedSpec == ShapedInit /\ [][ShapedNext]_shapedVars

\* A step that was begun is executed to its end by the thread that holds the lock.
StepFairness == WF_shapedVars(pc # "idle" /\ ShapedNext)

FairShapedSpec == ShapedSpec /\ StepFairness
-----------------------------------------------------------------------------
(***************************************************************************)
(* As long as this holds nothing has gone wrong that a later step cannot   *)
(* make up for.  Otherwise only an abort helps: a step that fails once the *)
(* ebtables are committed leaves commands that were run already, and step  *)
(* 0, when it is repeated, clears the table of the bridge that it keeps.   *)
(***************************************************************************)
Intact == ~ late /\ ~ redone

(***************************************************************************)
(* After a step that ended well and left no command in the queue, exactly  *)
(* the wanted pairs can exchange frames: the connected ones are let        *)
(* through by the ebtables rules, all others are isolated                  *)
(* (doc/source/usage/network_backends.rst).  A step that failed while it   *)
(* changed the bridge or the ebtables leaves its commands in the queue,    *)
(* and the next step with a changed matrix makes up for them.  A second    *)
(* such failure is one too many: if a link came up, went down and comes up *)
(* again, then its third command is dropped as a duplicate of the first.   *)
(* And the connectivity checks find every new link of such a step working. *)
(***************************************************************************)
KernelFollowsMatrix ==
  Intact =>
    /\ pc = "check" => \A p \in NewPairs : CanTalk(p)
    /\ Settled /\ queue.cmds = Shell!NoCommands =>
         \A p \in Pairs :
           IF p \in Wanted THEN CanTalk(p)
                          ELSE ~ Reaches(p[1], p[2]) /\ ~ Reaches(p[2], p[1])

(***************************************************************************)
(* What the network backend promises: the visible topology follows the     *)
(* wanted one in a single switch per step.  A failure that only an abort   *)
(* can repair ends the promise, the abort renews it.                       *)
(***************************************************************************)
Visible == {p \in Pairs : table.rules[p] > 0 /\ table.rules[Reverse(p)] > 0}

Topology == INSTANCE TopologySwitch WITH
  Links   <- Pairs,
  wanted  <- IF Intact THEN Wanted ELSE {},
  visible <- IF Intact THEN Visible ELSE {},
  busy    <- Intact /\ pc \in {"pairs", "bridge", "ebtables"}

\* The backend implements the abstract topology switch, liveness included.
ImplementsTopologySwitch == Topology!Spec

(***************************************************************************)
(* After a step that ended well and left no command in the queue, both     *)
(* taps of every wanted link have a class with the quality of the link's   *)
(* present distance, however often it went down and came back, and also if *)
(* a step failed before the tc batch.  A failure from there on may leave a *)
(* link with an old quality: the commands of a step without group order    *)
(* are dropped, and those of a batch that failed cannot be repeated.  So   *)
(* may a second failure: if a link is near, mid and near again before the  *)
(* commands are run, then the third command is dropped as a duplicate.     *)
(***************************************************************************)
LinksShaped ==
  Settled /\ ~ late /\ tc_cmds = NoTc =>
    \A p \in Wanted : \A n \in {p[1], p[2]} : tc.class[n][p] = distance_matrix[p]

(***************************************************************************)
(* shaped_ifaces is about commands that were asked for, not about those    *)
(* that were run.  As long as no step has failed once its commands had     *)
(* begun to run the two agree: no tc batch asks for a second root qdisc or *)
(* for a class without one, which would fail in every later step too.      *)
(***************************************************************************)
ShapingFailsForAReason == pc = "batch" /\ ~ TcOk => late
=============================================================================

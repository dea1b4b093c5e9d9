--------------------------- MODULE NodeBoot_proofs ---------------------------
(***************************************************************************)
(* Proofs about the start of nodes: no booted machine is forgotten, and    *)
(* whoever comes up is fresh, whether it was booted or resumed.            *)
(*                                                                         *)
(* Both need to know what every thread has done so far: no ready machine   *)
(* is left when a new one is started; a snapshot under the name of the     *)
(* stored scenario is one of that scenario unless the node is behind or    *)
(* its process is about to be ended; and a scenario that came up has its   *)
(* snapshots.  NodeInv says so for one node, CallInv and LastUpInv relate  *)
(* the calls, the lock and the stored scenario.                            *)
(***************************************************************************)
EXTENDS NodeBoot, TLAPS
-----------------------------------------------------------------------------
(***************************************************************************)
(* The values of the variables.                                            *)
(***************************************************************************)

\* The names under which snapshots are kept.
Names == {NameOf[s] : s \in Scenarios}

\* What runs in a machine.
Guest == [image : Scenarios, options : Scenarios, commands : Nat, used : BOOLEAN]

\* The snapshots of a machine by name.
Snapshots == UNION {[D -> Guest] : D \in SUBSET Names}

\* A qemu process.
Process ==
  [state : {"alive", "lost", "killed"}, ready : BOOLEAN, snapshots : Snapshots, guest : Guest]

\* The calls of simulation_start.
Calls == [scn : Scenarios, blocking : BOOLEAN]

\* The places of a thread.
Labels == {"idle", "begin", "load", "spawn", "boot", "commands", "save", "done", "failed"}

\* The variables of the model hold what the program keeps in them.
TypeOK ==
  /\ snapshot_boot \in BOOLEAN
  /\ scenario \in Scenarios \cup {NoScenario}
  /\ scenario_changed \in BOOLEAN
  /\ waiting \in Calls \cup {NoCall}
  /\ started \in Calls \cup {NoCall}
  /\ phase \in {"idle", "starting", "saving", "up", "running"}
  /\ backend \in BOOLEAN
  /\ pc \in [Nodes -> Labels]
  /\ booted_from_snapshot \in [Nodes -> BOOLEAN]
  /\ singleton \in [Nodes -> Nat]
  /\ procs \in [Nodes -> Seq(Process)]
  /\ behind \in SUBSET Nodes
  /\ last_up \in Scenarios \cup {NoScenario}
  /\ repeat \in BOOLEAN
  /\ flawed \in BOOLEAN
  /\ unreplaced \in SUBSET Nodes
-----------------------------------------------------------------------------
(***************************************************************************)
(* The inductive invariant.                                                *)
(***************************************************************************)

\* The call, the threads and the stored scenario fit together.
CallInv ==
  /\ phase # "idle" => started \in Calls
  /\ waiting # NoCall => waiting \in Calls /\ scenario = waiting.scn
  /\ ~Starting => \A n \in Nodes : pc[n] = "idle"
  /\ Starting => \A n \in Nodes : pc[n] = "idle" <=> n \notin StartNodes
  /\ Starting /\ waiting = NoCall => scenario = started.scn
  /\ Starting /\ waiting # NoCall => behind = Nodes /\ ~repeat
  /\ Starting => scenario \in Scenarios /\ last_up = NoScenario
  /\ phase = "saving" => snapshot_boot
  /\ phase = "starting" => \A n \in Nodes : pc[n] # "save"
  /\ phase = "saving" => \A n \in Nodes : pc[n] \in {"idle", "save", "done", "failed"}
  /\ Starting /\ repeat => ~scenario_changed

\* What is known of the scenario that came up last.
LastUpInv ==
  last_up # NoScenario =>
    /\ waiting = NoCall => scenario = last_up
    /\ waiting # NoCall /\ waiting.scn = last_up => ~scenario_changed

\* A machine that is alive and has booted.
Alive(n, k) == procs[n][k].state = "alive"
Ready(n, k) == Alive(n, k) /\ procs[n][k].ready

\* The owner of every machine of a node, and no ready machine beside a new one.
OwnerInv(n) ==
  /\ singleton[n] <= Last(n)
  /\ snapshot_boot => \A k \in 1..Last(n) : Ready(n, k) => singleton[n] = k
  /\ ~snapshot_boot => \A k \in 1..Last(n) : Alive(n, k) => <<n, k>> \in owned
  /\ snapshot_boot /\ pc[n] \in {"spawn", "boot"} => \A k \in 1..Last(n) : ~Ready(n, k)

\* The names of the snapshots of a node, and the one the stored scenario would be resumed from.
Snaps(n) == DOMAIN Proc(n).snapshots
Snapshot(n) == Proc(n).snapshots[NameOf[scenario]]

\* The labels of a thread whose machine is up.
Booted == {"commands", "done", "save"}

\* What the thread of a node knows about the process it talks to.
ThreadInv(n) ==
  /\ pc[n] \in {"begin", "load", "spawn", "boot"} => ~booted_from_snapshot[n]
  /\ pc[n] = "boot" => Last(n) > 0
  /\ Last(n) > 0 /\ Snaps(n) # {} => snapshot_boot /\ singleton[n] = Last(n)
  /\ pc[n] = "load" => singleton[n] # NoProcess
  /\ pc[n] \in Booted => Last(n) > 0
  /\ pc[n] \in Booted /\ booted_from_snapshot[n] => singleton[n] # NoProcess
  /\ snapshot_boot /\ pc[n] \in Booted /\ ~booted_from_snapshot[n] => singleton[n] = Last(n)
  /\ pc[n] \in {"boot", "commands", "save"} \/ (pc[n] = "done" /\ phase = "starting")
       => booted_from_snapshot[n] \/ Snaps(n) = {}

\* The commands of the scenario in the machine and in its snapshots.
CommandsInv(n) ==
  /\ Last(n) > 0 => \A m \in Snaps(n) : Proc(n).snapshots[m].commands <= 1
  /\ Listening(n) =>
       /\ Proc(n).guest.commands <= 2
       /\ pc[n] = "boot" => Proc(n).guest.commands = 0
       /\ pc[n] = "commands" => Proc(n).guest.commands <= 1
       /\ pc[n] = "commands" /\ ~booted_from_snapshot[n] => Proc(n).guest.commands = 0
       /\ pc[n] \in {"done", "save"} /\ ~booted_from_snapshot[n] => Proc(n).guest.commands <= 1

\* The guest runs a scenario as if it had just been booted.
FreshFor(g, s) == g.image = s /\ g.options = s /\ ~g.used

\* So does the snapshot that the stored scenario would be resumed from, if there is one.
FreshSnapshot(n) == NameOf[scenario] \in Snaps(n) => FreshFor(Snapshot(n), scenario)

\* The comparison of scenarios will end the process before its snapshot is looked for.
Pending(n) == scenario_changed /\ (waiting # NoCall \/ pc[n] = "begin")

\* Snapshots and guests are those of the scenario that is started.
FreshInv(n) ==
  /\ scenario # NoScenario /\ n \in NodesOf[scenario] \ behind /\ ~Pending(n) /\ Listening(n)
       => FreshSnapshot(n)
  /\ Starting /\ waiting = NoCall /\ pc[n] \in Booted \cup {"boot"} /\ ~booted_from_snapshot[n]
       => FreshSnapshot(n)
  /\ Starting /\ waiting = NoCall /\ pc[n] \in Booted \cup {"boot"} /\ Listening(n)
     /\ (n \notin behind \/ ~booted_from_snapshot[n])
       => FreshFor(Proc(n).guest, started.scn)
  /\ phase = "up" /\ n \in StartNodes \ behind /\ Listening(n)
       => FreshFor(Proc(n).guest, started.scn)

\* A scenario that came up has its snapshots, and a start of it again finds them.
ResumeInv(n) ==
  snapshot_boot =>
    /\ Starting /\ waiting = NoCall /\ Listening(n)
       /\ \/ pc[n] \in Booted /\ booted_from_snapshot[n]
          \/ pc[n] = "done" /\ phase = "saving" /\ ~flawed
         => NameOf[scenario] \in Snaps(n)
    /\ last_up # NoScenario /\ n \in NodesOf[last_up]
         => /\ singleton[n] # NoProcess
            /\ Listening(n) => NameOf[last_up] \in Snaps(n)
    /\ Starting /\ repeat /\ n \in StartNodes
         => \/ pc[n] = "failed" \/ booted_from_snapshot[n]
            \/ /\ pc[n] \in {"begin", "load"}
               /\ singleton[n] # NoProcess
               /\ Listening(n) => NameOf[scenario] \in Snaps(n)
    /\ phase = "up" /\ repeat /\ n \in StartNodes => booted_from_snapshot[n]

\* All that is known of one node.
NodeInv(n) ==
  OwnerInv(n) /\ ThreadInv(n) /\ CommandsInv(n) /\ FreshInv(n) /\ ResumeInv(n)

\* The inductive invariant.
Inv ==
  /\ TypeOK
  /\ snapshot_boot => owned = {}
  /\ CallInv /\ LastUpInv
  /\ \A n \in Nodes : NodeInv(n)
-----------------------------------------------------------------------------
(***************************************************************************)
(* How the processes of a node change.                                     *)
(***************************************************************************)

\* A node that a step does not touch.
Same(n) ==
  /\ pc'[n] = pc[n] /\ booted_from_snapshot'[n] = booted_from_snapshot[n]
  /\ singleton'[n] = singleton[n] /\ procs'[n] = procs[n]

\* The state all nodes share is left alone, or changed so that less is claimed.
Quiet ==
  /\ UNCHANGED <<globalVars, waiting, started, phase>>
  /\ owned \subseteq owned'
  /\ behind \subseteq behind'
  /\ last_up' = last_up \/ last_up' = NoScenario
  /\ repeat' = repeat
  /\ flawed => flawed'

\* What is known of a node stays true when a step touches neither it nor the shared state.
LEMMA Frame ==
  ASSUME NEW n, NodeInv(n), Same(n), Quiet
  PROVE  NodeInv(n)'
<1>1. Last(n)' = Last(n) /\ Proc(n)' = Proc(n)
  BY DEF Same, Last, Proc
<1>2. Listening(n)' = Listening(n) /\ Snaps(n)' = Snaps(n)
  BY <1>1 DEF Listening, Snaps
<1>3. \A k : Alive(n, k)' = Alive(n, k) /\ Ready(n, k)' = Ready(n, k)
  BY DEF Alive, Ready, Same
<1>4. OwnerInv(n)'
  BY <1>1, <1>3 DEF NodeInv, OwnerInv, Same, Quiet, globalVars
<1>5. ThreadInv(n)' /\ CommandsInv(n)'
  BY <1>1, <1>2 DEF NodeInv, ThreadInv, CommandsInv, Same, Quiet, globalVars
<1>6. FreshInv(n)'
  <2>1. FreshSnapshot(n)' = FreshSnapshot(n) /\ Pending(n)' = Pending(n) /\ Starting' = Starting
    BY <1>1, <1>2 DEF FreshSnapshot, Snapshot, FreshFor, Quiet, globalVars, Pending, Same, Starting
  <2> QED
    BY <1>1, <1>2, <2>1 DEF NodeInv, FreshInv, FreshFor, Quiet, globalVars, Same, StartNodes
<1>7. ResumeInv(n)'
  BY <1>1, <1>2 DEF NodeInv, ResumeInv, Quiet, globalVars, Same, StartNodes, Starting
<1> QED
  BY <1>4, <1>5, <1>6, <1>7 DEF NodeInv

\* A process of a node is replaced by another value.
LEMMA ChangeProcess ==
  ASSUME TypeOK, NEW n \in Nodes, NEW k \in 1..Last(n), NEW p \in Process,
         procs' = [procs EXCEPT ![n] = [procs[n] EXCEPT ![k] = p]]
  PROVE  /\ procs' \in [Nodes -> Seq(Process)]
         /\ Last(n)' = Last(n)
         /\ procs'[n][k] = p
         /\ \A j \in 1..Last(n) : j # k => procs'[n][j] = procs[n][j]
         /\ \A m \in Nodes \ {n} : procs'[m] = procs[m]
<1>1. procs \in [Nodes -> Seq(Process)] /\ procs[n] \in Seq(Process)
  BY DEF TypeOK
<1>2. k \in 1..Len(procs[n])
  BY DEF Last
<1> DEFINE q == [procs[n] EXCEPT ![k] = p]
<1>3. /\ q \in Seq(Process) /\ Len(q) = Len(procs[n]) /\ q[k] = p
      /\ \A j \in 1..Len(procs[n]) : j # k => q[j] = procs[n][j]
  BY <1>1, <1>2
<1>4. procs' = [procs EXCEPT ![n] = q]
  OBVIOUS
<1> HIDE DEF q
<1> QED
  BY <1>1, <1>3, <1>4 DEF Last

\* The process of a node that is there has its type.
LEMMA ProcessType ==
  ASSUME TypeOK, NEW n \in Nodes
  PROVE  /\ Last(n) \in Nat
         /\ \A k \in 1..Last(n) : procs[n][k] \in Process
         /\ Last(n) > 0 => Last(n) \in 1..Last(n) /\ Proc(n) = procs[n][Last(n)] /\ Proc(n) \in Process
<1>1. procs[n] \in Seq(Process)
  BY DEF TypeOK
<1> QED
  BY <1>1 DEF Last, Proc

\* A process that is ended loses its life and nothing else.
LEMMA EndProcess ==
  ASSUME TypeOK, NEW n \in Nodes, NEW k \in 1..Last(n), NEW how \in {"lost", "killed"},
         procs' = Ended(n, k, how)
  PROVE  /\ procs' \in [Nodes -> Seq(Process)]
         /\ Last(n)' = Last(n)
         /\ procs'[n][k].state # "alive"
         /\ \A j \in 1..Last(n) : /\ procs'[n][j].ready = procs[n][j].ready
                                  /\ procs'[n][j].snapshots = procs[n][j].snapshots
                                  /\ procs'[n][j].guest = procs[n][j].guest
                                  /\ procs'[n][j].state = "alive" => procs[n][j].state = "alive"
         /\ \A m \in Nodes \ {n} : procs'[m] = procs[m]
<1> DEFINE s == IF procs[n][k].state = "alive" THEN how ELSE procs[n][k].state
           p == [procs[n][k] EXCEPT !.state = s]
<1>1. procs[n][k] \in Process
  BY ProcessType
<1>2. s \in {"alive", "lost", "killed"} /\ s # "alive"
  BY <1>1 DEF Process
<1>3. /\ p \in Process /\ p.state # "alive" /\ p.ready = procs[n][k].ready
      /\ p.snapshots = procs[n][k].snapshots /\ p.guest = procs[n][k].guest
  <2> HIDE DEF s
  <2> QED BY <1>1, <1>2 DEF Process
<1>4. procs' = [procs EXCEPT ![n] = [procs[n] EXCEPT ![k] = p]]
  BY DEF Ended
<1> HIDE DEF p
<1>5. /\ procs' \in [Nodes -> Seq(Process)]
      /\ Last(n)' = Last(n)
      /\ procs'[n][k] = p
      /\ \A j \in 1..Last(n) : j # k => procs'[n][j] = procs[n][j]
      /\ \A m \in Nodes \ {n} : procs'[m] = procs[m]
  BY <1>3, <1>4, ChangeProcess
<1> QED
  BY <1>3, <1>5

\* A machine that boots is a process without snapshots.
LEMMA NewProcess ==
  ASSUME TypeOK, CallInv, Starting
  PROVE  /\ Booting \in Process
         /\ Booting.state = "alive" /\ Booting.ready = FALSE
         /\ DOMAIN Booting.snapshots = {}
         /\ Booting.guest.image = started.scn /\ Booting.guest.options = scenario
         /\ Booting.guest.commands = 0 /\ Booting.guest.used = FALSE
<1>1. started.scn \in Scenarios /\ scenario \in Scenarios
  BY DEF CallInv, Starting, Calls
<1>2. << >> \in Snapshots /\ DOMAIN << >> = {}
  <2>1. << >> \in [{} -> Guest] /\ DOMAIN << >> = {}
    OBVIOUS
  <2>2. {} \in SUBSET Names
    OBVIOUS
  <2> QED
    BY <2>1, <2>2 DEF Snapshots
<1> QED
  BY <1>1, <1>2 DEF Booting, Process, Guest

\* The process a node talks to is replaced by another value.
LEMMA ChangeLast ==
  ASSUME TypeOK, NEW n \in Nodes, Last(n) > 0, NEW p \in Process,
         procs' = [procs EXCEPT ![n] = [procs[n] EXCEPT ![Last(n)] = p]]
  PROVE  /\ procs' \in [Nodes -> Seq(Process)]
         /\ Last(n)' = Last(n) /\ Proc(n)' = p
         /\ procs'[n][Last(n)] = p
         /\ \A j \in 1..Last(n) : j # Last(n) => procs'[n][j] = procs[n][j]
         /\ \A m \in Nodes \ {n} : procs'[m] = procs[m]
<1>1. Last(n) \in 1..Last(n)
  BY ProcessType
<1>2. /\ procs' \in [Nodes -> Seq(Process)]
      /\ Last(n)' = Last(n)
      /\ procs'[n][Last(n)] = p
      /\ \A j \in 1..Last(n) : j # Last(n) => procs'[n][j] = procs[n][j]
      /\ \A m \in Nodes \ {n} : procs'[m] = procs[m]
  BY <1>1, ChangeProcess
<1>3. Proc(n)' = procs'[n][Last(n)']
  BY DEF Proc
<1> QED
  BY <1>2, <1>3
-----------------------------------------------------------------------------
(***************************************************************************)
(* The thread of a node.                                                   *)
(***************************************************************************)

\* A step of one node's thread preserves the invariant if it leaves the other nodes alone.
LEMMA OneNode ==
  ASSUME Inv, NEW n \in Nodes, Quiet, \A m \in Nodes \ {n} : Same(m),
         TypeOK', snapshot_boot => owned' = {}, NodeInv(n)',
         pc'[n] = "idle" <=> pc[n] = "idle",
         phase = "starting" => pc'[n] # "save",
         phase = "saving" => pc'[n] \in {"idle", "save", "done", "failed"}
  PROVE  Inv'
<1>1. \A m \in Nodes \ {n} : NodeInv(m)'
  <2> TAKE m \in Nodes \ {n}
  <2>1. NodeInv(m) /\ Same(m)
    BY DEF Inv
  <2> QED BY <2>1, Frame
<1>2. \A m \in Nodes \ {n} : pc'[m] = pc[m]
  BY DEF Same
<1>3. CallInv'
  <2>1. CallInv /\ TypeOK
    BY DEF Inv
  <2>2. behind = Nodes => behind' = Nodes
    BY DEF TypeOK, Quiet
  <2> QED BY <1>2, <2>1, <2>2 DEF CallInv, Quiet, globalVars, Starting, StartNodes
<1>4. LastUpInv'
  BY DEF Inv, LastUpInv, Quiet, globalVars
<1> QED
  BY <1>1, <1>3, <1>4 DEF Inv, Quiet, globalVars

\* The thread of a node goes on; only what belongs to the node changes.
ThreadStep(n, label) ==
  /\ Goto(n, label) /\ UNCHANGED startVars
  /\ booted_from_snapshot' \in [Nodes -> BOOLEAN]
  /\ singleton' \in [Nodes -> Nat]
  /\ procs' \in [Nodes -> Seq(Process)]
  /\ \A m \in Nodes \ {n} : /\ booted_from_snapshot'[m] = booted_from_snapshot[m]
                            /\ singleton'[m] = singleton[m]
                            /\ procs'[m] = procs[m]
  /\ owned \subseteq owned' /\ (snapshot_boot => owned' = {})
  /\ behind \subseteq behind' /\ behind' \subseteq Nodes
  /\ last_up' = last_up /\ repeat' = repeat
  /\ flawed' \in BOOLEAN /\ (flawed => flawed')
  /\ unreplaced' \subseteq Nodes

\* The phases in which a thread comes to a label.
InPhase(label) ==
  /\ phase = "starting" => label # "save"
  /\ phase = "saving" => label \in {"save", "done", "failed"}

\* Such a step preserves the invariant if it does so for its node.
LEMMA ThreadMoves ==
  ASSUME Inv, NEW n \in Nodes, NEW label \in Labels \ {"idle"}, pc[n] # "idle",
         ThreadStep(n, label), InPhase(label), NodeInv(n)'
  PROVE  Inv'
<1>1. Quiet
  BY DEF Quiet, ThreadStep, startVars, callVars, globalVars
<1>2. pc \in [Nodes -> Labels] /\ pc'[n] = label /\ pc' \in [Nodes -> Labels]
      /\ \A m \in Nodes \ {n} : pc'[m] = pc[m]
  BY DEF Inv, TypeOK, Goto, ThreadStep
<1>3. \A m \in Nodes \ {n} : Same(m)
  BY <1>2 DEF Same, ThreadStep
<1>4. TypeOK'
  BY <1>2 DEF Inv, TypeOK, startVars, callVars, globalVars, ThreadStep
<1>5. snapshot_boot => owned' = {}
  BY DEF ThreadStep
<1> QED
  BY <1>1, <1>2, <1>3, <1>4, <1>5, OneNode DEF InPhase

\* What the invariant says of one node.
LEMMA Known ==
  ASSUME Inv, NEW n \in Nodes
  PROVE  /\ TypeOK /\ CallInv /\ OwnerInv(n) /\ ThreadInv(n) /\ CommandsInv(n)
         /\ FreshInv(n) /\ ResumeInv(n)
         /\ Last(n) \in Nat /\ singleton[n] \in Nat
         /\ pc[n] # "idle" => Starting /\ n \in StartNodes /\ last_up = NoScenario
         /\ Starting => scenario \in Scenarios /\ started.scn \in Scenarios
         /\ booted_from_snapshot[n] \in BOOLEAN
<1>1. TypeOK /\ CallInv /\ NodeInv(n)
  BY DEF Inv
<1> QED
  BY <1>1, ProcessType DEF NodeInv, CallInv, TypeOK, Calls, Starting

\* The search for an old process preserves the invariant: a changed scenario ends it.
LEMMA FindProcessStep ==
  ASSUME Inv, NEW n \in Nodes, FindProcess(n)
  PROVE  Inv'
<1>1. /\ TypeOK /\ CallInv /\ OwnerInv(n) /\ ThreadInv(n) /\ CommandsInv(n)
      /\ FreshInv(n) /\ ResumeInv(n)
  BY Known
<1>2. phase = "starting" /\ pc[n] = "begin" /\ n \in StartNodes /\ ~booted_from_snapshot[n]
      /\ last_up = NoScenario /\ Starting
  BY <1>1 DEF FindProcess, CallInv, ThreadInv, Starting, TypeOK
<1> DEFINE kill == snapshot_boot /\ singleton[n] # NoProcess /\ scenario_changed
           load == snapshot_boot /\ singleton[n] # NoProcess /\ ~scenario_changed
<1>3. /\ UNCHANGED <<startVars, booted_from_snapshot, singleton, owned, troubles, ghostVars>>
      /\ kill => procs' = Ended(n, singleton[n], "killed") /\ Goto(n, "spawn")
      /\ load => procs' = procs /\ Goto(n, "load")
      /\ ~kill /\ ~load => procs' = procs /\ Goto(n, "spawn")
  BY DEF FindProcess
<1>4. Last(n) \in Nat /\ singleton[n] \in Nat
  BY <1>1, ProcessType DEF TypeOK
<1>5. CASE ~kill
  <2>1. Last(n)' = Last(n) /\ Proc(n)' = Proc(n) /\ procs' = procs
    BY <1>3, <1>5 DEF Last, Proc
  <2>2. Listening(n)' = Listening(n) /\ Snaps(n)' = Snaps(n)
    BY <2>1 DEF Listening, Snaps
  <2>3. pc'[n] = IF load THEN "load" ELSE "spawn"
    BY <1>1, <1>3, <1>5 DEF TypeOK, Goto
  <2>4. OwnerInv(n)'
    BY <1>1, <1>3, <1>4, <1>5, <2>1, <2>3 DEF OwnerInv, Alive, Ready, startVars, globalVars, NoProcess
  <2>5. ThreadInv(n)' /\ CommandsInv(n)'
    BY <1>1, <1>2, <1>3, <1>5, <2>1, <2>2, <2>3
    DEF ThreadInv, CommandsInv, Booted, startVars, globalVars
  <2>6. FreshInv(n)'
    <3>1. FreshSnapshot(n)' = FreshSnapshot(n)
      BY <1>3, <2>1, <2>2 DEF FreshSnapshot, Snapshot, FreshFor, startVars, globalVars
    <3>2. ~load /\ Last(n) > 0 => Snaps(n) = {} \/ ~scenario_changed
      BY <1>1, <1>4, <1>5 DEF ThreadInv, NoProcess
    <3> QED
      BY <1>1, <1>2, <1>3, <1>5, <2>1, <2>2, <2>3, <3>1, <3>2
      DEF FreshInv, FreshFor, Booted, startVars, globalVars, callVars, ghostVars, Pending,
          Starting, FreshSnapshot, Listening
  <2>7. ResumeInv(n)'
    BY <1>1, <1>2, <1>3, <1>5, <2>1, <2>2, <2>3
    DEF ResumeInv, CallInv, Booted, startVars, globalVars, callVars, ghostVars, Starting, StartNodes
  <2> QED
    <3>1. NodeInv(n)'
      BY <2>4, <2>5, <2>6, <2>7 DEF NodeInv
    <3>2. Goto(n, IF load THEN "load" ELSE "spawn")
      BY <1>3, <1>5
    <3>3. ThreadStep(n, IF load THEN "load" ELSE "spawn")
      BY <1>1, <1>3, <2>1, <3>2 DEF ThreadStep, TypeOK, Inv, ghostVars
    <3> QED
      BY <1>2, <3>1, <3>3, ThreadMoves DEF Labels, InPhase
<1>6. CASE kill
  <2>1. singleton[n] \in 1..Last(n) /\ procs' = Ended(n, singleton[n], "killed")
    BY <1>1, <1>3, <1>4, <1>6 DEF OwnerInv, NoProcess
  <2>2. /\ procs' \in [Nodes -> Seq(Process)]
        /\ Last(n)' = Last(n)
        /\ procs'[n][singleton[n]].state # "alive"
        /\ \A j \in 1..Last(n) : /\ procs'[n][j].ready = procs[n][j].ready
                                 /\ procs'[n][j].snapshots = procs[n][j].snapshots
                                 /\ procs'[n][j].guest = procs[n][j].guest
                                 /\ procs'[n][j].state = "alive" => procs[n][j].state = "alive"
        /\ \A m \in Nodes \ {n} : procs'[m] = procs[m]
    BY <1>1, <2>1, EndProcess
  <2>3. /\ Proc(n)'.snapshots = Proc(n).snapshots /\ Proc(n)'.guest = Proc(n).guest
        /\ Listening(n)' => Listening(n) /\ singleton[n] # Last(n)
        /\ Snaps(n)' = Snaps(n) /\ Last(n) > 0
    BY <1>4, <2>1, <2>2 DEF Proc, Listening, Snaps
  <2>4. pc'[n] = "spawn" /\ pc' \in [Nodes -> Labels] /\ \A m \in Nodes \ {n} : pc'[m] = pc[m]
    BY <1>1, <1>3, <1>6 DEF TypeOK, Goto, Labels
  <2>5. OwnerInv(n)'
    BY <1>1, <1>3, <1>4, <1>6, <2>1, <2>2, <2>4 DEF OwnerInv, Ready, Alive, startVars, globalVars, NoProcess
  <2>6. ThreadInv(n)' /\ CommandsInv(n)'
    BY <1>1, <1>2, <1>3, <1>6, <2>2, <2>3, <2>4
    DEF ThreadInv, CommandsInv, Booted, startVars, globalVars
  <2>7. FreshInv(n)'
    <3>1. ~Listening(n)' \/ Snaps(n)' = {}
      BY <1>1, <2>3 DEF ThreadInv
    <3> QED
      BY <1>2, <1>3, <1>6, <2>4, <3>1
      DEF FreshInv, FreshSnapshot, Booted, startVars, Listening
  <2>8. ResumeInv(n)'
    BY <1>1, <1>2, <1>3, <1>6, <2>2, <2>3, <2>4
    DEF ResumeInv, CallInv, Booted, startVars, globalVars, callVars, ghostVars, Starting, StartNodes
  <2>9. NodeInv(n)'
    BY <2>5, <2>6, <2>7, <2>8 DEF NodeInv
  <2>10. ThreadStep(n, "spawn")
    BY <1>1, <1>3, <1>6, <2>2 DEF ThreadStep, TypeOK, Inv, ghostVars
  <2> QED
    BY <1>2, <2>9, <2>10, ThreadMoves DEF Labels, InPhase
<1> QED
  BY <1>5, <1>6

\* A thread that fails claims nothing of its node.
LEMMA ThreadFails ==
  ASSUME Inv, NEW n \in Nodes, pc[n] # "idle", ThreadStep(n, "failed"),
         UNCHANGED <<booted_from_snapshot, singleton, procs>>, pc[n] # "begin" \/ n \in behind'
  PROVE  Inv'
<1>1. /\ TypeOK /\ CallInv /\ OwnerInv(n) /\ ThreadInv(n) /\ CommandsInv(n)
      /\ FreshInv(n) /\ ResumeInv(n) /\ Starting /\ last_up = NoScenario
  BY Known
<1>2. Last(n)' = Last(n) /\ Proc(n)' = Proc(n)
  BY DEF Last, Proc
<1>3. Listening(n)' = Listening(n) /\ Snaps(n)' = Snaps(n)
  BY <1>2 DEF Listening, Snaps
<1>4. pc'[n] = "failed" /\ UNCHANGED startVars /\ UNCHANGED <<last_up, repeat>>
      /\ owned \subseteq owned' /\ behind \subseteq behind' /\ (flawed => flawed')
  BY <1>1 DEF TypeOK, Goto, ThreadStep
<1>5. OwnerInv(n)'
  BY <1>1, <1>2, <1>4 DEF OwnerInv, Alive, Ready, startVars, globalVars
<1>6. ThreadInv(n)' /\ CommandsInv(n)'
  BY <1>1, <1>2, <1>3, <1>4 DEF ThreadInv, CommandsInv, Booted, startVars, globalVars
<1>7. FreshInv(n)'
  <2>1. FreshSnapshot(n)' = FreshSnapshot(n)
    BY <1>2, <1>3, <1>4 DEF FreshSnapshot, Snapshot, FreshFor, startVars, globalVars
  <2>2. n \in behind' \/ ~(Pending(n) /\ ~Pending(n)')
    BY <1>4 DEF Pending, startVars, globalVars, callVars
  <2>3. phase' # "up"
    BY <1>1, <1>4 DEF Starting, startVars
  <2> QED
    BY <1>1, <1>3, <1>4, <2>1, <2>2, <2>3 DEF FreshInv, Booted, startVars, globalVars
<1>8. ResumeInv(n)'
  BY <1>1, <1>2, <1>3, <1>4
  DEF ResumeInv, Booted, startVars, globalVars, callVars, Starting, StartNodes
<1> QED
  BY <1>5, <1>6, <1>7, <1>8, ThreadMoves DEF NodeInv, Labels, InPhase

\* A network that cannot be set up, a process that cannot be started, or a timeout, preserves the invariant.
LEMMA FailStep ==
  ASSUME Inv, NEW n \in Nodes, NetworkFails(n) \/ SpawnFails(n) \/ TimesOut(n)
  PROVE  Inv'
<1>1. ThreadStep(n, "failed")
  BY DEF Inv, TypeOK, ThreadStep, NetworkFails, SpawnFails, TimesOut, qemuVars, ghostVars
<1>2. UNCHANGED <<booted_from_snapshot, singleton, procs>> /\ (pc[n] # "begin" \/ n \in behind')
      /\ pc[n] # "idle"
  BY DEF NetworkFails, SpawnFails, TimesOut, qemuVars, UsesSocket
<1> QED
  BY <1>1, <1>2, ThreadFails

\* A refused savevm preserves the invariant: the start is flawed, not its guests.
LEMMA SaveRefusedStep ==
  ASSUME Inv, NEW n \in Nodes, SaveRefused(n)
  PROVE  Inv'
<1>1. /\ TypeOK /\ CallInv /\ OwnerInv(n) /\ ThreadInv(n) /\ CommandsInv(n)
      /\ FreshInv(n) /\ ResumeInv(n) /\ Starting /\ last_up = NoScenario
  BY Known DEF SaveRefused
<1>2. Last(n)' = Last(n) /\ Proc(n)' = Proc(n)
  BY DEF Last, Proc, SaveRefused, qemuVars
<1>3. Listening(n)' = Listening(n) /\ Snaps(n)' = Snaps(n)
  BY <1>2 DEF Listening, Snaps
<1>4. pc'[n] = "done" /\ pc[n] = "save" /\ phase = "saving" /\ ~booted_from_snapshot[n]
  BY <1>1 DEF TypeOK, Goto, SaveRefused, CallInv, Starting
<1>5. UNCHANGED startVars /\ UNCHANGED <<booted_from_snapshot, singleton, procs, owned>>
      /\ UNCHANGED <<behind, last_up, repeat>> /\ flawed' = TRUE
  BY DEF SaveRefused, qemuVars
<1>6. OwnerInv(n)'
  BY <1>1, <1>2, <1>4, <1>5 DEF OwnerInv, Alive, Ready, startVars, globalVars
<1>7. ThreadInv(n)' /\ CommandsInv(n)'
  BY <1>1, <1>2, <1>3, <1>4, <1>5 DEF ThreadInv, CommandsInv, Booted, startVars, globalVars
<1>8. FreshInv(n)'
  <2>1. FreshSnapshot(n)' = FreshSnapshot(n) /\ (Pending(n) => Pending(n)')
        /\ Starting' = Starting /\ phase' # "up"
    BY <1>2, <1>3, <1>4, <1>5
    DEF FreshSnapshot, Snapshot, FreshFor, startVars, globalVars, callVars, Pending, Starting
  <2> QED
    BY <1>1, <1>2, <1>3, <1>4, <1>5, <2>1
    DEF FreshInv, FreshFor, Booted, startVars, globalVars, callVars
<1>9. ResumeInv(n)'
  BY <1>1, <1>2, <1>3, <1>4, <1>5
  DEF ResumeInv, Booted, startVars, globalVars, callVars, Starting, StartNodes
<1>10. ThreadStep(n, "done")
  BY <1>5 DEF Inv, TypeOK, ThreadStep, SaveRefused
<1> QED
  BY <1>4, <1>6, <1>7, <1>8, <1>9, <1>10, ThreadMoves DEF NodeInv, Labels, InPhase

\* A connection that breaks preserves the invariant: nothing is claimed of a dead machine.
LEMMA ConnectionLostStep ==
  ASSUME Inv, NEW n \in Nodes, ConnectionLost(n)
  PROVE  Inv'
<1>1. /\ TypeOK /\ CallInv /\ OwnerInv(n) /\ ThreadInv(n) /\ CommandsInv(n)
      /\ FreshInv(n) /\ ResumeInv(n) /\ Starting /\ last_up = NoScenario
      /\ Last(n) \in Nat /\ singleton[n] \in Nat
  BY Known DEF ConnectionLost, UsesSocket
<1>2. /\ UNCHANGED startVars /\ UNCHANGED <<procs, owned, troubles, ghostVars>>
      /\ UsesSocket(n) /\ Last(n) > 0 /\ ~Listening(n) /\ pc[n] # "idle" /\ pc[n] # "begin"
  BY DEF ConnectionLost, Lost, Listening, UsesSocket
<1>3. CASE Goto(n, "failed") /\ UNCHANGED <<booted_from_snapshot, singleton>>
  <2>1. ThreadStep(n, "failed")
    BY <1>2, <1>3 DEF Inv, TypeOK, ThreadStep, ghostVars
  <2> QED
    BY <1>2, <1>3, <2>1, ThreadFails
<1> DEFINE early == pc[n] \in {"load", "boot"}
           label == IF early THEN "commands" ELSE "done"
<1>4. CASE /\ Goto(n, label)
           /\ booted_from_snapshot' = [booted_from_snapshot EXCEPT ![n] = @ \/ pc[n] = "load"]
           /\ IF early THEN Store(n) ELSE UNCHANGED singleton
  <2>1. Last(n)' = Last(n) /\ Proc(n)' = Proc(n)
    BY <1>2 DEF Last, Proc
  <2>2. Listening(n)' = FALSE /\ Snaps(n)' = Snaps(n)
    BY <1>2, <2>1 DEF Listening, Snaps
  <2>3. pc'[n] = label
    BY <1>1, <1>4 DEF TypeOK, Goto
  <2>4. /\ booted_from_snapshot' \in [Nodes -> BOOLEAN]
        /\ \A m \in Nodes \ {n} : booted_from_snapshot'[m] = booted_from_snapshot[m]
        /\ booted_from_snapshot'[n] <=> booted_from_snapshot[n] \/ pc[n] = "load"
    BY <1>1, <1>4, Zenon DEF TypeOK
  <2>5. /\ singleton' \in [Nodes -> Nat]
        /\ \A m \in Nodes \ {n} : singleton'[m] = singleton[m]
        /\ singleton'[n] = IF early /\ snapshot_boot /\ ~booted_from_snapshot'[n]
                           THEN Last(n) ELSE singleton[n]
    BY <1>1, <1>4 DEF TypeOK, Store
  <2>6. OwnerInv(n)'
    BY <1>1, <1>2, <2>1, <2>3, <2>4, <2>5
    DEF OwnerInv, Alive, Ready, startVars, globalVars, ThreadInv
  <2>7. ThreadInv(n)'
    BY <1>1, <1>2, <2>1, <2>2, <2>3, <2>4, <2>5
    DEF ThreadInv, Booted, startVars, globalVars, UsesSocket, NoProcess
  <2>8. CommandsInv(n)'
    BY <1>1, <1>2, <2>1, <2>2, <2>3, <2>4 DEF CommandsInv
  <2>9. FreshInv(n)'
    <3>1. FreshSnapshot(n)' = FreshSnapshot(n) /\ Starting' = Starting /\ phase' # "up"
      BY <1>1, <1>2, <2>1, <2>2
      DEF FreshSnapshot, Snapshot, FreshFor, startVars, globalVars, Starting
    <3>2. Starting /\ waiting = NoCall /\ ~booted_from_snapshot'[n] => FreshSnapshot(n)
      BY <1>1, <1>2, <2>4 DEF FreshInv, UsesSocket, Booted
    <3> QED
      BY <1>1, <1>2, <2>2, <3>1, <3>2 DEF FreshInv, startVars, callVars
  <2>10. ResumeInv(n)'
    BY <1>1, <1>2, <2>2, <2>3, <2>4, <2>5
    DEF ResumeInv, Booted, startVars, globalVars, callVars, Starting, StartNodes, UsesSocket, ghostVars
  <2>11. ThreadStep(n, label)
    BY <1>2, <1>4, <2>4, <2>5 DEF Inv, TypeOK, ThreadStep, ghostVars
  <2>12. InPhase(label)
    BY <1>1, <1>2 DEF InPhase, CallInv, UsesSocket
  <2> QED
    BY <1>2, <2>6, <2>7, <2>8, <2>9, <2>10, <2>11, <2>12, ThreadMoves DEF NodeInv, Labels
<1> QED
  BY <1>3, <1>4 DEF ConnectionLost

\* loadvm preserves the invariant: the snapshot is fresh, or the process is ended.
LEMMA LoadVmStep ==
  ASSUME Inv, NEW n \in Nodes, LoadVm(n)
  PROVE  Inv'
<1>1. /\ TypeOK /\ CallInv /\ OwnerInv(n) /\ ThreadInv(n) /\ CommandsInv(n)
      /\ FreshInv(n) /\ ResumeInv(n) /\ Starting /\ last_up = NoScenario /\ n \in StartNodes
      /\ Last(n) \in Nat /\ singleton[n] \in Nat
      /\ scenario \in Scenarios /\ started.scn \in Scenarios
  BY Known DEF LoadVm
<1>2. /\ UNCHANGED startVars /\ UNCHANGED <<singleton, owned, troubles, ghostVars>>
      /\ Last(n) > 0 /\ Listening(n) /\ pc[n] = "load" /\ ~booted_from_snapshot[n]
      /\ phase = "starting" /\ singleton[n] \in 1..Last(n)
      /\ Last(n) \in 1..Last(n) /\ Proc(n) = procs[n][Last(n)] /\ Proc(n) \in Process
  <2>1. singleton[n] # NoProcess /\ singleton[n] <= Last(n)
    BY <1>1 DEF LoadVm, ThreadInv, OwnerInv
  <2>2. Last(n) \in 1..Last(n) /\ Proc(n) = procs[n][Last(n)] /\ Proc(n) \in Process
    BY <1>1, ProcessType DEF LoadVm, Listening
  <2> QED
    BY <1>1, <2>1, <2>2 DEF LoadVm, Listening, ThreadInv, CallInv, Starting, NoProcess
<1>3. CASE NameOf[scenario] \in Snaps(n)
  <2> DEFINE g == Proc(n).snapshots[NameOf[scenario]]
             p == [Proc(n) EXCEPT !.guest = g]
  <2>1. g \in Guest /\ g.commands <= 1 /\ g = Snapshot(n)
    <3>1. Proc(n).snapshots \in Snapshots
      BY <1>2 DEF Process
    <3> QED
      BY <1>1, <1>2, <1>3, <3>1 DEF Snapshots, Snaps, CommandsInv, Snapshot
  <2>2. /\ p \in Process /\ p.state = "alive" /\ p.ready = Proc(n).ready
        /\ p.snapshots = Proc(n).snapshots /\ p.guest = g
    <3> HIDE DEF g
    <3> QED BY <1>2, <2>1 DEF Process, Listening
  <2>3. procs' = [procs EXCEPT ![n] = [procs[n] EXCEPT ![Last(n)] = p]]
    BY <1>2, <1>3 DEF LoadVm, Snaps
  <2>4. booted_from_snapshot' = [booted_from_snapshot EXCEPT ![n] = TRUE] /\ Goto(n, "commands")
    BY <1>3 DEF LoadVm, Snaps
  <2> HIDE DEF p
  <2>5. /\ procs' \in [Nodes -> Seq(Process)]
        /\ Last(n)' = Last(n) /\ Proc(n)' = p
        /\ procs'[n][Last(n)] = p
        /\ \A j \in 1..Last(n) : j # Last(n) => procs'[n][j] = procs[n][j]
        /\ \A m \in Nodes \ {n} : procs'[m] = procs[m]
    BY <1>1, <1>2, <2>2, <2>3, ChangeLast
  <2>6. pc'[n] = "commands" /\ booted_from_snapshot'[n]
    BY <1>1, <2>4 DEF TypeOK, Goto
  <2>7. Listening(n)' /\ Snaps(n)' = Snaps(n) /\ Snapshot(n)' = Snapshot(n) /\ scenario' = scenario
        /\ Proc(n)'.snapshots = Proc(n).snapshots /\ Proc(n)'.guest = Snapshot(n)
    BY <1>2, <2>1, <2>2, <2>5 DEF Listening, Snaps, Snapshot, startVars, globalVars
  <2>8. OwnerInv(n)'
    <3>1. \A j \in 1..Last(n) : /\ procs'[n][j].state = procs[n][j].state
                                /\ procs'[n][j].ready = procs[n][j].ready
      BY <1>2, <2>2, <2>5 DEF Listening
    <3> QED
      BY <1>1, <1>2, <2>5, <2>6, <3>1 DEF OwnerInv, Alive, Ready, startVars, globalVars
  <2>9. ThreadInv(n)' /\ CommandsInv(n)'
    <3>1. Snapshot(n).commands \in Nat /\ Snapshot(n).commands <= 1
      BY <2>1 DEF Guest
    <3> QED
      BY <1>1, <1>2, <1>3, <2>5, <2>6, <2>7, <3>1
      DEF ThreadInv, CommandsInv, Booted, startVars, globalVars, NoProcess
  <2>10. FreshInv(n)'
    <3>1. FreshSnapshot(n)' = FreshSnapshot(n) /\ Starting' /\ phase' # "up"
          /\ (Pending(n) => Pending(n)')
      BY <1>1, <1>2, <2>6, <2>7
      DEF FreshSnapshot, FreshFor, startVars, globalVars, callVars, Starting, Pending
    <3>2. waiting = NoCall /\ n \notin behind => FreshFor(Snapshot(n), started.scn)
      <4> SUFFICES ASSUME waiting = NoCall, n \notin behind PROVE FreshFor(Snapshot(n), started.scn)
        OBVIOUS
      <4>1. scenario = started.scn /\ ~Pending(n)
        BY <1>1, <1>2 DEF CallInv, Pending
      <4>2. scenario # NoScenario /\ n \in NodesOf[scenario]
        BY <1>1, <4>1, NodeBootAssumption DEF StartNodes
      <4> QED
        BY <1>1, <1>2, <1>3, <4>1, <4>2 DEF FreshInv, FreshSnapshot
    <3> QED
      BY <1>1, <1>2, <2>6, <2>7, <3>1, <3>2
      DEF FreshInv, FreshFor, startVars, globalVars, callVars, ghostVars
  <2>11. ResumeInv(n)'
    BY <1>1, <1>2, <1>3, <2>6, <2>7
    DEF ResumeInv, startVars, globalVars, callVars, ghostVars, Starting, NoProcess
  <2>12. ThreadStep(n, "commands")
    BY <1>1, <1>2, <2>4, <2>5 DEF Inv, TypeOK, ThreadStep, ghostVars
  <2> QED
    BY <1>2, <2>8, <2>9, <2>10, <2>11, <2>12, ThreadMoves DEF NodeInv, Labels, InPhase
<1>4. CASE NameOf[scenario] \notin Snaps(n)
  <2>1. /\ procs' = Ended(n, singleton[n], "killed") /\ Goto(n, "spawn")
        /\ UNCHANGED booted_from_snapshot
    BY <1>4 DEF LoadVm, Snaps
  <2>2. /\ procs' \in [Nodes -> Seq(Process)]
        /\ Last(n)' = Last(n)
        /\ procs'[n][singleton[n]].state # "alive"
        /\ \A j \in 1..Last(n) : /\ procs'[n][j].ready = procs[n][j].ready
                                 /\ procs'[n][j].snapshots = procs[n][j].snapshots
                                 /\ procs'[n][j].guest = procs[n][j].guest
                                 /\ procs'[n][j].state = "alive" => procs[n][j].state = "alive"
        /\ \A m \in Nodes \ {n} : procs'[m] = procs[m]
    BY <1>1, <1>2, <2>1, EndProcess
  <2>3. /\ Proc(n)'.snapshots = Proc(n).snapshots /\ Proc(n)'.guest = Proc(n).guest
        /\ Listening(n)' => Listening(n)
        /\ Snaps(n)' = Snaps(n) /\ scenario' = scenario
    BY <1>2, <2>2 DEF Proc, Listening, Snaps, startVars, globalVars
  <2>4. pc'[n] = "spawn"
    BY <1>1, <2>1 DEF TypeOK, Goto
  <2>5. OwnerInv(n)'
    BY <1>1, <1>2, <2>2, <2>4 DEF OwnerInv, Ready, Alive, startVars, globalVars
  <2>6. ThreadInv(n)' /\ CommandsInv(n)'
    BY <1>1, <1>2, <2>1, <2>2, <2>3, <2>4
    DEF ThreadInv, CommandsInv, Booted, startVars, globalVars
  <2>7. FreshInv(n)'
    BY <1>2, <1>4, <2>3, <2>4 DEF FreshInv, FreshSnapshot, Booted, startVars
  <2>8. ResumeInv(n)'
    BY <1>1, <1>2, <1>4, <2>1, <2>3, <2>4
    DEF ResumeInv, Booted, startVars, globalVars, callVars, ghostVars, Starting, StartNodes
  <2>9. ThreadStep(n, "spawn")
    BY <1>1, <1>2, <2>1, <2>2 DEF Inv, TypeOK, ThreadStep, ghostVars
  <2> QED
    BY <1>2, <2>5, <2>6, <2>7, <2>8, <2>9, ThreadMoves DEF NodeInv, Labels, InPhase
<1> QED
  BY <1>3, <1>4

\* A new process preserves the invariant: no ready machine is left beside it.
LEMMA SpawnStep ==
  ASSUME Inv, NEW n \in Nodes, Spawn(n)
  PROVE  Inv'
<1>1. /\ TypeOK /\ CallInv /\ OwnerInv(n) /\ ThreadInv(n) /\ CommandsInv(n)
      /\ FreshInv(n) /\ ResumeInv(n) /\ Starting /\ last_up = NoScenario /\ n \in StartNodes
      /\ Last(n) \in Nat /\ singleton[n] \in Nat
  BY Known DEF Spawn
<1>2. /\ Booting \in Process
      /\ Booting.state = "alive" /\ Booting.ready = FALSE
      /\ DOMAIN Booting.snapshots = {}
      /\ Booting.guest.image = started.scn /\ Booting.guest.options = scenario
      /\ Booting.guest.commands = 0 /\ Booting.guest.used = FALSE
  BY <1>1, NewProcess
<1>3. /\ UNCHANGED startVars /\ UNCHANGED <<booted_from_snapshot, singleton, troubles>>
      /\ UNCHANGED <<behind, last_up, repeat, flawed>> /\ unreplaced' = unreplaced \ {n}
      /\ pc[n] = "spawn" /\ Goto(n, "boot") /\ ~booted_from_snapshot[n] /\ phase = "starting"
      /\ procs' = [procs EXCEPT ![n] = Append(procs[n], Booting)]
      /\ owned' = IF snapshot_boot THEN owned ELSE owned \cup {<<n, Last(n) + 1>>}
  BY <1>1 DEF Spawn, ThreadInv, CallInv, Starting
<1>4. /\ procs' \in [Nodes -> Seq(Process)]
      /\ Last(n)' = Last(n) + 1 /\ Proc(n)' = Booting
      /\ procs'[n][Last(n) + 1] = Booting
      /\ \A j \in 1..Last(n) : procs'[n][j] = procs[n][j]
      /\ \A m \in Nodes \ {n} : procs'[m] = procs[m]
  <2> DEFINE q == Append(procs[n], Booting)
  <2>1. procs \in [Nodes -> Seq(Process)] /\ procs[n] \in Seq(Process)
    BY <1>1 DEF TypeOK
  <2>2. /\ q \in Seq(Process) /\ Len(q) = Len(procs[n]) + 1 /\ q[Len(procs[n]) + 1] = Booting
        /\ \A j \in 1..Len(procs[n]) : q[j] = procs[n][j]
    BY <1>2, <2>1
  <2> HIDE DEF q
  <2>3. procs' = [procs EXCEPT ![n] = q]
    BY <1>3 DEF q
  <2> QED
    BY <2>1, <2>2, <2>3 DEF Last, Proc
<1>5. pc'[n] = "boot"
  BY <1>1, <1>3 DEF TypeOK, Goto
<1>6. Listening(n)' /\ Snaps(n)' = {}
  BY <1>1, <1>2, <1>4 DEF Listening, Snaps
<1>7. OwnerInv(n)'
  <2>1. \A k \in 1..(Last(n) + 1) : k \in 1..Last(n) \/ k = Last(n) + 1
    BY <1>1
  <2>2. singleton[n] <= Last(n) + 1
    BY <1>1 DEF OwnerInv
  <2>3. snapshot_boot => \A k \in 1..(Last(n) + 1) : ~Ready(n, k)'
    <3> SUFFICES ASSUME snapshot_boot, NEW k \in 1..(Last(n) + 1) PROVE ~Ready(n, k)'
      OBVIOUS
    <3>1. CASE k = Last(n) + 1
      BY <1>2, <1>4, <3>1 DEF Ready
    <3>2. CASE k \in 1..Last(n)
      BY <1>1, <1>3, <1>4, <3>2 DEF Ready, Alive, OwnerInv
    <3> QED BY <2>1, <3>1, <3>2
  <2>4. ~snapshot_boot => \A k \in 1..(Last(n) + 1) : Alive(n, k)' => <<n, k>> \in owned'
    <3> SUFFICES ASSUME ~snapshot_boot, NEW k \in 1..(Last(n) + 1), Alive(n, k)'
                 PROVE  <<n, k>> \in owned'
      OBVIOUS
    <3>1. CASE k = Last(n) + 1
      BY <1>3, <3>1
    <3>2. CASE k \in 1..Last(n)
      BY <1>1, <1>3, <1>4, <3>2 DEF Alive, OwnerInv
    <3> QED BY <2>1, <3>1, <3>2
  <2> QED
    BY <1>3, <1>4, <2>2, <2>3, <2>4 DEF OwnerInv, startVars, globalVars
<1>8. ThreadInv(n)'
  <2>1. Last(n)' > 0 /\ ~booted_from_snapshot'[n]
    BY <1>1, <1>3, <1>4
  <2> QED
    BY <1>5, <1>6, <2>1 DEF ThreadInv, Booted
<1>9. CommandsInv(n)'
  <2>1. Proc(n)'.guest.commands = 0
    BY <1>2, <1>4
  <2> QED
    BY <1>5, <1>6, <2>1 DEF CommandsInv
<1>10. FreshInv(n)'
  BY <1>1, <1>2, <1>3, <1>4, <1>5, <1>6
  DEF FreshInv, FreshSnapshot, FreshFor, CallInv, Starting, startVars, globalVars, callVars
<1>11. ResumeInv(n)'
  BY <1>1, <1>3, <1>5
  DEF ResumeInv, Booted, startVars, globalVars, callVars, ghostVars, Starting, StartNodes
<1>12. ThreadStep(n, "boot")
  BY <1>1, <1>3, <1>4 DEF Inv, TypeOK, ThreadStep, ghostVars
<1> QED
  BY <1>3, <1>7, <1>8, <1>9, <1>10, <1>11, <1>12, ThreadMoves DEF NodeInv, Labels, InPhase

\* The end of a boot preserves the invariant: the process is stored or owned.
LEMMA BootStep ==
  ASSUME Inv, NEW n \in Nodes, Boot(n)
  PROVE  Inv'
<1>1. /\ TypeOK /\ CallInv /\ OwnerInv(n) /\ ThreadInv(n) /\ CommandsInv(n)
      /\ FreshInv(n) /\ ResumeInv(n) /\ Starting /\ last_up = NoScenario /\ n \in StartNodes
      /\ Last(n) \in Nat /\ singleton[n] \in Nat
  BY Known DEF Boot
<1>2. /\ UNCHANGED startVars /\ UNCHANGED <<booted_from_snapshot, owned, troubles, ghostVars>>
      /\ Last(n) > 0 /\ Listening(n) /\ pc[n] = "boot" /\ ~booted_from_snapshot[n]
      /\ phase = "starting" /\ Goto(n, "commands")
      /\ Last(n) \in 1..Last(n) /\ Proc(n) = procs[n][Last(n)] /\ Proc(n) \in Process
  <2>1. Last(n) \in 1..Last(n) /\ Proc(n) = procs[n][Last(n)] /\ Proc(n) \in Process
    BY <1>1, ProcessType DEF Boot, Listening
  <2> QED
    BY <1>1, <2>1 DEF Boot, Listening, ThreadInv, CallInv, Starting
<1> DEFINE p == [Proc(n) EXCEPT !.ready = TRUE]
<1>3. /\ p \in Process /\ p.state = "alive"
      /\ p.snapshots = Proc(n).snapshots /\ p.guest = Proc(n).guest
  BY <1>2 DEF Process, Listening
<1>4. procs' = [procs EXCEPT ![n] = [procs[n] EXCEPT ![Last(n)] = p]]
  BY <1>2 DEF Boot
<1> HIDE DEF p
<1>5. /\ procs' \in [Nodes -> Seq(Process)]
      /\ Last(n)' = Last(n) /\ Proc(n)' = p
      /\ procs'[n][Last(n)] = p
      /\ \A j \in 1..Last(n) : j # Last(n) => procs'[n][j] = procs[n][j]
      /\ \A m \in Nodes \ {n} : procs'[m] = procs[m]
  BY <1>1, <1>2, <1>3, <1>4, ChangeLast
<1>6. /\ singleton' \in [Nodes -> Nat]
      /\ \A m \in Nodes \ {n} : singleton'[m] = singleton[m]
      /\ singleton'[n] = IF snapshot_boot THEN Last(n) ELSE singleton[n]
  BY <1>1, <1>2 DEF TypeOK, Store, Boot
<1>7. pc'[n] = "commands"
  BY <1>1, <1>2 DEF TypeOK, Goto
<1>8. Listening(n)' /\ Snaps(n)' = Snaps(n) /\ Snapshot(n)' = Snapshot(n)
      /\ Proc(n)'.snapshots = Proc(n).snapshots /\ Proc(n)'.guest = Proc(n).guest
  BY <1>2, <1>3, <1>5 DEF Listening, Snaps, Snapshot, startVars, globalVars
<1>9. OwnerInv(n)'
  <2>1. singleton'[n] <= Last(n)
    BY <1>1, <1>6 DEF OwnerInv
  <2>2. \A j \in 1..Last(n) : procs'[n][j].state = procs[n][j].state
    BY <1>2, <1>3, <1>5 DEF Listening
  <2>3. snapshot_boot => \A j \in 1..Last(n) : Ready(n, j)' => j = Last(n)
    BY <1>1, <1>2, <1>5 DEF OwnerInv, Ready, Alive
  <2> QED
    BY <1>1, <1>2, <1>5, <1>6, <1>7, <2>1, <2>2, <2>3
    DEF OwnerInv, Alive, startVars, globalVars
<1>10. ThreadInv(n)'
  BY <1>1, <1>2, <1>5, <1>6, <1>7, <1>8 DEF ThreadInv, Booted, startVars, globalVars
<1>11. CommandsInv(n)'
  BY <1>1, <1>2, <1>5, <1>7, <1>8 DEF CommandsInv
<1>12. FreshInv(n)'
  <2>1. FreshSnapshot(n)' = FreshSnapshot(n) /\ Starting' = Starting /\ phase' # "up"
        /\ (Pending(n) => Pending(n)')
    BY <1>1, <1>2, <1>7, <1>8
    DEF FreshSnapshot, FreshFor, startVars, globalVars, callVars, Starting, Pending
  <2> QED
    BY <1>1, <1>2, <1>7, <1>8, <2>1
    DEF FreshInv, FreshFor, Booted, startVars, globalVars, callVars, ghostVars
<1>13. ResumeInv(n)'
  BY <1>1, <1>2, <1>7
  DEF ResumeInv, Booted, startVars, globalVars, callVars, ghostVars, Starting, StartNodes
<1>14. ThreadStep(n, "commands")
  BY <1>1, <1>2, <1>5, <1>6 DEF Inv, TypeOK, ThreadStep, ghostVars
<1> QED
  BY <1>2, <1>9, <1>10, <1>11, <1>12, <1>13, <1>14, ThreadMoves DEF NodeInv, Labels, InPhase

\* The commands preserve the invariant: they run once after a boot or a resume.
LEMMA RunCommandsStep ==
  ASSUME Inv, NEW n \in Nodes, RunCommands(n)
  PROVE  Inv'
<1>1. /\ TypeOK /\ CallInv /\ OwnerInv(n) /\ ThreadInv(n) /\ CommandsInv(n)
      /\ FreshInv(n) /\ ResumeInv(n) /\ Starting /\ last_up = NoScenario /\ n \in StartNodes
      /\ Last(n) \in Nat /\ singleton[n] \in Nat
  BY Known DEF RunCommands
<1>2. /\ UNCHANGED startVars
      /\ UNCHANGED <<booted_from_snapshot, singleton, owned, troubles, ghostVars>>
      /\ Last(n) > 0 /\ Listening(n) /\ pc[n] = "commands"
      /\ phase = "starting" /\ Goto(n, "done")
      /\ Last(n) \in 1..Last(n) /\ Proc(n) = procs[n][Last(n)] /\ Proc(n) \in Process
  <2>1. Last(n) \in 1..Last(n) /\ Proc(n) = procs[n][Last(n)] /\ Proc(n) \in Process
    BY <1>1, ProcessType DEF RunCommands, Listening
  <2> QED
    BY <1>1, <2>1 DEF RunCommands, Listening, CallInv, Starting
<1> DEFINE g == [Proc(n).guest EXCEPT !.commands = Proc(n).guest.commands + 1]
           p == [Proc(n) EXCEPT !.guest = g]
<1>3. Proc(n).guest \in Guest /\ g \in Guest /\ g.image = Proc(n).guest.image
      /\ g.options = Proc(n).guest.options /\ g.used = Proc(n).guest.used
      /\ g.commands = Proc(n).guest.commands + 1
  BY <1>2 DEF Process, Guest
<1> HIDE DEF g
<1>4. /\ p \in Process /\ p.state = "alive" /\ p.ready = Proc(n).ready
      /\ p.snapshots = Proc(n).snapshots /\ p.guest = g
  BY <1>2, <1>3 DEF Process, Listening
<1>5. procs' = [procs EXCEPT ![n] = [procs[n] EXCEPT ![Last(n)] = p]]
  BY <1>2 DEF RunCommands, g
<1> HIDE DEF p
<1>6. /\ procs' \in [Nodes -> Seq(Process)]
      /\ Last(n)' = Last(n) /\ Proc(n)' = p
      /\ procs'[n][Last(n)] = p
      /\ \A j \in 1..Last(n) : j # Last(n) => procs'[n][j] = procs[n][j]
      /\ \A m \in Nodes \ {n} : procs'[m] = procs[m]
  BY <1>1, <1>2, <1>4, <1>5, ChangeLast
<1>7. pc'[n] = "done"
  BY <1>1, <1>2 DEF TypeOK, Goto
<1>8. Listening(n)' /\ Snaps(n)' = Snaps(n) /\ Snapshot(n)' = Snapshot(n)
      /\ Proc(n)'.snapshots = Proc(n).snapshots /\ Proc(n)'.guest = g
  BY <1>2, <1>4, <1>6 DEF Listening, Snaps, Snapshot, startVars, globalVars
<1>9. OwnerInv(n)'
  <2>1. \A j \in 1..Last(n) : /\ procs'[n][j].state = procs[n][j].state
                              /\ procs'[n][j].ready = procs[n][j].ready
    BY <1>2, <1>4, <1>6 DEF Listening
  <2> QED
    BY <1>1, <1>2, <1>6, <1>7, <2>1 DEF OwnerInv, Alive, Ready, startVars, globalVars
<1>10. ThreadInv(n)'
  BY <1>1, <1>2, <1>6, <1>7, <1>8 DEF ThreadInv, Booted, startVars, globalVars
<1>11. CommandsInv(n)'
  <2>1. /\ Proc(n)'.guest.commands <= 2
        /\ ~booted_from_snapshot[n] => Proc(n)'.guest.commands <= 1
    <3>1. Proc(n).guest.commands \in Nat /\ Proc(n).guest.commands <= 1
          /\ (~booted_from_snapshot[n] => Proc(n).guest.commands = 0)
      BY <1>1, <1>2, <1>3 DEF CommandsInv, Guest
    <3> QED BY <1>3, <1>8, <3>1
  <2> QED
    BY <1>1, <1>2, <1>6, <1>7, <1>8, <2>1 DEF CommandsInv
<1>12. FreshInv(n)'
  <2>1. FreshSnapshot(n)' = FreshSnapshot(n) /\ Starting' = Starting /\ phase' # "up"
        /\ (Pending(n) => Pending(n)')
    BY <1>1, <1>2, <1>7, <1>8
    DEF FreshSnapshot, FreshFor, startVars, globalVars, callVars, Starting, Pending
  <2> QED
    BY <1>1, <1>2, <1>3, <1>7, <1>8, <2>1
    DEF FreshInv, FreshFor, Booted, startVars, globalVars, callVars, ghostVars
<1>13. ResumeInv(n)'
  BY <1>1, <1>2, <1>7, <1>8
  DEF ResumeInv, Booted, startVars, globalVars, callVars, ghostVars, Starting, StartNodes
<1>14. ThreadStep(n, "done")
  BY <1>1, <1>2, <1>6 DEF Inv, TypeOK, ThreadStep, ghostVars
<1> QED
  BY <1>2, <1>9, <1>10, <1>11, <1>12, <1>13, <1>14, ThreadMoves DEF NodeInv, Labels, InPhase

\* savevm preserves the invariant: the snapshot is one of a fresh guest.
LEMMA MakeSnapshotStep ==
  ASSUME Inv, NEW n \in Nodes, MakeSnapshot(n)
  PROVE  Inv'
<1>1. /\ TypeOK /\ CallInv /\ OwnerInv(n) /\ ThreadInv(n) /\ CommandsInv(n)
      /\ FreshInv(n) /\ ResumeInv(n) /\ Starting /\ last_up = NoScenario /\ n \in StartNodes
      /\ Last(n) \in Nat /\ singleton[n] \in Nat /\ scenario \in Scenarios
  BY Known DEF MakeSnapshot
<1>2. /\ UNCHANGED startVars
      /\ UNCHANGED <<booted_from_snapshot, singleton, owned, troubles, ghostVars>>
      /\ Last(n) > 0 /\ pc[n] = "save" /\ phase = "saving" /\ snapshot_boot /\ Goto(n, "done")
      /\ Last(n) \in 1..Last(n) /\ Proc(n) = procs[n][Last(n)] /\ Proc(n) \in Process
  <2>1. Last(n) > 0
    BY <1>1 DEF MakeSnapshot, ThreadInv, Booted
  <2>2. Last(n) \in 1..Last(n) /\ Proc(n) = procs[n][Last(n)] /\ Proc(n) \in Process
    BY <1>1, <2>1, ProcessType
  <2> QED
    BY <1>1, <2>1, <2>2 DEF MakeSnapshot, CallInv, Starting
<1>3. pc'[n] = "done"
  BY <1>1, <1>2 DEF TypeOK, Goto
<1>4. CASE booted_from_snapshot[n]
  <2>1. procs' = procs
    BY <1>4 DEF MakeSnapshot, SaveVm
  <2>2. Last(n)' = Last(n) /\ Proc(n)' = Proc(n)
    BY <2>1 DEF Last, Proc
  <2>3. Listening(n)' = Listening(n) /\ Snaps(n)' = Snaps(n)
    BY <2>2 DEF Listening, Snaps
  <2>4. OwnerInv(n)'
    BY <1>1, <1>2, <1>3, <2>1, <2>2 DEF OwnerInv, Alive, Ready, startVars, globalVars
  <2>5. ThreadInv(n)' /\ CommandsInv(n)'
    BY <1>1, <1>2, <1>3, <1>4, <2>2, <2>3
    DEF ThreadInv, CommandsInv, Booted, startVars, globalVars
  <2>6. FreshInv(n)'
    <3>1. FreshSnapshot(n)' = FreshSnapshot(n) /\ Starting' = Starting /\ phase' # "up"
          /\ (Pending(n) => Pending(n)')
      BY <1>1, <1>2, <1>3, <2>2, <2>3
      DEF FreshSnapshot, Snapshot, FreshFor, startVars, globalVars, callVars, Starting, Pending
    <3> QED
      BY <1>1, <1>2, <1>3, <1>4, <2>2, <2>3, <3>1
      DEF FreshInv, FreshFor, Booted, startVars, globalVars, callVars, ghostVars
  <2>7. ResumeInv(n)'
    BY <1>1, <1>2, <1>3, <1>4, <2>3
    DEF ResumeInv, Booted, startVars, globalVars, callVars, ghostVars, Starting, StartNodes
  <2>8. ThreadStep(n, "done")
    BY <1>1, <1>2, <2>1 DEF Inv, TypeOK, ThreadStep, ghostVars
  <2> QED
    BY <1>2, <2>4, <2>5, <2>6, <2>7, <2>8, ThreadMoves DEF NodeInv, Labels, InPhase
<1>5. CASE ~booted_from_snapshot[n]
  <2> DEFINE id == NameOf[scenario]
             old == Proc(n).snapshots
             f == [m \in DOMAIN old \cup {id} |-> IF m = id THEN Proc(n).guest ELSE old[m]]
             p == [Proc(n) EXCEPT !.snapshots = f]
  <2>1. Listening(n) /\ Snaps(n) = {} /\ singleton[n] = Last(n)
    BY <1>1, <1>2, <1>5 DEF MakeSnapshot, ThreadInv, Booted
  <2>2. Proc(n).guest \in Guest /\ Proc(n).guest.commands <= 1 /\ id \in Names
    BY <1>1, <1>2, <1>5, <2>1 DEF Process, Names, CommandsInv
  <2>3. f \in Snapshots /\ DOMAIN f = {id} /\ f[id] = Proc(n).guest
    <3>1. f = [m \in {id} |-> Proc(n).guest]
      BY <2>1 DEF Snaps
    <3>2. f \in [{id} -> Guest] /\ {id} \in SUBSET Names
      BY <2>2, <3>1
    <3> QED
      BY <3>1, <3>2 DEF Snapshots
  <2>4. /\ p \in Process /\ p.state = "alive" /\ p.ready = Proc(n).ready
        /\ p.snapshots = f /\ p.guest = Proc(n).guest
    <3> HIDE DEF f
    <3> QED BY <1>2, <2>1, <2>3 DEF Process, Listening
  <2>5. procs' = [procs EXCEPT ![n] = [procs[n] EXCEPT ![Last(n)] = p]]
    BY <1>2, <1>5 DEF MakeSnapshot, SaveVm
  <2> HIDE DEF p, f
  <2>6. /\ procs' \in [Nodes -> Seq(Process)]
        /\ Last(n)' = Last(n) /\ Proc(n)' = p
        /\ procs'[n][Last(n)] = p
        /\ \A j \in 1..Last(n) : j # Last(n) => procs'[n][j] = procs[n][j]
        /\ \A m \in Nodes \ {n} : procs'[m] = procs[m]
    BY <1>1, <1>2, <2>4, <2>5, ChangeLast
  <2>7. Listening(n)' /\ Snaps(n)' = {NameOf[scenario]} /\ Snapshot(n)' = Proc(n).guest
        /\ Proc(n)'.snapshots = f /\ Proc(n)'.guest = Proc(n).guest /\ scenario' = scenario
    BY <1>2, <2>3, <2>4, <2>6 DEF Listening, Snaps, Snapshot, startVars, globalVars
  <2>8. OwnerInv(n)'
    <3>1. \A j \in 1..Last(n) : /\ procs'[n][j].state = procs[n][j].state
                                /\ procs'[n][j].ready = procs[n][j].ready
      BY <1>2, <2>1, <2>4, <2>6 DEF Listening
    <3> QED
      BY <1>1, <1>2, <1>3, <2>6, <3>1 DEF OwnerInv, Alive, Ready, startVars, globalVars
  <2>9. ThreadInv(n)'
    BY <1>2, <1>3, <1>5, <2>1, <2>6 DEF ThreadInv, Booted, startVars, globalVars
  <2>10. CommandsInv(n)'
    BY <1>1, <1>2, <1>3, <2>1, <2>2, <2>3, <2>6, <2>7 DEF CommandsInv
  <2>11. FreshInv(n)'
    <3>1. waiting = NoCall => FreshFor(Proc(n).guest, started.scn) /\ scenario = started.scn
      BY <1>1, <1>2, <1>5, <2>1 DEF FreshInv, Booted, CallInv
    <3>2. phase' # "up" /\ (waiting # NoCall => n \in behind')
      BY <1>1, <1>2 DEF CallInv, startVars, ghostVars
    <3> QED
      BY <1>2, <2>7, <3>1, <3>2
      DEF FreshInv, FreshSnapshot, FreshFor, startVars, globalVars, callVars
  <2>12. ResumeInv(n)'
    BY <1>1, <1>2, <1>3, <1>5, <2>7
    DEF ResumeInv, Booted, startVars, globalVars, callVars, ghostVars, Starting, StartNodes
  <2>13. ThreadStep(n, "done")
    BY <1>1, <1>2, <2>6 DEF Inv, TypeOK, ThreadStep, ghostVars
  <2> QED
    BY <1>2, <2>8, <2>9, <2>10, <2>11, <2>12, <2>13, ThreadMoves DEF NodeInv, Labels, InPhase
<1> QED
  BY <1>4, <1>5

\* A process that ends by itself preserves the invariant.
LEMMA QemuExitsStep ==
  ASSUME Inv, NEW n \in Nodes, QemuExits(n)
  PROVE  Inv'
<1>1. /\ TypeOK /\ CallInv /\ OwnerInv(n) /\ ThreadInv(n) /\ CommandsInv(n)
      /\ FreshInv(n) /\ ResumeInv(n) /\ Last(n) \in Nat
  BY Known
<1>2. /\ UNCHANGED startVars /\ UNCHANGED <<nodeVars, singleton, owned, behind, repeat, unreplaced>>
      /\ last_up' = NoScenario /\ flawed' = TRUE /\ procs' = Ended(n, Last(n), "lost")
      /\ Last(n) > 0 /\ Last(n) \in 1..Last(n)
  BY <1>1, ProcessType DEF QemuExits, Listening
<1>3. /\ procs' \in [Nodes -> Seq(Process)]
      /\ Last(n)' = Last(n)
      /\ procs'[n][Last(n)].state # "alive"
      /\ \A j \in 1..Last(n) : /\ procs'[n][j].ready = procs[n][j].ready
                               /\ procs'[n][j].snapshots = procs[n][j].snapshots
                               /\ procs'[n][j].guest = procs[n][j].guest
                               /\ procs'[n][j].state = "alive" => procs[n][j].state = "alive"
      /\ \A m \in Nodes \ {n} : procs'[m] = procs[m]
  BY <1>1, <1>2, EndProcess
<1>4. /\ Proc(n)'.snapshots = Proc(n).snapshots /\ Proc(n)'.guest = Proc(n).guest
      /\ ~Listening(n)' /\ Snaps(n)' = Snaps(n) /\ scenario' = scenario
      /\ Snapshot(n)' = Snapshot(n)
  BY <1>2, <1>3 DEF Proc, Listening, Snaps, Snapshot, startVars, globalVars
<1>5. OwnerInv(n)'
  BY <1>1, <1>2, <1>3 DEF OwnerInv, Ready, Alive, startVars, globalVars, nodeVars
<1>6. ThreadInv(n)' /\ CommandsInv(n)'
  BY <1>1, <1>2, <1>3, <1>4 DEF ThreadInv, CommandsInv, startVars, globalVars, nodeVars
<1>7. FreshInv(n)'
  BY <1>1, <1>2, <1>4
  DEF FreshInv, FreshSnapshot, FreshFor, Starting, startVars, globalVars, callVars, nodeVars
<1>8. ResumeInv(n)'
  BY <1>1, <1>2, <1>4
  DEF ResumeInv, startVars, globalVars, callVars, nodeVars, Starting, StartNodes
<1>9. TypeOK'
  BY <1>1, <1>2, <1>3 DEF TypeOK, startVars, callVars, globalVars, nodeVars
<1>10. Quiet /\ \A m \in Nodes \ {n} : Same(m)
  BY <1>2, <1>3 DEF Quiet, Same, startVars, callVars, globalVars, nodeVars
<1>11. snapshot_boot => owned' = {}
  BY <1>2 DEF Inv
<1>12. NodeInv(n)'
  BY <1>5, <1>6, <1>7, <1>8 DEF NodeInv
<1> QED
  BY <1>1, <1>2, <1>9, <1>10, <1>11, <1>12, OneNode DEF nodeVars, CallInv
-----------------------------------------------------------------------------
(***************************************************************************)
(* The calls and the thread of the start.                                  *)
(***************************************************************************)

\* A call preserves the invariant: the stored scenario is new to every node it replaces.
LEMMA StartCallStep ==
  ASSUME Inv, NEW s \in Scenarios, NEW b \in BOOLEAN, NEW f \in BOOLEAN, StartCall(s, b, f)
  PROVE  Inv'
<1>1. TypeOK /\ CallInv /\ LastUpInv /\ \A n \in Nodes : NodeInv(n)
  BY DEF Inv
<1>2. /\ waiting = NoCall /\ waiting' = Call(s, b) /\ scenario' = s
      /\ repeat' = FALSE
      /\ UNCHANGED <<snapshot_boot, started, phase, backend, nodeVars, qemuVars, last_up, flawed,
                     unreplaced>>
  BY DEF StartCall
<1>3. /\ scenario_changed' \in BOOLEAN
      /\ scenario_changed' <=> ~f /\ scenario # s
      /\ behind' \in SUBSET Nodes /\ behind \subseteq behind'
      /\ Starting => behind' = Nodes
      /\ f /\ scenario # s => behind' = Nodes
  BY <1>1 DEF StartCall, TypeOK
<1>4. waiting' \in Calls /\ waiting' # NoCall /\ waiting'.scn = s /\ s # NoScenario
  BY <1>2, NodeBootAssumption DEF Call, Calls, NoCall
<1>5. TypeOK'
  BY <1>1, <1>2, <1>3, <1>4 DEF TypeOK, nodeVars, qemuVars
<1>6. CallInv'
  BY <1>1, <1>2, <1>3, <1>4 DEF CallInv, Starting, StartNodes, nodeVars
<1>7. LastUpInv'
  BY <1>1, <1>2, <1>3, <1>4 DEF LastUpInv
<1>8. ASSUME NEW n \in Nodes PROVE NodeInv(n)'
  <2>1. /\ OwnerInv(n) /\ ThreadInv(n) /\ CommandsInv(n) /\ FreshInv(n) /\ ResumeInv(n)
    BY <1>1, <1>8 DEF NodeInv
  <2>2. Last(n)' = Last(n) /\ Proc(n)' = Proc(n)
    BY <1>2 DEF Last, Proc, qemuVars
  <2>3. Listening(n)' = Listening(n) /\ Snaps(n)' = Snaps(n)
    BY <2>2 DEF Listening, Snaps
  <2>4. OwnerInv(n)'
    BY <1>2, <2>1, <2>2 DEF OwnerInv, Ready, Alive, nodeVars, qemuVars
  <2>5. ThreadInv(n)' /\ CommandsInv(n)'
    BY <1>2, <2>1, <2>2, <2>3 DEF ThreadInv, CommandsInv, nodeVars, qemuVars
  <2>6. FreshInv(n)'
    <3>1. n \in NodesOf[s] \ behind' /\ ~Pending(n)' => scenario = s /\ n \notin behind /\ ~Pending(n)
      BY <1>1, <1>2, <1>3, <1>4, <1>8 DEF Pending, CallInv
    <3>2. scenario = s => FreshSnapshot(n)' = FreshSnapshot(n)
      BY <1>2, <2>2, <2>3 DEF FreshSnapshot, FreshFor, Snapshot
    <3> QED
      BY <1>2, <1>3, <1>4, <2>1, <2>2, <2>3, <3>1, <3>2 DEF FreshInv, FreshFor, StartNodes
  <2>7. ResumeInv(n)'
    BY <1>2, <1>4, <2>1, <2>3 DEF ResumeInv, qemuVars
  <2> QED
    BY <2>4, <2>5, <2>6, <2>7 DEF NodeInv
<1> QED
  BY <1>2, <1>5, <1>6, <1>7, <1>8 DEF Inv, qemuVars

\* Taking the lock preserves the invariant: every node of the call begins.
LEMMA TakeLockStep ==
  ASSUME Inv, TakeLock
  PROVE  Inv'
<1>1. TypeOK /\ CallInv /\ LastUpInv /\ \A n \in Nodes : NodeInv(n)
  BY DEF Inv
<1>2. /\ waiting # NoCall /\ phase = "idle" /\ started' = waiting /\ waiting' = NoCall
      /\ phase' = "starting" /\ backend' = TRUE
      /\ pc' = [n \in Nodes |-> IF n \in NodesOf[waiting.scn] THEN "begin" ELSE "idle"]
      /\ booted_from_snapshot' = [n \in Nodes |-> FALSE]
      /\ last_up' = NoScenario /\ flawed' = FALSE
      /\ UNCHANGED <<globalVars, calls, qemuVars, troubles, behind, unreplaced>>
  BY DEF TakeLock
<1>3. repeat' \in BOOLEAN /\ (repeat' <=> waiting.scn = last_up)
  BY DEF TakeLock
<1>4. waiting \in Calls /\ scenario = waiting.scn /\ waiting.scn \in Scenarios
      /\ waiting.scn # NoScenario
  BY <1>1, <1>2, NodeBootAssumption DEF CallInv, Calls
<1>5. TypeOK'
  BY <1>1, <1>2, <1>3, <1>4 DEF TypeOK, globalVars, qemuVars, Labels
<1>6. CallInv'
  <2>1. repeat' => ~scenario_changed
    BY <1>1, <1>2, <1>3, <1>4 DEF LastUpInv
  <2> QED
    BY <1>2, <1>4, <2>1 DEF CallInv, Starting, StartNodes, globalVars
<1>7. LastUpInv'
  BY <1>2 DEF LastUpInv
<1>8. ASSUME NEW n \in Nodes PROVE NodeInv(n)'
  <2>1. /\ OwnerInv(n) /\ ThreadInv(n) /\ CommandsInv(n) /\ FreshInv(n) /\ ResumeInv(n)
    BY <1>1, <1>8 DEF NodeInv
  <2>2. Last(n)' = Last(n) /\ Proc(n)' = Proc(n)
    BY <1>2 DEF Last, Proc, qemuVars
  <2>3. Listening(n)' = Listening(n) /\ Snaps(n)' = Snaps(n)
    BY <2>2 DEF Listening, Snaps
  <2>4. /\ pc'[n] = IF n \in NodesOf[scenario] THEN "begin" ELSE "idle"
        /\ ~booted_from_snapshot'[n]
    BY <1>2, <1>4, <1>8
  <2>5. OwnerInv(n)'
    BY <1>2, <2>1, <2>2, <2>4 DEF OwnerInv, Ready, Alive, globalVars, qemuVars
  <2>6. ThreadInv(n)' /\ CommandsInv(n)'
    BY <1>2, <2>1, <2>2, <2>3, <2>4 DEF ThreadInv, CommandsInv, Booted, globalVars, qemuVars
  <2>7. FreshInv(n)'
    <3>1. FreshSnapshot(n)' = FreshSnapshot(n)
      BY <1>2, <2>2, <2>3 DEF FreshSnapshot, FreshFor, Snapshot, globalVars
    <3>2. n \in NodesOf[scenario] => (Pending(n) => Pending(n)')
      BY <1>2, <2>4 DEF Pending, globalVars
    <3> QED
      BY <1>2, <2>1, <2>3, <2>4, <3>1, <3>2 DEF FreshInv, Booted, globalVars
  <2>8. ResumeInv(n)'
    <3>1. repeat' => scenario = last_up /\ last_up # NoScenario
      BY <1>3, <1>4
    <3>2. n \in StartNodes' => n \in NodesOf[scenario]
      BY <1>2, <1>4 DEF StartNodes
    <3> QED
      BY <1>2, <2>1, <2>3, <2>4, <3>1, <3>2 DEF ResumeInv, Booted, globalVars, qemuVars
  <2> QED
    BY <2>5, <2>6, <2>7, <2>8 DEF NodeInv
<1> QED
  BY <1>2, <1>5, <1>6, <1>7, <1>8 DEF Inv, globalVars, qemuVars

\* Machines of a node may have been ended; those alive still have their owner.
Lives(n) ==
  /\ Len(procs'[n]) = Last(n)
  /\ \A k \in 1..Last(n) :
       /\ procs'[n][k].ready = procs[n][k].ready
       /\ procs'[n][k].snapshots = procs[n][k].snapshots
       /\ procs'[n][k].guest = procs[n][k].guest
       /\ procs'[n][k].state = "alive" => /\ procs[n][k].state = "alive"
                                          /\ snapshot_boot \/ <<n, k>> \in owned'

\* What is known of the process of a node then.
LEMMA StillLives ==
  ASSUME TypeOK, NEW n \in Nodes, Lives(n)
  PROVE  /\ Last(n)' = Last(n)
         /\ Last(n) > 0 => /\ Proc(n)'.snapshots = Proc(n).snapshots
                           /\ Proc(n)'.guest = Proc(n).guest
                           /\ Snaps(n)' = Snaps(n)
         /\ Listening(n)' => Listening(n)
<1>1. Last(n) \in Nat /\ (Last(n) > 0 => Last(n) \in 1..Last(n))
  BY ProcessType
<1>2. Last(n)' = Last(n)
  BY DEF Lives, Last
<1> QED
  BY <1>1, <1>2 DEF Lives, Proc, Snaps, Listening

\* abort() ends the processes the ShellHelper owns, or nothing is done.
LEMMA AbortLives ==
  ASSUME Inv, NEW blocking \in BOOLEAN, AbortIf(blocking)
  PROVE  /\ procs' \in [Nodes -> Seq(Process)]
         /\ snapshot_boot => owned' = {}
         /\ singleton' = singleton
         /\ backend' \in BOOLEAN
         /\ \A n \in Nodes : Lives(n)
<1>1. TypeOK /\ \A n \in Nodes : OwnerInv(n)
  BY DEF Inv, NodeInv
<1>2. CASE ~blocking
  <2>1. UNCHANGED <<qemuVars, backend>>
    BY <1>2 DEF AbortIf
  <2>2. \A n \in Nodes : Lives(n)
    BY <1>1, <2>1 DEF Lives, Last, OwnerInv, Alive, qemuVars
  <2> QED
    BY <1>1, <2>1, <2>2 DEF TypeOK, Inv, qemuVars
<1>3. CASE blocking
  <2>1. /\ procs' = [n \in Nodes |->
                 [k \in DOMAIN procs[n] |->
                    IF <<n, k>> \in owned /\ procs[n][k].state = "alive"
                    THEN [procs[n][k] EXCEPT !.state = "lost"] ELSE procs[n][k]]]
        /\ owned' = {} /\ backend' = FALSE /\ singleton' = singleton
    BY <1>3 DEF AbortIf, TerminateOwned
  <2>2. ASSUME NEW n \in Nodes
        PROVE  procs'[n] \in Seq(Process) /\ Lives(n)
    <3> DEFINE q == [k \in DOMAIN procs[n] |->
                       IF <<n, k>> \in owned /\ procs[n][k].state = "alive"
                       THEN [procs[n][k] EXCEPT !.state = "lost"] ELSE procs[n][k]]
    <3>1. procs[n] \in Seq(Process) /\ Last(n) \in Nat /\ DOMAIN procs[n] = 1..Last(n)
      BY <1>1, ProcessType DEF TypeOK, Last
    <3>2. procs'[n] = q
      BY <2>1
    <3>3. ASSUME NEW k \in 1..Last(n)
          PROVE  /\ q[k] \in Process
                 /\ q[k].ready = procs[n][k].ready
                 /\ q[k].snapshots = procs[n][k].snapshots
                 /\ q[k].guest = procs[n][k].guest
                 /\ q[k].state = "alive" => /\ procs[n][k].state = "alive"
                                            /\ snapshot_boot \/ <<n, k>> \in owned'
      <4>1. procs[n][k] \in Process
        BY <1>1, ProcessType
      <4>2. q[k] = IF <<n, k>> \in owned /\ procs[n][k].state = "alive"
                   THEN [procs[n][k] EXCEPT !.state = "lost"] ELSE procs[n][k]
        BY <3>1
      <4>3. snapshot_boot \/ procs[n][k].state # "alive" \/ <<n, k>> \in owned
        BY <1>1 DEF OwnerInv, Alive
      <4> HIDE DEF q
      <4> QED BY <4>1, <4>2, <4>3 DEF Process
    <3>4. DOMAIN q = 1..Last(n)
      BY <3>1
    <3> HIDE DEF q
    <3>5. q \in Seq(Process) /\ Len(q) = Last(n)
      <4>1. q \in [1..Last(n) -> Process]
        <5>1. q = [k \in 1..Last(n) |-> q[k]]
          BY <3>1 DEF q
        <5> QED BY <3>3, <5>1
      <4> QED BY <3>1, <4>1
    <3> QED BY <3>2, <3>3, <3>5 DEF Lives
  <2>3. procs' \in [Nodes -> Seq(Process)]
    <3>1. procs' = [n \in Nodes |-> procs'[n]]
      BY <2>1
    <3> QED BY <2>2, <3>1
  <2> QED
    BY <2>1, <2>2, <2>3
<1> QED
  BY <1>2, <1>3

\* The simulation or its start is over for a node, or a call was refused.
Over(n) ==
  /\ Lives(n) /\ pc'[n] = "idle"
  /\ UNCHANGED <<globalVars, started, booted_from_snapshot, singleton, repeat>>
  /\ phase' = "idle" \/ (phase' = phase /\ phase \in {"up", "running"})
  /\ last_up' = last_up \/ last_up' = NoScenario
  /\ behind \subseteq behind'
  /\ n \in behind' \/ (waiting' = waiting /\ (n \in NodesOf[scenario] => pc[n] # "begin"))

\* The invariant of a node then claims no more than before.
LEMMA NodeOver ==
  ASSUME Inv, NEW n \in Nodes, Over(n)
  PROVE  NodeInv(n)'
<1>1. /\ TypeOK /\ CallInv /\ OwnerInv(n) /\ ThreadInv(n) /\ CommandsInv(n)
      /\ FreshInv(n) /\ ResumeInv(n) /\ Last(n) \in Nat
  BY Known
<1>2. /\ Last(n)' = Last(n)
      /\ Last(n) > 0 => /\ Proc(n)'.snapshots = Proc(n).snapshots
                        /\ Proc(n)'.guest = Proc(n).guest
                        /\ Snaps(n)' = Snaps(n)
      /\ Listening(n)' => Listening(n)
  BY <1>1, StillLives DEF Over
<1>3. Listening(n) => Last(n) > 0
  BY DEF Listening
<1>4. OwnerInv(n)'
  BY <1>1, <1>2 DEF OwnerInv, Over, Lives, Ready, Alive, globalVars
<1>5. ThreadInv(n)' /\ CommandsInv(n)'
  BY <1>1, <1>2, <1>3 DEF ThreadInv, CommandsInv, Over, Booted, globalVars
<1>6. FreshInv(n)'
  <2>1. Last(n) > 0 => FreshSnapshot(n)' = FreshSnapshot(n)
    BY <1>2 DEF FreshSnapshot, FreshFor, Snapshot, Over, globalVars
  <2>2. n \in NodesOf[scenario] \ behind' => (Pending(n) => Pending(n)')
    BY DEF Pending, Over, globalVars
  <2>3. ~Starting' /\ (phase' = "up" => phase = "up")
    BY DEF Over, Starting
  <2> QED
    BY <1>1, <1>2, <1>3, <2>1, <2>2, <2>3 DEF FreshInv, FreshFor, Over, StartNodes, globalVars
<1>7. ResumeInv(n)'
  <2>1. ~Starting' /\ (phase' = "up" => phase = "up")
    BY DEF Over, Starting
  <2> QED
    BY <1>1, <1>2, <1>3, <2>1 DEF ResumeInv, Over, StartNodes, globalVars
<1> QED
  BY <1>4, <1>5, <1>6, <1>7 DEF NodeInv

\* A refused call preserves the invariant: no node has seen its scenario.
LEMMA RefusedStep ==
  ASSUME Inv, Refused
  PROVE  Inv'
<1>1. TypeOK /\ CallInv /\ LastUpInv
  BY DEF Inv
<1>2. /\ waiting # NoCall /\ phase \in {"up", "running"} /\ waiting' = NoCall
      /\ AbortIf(waiting.blocking)
      /\ phase' = IF waiting.blocking THEN "idle" ELSE phase
      /\ behind' = Nodes /\ last_up' = NoScenario
      /\ UNCHANGED <<globalVars, started, calls, nodeVars, troubles, repeat, flawed,
                     unreplaced>>
  BY DEF Refused
<1>3. waiting.blocking \in BOOLEAN
  BY <1>1, <1>2 DEF CallInv, Calls
<1>4. /\ procs' \in [Nodes -> Seq(Process)]
      /\ snapshot_boot => owned' = {}
      /\ singleton' = singleton /\ backend' \in BOOLEAN
      /\ \A n \in Nodes : Lives(n)
  BY <1>2, <1>3, AbortLives
<1>5. \A n \in Nodes : pc[n] = "idle"
  BY <1>1, <1>2 DEF CallInv, Starting
<1>6. TypeOK'
  BY <1>1, <1>2, <1>4 DEF TypeOK, globalVars, nodeVars
<1>7. CallInv'
  BY <1>1, <1>2, <1>5 DEF CallInv, Starting, globalVars, nodeVars
<1>8. LastUpInv'
  BY <1>2 DEF LastUpInv
<1>9. \A n \in Nodes : Over(n)
  BY <1>1, <1>2, <1>4, <1>5 DEF Over, TypeOK, nodeVars
<1>10. \A n \in Nodes : NodeInv(n)'
  BY <1>9, NodeOver
<1> QED
  BY <1>2, <1>4, <1>6, <1>7, <1>8, <1>10 DEF Inv, globalVars

\* abort(), during a start too, preserves the invariant.
LEMMA AbortStep ==
  ASSUME Inv, Abort
  PROVE  Inv'
<1>1. TypeOK /\ CallInv /\ LastUpInv /\ \A n \in Nodes : NodeInv(n)
  BY DEF Inv
<1>2. /\ TerminateOwned
      /\ phase' = IF Starting THEN phase ELSE "idle"
      /\ UNCHANGED <<globalVars, callVars, nodeVars, ghostVars>>
  BY DEF Abort
<1>3. AbortIf(TRUE)
  BY <1>2 DEF AbortIf
<1>4. /\ procs' \in [Nodes -> Seq(Process)]
      /\ snapshot_boot => owned' = {}
      /\ singleton' = singleton /\ backend' \in BOOLEAN
      /\ \A n \in Nodes : Lives(n)
  BY <1>3, AbortLives
<1>5. TypeOK'
  BY <1>1, <1>2, <1>4 DEF TypeOK, globalVars, callVars, nodeVars, ghostVars
<1>6. CallInv'
  BY <1>1, <1>2 DEF CallInv, Starting, StartNodes, globalVars, callVars, nodeVars, ghostVars
<1>7. LastUpInv'
  BY <1>1, <1>2 DEF LastUpInv, globalVars, callVars, ghostVars
<1>8. ASSUME NEW n \in Nodes, ~Starting PROVE NodeInv(n)'
  <2>1. pc[n] = "idle"
    BY <1>1, <1>8 DEF CallInv
  <2>2. Over(n)
    BY <1>2, <1>4, <1>8, <2>1 DEF Over, callVars, nodeVars, ghostVars
  <2> QED BY <1>8, <2>2, NodeOver
<1>9. ASSUME NEW n \in Nodes, Starting PROVE NodeInv(n)'
  <2>1. /\ OwnerInv(n) /\ ThreadInv(n) /\ CommandsInv(n) /\ FreshInv(n) /\ ResumeInv(n)
    BY <1>1, <1>9 DEF NodeInv
  <2>2. /\ Last(n)' = Last(n)
        /\ Last(n) > 0 => /\ Proc(n)'.snapshots = Proc(n).snapshots
                          /\ Proc(n)'.guest = Proc(n).guest
                          /\ Snaps(n)' = Snaps(n)
        /\ Listening(n)' => Listening(n)
    BY <1>1, <1>4, <1>9, StillLives
  <2>3. Listening(n) => Last(n) > 0
    BY DEF Listening
  <2>4. OwnerInv(n)'
    BY <1>2, <1>4, <1>9, <2>1, <2>2 DEF OwnerInv, Lives, Ready, Alive, globalVars, nodeVars
  <2>5. pc'[n] = pc[n] /\ phase' = phase /\ booted_from_snapshot' = booted_from_snapshot
        /\ Starting' /\ phase # "up"
    BY <1>2, <1>9 DEF nodeVars, Starting
  <2>6. ThreadInv(n)'
    <3>1. pc[n] \in Booted \cup {"boot"} => Last(n) > 0
      BY <2>1 DEF ThreadInv
    <3> QED
      BY <1>2, <1>4, <2>1, <2>2, <2>5, <3>1 DEF ThreadInv, Booted, globalVars
  <2>7. CommandsInv(n)'
    BY <2>1, <2>2, <2>3, <2>5 DEF CommandsInv
  <2>8. FreshInv(n)'
    <3>1. Last(n) > 0 => FreshSnapshot(n)' = FreshSnapshot(n)
      BY <1>2, <2>2 DEF FreshSnapshot, FreshFor, Snapshot, globalVars
    <3>2. Pending(n)' = Pending(n)
      BY <1>2, <2>5 DEF Pending, globalVars, callVars
    <3>3. pc[n] \in Booted \cup {"boot"} => Last(n) > 0
      BY <2>1 DEF ThreadInv
    <3> QED
      BY <1>2, <1>9, <2>1, <2>2, <2>3, <2>5, <3>1, <3>2, <3>3
      DEF FreshInv, FreshFor, globalVars, callVars, ghostVars
  <2>9. ResumeInv(n)'
    BY <1>2, <1>4, <1>9, <2>1, <2>2, <2>3, <2>5
    DEF ResumeInv, StartNodes, globalVars, callVars, ghostVars
  <2> QED
    BY <2>4, <2>6, <2>7, <2>8, <2>9 DEF NodeInv
<1> QED
  BY <1>2, <1>4, <1>5, <1>6, <1>7, <1>8, <1>9 DEF Inv, globalVars

\* A start that fails leaves every node behind, or its thread has looked for its process.
LEMMA StartFailedStep ==
  ASSUME Inv, Starting, StartFailed, UNCHANGED <<last_up, repeat, flawed, unreplaced>>,
         behind' = Nodes \/ (behind' = behind /\ ThreadsEnded)
  PROVE  Inv'
<1>1. TypeOK /\ CallInv /\ LastUpInv
  BY DEF Inv
<1>2. /\ phase' = "idle" /\ pc' = [n \in Nodes |-> "idle"] /\ AbortIf(started.blocking)
      /\ UNCHANGED <<globalVars, callVars, booted_from_snapshot>>
  BY DEF StartFailed
<1>3. started.blocking \in BOOLEAN
  BY <1>1 DEF CallInv, Calls, Starting
<1>4. /\ procs' \in [Nodes -> Seq(Process)]
      /\ snapshot_boot => owned' = {}
      /\ singleton' = singleton /\ backend' \in BOOLEAN
      /\ \A n \in Nodes : Lives(n)
  BY <1>2, <1>3, AbortLives
<1>5. TypeOK'
  BY <1>1, <1>2, <1>4 DEF TypeOK, globalVars, callVars, Labels
<1>6. CallInv'
  BY <1>1, <1>2 DEF CallInv, Starting, globalVars, callVars
<1>7. LastUpInv'
  BY <1>1 DEF LastUpInv, CallInv
<1>8. \A n \in Nodes : Over(n)
  <2> TAKE n \in Nodes
  <2>1. n \in behind' \/ (waiting' = waiting /\ (n \in NodesOf[scenario] => pc[n] # "begin"))
    <3>1. CASE behind' = Nodes
      BY <3>1
    <3>2. CASE behind' = behind /\ ThreadsEnded
      <4>1. waiting # NoCall => behind = Nodes
        BY <1>1 DEF CallInv
      <4>2. waiting = NoCall /\ n \in NodesOf[scenario] => pc[n] # "begin"
        BY <1>1, <3>2 DEF CallInv, ThreadsEnded, StartNodes
      <4> QED BY <1>2, <3>2, <4>1, <4>2 DEF callVars
    <3> QED BY <3>1, <3>2
  <2>2. behind \subseteq behind'
    BY <1>1 DEF TypeOK
  <2> QED
    BY <1>2, <1>4, <2>1, <2>2 DEF Over, callVars
<1>9. \A n \in Nodes : NodeInv(n)'
  BY <1>8, NodeOver
<1> QED
  BY <1>2, <1>4, <1>5, <1>6, <1>7, <1>9 DEF Inv, globalVars

\* A start that succeeds has all its nodes up, with their snapshots in snapshot mode.
LEMMA StartSucceededStep ==
  ASSUME Inv, Starting, ThreadsEnded, ~Failed, StartSucceeded, snapshot_boot => phase = "saving"
  PROVE  Inv'
<1>1. TypeOK /\ CallInv /\ LastUpInv /\ \A n \in Nodes : NodeInv(n)
  BY DEF Inv
<1>2. /\ phase' = "up" /\ pc' = [n \in Nodes |-> "idle"]
      /\ UNCHANGED <<globalVars, callVars, backend, booted_from_snapshot, qemuVars, troubles,
                     repeat, flawed, unreplaced>>
  BY DEF StartSucceeded
<1>3. /\ waiting = NoCall => /\ behind' = behind \ {n \in StartNodes : ~booted_from_snapshot[n]}
                             /\ last_up' = IF flawed THEN NoScenario ELSE started.scn
      /\ waiting # NoCall => behind' = behind /\ last_up' = last_up
  BY DEF StartSucceeded
<1>4. /\ started \in Calls /\ started.scn \in Scenarios /\ last_up = NoScenario
      /\ waiting = NoCall => scenario = started.scn
      /\ waiting # NoCall => behind = Nodes /\ ~repeat
  BY <1>1 DEF CallInv, Calls, Starting
<1>5. TypeOK'
  BY <1>1, <1>2, <1>3, <1>4 DEF TypeOK, globalVars, callVars, qemuVars, Labels
<1>6. CallInv'
  BY <1>1, <1>2, <1>4 DEF CallInv, Starting, globalVars, callVars
<1>7. LastUpInv'
  BY <1>2, <1>3, <1>4 DEF LastUpInv, globalVars, callVars
<1>8. ASSUME NEW n \in Nodes PROVE NodeInv(n)'
  <2>1. /\ OwnerInv(n) /\ ThreadInv(n) /\ CommandsInv(n) /\ FreshInv(n) /\ ResumeInv(n)
        /\ Last(n) \in Nat /\ singleton[n] \in Nat
    BY <1>8, Known
  <2>2. Last(n)' = Last(n) /\ Proc(n)' = Proc(n)
    BY <1>2 DEF Last, Proc, qemuVars
  <2>3. Listening(n)' = Listening(n) /\ Snaps(n)' = Snaps(n)
    BY <2>2 DEF Listening, Snaps
  <2>4. pc'[n] = "idle" /\ ~Starting' /\ StartNodes' = StartNodes
    BY <1>2, <1>8 DEF Starting, StartNodes, callVars
  <2>5. n \in StartNodes => pc[n] = "done"
    BY DEF ThreadsEnded, Failed
  <2>6. OwnerInv(n)'
    BY <1>2, <2>1, <2>2, <2>4 DEF OwnerInv, Ready, Alive, globalVars, qemuVars
  <2>7. ThreadInv(n)' /\ CommandsInv(n)'
    BY <1>2, <2>1, <2>2, <2>3, <2>4 DEF ThreadInv, CommandsInv, Booted, globalVars, qemuVars
  <2>8. n \notin behind' => waiting = NoCall /\ (n \in StartNodes => n \notin behind \/ ~booted_from_snapshot[n])
    BY <1>3, <1>4, <1>8
  <2>9. FreshInv(n)'
    <3>1. FreshSnapshot(n)' = FreshSnapshot(n)
      BY <1>2, <2>2, <2>3 DEF FreshSnapshot, FreshFor, Snapshot, globalVars
    <3>2. n \in StartNodes /\ n \notin behind' /\ Listening(n)
            => FreshFor(Proc(n).guest, started.scn)
      BY <2>1, <2>5, <2>8 DEF FreshInv, Booted
    <3>3. scenario # NoScenario /\ n \in NodesOf[scenario] \ behind' /\ Listening(n)
            => FreshSnapshot(n)
      <4> SUFFICES ASSUME scenario # NoScenario, n \in NodesOf[scenario] \ behind', Listening(n)
                   PROVE  FreshSnapshot(n)
        OBVIOUS
      <4>1. waiting = NoCall /\ n \in StartNodes /\ pc[n] = "done"
        BY <1>4, <2>5, <2>8 DEF StartNodes
      <4>2. ~Pending(n)
        BY <4>1 DEF Pending
      <4> QED
        BY <2>1, <2>8, <4>1, <4>2 DEF FreshInv, Booted
    <3> QED
      BY <1>2, <2>2, <2>3, <2>4, <3>1, <3>2, <3>3 DEF FreshInv, FreshFor, globalVars, callVars
  <2>10. ResumeInv(n)'
    <3> SUFFICES ASSUME snapshot_boot PROVE ResumeInv(n)'
      BY <1>2 DEF ResumeInv, globalVars
    <3>1. last_up' # NoScenario /\ n \in NodesOf[last_up']
            => singleton[n] # NoProcess /\ (Listening(n) => NameOf[last_up'] \in Snaps(n))
      <4> SUFFICES ASSUME last_up' # NoScenario, n \in NodesOf[last_up']
                   PROVE  singleton[n] # NoProcess /\ (Listening(n) => NameOf[last_up'] \in Snaps(n))
        OBVIOUS
      <4>1. waiting = NoCall /\ ~flawed /\ last_up' = started.scn /\ scenario = started.scn
            /\ n \in StartNodes /\ pc[n] = "done" /\ phase = "saving"
        BY <1>3, <1>4, <2>5 DEF StartNodes
      <4>2. singleton[n] # NoProcess
        BY <2>1, <4>1 DEF ThreadInv, Booted, NoProcess
      <4> QED
        BY <2>1, <4>1, <4>2 DEF ResumeInv
    <3>2. repeat /\ n \in StartNodes => booted_from_snapshot[n]
      BY <2>1, <2>5 DEF ResumeInv
    <3> QED
      BY <1>2, <2>3, <2>4, <3>1, <3>2 DEF ResumeInv, globalVars, callVars, qemuVars
  <2> QED
    BY <2>6, <2>7, <2>9, <2>10 DEF NodeInv
<1> QED
  BY <1>2, <1>5, <1>6, <1>7, <1>8 DEF Inv, globalVars, qemuVars

\* All nodes have started and their snapshots are made.
LEMMA SavingStep ==
  ASSUME Inv, phase = "starting", ThreadsEnded, ~Failed, snapshot_boot, phase' = "saving",
         pc' = [n \in Nodes |-> IF n \in StartNodes THEN "save" ELSE "idle"],
         UNCHANGED <<globalVars, callVars, backend, booted_from_snapshot, qemuVars,
                     troubles, ghostVars>>
  PROVE  Inv'
<1>1. TypeOK /\ CallInv /\ LastUpInv /\ Starting
  BY DEF Inv, Starting
<1>2. TypeOK'
  BY <1>1 DEF TypeOK, globalVars, callVars, qemuVars, ghostVars, Labels
<1>3. CallInv'
  BY <1>1 DEF CallInv, Starting, StartNodes, globalVars, callVars, ghostVars
<1>4. LastUpInv'
  BY <1>1 DEF LastUpInv, globalVars, callVars, ghostVars
<1>5. ASSUME NEW n \in Nodes PROVE NodeInv(n)'
  <2>1. /\ OwnerInv(n) /\ ThreadInv(n) /\ CommandsInv(n) /\ FreshInv(n) /\ ResumeInv(n)
        /\ Last(n) \in Nat /\ singleton[n] \in Nat
    BY <1>5, Known
  <2>2. Last(n)' = Last(n) /\ Proc(n)' = Proc(n)
    BY DEF Last, Proc, qemuVars
  <2>3. Listening(n)' = Listening(n) /\ Snaps(n)' = Snaps(n)
    BY <2>2 DEF Listening, Snaps
  <2>4. /\ pc'[n] = IF n \in StartNodes THEN "save" ELSE "idle"
        /\ Starting' /\ StartNodes' = StartNodes
    BY <1>5 DEF Starting, StartNodes, callVars
  <2>5. pc[n] = IF n \in StartNodes THEN "done" ELSE "idle"
    BY <1>1, <1>5 DEF ThreadsEnded, Failed, CallInv
  <2>6. OwnerInv(n)'
    BY <2>1, <2>2, <2>4 DEF OwnerInv, Ready, Alive, globalVars, qemuVars
  <2>7. ThreadInv(n)' /\ CommandsInv(n)'
    BY <2>1, <2>2, <2>3, <2>4, <2>5 DEF ThreadInv, CommandsInv, Booted, globalVars, qemuVars
  <2>8. FreshInv(n)'
    <3>1. FreshSnapshot(n)' = FreshSnapshot(n) /\ Pending(n)' = Pending(n)
      BY <2>2, <2>3, <2>4, <2>5
      DEF FreshSnapshot, FreshFor, Snapshot, Pending, globalVars, callVars
    <3> QED
      BY <1>1, <2>1, <2>2, <2>3, <2>4, <2>5, <3>1
      DEF FreshInv, FreshFor, Booted, globalVars, callVars, ghostVars
  <2>9. ResumeInv(n)'
    BY <1>1, <2>1, <2>3, <2>4, <2>5
    DEF ResumeInv, Booted, globalVars, callVars, qemuVars, ghostVars
  <2> QED
    BY <2>6, <2>7, <2>8, <2>9 DEF NodeInv
<1> QED
  BY <1>2, <1>3, <1>4, <1>5 DEF Inv, globalVars, qemuVars

\* The end of a start preserves the invariant.
LEMMA StarterStep ==
  ASSUME Inv, BackendFails \/ NodesStarted \/ DirectorFails \/ SnapshotsCreated
  PROVE  Inv'
<1>1. CASE BackendFails
  BY <1>1, StartFailedStep DEF BackendFails, Starting
<1>2. CASE DirectorFails
  BY <1>2, StartFailedStep DEF DirectorFails, Starting, ghostVars
<1>3. CASE NodesStarted
  <2>1. CASE Failed \/ ~backend
    BY <1>3, <2>1, StartFailedStep DEF NodesStarted, Starting, ghostVars
  <2>2. CASE ~Failed /\ backend /\ snapshot_boot
    BY <1>3, <2>2, SavingStep DEF NodesStarted
  <2>3. CASE ~Failed /\ backend /\ ~snapshot_boot
    BY <1>3, <2>3, StartSucceededStep DEF NodesStarted, Starting
  <2> QED
    BY <2>1, <2>2, <2>3
<1>4. CASE SnapshotsCreated
  <2>1. CASE Failed
    BY <1>4, <2>1, StartFailedStep DEF SnapshotsCreated, Starting, ghostVars
  <2>2. CASE ~Failed
    BY <1>4, <2>2, StartSucceededStep DEF SnapshotsCreated, Starting
  <2> QED
    BY <2>1, <2>2
<1> QED
  BY <1>1, <1>2, <1>3, <1>4

\* The simulation preserves the invariant: it changes guests, never snapshots.
LEMMA UseNodesStep ==
  ASSUME Inv, UseNodes
  PROVE  Inv'
<1>1. TypeOK /\ CallInv /\ LastUpInv /\ \A n \in Nodes : NodeInv(n)
  BY DEF Inv
<1>2. /\ phase = "up" /\ phase' = "running"
      /\ procs' = [n \in Nodes |->
                     IF n \in StartNodes
                     THEN [procs[n] EXCEPT ![Last(n)].guest.used = TRUE] ELSE procs[n]]
      /\ UNCHANGED <<globalVars, callVars, backend, nodeVars, singleton, owned, troubles,
                     ghostVars>>
  BY DEF UseNodes
<1>3. ASSUME NEW n \in Nodes
      PROVE  /\ procs'[n] \in Seq(Process)
             /\ Len(procs'[n]) = Last(n)
             /\ \A k \in 1..Last(n) : /\ procs'[n][k].state = procs[n][k].state
                                      /\ procs'[n][k].ready = procs[n][k].ready
                                      /\ procs'[n][k].snapshots = procs[n][k].snapshots
                                      /\ procs'[n][k].guest.commands = procs[n][k].guest.commands
  <2>1. procs[n] \in Seq(Process) /\ Last(n) \in Nat /\ Len(procs[n]) = Last(n)
        /\ DOMAIN procs[n] = 1..Last(n)
    BY <1>1, <1>3, ProcessType DEF TypeOK, Last
  <2>2. CASE n \notin StartNodes
    BY <1>2, <1>3, <2>1, <2>2
  <2> DEFINE q == [procs[n] EXCEPT ![Last(n)].guest.used = TRUE]
  <2>3. CASE n \in StartNodes /\ Last(n) = 0
    <3>1. procs'[n] = q
      BY <1>2, <1>3, <2>3
    <3>2. DOMAIN q = 1..0
      BY <2>1, <2>3
    <3>3. q \in [1..0 -> Process]
      <4> DEFINE x == [procs[n][0] EXCEPT !.guest = [procs[n][0].guest EXCEPT !.used = TRUE]]
      <4>1. q = [procs[n] EXCEPT ![0] = x]
        BY <2>3
      <4>2. 1..0 = {}
        OBVIOUS
      <4> HIDE DEF x
      <4>3. [procs[n] EXCEPT ![0] = x] \in [{} -> Process]
        BY <2>1, <2>3, <4>2
      <4> HIDE DEF q
      <4> QED BY <4>1, <4>2, <4>3
    <3> HIDE DEF q
    <3>4. q \in Seq(Process) /\ Len(q) = 0
      BY <3>2, <3>3
    <3> QED BY <2>3, <3>1, <3>4
  <2>4. CASE n \in StartNodes /\ Last(n) > 0
    <3> DEFINE r == procs[n][Last(n)]
               g == [r.guest EXCEPT !.used = TRUE]
               p == [r EXCEPT !.guest = g]
    <3>1. Last(n) \in 1..Last(n) /\ r \in Process
      BY <1>1, <1>3, <2>4, ProcessType
    <3>2. g \in Guest /\ g.commands = r.guest.commands
      <4> HIDE DEF r
      <4> QED BY <3>1 DEF Process, Guest
    <3>3. /\ p \in Process /\ p.state = r.state /\ p.ready = r.ready
          /\ p.snapshots = r.snapshots /\ p.guest = g
      <4> HIDE DEF r, g
      <4> QED BY <3>1, <3>2 DEF Process
    <3>4. procs'[n] = [procs[n] EXCEPT ![Last(n)] = p]
      BY <1>2, <1>3, <2>4
    <3> HIDE DEF p, g
    <3>5. /\ procs'[n] \in Seq(Process) /\ Len(procs'[n]) = Last(n)
          /\ \A k \in 1..Last(n) : procs'[n][k] = IF k = Last(n) THEN p ELSE procs[n][k]
      BY <2>1, <3>1, <3>3, <3>4
    <3> QED
      BY <3>2, <3>3, <3>5
  <2> QED
    BY <2>1, <2>2, <2>3, <2>4
<1>4. procs' \in [Nodes -> Seq(Process)]
  BY <1>2, <1>3
<1>5. TypeOK'
  BY <1>1, <1>2, <1>4 DEF TypeOK, globalVars, callVars, nodeVars, ghostVars
<1>6. CallInv'
  BY <1>1, <1>2 DEF CallInv, Starting, StartNodes, globalVars, callVars, nodeVars, ghostVars
<1>7. LastUpInv'
  BY <1>1, <1>2 DEF LastUpInv, globalVars, callVars, ghostVars
<1>8. ASSUME NEW n \in Nodes PROVE NodeInv(n)'
  <2>1. /\ OwnerInv(n) /\ ThreadInv(n) /\ CommandsInv(n) /\ FreshInv(n) /\ ResumeInv(n)
        /\ Last(n) \in Nat
    BY <1>8, Known
  <2>2. Last(n)' = Last(n)
    BY <1>3, <1>8 DEF Last
  <2>3. /\ Last(n) > 0 => /\ Proc(n)'.snapshots = Proc(n).snapshots
                          /\ Proc(n)'.guest.commands = Proc(n).guest.commands
                          /\ Snaps(n)' = Snaps(n)
        /\ Listening(n)' = Listening(n)
    BY <1>3, <1>8, <2>1, <2>2 DEF Proc, Snaps, Listening
  <2>4. Listening(n) => Last(n) > 0
    BY DEF Listening
  <2>5. pc[n] = "idle" /\ pc'[n] = "idle" /\ ~Starting' /\ phase' = "running"
    BY <1>1, <1>2, <1>8 DEF CallInv, Starting, nodeVars
  <2>6. OwnerInv(n)'
    BY <1>2, <1>3, <1>8, <2>1, <2>2 DEF OwnerInv, Ready, Alive, globalVars, nodeVars
  <2>7. ThreadInv(n)' /\ CommandsInv(n)'
    BY <1>2, <2>1, <2>2, <2>3, <2>4, <2>5
    DEF ThreadInv, CommandsInv, Booted, globalVars, nodeVars
  <2>8. FreshInv(n)'
    <3>1. Last(n) > 0 => FreshSnapshot(n)' = FreshSnapshot(n)
      BY <1>2, <2>3 DEF FreshSnapshot, FreshFor, Snapshot, globalVars
    <3>2. Pending(n)' = Pending(n)
      BY <1>2 DEF Pending, globalVars, callVars, nodeVars
    <3> QED
      BY <1>2, <2>1, <2>3, <2>4, <2>5, <3>1, <3>2 DEF FreshInv, globalVars, ghostVars
  <2>9. ResumeInv(n)'
    BY <1>2, <2>1, <2>3, <2>4, <2>5 DEF ResumeInv, globalVars, ghostVars
  <2> QED
    BY <2>6, <2>7, <2>8, <2>9 DEF NodeInv
<1> QED
  BY <1>2, <1>5, <1>6, <1>7, <1>8 DEF Inv, globalVars
-----------------------------------------------------------------------------
(***************************************************************************)
(* The invariant holds in every reachable state.                           *)
(***************************************************************************)

\* The invariant holds initially.
LEMMA InitInv == Init => Inv
<1> SUFFICES ASSUME Init PROVE Inv
  OBVIOUS
<1>1. TypeOK
  <2>1. << >> \in Seq(Process)
    OBVIOUS
  <2>2. procs \in [Nodes -> Seq(Process)]
    BY <2>1 DEF Init
  <2> QED
    BY <2>2 DEF Init, TypeOK, Labels, NoProcess
<1>2. CallInv /\ LastUpInv
  BY DEF Init, CallInv, LastUpInv, Starting
<1>3. ASSUME NEW n \in Nodes PROVE NodeInv(n)
  <2>1. Last(n) = 0 /\ pc[n] = "idle" /\ singleton[n] = 0 /\ ~booted_from_snapshot[n]
    BY <1>3 DEF Init, Last, NoProcess
  <2>2. ~Listening(n) /\ ~Starting /\ phase # "up" /\ last_up = NoScenario
    BY <2>1 DEF Init, Listening, Starting
  <2>3. OwnerInv(n) /\ ThreadInv(n) /\ CommandsInv(n)
    BY <2>1, <2>2 DEF OwnerInv, ThreadInv, CommandsInv, Booted
  <2>4. FreshInv(n) /\ ResumeInv(n)
    BY <2>2 DEF FreshInv, ResumeInv
  <2> QED
    BY <2>3, <2>4 DEF NodeInv
<1> QED
  BY <1>1, <1>2, <1>3 DEF Inv, Init

\* A step in which nothing changes.
LEMMA StutterInv == Inv /\ UNCHANGED vars => Inv'
<1> SUFFICES ASSUME Inv, UNCHANGED vars PROVE Inv'
  OBVIOUS
<1> USE DEF vars, startVars, globalVars, callVars, nodeVars, qemuVars, ghostVars
<1>1. TypeOK'
  BY DEF Inv, TypeOK
<1>2. CallInv' /\ LastUpInv'
  BY DEF Inv, CallInv, LastUpInv, Starting, StartNodes
<1>3. ASSUME NEW n \in Nodes PROVE NodeInv(n)'
  <2>1. NodeInv(n)
    BY <1>3 DEF Inv
  <2>2. Same(n) /\ Quiet
    BY DEF Same, Quiet
  <2> QED BY <2>1, <2>2, Frame
<1> QED
  BY <1>1, <1>2, <1>3 DEF Inv

\* Every step preserves the invariant.
LEMMA NextInv == Inv /\ [Next]_vars => Inv'
<1> SUFFICES ASSUME Inv, [Next]_vars PROVE Inv'
  OBVIOUS
<1>1. CASE \E s \in Scenarios, b, f \in BOOLEAN : StartCall(s, b, f)
  BY <1>1, StartCallStep
<1>2. CASE Starter
  BY <1>2, TakeLockStep, RefusedStep, StarterStep DEF Starter
<1>3. CASE Abort \/ UseNodes \/ BackendFails \/ DirectorFails
  BY <1>3, AbortStep, UseNodesStep, StarterStep
<1>4. CASE \E n \in Nodes : NodeThread(n)
  BY <1>4, FindProcessStep, LoadVmStep, SpawnStep, BootStep, RunCommandsStep, MakeSnapshotStep
  DEF NodeThread
<1>5. CASE \E n \in Nodes : \/ NetworkFails(n) \/ SpawnFails(n) \/ SaveRefused(n) \/ TimesOut(n)
                            \/ ConnectionLost(n) \/ QemuExits(n)
  BY <1>5, FailStep, SaveRefusedStep, ConnectionLostStep, QemuExitsStep
<1>6. CASE UNCHANGED vars
  BY <1>6, StutterInv
<1> QED
  BY <1>1, <1>2, <1>3, <1>4, <1>5, <1>6 DEF Next

\* The inductive invariant of the start of nodes holds, whatever fails, times out or is asked
\* for during a start, for every number of nodes, scenarios, calls and failures.
THEOREM BootInvariant == Spec => []Inv
<1>1. Init => Inv
  BY InitInv
<1>2. Inv /\ [Next]_vars => Inv'
  BY NextInv
<1> QED
  BY <1>1, <1>2, PTL DEF Spec

\* Every variable of the start of nodes keeps its type.
THEOREM BootTypes == Spec => []TypeOK
<1>1. Inv => TypeOK
  BY DEF Inv
<1> QED
  BY <1>1, BootInvariant, PTL

\* No machine that has booted and is alive is forgotten: the next start finds it in
\* qemu_process_singletons, or the ShellHelper ends it (Qemu._start, ShellHelper.reset).
THEOREM MachinesFound == Spec => []MachinesAccountedFor
<1>1. Inv => MachinesAccountedFor
  <2> SUFFICES ASSUME Inv, NEW n \in Nodes, NEW k \in DOMAIN procs[n],
                      procs[n][k].state = "alive", procs[n][k].ready
               PROVE  singleton[n] = k \/ <<n, k>> \in owned
    BY DEF MachinesAccountedFor
  <2>1. OwnerInv(n) /\ TypeOK
    BY DEF Inv, NodeInv
  <2>2. k \in 1..Last(n)
    BY <2>1 DEF TypeOK, Last
  <2> QED
    BY <2>1, <2>2 DEF OwnerInv, Ready, Alive
<1> QED
  BY <1>1, BootInvariant, PTL

\* Whoever comes up is fresh, whether booted or resumed, and after any failed start: image and
\* options of the scenario that was started, unused, the commands run at most twice; and a
\* scenario that came up is resumed when it is started again (Qemu._start, loadvm, savevm).
THEOREM GuestsFresh == Spec => []FreshGuests
<1>1. Inv => FreshGuests
  <2> SUFFICES ASSUME Inv, phase = "up"
               PROVE  /\ \A n \in StartNodes \ behind :
                           Listening(n) => /\ Proc(n).guest.image = started.scn
                                           /\ Proc(n).guest.options = started.scn
                                           /\ ~Proc(n).guest.used
                      /\ \A n \in StartNodes : Listening(n) => Proc(n).guest.commands <= 2
                      /\ snapshot_boot /\ repeat => \A n \in StartNodes : booted_from_snapshot[n]
    BY DEF FreshGuests
  <2>1. StartNodes \subseteq Nodes
    <3>1. started.scn \in Scenarios
      BY DEF Inv, CallInv, Calls
    <3> QED
      BY <3>1, NodeBootAssumption DEF StartNodes
  <2>2. \A n \in StartNodes : CommandsInv(n) /\ FreshInv(n) /\ ResumeInv(n)
    BY <2>1 DEF Inv, NodeInv
  <2> QED
    BY <2>2 DEF CommandsInv, FreshInv, FreshFor, ResumeInv
<1> QED
  BY <1>1, BootInvariant, PTL
=============================================================================

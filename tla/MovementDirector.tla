------------------------- MODULE MovementDirector -------------------------
(***************************************************************************)
(* The movement director of a scenario: MovementDirectorFactory creates    *)
(* it, SimulationManager.step asks it to simulate one step and then for    *)
(* the distance matrix, an abort resets what it rests on.  A step is       *)
(* several actions: the nodes walk one after the other, and an exception   *)
(* between them leaves some of them where they were.  In auto stepping a   *)
(* run loop makes the steps until one of its own raises; a user may step   *)
(* at any time.                                                            *)
(***************************************************************************)
EXTENDS CoreConfigNodes, MapWalk

CONSTANTS
  Scenarios,   \* records [model, nodes, mode, changes, loop]
  NoScenario,
  TimeStep,    \* seconds of a step of the run loop
  NoMatrix

MapModels == {"RandomWalk", "MoveOnBigStreets"}

ASSUME DirectorAssumption ==
  /\ TimeStep \in Nat \ {0}
  /\ NoScenario \notin Scenarios
  /\ \A s \in Scenarios :
       /\ s.nodes \in Nat \ {0}
       /\ s.model = "core" =>
            /\ s.changes # << >>
            /\ s.changes \in Seq(Nat \X DOMAIN CoreFiles)
  /\ \A m \in MapModels : Speeds[m] \subseteq Nat

VARIABLES
  scenario,    \* the scenario that has a director
  phase,       \* "idle" between steps, "walk", "distances"; "none" without director
  run_loop,    \* SimulationManager.run_loop is set
  alive,       \* the run loop still steps
  points,      \* spatial_singleton.dict_of_all_points is filled
  core,        \* the CoreConfigNodes
  walkers,     \* Nodes.dict_of_nodes: 0-based
  todo,        \* nodes that still have to walk in this step
  togo,        \* distance_in_m that the first of them still has to walk
  matrix,      \* the matrix of the last step
  raised,      \* history: why a step of the scenario raised last
  walks        \* history: calls of walk since the list was filled

vars == <<scenario, phase, run_loop, alive, points, core, walkers, todo, togo,
          matrix, raised, walks>>

Reasons == {"none", "no_run_loop", "unreadable", "no_positions", "no_matrix", "trapped"}

Is(model) == scenario # NoScenario /\ scenario.model = model
OnMap     == scenario # NoScenario /\ scenario.model \in MapModels

TypeOK ==
  /\ scenario \in Scenarios \cup {NoScenario}
  /\ phase \in {"none", "idle", "walk", "distances"}
  /\ (phase = "none") = (scenario = NoScenario)
  /\ {run_loop, alive, points} \subseteq BOOLEAN
  /\ alive => run_loop
  /\ core.remaining \in Int /\ core.remaining > 0 - TimeStep
  /\ core.loaded \in DOMAIN CoreFiles \cup {NoFile}
  /\ OnMap => DOMAIN walkers = 0..(scenario.nodes - 1)
  /\ \A n \in DOMAIN walkers : walkers[n].left > 0 \/ Stands(walkers[n])
  /\ todo \subseteq DOMAIN walkers
  /\ togo \in Nat
  /\ raised \in Reasons
  /\ walks \in Nat

Idle == NewCore(<< >>)
NoWalkers == << >>

Init ==
  /\ scenario = NoScenario
  /\ phase = "none"
  /\ run_loop = FALSE
  /\ alive = FALSE
  /\ points = TRUE
  /\ core = Idle
  /\ walkers = NoWalkers
  /\ todo = {}
  /\ togo = 0
  /\ matrix = NoMatrix
  /\ raised = "none"
  /\ walks = 0
-----------------------------------------------------------------------------
(***************************************************************************)
(* MovementDirectorFactory.factory, and the run loop of auto stepping.     *)
(***************************************************************************)
Created(s, auto) ==
  /\ phase = "none"
  /\ scenario' = s
  /\ phase' = "idle"
  /\ run_loop' = auto
  /\ alive' = auto
  /\ raised' = "none"
  /\ walks' = 0
  /\ UNCHANGED <<points, todo, togo, matrix>>

CreateNoMobility(s, auto) ==
  /\ s.model = "none"
  /\ Created(s, auto)
  /\ UNCHANGED <<core, walkers>>

CreateCore(s, auto) ==
  /\ s.model = "core"
  /\ Created(s, auto)
  /\ core' = NewCore(s.changes)
  /\ UNCHANGED walkers

CreateWalkers(s, auto) ==
  /\ s.model \in MapModels
  /\ points
  /\ Created(s, auto)
  /\ walkers' \in [0..(s.nodes - 1) -> NewWalkers(s.model)]
  /\ UNCHANGED core

(***************************************************************************)
(* The factory raises, and there is no director: always for Arma, without  *)
(* the points of the map, and if RandomWalk draws the id 0, which no map   *)
(* node has.                                                               *)
(***************************************************************************)
FactoryRaises(s) ==
  /\ phase = "none"
  /\ \/ s.model = "arma"
     \/ s.model \in MapModels /\ ~ points
     \/ s.model = "RandomWalk"
  /\ UNCHANGED vars
-----------------------------------------------------------------------------
\* A step that raises; the run loop ends if the step was its own.
StepRaises(reason) ==
  /\ phase' = "idle"
  /\ raised' = reason
  /\ alive' \in {alive, FALSE}
  /\ todo' = {}
  /\ togo' = 0
  /\ UNCHANGED <<scenario, run_loop, points, matrix, walks>>

Walked(next) ==
  /\ phase' = next
  /\ UNCHANGED <<scenario, run_loop, alive, points, matrix, raised>>

CoreStep == phase = "idle" /\ Is("core")

MapStep == UNCHANGED <<walkers, todo, togo>>

\* CoreConfigNodes.walk: the next file is shown
WalkLoads ==
  /\ CoreStep
  /\ TimeIsUp(core)
  /\ core.changes # << >>
  /\ Readable(NextChange(core)[2])
  /\ scenario.mode = "wifi" => Positions(NextChange(core)[2]) # << >>
  /\ core' = Load(core)
  /\ walks' = walks + 1
  /\ Walked("distances")
  /\ MapStep

\* The file cannot be read, or has no positions in WiFi mode; its entry is gone.
WalkLoadFails ==
  /\ CoreStep
  /\ TimeIsUp(core)
  /\ core.changes # << >>
  /\ \/ /\ ~ Readable(NextChange(core)[2])
        /\ core' = TakeChange(core)
        /\ StepRaises("unreadable")
     \/ /\ Readable(NextChange(core)[2])
        /\ scenario.mode = "wifi"
        /\ Positions(NextChange(core)[2]) = << >>
        /\ core' = Load(core)
        /\ StepRaises("no_positions")
  /\ UNCHANGED walkers

\* Fault: the list is not filled again.
WalkEndsForgetful ==
  /\ CoreStep
  /\ TimeIsUp(core)
  /\ core.changes = << >>
  /\ UNCHANGED core
  /\ walks' = IF scenario.loop THEN 0 ELSE walks
  /\ Walked("distances")
  /\ MapStep

\* The end of the list: start again with the next walk, or keep the last file.
WalkEnds ==
  /\ CoreStep
  /\ TimeIsUp(core)
  /\ core.changes = << >>
  /\ core' = IF scenario.loop THEN ResetCore(core, scenario.changes) ELSE core
  /\ walks' = IF scenario.loop THEN 0 ELSE walks
  /\ Walked("distances")
  /\ MapStep

WalkWaits ==
  /\ CoreStep
  /\ ~ TimeIsUp(core)
  /\ run_loop
  /\ core' = [core EXCEPT !.remaining = @ - TimeStep]
  /\ walks' = walks + 1
  /\ Walked("distances")
  /\ MapStep

\* Manual stepping: run_loop is None and has no time_step.
WalkWithoutRunLoop ==
  /\ CoreStep
  /\ ~ TimeIsUp(core)
  /\ ~ run_loop
  /\ StepRaises("no_run_loop")
  /\ UNCHANGED <<core, walkers>>

NoMobilityStep ==
  /\ phase = "idle"
  /\ Is("none")
  /\ Walked("distances")
  /\ UNCHANGED <<core, walks>>
  /\ MapStep
-----------------------------------------------------------------------------
(***************************************************************************)
(* MovementDirector.simulate_one_step: every node walks its speed times    *)
(* the seconds of a step, which are always 1.                              *)
(***************************************************************************)
First == CHOOSE n \in todo : \A m \in todo : n <= m

BeginMapStep ==
  /\ phase = "idle"
  /\ OnMap
  /\ todo' = DOMAIN walkers
  /\ togo' = walkers[0].speed
  /\ Walked("walk")
  /\ UNCHANGED <<core, walkers, walks>>

\* The first node of todo has walked; the next one gets its distance.
NodeDone ==
  /\ todo' = todo \ {First}
  /\ IF todo' = {} THEN togo' = 0 /\ Walked("distances")
     ELSE togo' = walkers[First + 1].speed /\ Walked("walk")

\* __walk_m within the leg
WalkOn ==
  /\ phase = "walk"
  /\ ~ Stands(walkers[First])
  /\ StaysOnLeg(walkers[First], togo)
  /\ walkers' = [walkers EXCEPT ![First] = Go(@, togo)]
  /\ NodeDone
  /\ UNCHANGED <<core, walks>>

StandStill ==
  /\ phase = "walk"
  /\ Stands(walkers[First])
  /\ NodeDone
  /\ UNCHANGED <<core, walkers, walks>>

\* __walk_m past next_map_node: a new leg, and the rest of the distance
Arrives == LET w == walkers[First] IN phase = "walk" /\ ~ Stands(w) /\ ~ StaysOnLeg(w, togo)

WalkPast ==
  /\ Arrives
  /\ LET w == walkers[First]
     IN  \E q \in NextMapNodes(w.pattern, w.next, w.at) :
           /\ walkers' = [walkers EXCEPT ![First] = Towards(w, w.next, q)]
           /\ IF q = NoNode THEN NodeDone
              ELSE togo' = togo - w.left /\ Walked("walk") /\ UNCHANGED todo
  /\ UNCHANGED <<core, walks>>

CarIsTrapped ==
  /\ Arrives
  /\ LET w == walkers[First]
     IN  /\ w.pattern = "MoveOnBigStreets"
         /\ Trapped(w.next, w.at)
         /\ walkers' = [walkers EXCEPT ![First] = Stuck(w)]
  /\ StepRaises("trapped")
  /\ UNCHANGED core
-----------------------------------------------------------------------------
Place(w) == IF Stands(w) THEN <<w.at, w.at, 0>> ELSE <<w.at, w.heading[2], w.gone>>

Distances ==
  CASE Is("none") -> << >>
    [] OnMap -> [p \in PairsOf(scenario.nodes) |-> {Place(walkers[p[1] - 1]), Place(walkers[p[2] - 1])}]
    [] Is("core") /\ scenario.mode = "lan" -> LanMatrix(core.loaded, scenario.nodes)
    [] OTHER -> WiFiMatrix(core.loaded, scenario.nodes)

\* What get_distance_matrix looks up is there.
Known ==
  Is("core") => /\ core.loaded # NoFile
                /\ scenario.mode = "wifi" => AllPlaced(core.loaded, scenario.nodes)

GetDistances ==
  /\ phase = "distances"
  /\ Known
  /\ matrix' = Distances
  /\ phase' = "idle"
  /\ UNCHANGED <<scenario, run_loop, alive, points, core, walkers, todo, togo, raised, walks>>

GetDistancesRaises ==
  /\ phase = "distances"
  /\ ~ Known
  /\ StepRaises("no_matrix")
  /\ UNCHANGED <<core, walkers>>

(***************************************************************************)
(* SimulationManager.abort stops the run loop and resets the spatial       *)
(* singleton: roads and points of the map are never read again.            *)
(***************************************************************************)
Abort ==
  /\ phase \in {"none", "idle"}
  /\ scenario' = NoScenario
  /\ phase' = "none"
  /\ run_loop' = FALSE
  /\ alive' = FALSE
  /\ points' = FALSE
  /\ core' = Idle
  /\ walkers' = NoWalkers
  /\ matrix' = NoMatrix
  /\ raised' = "none"
  /\ walks' = 0
  /\ UNCHANGED <<todo, togo>>

Start ==
  \E s \in Scenarios :
    \/ \E auto \in BOOLEAN : \/ CreateNoMobility(s, auto)
                             \/ CreateCore(s, auto)
                             \/ CreateWalkers(s, auto)
    \/ FactoryRaises(s)

Step ==
  \/ NoMobilityStep
  \/ WalkLoads
  \/ WalkLoadFails
  \/ WalkEnds
  \/ WalkWaits
  \/ WalkWithoutRunLoop
  \/ BeginMapStep
  \/ WalkOn
  \/ StandStill
  \/ WalkPast
  \/ CarIsTrapped
  \/ GetDistances
  \/ GetDistancesRaises

Next == Start \/ Step \/ Abort

Spec == Init /\ [][Next]_vars

(***************************************************************************)
(* A step that has begun ends, and a run loop that lives begins the next.  *)
(* Nothing is assumed of the user's steps, starts and aborts.              *)
(***************************************************************************)
Fairness == WF_vars((phase # "idle" \/ alive) /\ Step)

FairSpec == Spec /\ Fairness
-----------------------------------------------------------------------------
(***************************************************************************)
(* The schedule of a Core list, as a function of the walks alone.  A file  *)
(* is given the steps that its seconds take, rounded up, and some more.    *)
(* When it is shown in LAN mode, the matrix of a completed step joins x    *)
(* and y exactly if a channel of the file lists one of them first and the  *)
(* other after it, in whichever order of their ids.                        *)
(***************************************************************************)
StepsOf(change) == (change[1] + TimeStep - 1) \div TimeStep

\* The walks after which the i-th file of the list is shown no longer.
EndOf(changes, more) ==
  LET end[i \in 0..Len(changes)] ==
        IF i = 0 THEN 0 ELSE end[i - 1] + (more + StepsOf(changes[i]))
  IN  end

Joined(file, x, y) ==
  \E c \in CoreFiles[file].channels : \E k \in 2..Len(c) : {c[1], c[k]} = {x, y}

Shows(file) ==
  /\ core.loaded = file
  /\ phase = "idle" /\ matrix # NoMatrix /\ scenario.mode = "lan" =>
       \A p \in PairsOf(scenario.nodes) : matrix[p] # Unlimited <=> Joined(file, p[1], p[2])

ShowsInTurn(more) ==
  LET all == scenario.changes
  IN  \A i \in 1..Len(all) :
        EndOf(all, more)[i - 1] < walks /\ walks <= EndOf(all, more)[i] => Shows(all[i][2])

(***************************************************************************)
(* The schedule as documented: every file is shown for its time and no     *)
(* longer.  CoreConfigNodes calls the numbers "the steps until the next    *)
(* scenario becomes active", the sample scenario "the seconds a scenario   *)
(* lasts".  The code does not keep it: walk loads a file and counts its    *)
(* seconds only from the next walk on.                                     *)
(***************************************************************************)
DocumentedSchedule == Is("core") /\ raised = "none" => ShowsInTurn(0)

(***************************************************************************)
(* The deviation from the documented schedule is one step per file and no  *)
(* more, for seconds that are zero or no multiple of a step too: the files *)
(* follow each other in the order of the list, none is cut short, none is  *)
(* skipped, and none is shown more than a step longer than its time,       *)
(* except the last one during the walk that starts the list again.  The    *)
(* matrix is that of the file shown.                                       *)
(***************************************************************************)
FilesInTurn ==
  Is("core") /\ raised = "none" =>
    /\ ShowsInTurn(1)
    /\ walks = 0 /\ core.loaded # NoFile => Shows(scenario.changes[Len(scenario.changes)][2])

(***************************************************************************)
(* A walker is on a road, in the direction of its next map node, and the   *)
(* way it has gone and the way left add up to the length of the leg; a car *)
(* never drives against a one-way road.  Only a car whose choice raised is *)
(* no longer between two map nodes, and then it is at a place with two     *)
(* listed roads or more (or one listed twice).                             *)
(***************************************************************************)
MayGo(pattern, p, q) ==
  \E r \in Roads : \/ r.start = p /\ r.end = q
                   \/ r.end = p /\ r.start = q /\ (pattern = "RandomWalk" \/ r.car_reverse)

OnRoad ==
  \A n \in DOMAIN walkers :
    LET w == walkers[n]
    IN  \/ Stands(w)
        \/ w.at = w.next /\ raised = "trapped" /\ ListLength(w.at) >= 2
        \/ /\ MayGo(w.pattern, w.at, w.next)
           /\ w.heading = <<w.at, w.next>>
           /\ w.gone + w.left = Dist[w.at, w.next]

(***************************************************************************)
(* A looping scenario shows each of its files that can be read again and   *)
(* again, unless a step of the run loop raises or the scenario is aborted. *)
(***************************************************************************)
Lists(s, file) == \E i \in 1..Len(s.changes) : s.changes[i][2] = file

TopologiesReturn ==
  \A f \in {g \in DOMAIN CoreFiles : Readable(g)} :
    []<>(Is("core") /\ alive /\ scenario.loop /\ Lists(scenario, f) => core.loaded = f)
=============================================================================

-------------------------- MODULE CoreConfigNodes --------------------------
(***************************************************************************)
(* Topologies from files of the CORE emulator.  A scenario lists files and *)
(* how long each is shown; CoreConfigNodes.walk goes through the list.  In *)
(* LAN mode a file says which nodes share a channel, in WiFi mode where    *)
(* each node is.  Operators only; MovementDirector holds the state.        *)
(***************************************************************************)
EXTENDS Integers, Sequences

CONSTANTS
  CoreFiles,   \* file name -> [version, channels, hosts]
  NoFile,      \* no file was read yet
  NoPoint      \* a host without a point element

\* Pairs of the upper triangular matrix of a scenario with n nodes.
PairsOf(n) == {p \in (1..n) \X (1..n) : p[1] < p[2]}

\* check_version
Readable(file) == CoreFiles[file].version >= 1

(***************************************************************************)
(* parse_core_config_file: the first member of a channel is connected to   *)
(* the others, and the other way round if its id is not the smaller one.   *)
(***************************************************************************)
Parsed(file, n, m) ==
  \E c \in CoreFiles[file].channels : \E k \in 2..Len(c) :
    \/ c[1] = n /\ c[k] = m
    \/ c[1] = m /\ c[k] = n /\ c[1] >= n

Unlimited == -1

\* CoreConfigNodesLan.get_distance_matrix
LanMatrix(file, n) ==
  [p \in PairsOf(n) |-> IF Parsed(file, p[1], p[2]) THEN 1 ELSE Unlimited]

(***************************************************************************)
(* parse_core_config_file_positions numbers the hosts itself, in the order *)
(* of the file.  A point is abstracted to a place on a line.               *)
(***************************************************************************)
Positions(file) ==
  LET hosts == CoreFiles[file].hosts
  IN  [i \in {j \in 1..Len(hosts) : hosts[j] # NoPoint} |-> hosts[i]]

Apart(a, b) == IF a < b THEN b - a ELSE a - b

\* CoreConfigNodesWiFi.get_distance_matrix
WiFiMatrix(file, n) ==
  [p \in PairsOf(n) |-> Apart(Positions(file)[p[1]], Positions(file)[p[2]])]

\* Every node of the scenario has a position, else the look up is a KeyError.
AllPlaced(file, n) == 1..n \subseteq DOMAIN Positions(file)

(***************************************************************************)
(* The state of CoreConfigNodes.  scenario_changes are the entries not yet *)
(* shown, remaining_seconds is 0 for None: walk treats both alike.  loaded *)
(* is the file that crnt_connections or crnt_distances come from.          *)
(***************************************************************************)
ResetCore(core, all) == [core EXCEPT !.changes = all, !.remaining = 0]

NewCore(all) == [changes |-> all, remaining |-> 0, loaded |-> NoFile]

\* Fault: the last second is counted too.
TimeIsUpLate(core) == core.remaining < 0 \/ core.loaded = NoFile

TimeIsUp(core) == core.remaining <= 0

NextChange(core) == Head(core.changes)

\* The next entry is taken off the list before its file is read.
TakeChange(core) ==
  [core EXCEPT !.changes = Tail(@), !.remaining = NextChange(core)[1]]

Load(core) == [TakeChange(core) EXCEPT !.loaded = NextChange(core)[2]]
=============================================================================

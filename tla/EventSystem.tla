---------------------------- MODULE EventSystem ----------------------------
(***************************************************************************)
(* The EventSystem: for every node that has ever been seen, the progress   *)
(* of every event.                                                         *)
(*                                                                         *)
(* data is a function from the nodes with a key to their                   *)
(* EventProgressStore, a function from all events in which 0 also stands   *)
(* for a missing key (reading a missing key creates it with 0.0).  The     *)
(* program only ever sets, or adds, the values 0.0 and 1.0.  events is the *)
(* list of registered events; it may name an event more than once.         *)
(***************************************************************************)
EXTENDS Naturals, Sequences, FiniteSets, SequencesExt

\* MyEventSystem.STATIC_EVENTS and the events that depend on the scenario
StaticEvents == <<"vm_boot", "vm_shell_ready", "vm_shell_pre_network_commands">>

Events == ToSet(StaticEvents) \cup
          {"vm_shell_post_network_commands", "network_backend_setup",
           "network_setup", "network_check"}

\* reset() registers the static events and the constructor registers them again.
InitialEvents == StaticEvents \o StaticEvents

EmptyProgress == [e \in Events |-> 0]

\* __getitem__: a node that is asked for exists from then on
Known(data, n) ==
  [m \in DOMAIN data \cup {n} |-> IF m \in DOMAIN data THEN data[m] ELSE EmptyProgress]

\* update_event for one node: the new progress, which must not be above 1.0 ...
NewProgress(data, n, e, progress, add) ==
  IF add THEN Known(data, n)[n][e] + progress ELSE progress

\* ... and the store with it
UpdateEvent(data, n, e, progress, add) ==
  [Known(data, n) EXCEPT ![n][e] = NewProgress(data, n, e, progress, add)]

\* get_all_events without the total: every registered event once, in order
AllEvents(events) ==
  SelectSeq([i \in 1..Len(events) |->
               IF \E j \in 1..(i - 1) : events[j] = events[i] THEN "again" ELSE events[i]],
            LAMBDA e : e # "again")
=============================================================================

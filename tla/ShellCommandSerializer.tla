----------------------- MODULE ShellCommandSerializer -----------------------
(***************************************************************************)
(* The ShellCommandSerializer: commands queued per event during a step and *)
(* run together when the topology is changed.                              *)
(*                                                                         *)
(* queue.ordered says whether the group order is set: run_commands and     *)
(* get_all_commands walk over group_order, so without it they find         *)
(* nothing, whatever is queued.  queue.cmds[e] are the commands of event   *)
(* e, in the order in which they were added and without duplicates.        *)
(***************************************************************************)
EXTENDS Naturals, Sequences

CONSTANTS
  Events     \* the event names of the backend

\* The commands of a queue as a set.
Queued(cmds) == {cmds[k] : k \in DOMAIN cmds}

\* A queue is a record of these two fields.
IsQueue(queue) ==
  /\ queue = [ordered |-> queue.ordered, cmds |-> [e \in Events |-> queue.cmds[e]]]
  /\ queue.ordered \in BOOLEAN

NoCommands == [e \in Events |-> <<>>]

\* init_shell_command_executor + setup_shell_command_executor
FreshSerializer == [ordered |-> TRUE, cmds |-> NoCommands]

\* ShellCommandSerializer.reset: the group order is gone as well
ResetSerializer == [ordered |-> FALSE, cmds |-> NoCommands]

\* CommandStore.add_command: a command that is queued already is not added again
AddUnique(cmds, c) == IF c \in Queued(cmds) THEN cmds ELSE Append(cmds, c)

AddCommand(queue, e, c) == [queue EXCEPT !.cmds[e] = AddUnique(@, c)]

\* run_commands / get_all_commands: the commands of an event that are really run
Runnable(queue, e) == IF queue.ordered THEN queue.cmds[e] ELSE <<>>
=============================================================================

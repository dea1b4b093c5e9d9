--------------------------- MODULE BridgeCommands ---------------------------
(***************************************************************************)
(* What the queued bridge commands do to the kernel (brctl execution mode, *)
(* one shell call per event).                                              *)
(*                                                                         *)
(* devices is the set of bridge devices that exist; slaves is the set of   *)
(* <<tap, bridge>> for which the tap is a port of the bridge.  An addbr    *)
(* command is the name of a bridge, an addif command is <<tap, bridge>>.   *)
(* brctl and the kernel are external: modelled from how BridgeBrctl and    *)
(* CommandStore.run_commands use them.                                     *)
(***************************************************************************)
EXTENDS Naturals, Sequences

(***************************************************************************)
(* All addbr commands are run in one shell call; its exit status is that   *)
(* of the last one, which fails if the bridge exists already.              *)
(***************************************************************************)
AddBrOk(devices, cmds) == cmds # <<>> => cmds[Len(cmds)] \notin devices

AddBr(devices, cmds) == devices \cup {cmds[k] : k \in DOMAIN cmds}

(***************************************************************************)
(* brctl addif needs an existing bridge and a tap that is no port yet.     *)
(* The shell call ends with "ip link set <tap> up", so it always succeeds. *)
(***************************************************************************)
AddIf(devices, slaves, cmds) ==
  slaves \cup {c \in {cmds[k] : k \in DOMAIN cmds} :
                 c[2] \in devices /\ \A s \in slaves : s[1] # c[1]}

\* The ip batch sets the bridge of every addif up; it stops at a missing bridge.
IpBatchOk(devices, cmds) == \A k \in DOMAIN cmds : cmds[k][2] \in devices
=============================================================================

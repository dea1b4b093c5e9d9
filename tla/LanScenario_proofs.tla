------------------------- MODULE LanScenario_proofs -------------------------
(***************************************************************************)
(* Proofs about the multi device backend, alone and together with the      *)
(* provisioner of its LANs, for any set of nodes, interfaces, distances    *)
(* and failure points.  First the books of the backend are kept; then they *)
(* are kept with the provisioner as well, every link has a subnet of its   *)
(* own, and as long as no step has failed the links work.                  *)
(***************************************************************************)
EXTENDS LanScenario, FiniteSetTheorems, TLAPS
-----------------------------------------------------------------------------
(***************************************************************************)
(* The command queue.                                                      *)
(***************************************************************************)

\* Adding a command to an event's queue keeps its type and adds one element.
LEMMA AddUniqueLemma ==
  ASSUME NEW T, NEW s \in Seq(T), NEW c \in T
  PROVE  /\ Shell!AddUnique(s, c) \in Seq(T)
         /\ Shell!Queued(Shell!AddUnique(s, c)) = Shell!Queued(s) \cup {c}
<1>1. CASE c \in Shell!Queued(s)
  BY <1>1 DEF Shell!AddUnique
<1>2. CASE c \notin Shell!Queued(s)
  <2>1. Shell!AddUnique(s, c) = Append(s, c)
    BY <1>2 DEF Shell!AddUnique
  <2>2. Append(s, c) \in Seq(T)
    OBVIOUS
  <2>3. Shell!Queued(Append(s, c)) = Shell!Queued(s) \cup {c}
    <3> DEFINE n == Len(s)
    <3>1. /\ n \in Nat
          /\ DOMAIN s = 1..n
          /\ DOMAIN Append(s, c) = 1..(n+1)
          /\ \A k \in 1..n : Append(s, c)[k] = s[k]
          /\ Append(s, c)[n+1] = c
      OBVIOUS
    <3>2. 1..(n+1) = 1..n \cup {n+1}
      BY <3>1
    <3> HIDE DEF n
    <3>3. QED
      BY <3>1, <3>2, Zenon DEF Shell!Queued
  <2>4. QED
    BY <2>1, <2>2, <2>3
<1>3. QED
  BY <1>1, <1>2

\* AddCommand touches the queue of one event only.
LEMMA AddCommandLemma ==
  ASSUME NEW q, Shell!IsQueue(q), NEW e \in Events, NEW c
  PROVE  /\ Shell!IsQueue(Shell!AddCommand(q, e, c))
         /\ Shell!AddCommand(q, e, c).cmds[e] = Shell!AddUnique(q.cmds[e], c)
         /\ \A o \in Events \ {e} : Shell!AddCommand(q, e, c).cmds[o] = q.cmds[o]
  BY DEF Shell!IsQueue, Shell!AddCommand

\* New and reset queues hold no commands.
LEMMA FreshLemma ==
  /\ Shell!IsQueue(Shell!FreshSerializer)
  /\ Shell!IsQueue(Shell!ResetSerializer)
  /\ \A e \in Events : /\ Shell!FreshSerializer.cmds[e] = <<>>
                       /\ Shell!ResetSerializer.cmds[e] = <<>>
  BY DEF Shell!IsQueue, Shell!FreshSerializer, Shell!ResetSerializer, Shell!NoCommands

\* The elements of a typed command queue.
LEMMA QueuedLemma ==
  ASSUME NEW T, NEW s \in Seq(T)
  PROVE  Shell!Queued(s) \in SUBSET T
  BY DEF Shell!Queued

(***************************************************************************)
(* The connection store.                                                   *)
(***************************************************************************)

\* A connection that was just added is active, so link_up changes nothing.
LEMMA StoreUpLemma ==
  ASSUME NEW s \in Store!Stores, NEW p \in Pairs, NEW ifs \in IfPairs
  PROVE  Store!ChangeState(Store!AddConnection(s, p, ifs), p, ifs, TRUE)
           = [s EXCEPT !.active[p] = @ \cup {ifs}]
  BY DEF Store!ChangeState, Store!AddConnection, Store!Stores

\* An active connection of a pair without inactive ones is lost by link_down.
LEMMA StoreDownLemma ==
  ASSUME NEW s \in Store!Stores, NEW p \in Pairs, NEW ifs \in s.active[p],
         s.inactive[p] = {}
  PROVE  Store!ChangeState(s, p, ifs, FALSE)
           = [s EXCEPT !.active[p] = @ \ {ifs}]
  BY DEF Store!ChangeState, Store!PutIfKeyed, Store!Stores

(***************************************************************************)
(* Type correctness.                                                       *)
(***************************************************************************)

\* The queue after LinkUp: a bridge, two taps on it, two taps up.
LEMMA QueueLinkLemma ==
  ASSUME TypeOK, NEW p \in Pairs, NEW ifs \in IfPairs,
         NEW q, q = QueueLink(queue, p, ifs)
  PROVE  /\ Shell!IsQueue(q)
         /\ q.cmds["addbr"] \in Seq(Pairs)
         /\ q.cmds["addif"] \in Seq(Taps \X Pairs)
         /\ q.cmds["conn"] \in Seq(Taps \X {"up", "down"})
         /\ Shell!Queued(q.cmds["addif"])
              = Shell!Queued(queue.cmds["addif"])
                  \cup {<<TapX(p, ifs), p>>, <<TapY(p, ifs), p>>}
<1> DEFINE TA == Taps \X Pairs
           TC == Taps \X {"up", "down"}
           tx == TapX(p, ifs)
           ty == TapY(p, ifs)
           cx == <<tx, p>>
           cy == <<ty, p>>
           dx == <<tx, "up">>
           dy == <<ty, "up">>
           br == Shell!AddCommand(queue, "addbr", p)
           bx == Shell!AddCommand(br, "addif", cx)
           by == Shell!AddCommand(bx, "addif", cy)
           ux == Shell!AddCommand(by, "conn", dx)
           uy == Shell!AddCommand(ux, "conn", dy)
<1>1. tx \in Taps /\ ty \in Taps
  BY MultiAssumption DEF TapX, TapY, Taps, Pairs
<1>2. q = uy
  BY DEF QueueLink
<1>3. Events = {"addbr", "addif", "conn"}
  BY MultiAssumption
<1>4. /\ Shell!IsQueue(queue)
      /\ queue.cmds["addbr"] \in Seq(Pairs)
      /\ queue.cmds["addif"] \in Seq(TA)
      /\ queue.cmds["conn"] \in Seq(TC)
  BY DEF TypeOK, StepTypeOK
<1>10. /\ cx \in TA
       /\ cy \in TA
       /\ dx \in TC
       /\ dy \in TC
  BY <1>1
<1> HIDE DEF TA, TC, tx, ty, cx, cy, dx, dy, br, bx, by, ux, uy
<1>5. /\ Shell!IsQueue(br)
      /\ br.cmds["addbr"] \in Seq(Pairs)
      /\ br.cmds["addif"] = queue.cmds["addif"]
      /\ br.cmds["conn"] = queue.cmds["conn"]
  BY <1>3, <1>4, AddCommandLemma, AddUniqueLemma DEF br
<1>6. /\ Shell!IsQueue(bx)
      /\ bx.cmds["addbr"] = br.cmds["addbr"]
      /\ bx.cmds["addif"] = Shell!AddUnique(br.cmds["addif"], cx)
      /\ bx.cmds["conn"] = br.cmds["conn"]
  BY <1>3, <1>5, AddCommandLemma DEF bx
<1>7. /\ Shell!IsQueue(by)
      /\ by.cmds["addbr"] = bx.cmds["addbr"]
      /\ by.cmds["addif"] = Shell!AddUnique(bx.cmds["addif"], cy)
      /\ by.cmds["conn"] = bx.cmds["conn"]
  BY <1>3, <1>6, AddCommandLemma DEF by
<1>8. /\ Shell!IsQueue(ux)
      /\ ux.cmds["addbr"] = by.cmds["addbr"]
      /\ ux.cmds["addif"] = by.cmds["addif"]
      /\ ux.cmds["conn"] = Shell!AddUnique(by.cmds["conn"], dx)
  BY <1>3, <1>7, AddCommandLemma DEF ux
<1>9. /\ Shell!IsQueue(uy)
      /\ uy.cmds["addbr"] = ux.cmds["addbr"]
      /\ uy.cmds["addif"] = ux.cmds["addif"]
      /\ uy.cmds["conn"] = Shell!AddUnique(ux.cmds["conn"], dy)
  BY <1>3, <1>8, AddCommandLemma DEF uy
<1>11. /\ bx.cmds["addif"] \in Seq(TA)
       /\ Shell!Queued(bx.cmds["addif"])
            = Shell!Queued(queue.cmds["addif"]) \cup {cx}
  <2>1. queue.cmds["addif"] \in Seq(TA) /\ cx \in TA
    BY <1>4, <1>10
  <2>2. bx.cmds["addif"] = Shell!AddUnique(queue.cmds["addif"], cx)
    BY <1>5, <1>6
  <2>3. /\ Shell!AddUnique(queue.cmds["addif"], cx) \in Seq(TA)
        /\ Shell!Queued(Shell!AddUnique(queue.cmds["addif"], cx))
             = Shell!Queued(queue.cmds["addif"]) \cup {cx}
    BY <2>1, AddUniqueLemma
  <2>4. QED
    BY <2>2, <2>3
<1>12. /\ by.cmds["addif"] \in Seq(TA)
       /\ Shell!Queued(by.cmds["addif"])
            = Shell!Queued(bx.cmds["addif"]) \cup {cy}
  <2>1. bx.cmds["addif"] \in Seq(TA) /\ cy \in TA
    BY <1>10, <1>11
  <2>2. /\ Shell!AddUnique(bx.cmds["addif"], cy) \in Seq(TA)
        /\ Shell!Queued(Shell!AddUnique(bx.cmds["addif"], cy))
             = Shell!Queued(bx.cmds["addif"]) \cup {cy}
    BY <2>1, AddUniqueLemma
  <2>3. QED
    BY <1>7, <2>2
<1>13. ux.cmds["conn"] \in Seq(TC)
  BY <1>4, <1>5, <1>6, <1>7, <1>8, <1>10, AddUniqueLemma
<1>14. uy.cmds["conn"] \in Seq(TC)
  BY <1>9, <1>10, <1>13, AddUniqueLemma
<1>15. QED
  BY <1>2, <1>5, <1>6, <1>7, <1>8, <1>9, <1>11, <1>12, <1>14 DEF TA, TC, tx, ty, cx, cy

\* The queue after LinkDown: two commands of the conn event, nothing else.
LEMMA QueueDownLemma ==
  ASSUME TypeOK, NEW x \in Taps, NEW y \in Taps, NEW q,
         q = Shell!AddCommand(Shell!AddCommand(queue, "conn", <<x, "down">>),
                              "conn", <<y, "down">>)
  PROVE  /\ Shell!IsQueue(q)
         /\ q.cmds["addbr"] = queue.cmds["addbr"]
         /\ q.cmds["addif"] = queue.cmds["addif"]
         /\ q.cmds["conn"] \in Seq(Taps \X {"up", "down"})
<1> DEFINE TC == Taps \X {"up", "down"}
           dx == <<x, "down">>
           dy == <<y, "down">>
           ux == Shell!AddCommand(queue, "conn", dx)
           uy == Shell!AddCommand(ux, "conn", dy)
<1>1. Events = {"addbr", "addif", "conn"}
  BY MultiAssumption
<1>2. /\ Shell!IsQueue(queue)
      /\ queue.cmds["conn"] \in Seq(TC)
  BY DEF TypeOK, StepTypeOK
<1>3. dx \in TC /\ dy \in TC
  OBVIOUS
<1>4. q = uy
  OBVIOUS
<1> HIDE DEF TC, dx, dy, ux, uy
<1>5. /\ Shell!IsQueue(ux)
      /\ ux.cmds["addbr"] = queue.cmds["addbr"]
      /\ ux.cmds["addif"] = queue.cmds["addif"]
      /\ ux.cmds["conn"] = Shell!AddUnique(queue.cmds["conn"], dx)
  BY <1>1, <1>2, AddCommandLemma DEF ux
<1>6. /\ Shell!IsQueue(uy)
      /\ uy.cmds["addbr"] = ux.cmds["addbr"]
      /\ uy.cmds["addif"] = ux.cmds["addif"]
      /\ uy.cmds["conn"] = Shell!AddUnique(ux.cmds["conn"], dy)
  BY <1>1, <1>5, AddCommandLemma DEF uy
<1>7. ux.cmds["conn"] \in Seq(TC)
  BY <1>2, <1>3, <1>5, AddUniqueLemma
<1>8. uy.cmds["conn"] \in Seq(TC)
  BY <1>3, <1>6, <1>7, AddUniqueLemma
<1>9. QED
  BY <1>4, <1>5, <1>6, <1>8 DEF TC

\* The three typed queues of a queue without commands.
LEMMA NoCommandsLemma ==
  ASSUME NEW q, \A e \in Events : q.cmds[e] = <<>>
  PROVE  /\ q.cmds["addbr"] \in Seq(Pairs)
         /\ q.cmds["addif"] \in Seq(Taps \X Pairs)
         /\ q.cmds["conn"] \in Seq(Taps \X {"up", "down"})
         /\ Shell!Queued(q.cmds["addif"]) = {}
<1>1. q.cmds["addbr"] = <<>> /\ q.cmds["addif"] = <<>> /\ q.cmds["conn"] = <<>>
  BY MultiAssumption
<1>2. \A T : <<>> \in Seq(T)
  OBVIOUS
<1>3. Shell!Queued(<<>>) = {}
  BY DEF Shell!Queued
<1>4. QED
  BY <1>1, <1>2, <1>3, Zenon

(***************************************************************************)
(* What the phases of a step guarantee besides the types: the difference   *)
(* is worked off before the commands are run, and a step that has begun    *)
(* may still be counted.                                                   *)
(***************************************************************************)
InStep ==
  /\ pc # "pairs" => diff = {}
  /\ pc # "idle" => current_step < MaxSteps

\* The state after a reset is typed, and no step is under way.
LEMMA TypeInit == Init => TypeOK /\ InStep
<1> SUFFICES ASSUME Init PROVE TypeOK /\ InStep
  OBVIOUS
<1>1. Shell!IsQueue(queue) /\ \A e \in Events : queue.cmds[e] = <<>>
  BY FreshLemma DEF Init, StepInit
<1>2. store \in Store!Stores
  BY DEF Init, StepInit, Store!EmptyStore, Store!Stores
<1>3. /\ queue.cmds["addbr"] \in Seq(Pairs)
      /\ queue.cmds["addif"] \in Seq(Taps \X Pairs)
      /\ queue.cmds["conn"] \in Seq(Taps \X {"up", "down"})
  BY <1>1, NoCommandsLemma
<1>4. StepTypeOK
  BY <1>1, <1>2, StepAssumption DEF Init, StepInit, StepTypeOK, Phases
<1>5. QED
  BY <1>3, <1>4, StepAssumption DEF Init, StepInit, TypeOK, InStep

\* Book keeping and command queues of a pair, as typed by TypeOK.
QueueTypeOK(q) ==
  /\ Shell!IsQueue(q)
  /\ q.cmds["addbr"] \in Seq(Pairs)
  /\ q.cmds["addif"] \in Seq(Taps \X Pairs)
  /\ q.cmds["conn"] \in Seq(Taps \X {"up", "down"})

\* What LinkUp does to store, book keeper and queue.
LEMMA LinkUpTypes ==
  ASSUME TypeOK, NEW p \in Pairs, NEW ifs \in IfPairs, LinkUp(p, ifs)
  PROVE  /\ store' = [store EXCEPT !.active[p] = @ \cup {ifs}]
         /\ store' \in Store!Stores
         /\ connections' \in SUBSET Pairs
         /\ interface_states' \in [Taps -> {"unused", "down", "up"}]
         /\ QueueTypeOK(queue')
<1>1. store \in Store!Stores
  BY DEF TypeOK, StepTypeOK
<1>2. store' = [store EXCEPT !.active[p] = @ \cup {ifs}]
  <2>1. store' = Store!ChangeState(Store!AddConnection(store, p, ifs), p, ifs, TRUE)
    BY DEF LinkUp
  <2>2. QED
    BY <1>1, <2>1, StoreUpLemma, Zenon
<1>3. store' \in Store!Stores
  <2>1. [store.active EXCEPT ![p] = @ \cup {ifs}] \in [Pairs -> SUBSET IfPairs]
    BY <1>1 DEF Store!Stores
  <2>2. QED
    BY <1>1, <1>2, <2>1 DEF Store!Stores
<1>4. QueueTypeOK(queue')
  BY QueueLinkLemma DEF LinkUp, QueueTypeOK
<1>5. QED
  BY <1>2, <1>3, <1>4 DEF LinkUp, TypeOK, SetTaps

\* What LinkDown does to store, book keeper and queue.
LEMMA LinkDownTypes ==
  ASSUME TypeOK, NEW p \in Pairs, NEW ifs \in IfPairs, LinkDown(p, ifs)
  PROVE  /\ store' \in Store!Stores
         /\ interface_states' \in [Taps -> {"unused", "down", "up"}]
         /\ QueueTypeOK(queue')
         /\ queue'.cmds["addif"] = queue.cmds["addif"]
<1>1. store \in Store!Stores
  BY DEF TypeOK, StepTypeOK
<1>2. store' \in Store!Stores
  BY <1>1 DEF LinkDown, Store!Stores, Store!ChangeState, Store!PutIfKeyed
<1>3. TapX(p, ifs) \in Taps /\ TapY(p, ifs) \in Taps
  BY MultiAssumption DEF TapX, TapY, Taps, Pairs
<1>4. /\ QueueTypeOK(queue')
      /\ queue'.cmds["addif"] = queue.cmds["addif"]
  BY <1>3, QueueDownLemma DEF LinkDown, QueueTypeOK, TypeOK
<1>5. QED
  BY <1>2, <1>4 DEF LinkDown, TypeOK, SetTaps

\* The queued addif commands in a typed state.
LEMMA QueueTypes ==
  ASSUME TypeOK
  PROVE  Shell!Queued(queue.cmds["addif"]) \in SUBSET (Taps \X Pairs)
<1> DEFINE T == Taps \X Pairs
<1>1. queue.cmds["addif"] \in Seq(T)
  BY DEF TypeOK
<1> HIDE DEF T
<1>2. Shell!Queued(queue.cmds["addif"]) \in SUBSET T
  BY <1>1, QueuedLemma
<1>3. QED
  BY <1>2 DEF T

\* The bridge commands run in a typed state.
LEMMA BridgeTypes ==
  ASSUME TypeOK
  PROVE  /\ AddBr(devices, ToAddBr) \in SUBSET Pairs
         /\ BridgeCommandsRun =>
              /\ devices' \in SUBSET Pairs
              /\ slaves' \in SUBSET (Taps \X Pairs)
              /\ slaves' \subseteq slaves \cup Shell!Queued(queue.cmds["addif"])
              /\ up' \in SUBSET Taps
<1>1. /\ queue.cmds["addbr"] \in Seq(Pairs)
      /\ queue.cmds["addif"] \in Seq(Taps \X Pairs)
      /\ devices \in SUBSET Pairs
      /\ slaves \in SUBSET (Taps \X Pairs)
      /\ up \in SUBSET Taps
  BY DEF TypeOK
<1>2. /\ Shell!Queued(ToAddBr) \in SUBSET Pairs
      /\ Shell!Queued(ToAddIf) \subseteq Shell!Queued(queue.cmds["addif"])
  <2>1. Shell!Queued(<<>>) = {}
    BY DEF Shell!Queued
  <2>2. Shell!Queued(queue.cmds["addbr"]) \in SUBSET Pairs
    BY <1>1, QueuedLemma
  <2>3. QED
    BY <2>1, <2>2 DEF ToAddBr, ToAddIf, Shell!Runnable
<1>3. Shell!Queued(queue.cmds["addif"]) \in SUBSET (Taps \X Pairs)
  BY QueueTypes
<1>4. AddBr(devices, ToAddBr) = devices \cup Shell!Queued(ToAddBr)
  BY DEF AddBr, Shell!Queued
<1>5. AddIf(devices', slaves, ToAddIf) \subseteq slaves \cup Shell!Queued(ToAddIf)
  BY DEF AddIf, Shell!Queued
<1>6. \A c \in Shell!Queued(ToAddIf) : c[1] \in Taps
  BY <1>2, <1>3
<1>7. QED
  BY <1>1, <1>2, <1>3, <1>4, <1>5, <1>6 DEF BridgeCommandsRun

\* One step of the specification preserves the types and InStep.
LEMMA TypeStep ==
  ASSUME TypeOK, InStep, Next
  PROVE  TypeOK' /\ InStep'
<1> USE StepAssumption
<1>1. ASSUME NEW m \in Matrices, Begin(m)
      PROVE  TypeOK' /\ InStep'
  BY <1>1 DEF Begin, BeginStep, bookVars, kernelVars, TypeOK, StepTypeOK, InStep,
              Phases, Matrices, Changed, Store!ActivePairs
<1>2. ASSUME NEW p \in Pairs, ProcessPair(p)
      PROVE  TypeOK' /\ InStep'
  <2>1. TakePair(p) /\ UNCHANGED kernelVars
    BY <1>2 DEF ProcessPair
  <2> DEFINE Typed == /\ store' \in Store!Stores
                      /\ connections' \in SUBSET Pairs
                      /\ interface_states' \in [Taps -> {"unused", "down", "up"}]
                      /\ QueueTypeOK(queue')
  <2>2. Typed
    <3>1. ASSUME NEW ifs \in IfPairs, LinkUp(p, ifs) PROVE Typed
      BY <3>1, LinkUpTypes
    <3>2. CASE LinkRefused(p) \/ NotLinked(p)
      BY <3>2 DEF LinkRefused, NotLinked, bookVars, TypeOK, StepTypeOK, QueueTypeOK
    <3>3. ASSUME NEW ifs \in IfPairs, LinkDown(p, ifs) PROVE Typed
      BY <3>3, LinkDownTypes DEF LinkDown, TypeOK
    <3>4. \/ \E ifs \in IfPairs : LinkUp(p, ifs)
          \/ LinkRefused(p) \/ NotLinked(p)
          \/ \E ifs \in IfPairs : LinkDown(p, ifs)
      BY <1>2 DEF ProcessPair
    <3>5. QED
      BY <3>1, <3>2, <3>3, <3>4, Zenon
  <2>3. QED
    BY <2>1, <2>2 DEF TakePair, kernelVars, TypeOK, StepTypeOK, InStep, QueueTypeOK
<1>3. CASE EndOfPairs
  BY <1>3 DEF EndOfPairs, PairsDone, bookVars, kernelVars, TypeOK, StepTypeOK,
              InStep, Phases
<1>4. CASE RunBridge
  BY <1>4, BridgeTypes DEF RunBridge, Advance, BridgeCommandsRun, bookVars, TypeOK,
                           StepTypeOK, InStep, Phases
<1>5. CASE BridgeError
  BY <1>5, BridgeTypes DEF BridgeError, Raise, bookVars, TypeOK, StepTypeOK, InStep,
                           Phases
<1>6. CASE RunBatch
  <2>1. QueueTypeOK(queue')
    BY <1>6, FreshLemma, NoCommandsLemma DEF RunBatch, BatchDone, QueueTypeOK
  <2>2. QED
    BY <1>6, <2>1 DEF RunBatch, BatchDone, bookVars, TypeOK, StepTypeOK, InStep,
                      Phases, QueueTypeOK
<1>7. CASE IpConfig
  BY <1>7 DEF IpConfig, Advance, bookVars, kernelVars, TypeOK, StepTypeOK,
              InStep, Phases
<1>8. CASE CheckPasses
  <2>1. QueueTypeOK(queue')
    BY <1>8, FreshLemma, NoCommandsLemma DEF CheckPasses, CheckDone, QueueTypeOK
  <2>2. QED
    BY <1>8, <2>1 DEF CheckPasses, CheckDone, bookVars, kernelVars, TypeOK,
                      StepTypeOK, InStep, Phases, QueueTypeOK
<1>9. CASE CheckFails
  BY <1>9 DEF CheckFails, Raise, bookVars, kernelVars, TypeOK, StepTypeOK,
              InStep, Phases
<1>10. CASE End
  BY <1>10 DEF End, EndStep, bookVars, kernelVars, TypeOK, StepTypeOK,
               InStep, Phases
<1>11. ASSUME NEW point \in FailPoints, Failure(point)
       PROVE  TypeOK' /\ InStep'
  <2>1. EnvFailure(point) /\ UNCHANGED bookVars
    BY <1>11 DEF Failure, BridgeCommandsRun, kernelVars
  <2>2. /\ devices' \in SUBSET Pairs
        /\ slaves' \in SUBSET (Taps \X Pairs)
        /\ up' \in SUBSET Taps
    BY <1>11, BridgeTypes DEF Failure, kernelVars, TypeOK
  <2>3. QED
    BY <2>1, <2>2 DEF EnvFailure, Raise, bookVars, TypeOK, StepTypeOK, InStep, Phases
<1>12. CASE Abort
  <2>1. QueueTypeOK(queue')
    BY <1>12, FreshLemma, NoCommandsLemma DEF Abort, AbortStep, QueueTypeOK
  <2>2. store' \in Store!Stores
    BY <1>12 DEF Abort, AbortStep, Store!EmptyStore, Store!Stores
  <2>3. StepTypeOK'
    BY <1>12, <2>1, <2>2 DEF Abort, AbortStep, StepTypeOK, TypeOK, Phases, QueueTypeOK
  <2>4. QED
    BY <1>12, <2>1, <2>3 DEF Abort, AbortStep, TypeOK, InStep, QueueTypeOK
<1>13. QED
  BY <1>1, <1>2, <1>3, <1>4, <1>5, <1>6, <1>7, <1>8, <1>9, <1>10, <1>11, <1>12
  DEF Next

\* The types and the phases of a step, in every reachable state.
LEMMA TypesAndPhases == Spec => [](TypeOK /\ InStep)
<1>1. TypeOK /\ InStep /\ UNCHANGED vars => TypeOK' /\ InStep'
  BY DEF vars, stepVars, bookVars, kernelVars, TypeOK, StepTypeOK, InStep
<1>2. QED
  BY TypeInit, TypeStep, <1>1, PTL DEF Spec

(***************************************************************************)
(* Every reachable state of the multi device backend is well typed; in     *)
(* particular a queue never mixes the commands of two events.              *)
(***************************************************************************)
THEOREM TypeCorrect == Spec => []TypeOK
  BY TypesAndPhases, PTL

(***************************************************************************)
(* The inductive invariant of the book keeping.  A tap gets its first link *)
(* only while it is unused, so the proof needs what "unused" excludes (no  *)
(* addif command, no active connection), and it needs that an active       *)
(* connection is always known to the book keeper.                          *)
(***************************************************************************)

\* link_down never finds an inner dict to move the connection to.
InactiveEmpty == \A p \in Pairs : store.inactive[p] = {}

ActiveBooked == \A p \in Pairs : store.active[p] # {} => p \in connections

\* No two connections share a tap.
EndsDisjoint ==
  \A p, r \in Pairs : \A a \in store.active[p] : \A b \in store.active[r] :
    Ends(p, a) \cap Ends(r, b) # {} => p = r

\* A tap with an addif command is not unused.
UsedTaps == \A a \in AddIfs : interface_states[a[1]] # "unused"

\* RefusedForAReason for the pairs that the current step has processed.
Reasons ==
  \A p \in Wanted \ diff : p \in connections \/ \A ifs \in IfPairs : ~ Free(p, ifs)

BookInv ==
  /\ InactiveEmpty
  /\ ActiveBooked
  /\ OneConnectionPerPair
  /\ EndsDisjoint
  /\ UpIffActive
  /\ TapOnOneBridge
  /\ UsedTaps
  /\ Reasons

\* The state after a reset: empty store, empty book, empty queue.
LEMMA BookInit == Init => BookInv
<1> SUFFICES ASSUME Init PROVE BookInv
  OBVIOUS
<1>1. /\ \A p \in Pairs : store.active[p] = {} /\ store.inactive[p] = {}
      /\ interface_states = [t \in Taps |-> "unused"]
      /\ slaves = {}
  BY DEF Init, StepInit, Store!EmptyStore
<1>2. AddIfs = {}
  <2>1. Shell!Queued(queue.cmds["addif"]) = {}
    BY FreshLemma, NoCommandsLemma DEF Init, StepInit
  <2>2. QED
    BY <1>1, <2>1 DEF AddIfs
<1>3. Wanted = {}
  BY StepAssumption DEF Init, StepInit, Wanted
<1>4. QED
  BY <1>1, <1>2, <1>3 DEF BookInv, InactiveEmpty, ActiveBooked, OneConnectionPerPair,
     EndsDisjoint, UpIffActive, TapOnOneBridge, UsedTaps, Reasons

\* A step that leaves store and book keeper alone and adds no addif command.
LEMMA QuietStep ==
  ASSUME BookInv, UNCHANGED <<store, bookVars>>, AddIfs' \subseteq AddIfs,
         \A p \in (Wanted \ diff)' : \/ p \in Wanted \ diff
                                     \/ p \in connections
                                     \/ \A ifs \in IfPairs : ~ Free(p, ifs)
  PROVE  BookInv'
<1> USE DEF bookVars
<1>1. InactiveEmpty' /\ ActiveBooked' /\ OneConnectionPerPair'
  BY DEF BookInv, InactiveEmpty, ActiveBooked, OneConnectionPerPair
<1>2. EndsDisjoint' /\ UpIffActive'
  BY DEF BookInv, EndsDisjoint, UpIffActive
<1>3. TapOnOneBridge' /\ UsedTaps'
  BY DEF BookInv, TapOnOneBridge, UsedTaps
<1>4. Reasons'
  BY DEF BookInv, Reasons, Free
<1>5. QED
  BY <1>1, <1>2, <1>3, <1>4 DEF BookInv

\* A new link: its taps were unused, so nothing else can name them.
LEMMA LinkUpBook ==
  ASSUME TypeOK, BookInv, NEW p \in Pairs, NEW ifs \in IfPairs,
         TakePair(p), LinkUp(p, ifs), UNCHANGED kernelVars
  PROVE  BookInv'
<1> DEFINE new == Ends(p, ifs)
<1>1. store.active[p] = {}
  BY DEF BookInv, ActiveBooked, LinkUp
<1>2. /\ \A r \in Pairs : store'.active[r] = IF r = p THEN {ifs} ELSE store.active[r]
      /\ store'.inactive = store.inactive
  <2>1. store' = [store EXCEPT !.active[p] = @ \cup {ifs}]
    BY LinkUpTypes
  <2>2. store \in Store!Stores
    BY DEF TypeOK, StepTypeOK
  <2>3. QED
    BY <1>1, <2>1, <2>2 DEF Store!Stores
<1>3. \A t \in new : t \in Taps /\ interface_states[t] = "unused"
  BY MultiAssumption DEF LinkUp, FirstFree, Free, Ends, TapX, TapY, Taps, Pairs
<1>4. \A t \in Taps : interface_states'[t] = IF t \in new THEN "up" ELSE interface_states[t]
  BY DEF LinkUp, SetTaps
<1>5. AddIfs' = AddIfs \cup {<<TapX(p, ifs), p>>, <<TapY(p, ifs), p>>}
  <2>1. Shell!Queued(queue'.cmds["addif"])
          = Shell!Queued(queue.cmds["addif"])
              \cup {<<TapX(p, ifs), p>>, <<TapY(p, ifs), p>>}
    BY QueueLinkLemma DEF LinkUp
  <2>2. slaves' = slaves
    BY DEF kernelVars
  <2>3. QED
    BY <2>1, <2>2, Zenon DEF AddIfs
<1>6. connections' = connections \cup {p}
  BY DEF LinkUp
<1>7. diff' = diff \ {p} /\ Wanted' = Wanted
  BY DEF TakePair, Wanted
<1>8. \A a \in AddIfs : a[1] \notin new /\ a[1] \in Taps
  <2>1. AddIfs \in SUBSET (Taps \X Pairs)
    BY QueueTypes DEF AddIfs, TypeOK
  <2>2. QED
    BY <1>3, <2>1 DEF BookInv, UsedTaps
<1> HIDE DEF new
<1>9. InactiveEmpty' /\ ActiveBooked' /\ OneConnectionPerPair'
  BY <1>2, <1>6 DEF BookInv, InactiveEmpty, ActiveBooked, OneConnectionPerPair
<1>10. \A r \in Pairs : \A b \in store.active[r] : Ends(r, b) \cap new = {}
  BY <1>3 DEF BookInv, UpIffActive
<1>11. EndsDisjoint'
  BY <1>2, <1>10 DEF BookInv, EndsDisjoint, new
<1>12. UpIffActive'
  <2> SUFFICES ASSUME NEW t \in Taps
               PROVE  interface_states'[t] = "up" <=>
                        \E r \in Pairs : \E b \in store'.active[r] : t \in Ends(r, b)
    BY DEF UpIffActive
  <2>1. CASE t \in new
    BY <1>2, <1>4, <2>1 DEF new
  <2>2. CASE t \notin new
    BY <1>1, <1>2, <1>4, <2>2 DEF BookInv, UpIffActive, new
  <2>3. QED
    BY <2>1, <2>2
<1>13. TapOnOneBridge'
  BY <1>5, <1>8 DEF BookInv, TapOnOneBridge, new, Ends
<1>14. UsedTaps'
  BY <1>3, <1>4, <1>5, <1>8 DEF BookInv, UsedTaps, new, Ends
<1>15. Reasons'
  <2>1. ASSUME NEW r \in Pairs, NEW x \in IfPairs, Free(r, x)' PROVE Free(r, x)
    BY <1>4, <2>1, MultiAssumption DEF Free, Ends, TapX, TapY, Taps, Pairs
  <2>2. QED
    BY <1>6, <1>7, <2>1 DEF BookInv, Reasons, Wanted
<1>16. QED
  BY <1>9, <1>11, <1>12, <1>13, <1>14, <1>15 DEF BookInv

\* A link that is taken down: its taps stay known to the book keeper.
LEMMA LinkDownBook ==
  ASSUME TypeOK, BookInv, NEW p \in Pairs, NEW ifs \in IfPairs,
         TakePair(p), LinkDown(p, ifs), UNCHANGED kernelVars
  PROVE  BookInv'
<1> DEFINE old == Ends(p, ifs)
<1>1. store.active[p] = {ifs}
  BY DEF BookInv, OneConnectionPerPair, LinkDown
<1>2. /\ \A r \in Pairs : store'.active[r] = IF r = p THEN {} ELSE store.active[r]
      /\ store'.inactive = store.inactive
  <2>1. store \in Store!Stores
    BY DEF TypeOK, StepTypeOK
  <2>2. store.inactive[p] = {}
    BY DEF BookInv, InactiveEmpty
  <2>3. store' = Store!ChangeState(store, p, ifs, FALSE) /\ ifs \in store.active[p]
    BY DEF LinkDown
  <2>4. store' = [store EXCEPT !.active[p] = @ \ {ifs}]
    BY <2>1, <2>2, <2>3, StoreDownLemma, Zenon
  <2>5. QED
    BY <1>1, <2>1, <2>4 DEF Store!Stores
<1>3. \A t \in Taps : interface_states'[t] = IF t \in old THEN "down" ELSE interface_states[t]
  BY DEF LinkDown, SetTaps
<1>4. AddIfs' = AddIfs
  BY LinkDownTypes DEF AddIfs, kernelVars
<1>5. connections' = connections
  BY DEF LinkDown
<1>6. diff' = diff \ {p} /\ Wanted' = Wanted /\ p \notin Wanted
  BY DEF TakePair, Wanted, LinkDown
<1>7. AddIfs \in SUBSET (Taps \X Pairs)
  BY QueueTypes DEF AddIfs, TypeOK
<1> HIDE DEF old
<1>8. InactiveEmpty' /\ ActiveBooked' /\ OneConnectionPerPair'
  BY <1>2, <1>5 DEF BookInv, InactiveEmpty, ActiveBooked, OneConnectionPerPair
<1>9. EndsDisjoint'
  BY <1>2 DEF BookInv, EndsDisjoint
<1>10. UpIffActive'
  <2> SUFFICES ASSUME NEW t \in Taps
               PROVE  interface_states'[t] = "up" <=>
                        \E r \in Pairs : \E b \in store'.active[r] : t \in Ends(r, b)
    BY DEF UpIffActive
  <2>1. CASE t \in old
    <3>1. interface_states'[t] = "down"
      BY <1>3, <2>1
    <3>2. \A r \in Pairs \ {p} : \A b \in store.active[r] : t \notin Ends(r, b)
      BY <1>1, <2>1 DEF BookInv, EndsDisjoint, old
    <3>3. QED
      BY <1>2, <3>1, <3>2
  <2>2. CASE t \notin old
    BY <1>1, <1>2, <1>3, <2>2 DEF BookInv, UpIffActive, old
  <2>3. QED
    BY <2>1, <2>2
<1>11. TapOnOneBridge'
  BY <1>4 DEF BookInv, TapOnOneBridge
<1>12. UsedTaps'
  BY <1>3, <1>4, <1>7 DEF BookInv, UsedTaps
<1>13. Reasons'
  <2>1. ASSUME NEW r \in Pairs, NEW x \in IfPairs, Free(r, x)' PROVE Free(r, x)
    BY <1>3, <2>1, MultiAssumption DEF Free, Ends, TapX, TapY, Taps, Pairs
  <2>2. QED
    BY <1>5, <1>6, <2>1 DEF BookInv, Reasons, Wanted
<1>14. QED
  BY <1>8, <1>9, <1>10, <1>11, <1>12, <1>13 DEF BookInv

\* One step of the specification preserves the invariant of the book keeping.
LEMMA BookStep ==
  ASSUME TypeOK, InStep, BookInv, Next
  PROVE  BookInv'
<1>1. ASSUME NEW m \in Matrices, Begin(m)
      PROVE  BookInv'
  <2>1. diff = {}
    BY <1>1 DEF Begin, BeginStep, InStep
  <2>2. (Wanted \ diff)' \subseteq Wanted
    BY <1>1, <2>1 DEF Begin, BeginStep, Wanted, Changed
  <2>3. AddIfs' = AddIfs
    BY <1>1 DEF Begin, BeginStep, kernelVars, AddIfs
  <2>4. QED
    BY <1>1, <2>1, <2>2, <2>3, QuietStep DEF Begin, BeginStep
<1>2. ASSUME NEW p \in Pairs, ProcessPair(p)
      PROVE  BookInv'
  <2>1. TakePair(p) /\ UNCHANGED kernelVars
    BY <1>2 DEF ProcessPair
  <2>2. ASSUME NEW ifs \in IfPairs, LinkUp(p, ifs) PROVE BookInv'
    BY <2>1, <2>2, LinkUpBook
  <2>3. ASSUME NEW ifs \in IfPairs, LinkDown(p, ifs) PROVE BookInv'
    BY <2>1, <2>3, LinkDownBook
  <2>4. CASE LinkRefused(p) \/ NotLinked(p)
    <3>1. UNCHANGED <<store, bookVars>> /\ AddIfs' = AddIfs
      BY <2>1, <2>4 DEF LinkRefused, NotLinked, kernelVars, AddIfs
    <3>2. Wanted' = Wanted /\ diff' = diff \ {p}
      BY <2>1 DEF TakePair, Wanted
    <3>3. p \in Wanted => p \in connections \/ \A ifs \in IfPairs : ~ Free(p, ifs)
      BY <2>4 DEF LinkRefused, NotLinked, Wanted
    <3>4. QED
      BY <3>1, <3>2, <3>3, QuietStep
  <2>5. QED
    BY <1>2, <2>2, <2>3, <2>4 DEF ProcessPair
<1> DEFINE Quiet == /\ UNCHANGED <<store, bookVars, distance_matrix>>
                    /\ AddIfs' \subseteq AddIfs
                    /\ diff' = diff
<1>3. ASSUME Quiet PROVE BookInv'
  <2>1. (Wanted \ diff)' = Wanted \ diff
    BY <1>3 DEF Wanted
  <2>2. QED
    BY <1>3, <2>1, QuietStep
<1>4. CASE EndOfPairs \/ IpConfig \/ End
  <2>1. Quiet
    BY <1>4 DEF EndOfPairs, IpConfig, End, PairsDone, Advance, EndStep, kernelVars, AddIfs
  <2>2. QED
    BY <1>3, <2>1
<1>5. CASE RunBridge
  <2>1. AddIfs' \subseteq AddIfs
    BY <1>5, BridgeTypes DEF RunBridge, Advance, AddIfs
  <2>2. QED
    BY <1>3, <1>5, <2>1 DEF RunBridge, Advance, BridgeCommandsRun
<1>6. CASE BridgeError \/ CheckFails
  <2>1. Quiet
    BY <1>6 DEF BridgeError, CheckFails, Raise, InStep, kernelVars, AddIfs
  <2>2. QED
    BY <1>3, <2>1
<1>7. CASE RunBatch \/ CheckPasses
  <2>1. Shell!Queued(queue'.cmds["addif"]) = {}
    BY <1>7, FreshLemma, NoCommandsLemma DEF RunBatch, BatchDone, CheckPasses, CheckDone
  <2>2. Quiet
    BY <1>7, <2>1 DEF RunBatch, BatchDone, CheckPasses, CheckDone, kernelVars, AddIfs
  <2>3. QED
    BY <1>3, <2>2
<1>8. ASSUME NEW point \in FailPoints, Failure(point)
      PROVE  BookInv'
  <2>1. AddIfs' \subseteq AddIfs
    BY <1>8, BridgeTypes DEF Failure, EnvFailure, Raise, kernelVars, AddIfs
  <2>2. point # "pairs" /\ pc = point
    BY <1>8, MultiAssumption DEF Failure, EnvFailure
  <2>3. Quiet
    BY <1>8, <2>1, <2>2 DEF Failure, EnvFailure, Raise, InStep, BridgeCommandsRun
  <2>4. QED
    BY <1>3, <2>3
<1>9. CASE Abort
  <2>1. /\ \A p \in Pairs : store'.active[p] = {} /\ store'.inactive[p] = {}
        /\ interface_states' = [t \in Taps |-> "unused"]
        /\ slaves' = {}
    BY <1>9 DEF Abort, AbortStep, Store!EmptyStore
  <2>2. AddIfs' = {}
    <3>1. Shell!Queued(queue'.cmds["addif"]) = {}
      BY <1>9, FreshLemma, NoCommandsLemma DEF Abort, AbortStep
    <3>2. QED
      BY <2>1, <3>1 DEF AddIfs
  <2>3. Wanted' = {}
    BY <1>9, StepAssumption DEF Abort, AbortStep, Wanted
  <2>4. QED
    BY <2>1, <2>2, <2>3 DEF BookInv, InactiveEmpty, ActiveBooked,
       OneConnectionPerPair, EndsDisjoint, UpIffActive, TapOnOneBridge, UsedTaps, Reasons
<1>10. QED
  BY <1>1, <1>2, <1>4, <1>5, <1>6, <1>7, <1>8, <1>9 DEF Next

(***************************************************************************)
(* The invariant of the book keeping holds in every reachable state.       *)
(***************************************************************************)
THEOREM BookKeeping == Spec => []BookInv
<1>1. TypeOK /\ InStep /\ BookInv /\ UNCHANGED vars => BookInv'
  <2> SUFFICES ASSUME BookInv, UNCHANGED vars PROVE BookInv'
    OBVIOUS
  <2>1. UNCHANGED <<store, bookVars>> /\ AddIfs' = AddIfs /\ (Wanted \ diff)' = Wanted \ diff
    BY DEF vars, stepVars, bookVars, kernelVars, AddIfs, Wanted
  <2>2. QED
    BY <2>1, QuietStep
<1>2. QED
  BY TypesAndPhases, BookInit, BookStep, <1>1, PTL DEF Spec

(***************************************************************************)
(* ConnectionBookKeeper.remember_bidirectional_connection: "A tap device   *)
(* can only be connected to exactly one bridge", for commands that are     *)
(* still queued as well as for the ports that exist.                       *)
(***************************************************************************)
THEOREM TapsOnOneBridge == Spec => []TapOnOneBridge
<1>1. BookInv => TapOnOneBridge
  BY DEF BookInv
<1>2. QED
  BY <1>1, BookKeeping, PTL

(***************************************************************************)
(* At most one active connection per node pair, which lets                 *)
(* change_connection_state and NetworkConfiguratorP2P take the first one.  *)
(***************************************************************************)
THEOREM ConnectionsUnique == Spec => []OneConnectionPerPair
<1>1. BookInv => OneConnectionPerPair
  BY DEF BookInv
<1>2. QED
  BY <1>1, BookKeeping, PTL

(***************************************************************************)
(* The book keeper's tap states agree with the connection store, through   *)
(* every failure of a step.                                                *)
(***************************************************************************)
THEOREM BookMatchesStore == Spec => []UpIffActive
<1>1. BookInv => UpIffActive
  BY DEF BookInv
<1>2. QED
  BY <1>1, BookKeeping, PTL

(***************************************************************************)
(* Between steps a wanted link is missing only for one of the two reasons  *)
(* for which should_create_new_connection refuses.                         *)
(***************************************************************************)
THEOREM RefusalsExplained == Spec => []RefusedForAReason
<1>1. TypeOK /\ InStep /\ BookInv => RefusedForAReason
  BY DEF BookInv, InStep, Reasons, RefusedForAReason
<1>2. QED
  BY <1>1, TypesAndPhases, BookKeeping, PTL
-----------------------------------------------------------------------------
(***************************************************************************)
(* The book keeping.  A step of the scenario is one of the backend, except *)
(* that the provisioner and the pings decide how its last phases end.      *)
(***************************************************************************)
Interrupted ==
  /\ pc \in {"ipconfig", "check"}
  /\ Raise
  /\ failures' \in 0..MaxFailures
  /\ UNCHANGED <<bookVars, kernelVars>>

Checked == CheckDone /\ UNCHANGED <<bookVars, kernelVars>>

\* Each step of the scenario is a step of the backend, or ends one in a late phase.
LEMMA LanSteps ==
  ASSUME TypeOK, LanNext
  PROVE  Next \/ Interrupted \/ Checked
<1>1. failures \in 0..MaxFailures /\ MaxFailures \in Nat
  BY StepAssumption DEF TypeOK, StepTypeOK
<1>2. CASE AbortP2P
  BY <1>2 DEF AbortP2P, Next
<1>3. CASE IpConfigP2P
  BY <1>3 DEF IpConfigP2P, Next
<1>4. CASE NoMoreSubnets \/ CheckFailsP2P
  BY <1>1, <1>4 DEF NoMoreSubnets, CheckFailsP2P, Interrupted
<1>5. ASSUME NEW done \in SUBSET Nodes, IpConfigFails(done) PROVE Next
  <2>1. Failure("ipconfig") /\ "ipconfig" \in FailPoints
    BY <1>5 DEF IpConfigFails, Failure, EnvFailure
  <2> QED
    BY <2>1 DEF Next
<1>6. CASE CheckPassesP2P
  BY <1>6 DEF CheckPassesP2P, Checked
<1>7. CASE CheckDisturbed
  BY <1>1, <1>7 DEF CheckDisturbed, EnvFailure, Interrupted
<1>8. ASSUME NEW m \in Matrices, Begin(m) PROVE Next
  BY <1>8 DEF Next
<1>9. ASSUME NEW p \in Pairs, ProcessPair(p) PROVE Next
  BY <1>9 DEF Next
<1>10. CASE EndOfPairs \/ RunBridge \/ BridgeError \/ RunBatch \/ End
  BY <1>10 DEF Next
<1>11. ASSUME NEW point \in FailPoints, Failure(point) PROVE Next
  BY <1>11 DEF Next
<1> QED
  BY <1>2, <1>3, <1>4, <1>5, <1>6, <1>7, <1>8, <1>9, <1>10, <1>11 DEF LanNext, LanStep

\* The books survive every end that provisioner and pings give to a step.
LEMMA LanBookStep ==
  ASSUME TypeOK, InStep, BookInv, LanNext
  PROVE  TypeOK' /\ InStep' /\ BookInv'
<1>1. CASE Next
  BY <1>1, TypeStep, BookStep
<1>2. CASE Interrupted
  <2>1. diff = {} /\ diff' = {}
    BY <1>2 DEF Interrupted, Raise, InStep
  <2>2. TypeOK' /\ InStep'
    BY <1>2, <2>1 DEF Interrupted, Raise, TypeOK, StepTypeOK, InStep, Phases, bookVars, kernelVars
  <2>3. UNCHANGED <<store, bookVars>> /\ AddIfs' = AddIfs /\ (Wanted \ diff)' = Wanted \ diff
    BY <1>2, <2>1 DEF Interrupted, Raise, kernelVars, AddIfs, Wanted
  <2> QED
    BY <2>2, <2>3, QuietStep
<1>3. CASE Checked
  <2>1. /\ Shell!IsQueue(queue') /\ QueueTypeOK(queue')
        /\ Shell!Queued(queue'.cmds["addif"]) = {}
    BY <1>3, FreshLemma, NoCommandsLemma DEF Checked, CheckDone, QueueTypeOK
  <2>2. TypeOK' /\ InStep'
    BY <1>3, <2>1 DEF Checked, CheckDone, TypeOK, StepTypeOK, InStep, Phases, bookVars, kernelVars,
       QueueTypeOK
  <2>3. /\ UNCHANGED <<store, bookVars>> /\ AddIfs' \subseteq AddIfs
        /\ (Wanted \ diff)' = Wanted \ diff
    BY <1>3, <2>1 DEF Checked, CheckDone, kernelVars, AddIfs, Wanted
  <2> QED
    BY <2>2, <2>3, QuietStep
<1> QED
  BY <1>1, <1>2, <1>3, LanSteps

\* Types, phases and books, in every state of a LAN scenario.
LEMMA LanBook == LanSpec => [](TypeOK /\ InStep /\ BookInv)
<1>1. LanInit => TypeOK /\ InStep /\ BookInv
  BY TypeInit, BookInit DEF LanInit
<1>2. TypeOK /\ InStep /\ BookInv /\ UNCHANGED lanVars => TypeOK' /\ InStep' /\ BookInv'
  <2> SUFFICES ASSUME TypeOK, InStep, BookInv, UNCHANGED lanVars PROVE TypeOK' /\ InStep' /\ BookInv'
    OBVIOUS
  <2>1. TypeOK' /\ InStep'
    BY DEF lanVars, vars, stepVars, bookVars, kernelVars, TypeOK, StepTypeOK, InStep
  <2>2. UNCHANGED <<store, bookVars>> /\ AddIfs' = AddIfs /\ (Wanted \ diff)' = Wanted \ diff
    BY DEF lanVars, vars, stepVars, bookVars, kernelVars, AddIfs, Wanted
  <2> QED
    BY <2>1, <2>2, QuietStep
<1> QED
  BY <1>1, <1>2, LanBookStep, PTL DEF LanSpec

(***************************************************************************)
(* Store, book keeper, queue and kernel agree in LAN scenarios with their  *)
(* provisioner too, whichever phase of a step fails.                       *)
(***************************************************************************)
THEOREM LanBooksAreKept ==
  LanSpec => [](TypeOK /\ TapOnOneBridge /\ UpIffActive /\ RefusedForAReason)
<1>1. TypeOK /\ InStep /\ BookInv => TypeOK /\ TapOnOneBridge /\ UpIffActive /\ RefusedForAReason
  BY DEF BookInv, InStep, Reasons, RefusedForAReason
<1> QED
  BY <1>1, LanBook, PTL

(***************************************************************************)
(* The subnets.  Among finitely many pairs the rank of a pair, the number  *)
(* of pairs up to it, numbers them from 1 without a gap.                   *)
(***************************************************************************)
Below(F, p) == {q \in F : RowOrder(q, p)}
Rank(F, p) == Cardinality(Below(F, p))

\* RowOrder is a total order on the pairs.
LEMMA RowsOrdered ==
  /\ \A p \in Pairs : RowOrder(p, p)
  /\ \A p, q \in Pairs : RowOrder(p, q) \/ RowOrder(q, p)
  /\ \A p, q \in Pairs : RowOrder(p, q) /\ RowOrder(q, p) => p = q
  /\ \A p, q, r \in Pairs : RowOrder(p, q) /\ RowOrder(q, r) => RowOrder(p, r)
<1>1. ASSUME NEW p \in Pairs PROVE p[1] \in Nat /\ p[2] \in Nat /\ p = <<p[1], p[2]>>
  <2>1. p \in Nodes \X Nodes
    BY DEF Pairs
  <2>2. PICK a \in Nodes, b \in Nodes : p = <<a, b>>
    BY <2>1
  <2> QED
    BY <2>2, StepAssumption
<1>2. \A p \in Pairs : RowOrder(p, p)
  BY <1>1 DEF RowOrder
<1>3. \A p, q \in Pairs : RowOrder(p, q) \/ RowOrder(q, p)
  BY <1>1 DEF RowOrder
<1>4. ASSUME NEW p \in Pairs, NEW q \in Pairs, RowOrder(p, q), RowOrder(q, p) PROVE p = q
  <2>1. p[1] = q[1] /\ p[2] = q[2]
    BY <1>1, <1>4 DEF RowOrder
  <2> QED
    BY <1>1, <2>1
<1>5. \A p, q, r \in Pairs : RowOrder(p, q) /\ RowOrder(q, r) => RowOrder(p, r)
  BY <1>1 DEF RowOrder
<1> QED
  BY <1>2, <1>3, <1>4, <1>5

\* Ranks are the numbers from 1 to the size of the set, each taken once.
LEMMA RanksNumber ==
  ASSUME NEW F \in SUBSET Pairs, IsFiniteSet(F)
  PROVE  /\ Cardinality(F) \in Nat
         /\ \A p \in F : Rank(F, p) \in 1..Cardinality(F)
         /\ \A p, q \in F : Rank(F, p) = Rank(F, q) => p = q
         /\ \A k \in 1..Cardinality(F) : \E p \in F : Rank(F, p) = k
<1> DEFINE n == Cardinality(F)
<1>1. n \in Nat
  BY FS_CardinalityType
<1>2. ASSUME NEW p \in F PROVE Rank(F, p) \in 1..n
  <2> DEFINE B == Below(F, p)
  <2>1. B \in SUBSET F /\ p \in B
    BY RowsOrdered DEF Below
  <2> HIDE DEF B
  <2>2. IsFiniteSet(B) /\ Cardinality(B) <= n
    BY <2>1, FS_Subset
  <2>3. Cardinality(B) \in Nat /\ Cardinality(B) # 0
    BY <2>1, <2>2, FS_CardinalityType, FS_EmptySet
  <2> HIDE DEF n
  <2>4. Cardinality(B) \in 1..n
    BY <1>1, <2>2, <2>3
  <2> QED
    BY <2>4 DEF B, Rank
<1>3. ASSUME NEW p \in F, NEW q \in F, Rank(F, p) = Rank(F, q), RowOrder(p, q) PROVE p = q
  <2> DEFINE B == Below(F, p)
             C == Below(F, q)
  <2>1. C \in SUBSET F /\ B \in SUBSET C /\ q \in C
    BY <1>3, RowsOrdered DEF Below
  <2>2. Cardinality(B) = Cardinality(C)
    BY <1>3 DEF Rank
  <2> HIDE DEF B, C
  <2>3. IsFiniteSet(C)
    BY <2>1, FS_Subset
  <2>4. C = B
    BY <2>1, <2>2, <2>3, FS_Subset
  <2>5. RowOrder(q, p)
    BY <2>1, <2>4 DEF B, Below
  <2> QED
    BY <1>3, <2>5, RowsOrdered
<1>4. \A p, q \in F : Rank(F, p) = Rank(F, q) => p = q
  BY <1>3, RowsOrdered
<1>5. ASSUME NEW k \in 1..n PROVE \E p \in F : Rank(F, p) = k
  <2> DEFINE f == [p \in F |-> Rank(F, p)]
             I == 1..n
  <2>1. IsFiniteSet(I) /\ Cardinality(I) = n
    BY <1>1, FS_Interval
  <2>2. f \in [F -> I] /\ \A p, q \in F : f[p] = f[q] => p = q
    BY <1>2, <1>4
  <2>3. \A p \in F : f[p] = Rank(F, p)
    OBVIOUS
  <2>4. k \in I
    OBVIOUS
  <2> HIDE DEF f, I
  <2>5. f \in Injection(F, I)
    BY <2>2 DEF Injection, IsInjective
  <2>6. f \in Surjection(F, I)
    BY <2>1, <2>5, FS_Injection DEF n
  <2>7. \E p \in F : f[p] = k
    BY <2>4, <2>6 DEF Surjection
  <2> QED
    BY <2>3, <2>7
<1> QED
  BY <1>1, <1>2, <1>4, <1>5

\* The subnets of a scenario: the range of used_subnets, and OwnSubnets.
SubnetInv ==
  /\ num_subnets \in Nat
  /\ used_subnets \in [Pairs -> Nat]
  /\ subnet_generator \in 0..num_subnets
  /\ OwnSubnets

\* The new connections of a step are finitely many.
LEMMA NewPairsTyped == NewPairs \in SUBSET Pairs /\ IsFiniteSet(NewPairs)
<1>1. NewPairs \in SUBSET Pairs
  BY DEF NewPairs, Store!ActivePairs
<1>2. IsFiniteSet(Nodes \X Nodes)
  BY LanAssumption, FS_Product
<1>3. NewPairs \in SUBSET (Nodes \X Nodes)
  BY <1>1 DEF Pairs
<1> QED
  BY <1>1, <1>2, <1>3, FS_Subset

\* The generator gives its next subnets to the first of the fresh connections.
LEMMA SubnetsTaken ==
  ASSUME SubnetInv, TakeSubnets
  PROVE  SubnetInv'
<1> DEFINE g == subnet_generator
           N == num_subnets
           n == Cardinality(Fresh)
           m == IF n <= N - g THEN n ELSE N - g
           R(p) == Rank(Fresh, p)
<1>1. /\ Fresh \in SUBSET Pairs
      /\ \A p \in Fresh : used_subnets[p] = 0
      /\ \A p \in Fresh : SubnetFor(p) = g + R(p)
      /\ Served = {p \in Fresh : g + R(p) <= N}
  BY NewPairsTyped DEF Fresh, SubnetFor, Served, Rank, Below
<1>2. IsFiniteSet(Fresh)
  <2>1. Fresh \in SUBSET NewPairs
    BY DEF Fresh
  <2> QED
    BY <2>1, NewPairsTyped, FS_Subset
<1>3. /\ n \in Nat
      /\ \A p \in Fresh : R(p) \in 1..n
      /\ \A p, q \in Fresh : R(p) = R(q) => p = q
      /\ \A k \in 1..n : \E p \in Fresh : R(p) = k
  BY <1>1, <1>2, RanksNumber
<1>4. g \in Nat /\ N \in Nat /\ g <= N
  BY DEF SubnetInv
<1>5. m \in Nat /\ m <= n /\ g + m <= N
  BY <1>3, <1>4
<1>6. \A p \in Fresh : g + R(p) <= N <=> R(p) <= m
  BY <1>3, <1>4
<1> HIDE DEF g, N, n, R
<1>7. Served = {p \in Fresh : R(p) <= m}
  BY <1>1, <1>6
<1> HIDE DEF m
<1>8. Cardinality(Served) = m
  <2> DEFINE f == [p \in Served |-> R(p)]
             I == 1..m
  <2>1. IsFiniteSet(I) /\ Cardinality(I) = m
    BY <1>5, FS_Interval
  <2>2. IsFiniteSet(Served)
    BY <1>2, <1>7, FS_Subset
  <2>3. f \in [Served -> I]
    BY <1>3, <1>5, <1>7
  <2>4. \A p, q \in Served : f[p] = f[q] => p = q
    BY <1>3, <1>7
  <2>5. ASSUME NEW k \in I PROVE \E p \in Served : f[p] = k
    <3>1. k \in 1..n /\ k <= m
      BY <1>3, <1>5
    <3>2. PICK p \in Fresh : R(p) = k
      BY <1>3, <3>1
    <3> QED
      BY <1>7, <3>1, <3>2
  <2> HIDE DEF f, I
  <2>6. f \in Bijection(Served, I)
    BY <2>3, <2>4, <2>5 DEF Bijection, Injection, IsInjective, Surjection
  <2> QED
    BY <2>1, <2>2, <2>6, FS_Bijection DEF ExistsBijection
<1>9. subnet_generator' = g + m /\ num_subnets' = N
  BY <1>8 DEF TakeSubnets, g, N
<1>10. \A p \in Pairs : used_subnets'[p] = IF p \in Served THEN g + R(p) ELSE used_subnets[p]
  BY <1>1, <1>7 DEF TakeSubnets, UsedSubnets
<1>11. \A p \in Served : p \in Fresh /\ p \in Pairs /\ R(p) \in 1..m /\ used_subnets[p] = 0
  <2>1. \A p \in Fresh : R(p) <= m => R(p) \in 1..m
    BY <1>3, <1>5
  <2> QED
    BY <1>1, <1>7, <2>1
<1>12. used_subnets' \in [Pairs -> Nat]
  <2>1. used_subnets' = [p \in Pairs |-> used_subnets'[p]]
    BY DEF TakeSubnets, UsedSubnets
  <2>2. \A p \in Pairs : used_subnets[p] \in Nat
    BY DEF SubnetInv
  <2>3. \A p \in Served : g + R(p) \in Nat
    BY <1>4, <1>5, <1>11
  <2>4. \A p \in Pairs : used_subnets'[p] \in Nat
    BY <1>10, <2>2, <2>3
  <2> QED
    BY <2>1, <2>4
<1>13. \A p \in Pairs : used_subnets[p] \in 0..g
  <2> SUFFICES ASSUME NEW p \in Pairs, used_subnets[p] # 0 PROVE used_subnets[p] \in 0..g
    BY <1>4
  <2>1. used_subnets[p] \in 1..g
    BY DEF SubnetInv, OwnSubnets, g
  <2> QED
    BY <1>4, <2>1
<1>14. ASSUME NEW p \in Pairs, NEW q \in Pairs,
              used_subnets'[p] # 0, used_subnets'[p] = used_subnets'[q]
       PROVE  p = q
  <2>1. CASE p \in Served /\ q \in Served
    <3>1. g + R(p) = g + R(q) /\ R(p) \in 1..m /\ R(q) \in 1..m
      BY <1>10, <1>11, <1>14, <2>1
    <3>2. R(p) = R(q)
      BY <1>4, <1>5, <3>1
    <3> QED
      BY <1>3, <1>11, <2>1, <3>2
  <2>2. CASE p \in Served /\ q \notin Served
    <3>1. g + R(p) = used_subnets[q] /\ R(p) \in 1..m /\ used_subnets[q] \in 0..g
      BY <1>10, <1>11, <1>13, <1>14, <2>2
    <3> QED
      BY <1>4, <1>5, <3>1
  <2>3. CASE p \notin Served /\ q \in Served
    <3>1. g + R(q) = used_subnets[p] /\ R(q) \in 1..m /\ used_subnets[p] \in 0..g
      BY <1>10, <1>11, <1>13, <1>14, <2>3
    <3> QED
      BY <1>4, <1>5, <3>1
  <2>4. CASE p \notin Served /\ q \notin Served
    BY <1>10, <1>14, <2>4 DEF SubnetInv, OwnSubnets
  <2> QED
    BY <2>1, <2>2, <2>3, <2>4
<1>15. {used_subnets'[p] : p \in Pairs} \ {0} = 1..(g + m)
  <2>1. ASSUME NEW p \in Pairs, used_subnets'[p] # 0 PROVE used_subnets'[p] \in 1..(g + m)
    <3>1. CASE p \in Served
      <4>1. used_subnets'[p] = g + R(p) /\ R(p) \in 1..m
        BY <1>10, <1>11, <3>1
      <4> QED
        BY <1>4, <1>5, <4>1
    <3>2. CASE p \notin Served
      <4>1. used_subnets'[p] \in 0..g
        BY <1>10, <1>13, <3>2
      <4> QED
        BY <1>4, <1>5, <2>1, <4>1
    <3> QED
      BY <3>1, <3>2
  <2>2. ASSUME NEW k \in 1..(g + m) PROVE \E p \in Pairs : used_subnets'[p] = k /\ k # 0
    <3>1. CASE k <= g
      <4>1. k \in 1..g /\ k # 0
        BY <1>4, <3>1
      <4>2. PICK p \in Pairs : used_subnets[p] = k
        BY <4>1 DEF SubnetInv, OwnSubnets, g
      <4>3. p \notin Served
        BY <1>11, <4>1, <4>2
      <4> QED
        BY <1>10, <4>1, <4>2, <4>3
    <3>2. CASE ~ (k <= g)
      <4>1. k - g \in 1..n /\ k - g <= m /\ g + (k - g) = k /\ k # 0
        BY <1>3, <1>4, <1>5, <3>2
      <4>2. PICK p \in Fresh : R(p) = k - g
        BY <1>3, <4>1
      <4>3. p \in Served
        BY <1>7, <4>1, <4>2
      <4> QED
        BY <1>10, <1>11, <4>1, <4>2, <4>3
    <3> QED
      BY <3>1, <3>2
  <2> QED
    BY <2>1, <2>2
<1> QED
  <2>1. subnet_generator' \in 0..num_subnets' /\ num_subnets' \in Nat
    BY <1>4, <1>5, <1>9
  <2>2. OwnSubnets'
    BY <1>9, <1>14, <1>15 DEF OwnSubnets
  <2> QED
    BY <1>12, <2>1, <2>2 DEF SubnetInv

\* A new configurator has given no subnet away.
LEMMA NoSubnets ==
  /\ P2PInit => SubnetInv
  /\ AbortP2P => SubnetInv'
<1>1. \A c \in SubnetCounts : c \in Nat /\ 0 \in 0..c
  BY LanAssumption
<1>2. {0 : p \in Pairs} \ {0} = 1..0
  OBVIOUS
<1>3. P2PInit => SubnetInv
  <2> SUFFICES ASSUME P2PInit PROVE SubnetInv
    OBVIOUS
  <2>1. \A p \in Pairs : used_subnets[p] = 0
    BY DEF P2PInit
  <2> QED
    BY <1>1, <1>2, <2>1 DEF P2PInit, SubnetInv, OwnSubnets
<1>4. AbortP2P => SubnetInv'
  <2> SUFFICES ASSUME AbortP2P PROVE SubnetInv'
    OBVIOUS
  <2>1. \A p \in Pairs : used_subnets'[p] = 0
    BY DEF AbortP2P
  <2> QED
    BY <1>1, <1>2, <2>1 DEF AbortP2P, SubnetInv, OwnSubnets
<1> QED
  BY <1>3, <1>4

\* No step, whether it fails or not, lets two connections share a subnet.
LEMMA SubnetStep == ASSUME SubnetInv, [LanNext]_lanVars PROVE SubnetInv'
<1>1. CASE UNCHANGED <<num_subnets, used_subnets, subnet_generator>>
  BY <1>1 DEF SubnetInv, OwnSubnets
<1>2. CASE TakeSubnets
  BY <1>2, SubnetsTaken
<1>3. CASE AbortP2P
  BY <1>3, NoSubnets
<1>4. LanStep => UNCHANGED <<num_subnets, used_subnets, subnet_generator>> \/ TakeSubnets
  BY DEF LanStep, p2pVars, IpConfigP2P, NoMoreSubnets, IpConfigFails, CheckPassesP2P,
     CheckFailsP2P, CheckDisturbed
<1> QED
  BY <1>1, <1>2, <1>3, <1>4 DEF LanNext, lanVars, p2pVars

\* The subnets in every state of a LAN scenario.
LEMMA SubnetInvariant == LanSpec => []SubnetInv
<1>1. LanInit => SubnetInv
  BY NoSubnets DEF LanInit
<1> QED
  BY <1>1, SubnetStep, PTL DEF LanSpec

(***************************************************************************)
(* "For each connection, a link with an own subnet is created": for any    *)
(* nodes, base networks and failures.                                      *)
(***************************************************************************)
THEOREM SubnetsAreOwn == LanSpec => []OwnSubnets
<1>1. SubnetInv => OwnSubnets
  BY DEF SubnetInv
<1> QED
  BY <1>1, SubnetInvariant, PTL

(***************************************************************************)
(* The links, as long as no step has failed.  The queue: commands wait for *)
(* the end of the loop only, and a tap is set up or down once.             *)
(***************************************************************************)
InQueue(e) == Shell!Queued(queue.cmds[e])

OnceEach(s) == \A j, k \in DOMAIN s : s[j][1] = s[k][1] => j = k

Orderly ==
  /\ queue.ordered \/ pc \in {"ipconfig", "check"}
  /\ pc \notin {"pairs", "bridge", "batch"} => \A e \in Events : queue.cmds[e] = <<>>
  /\ OnceEach(queue.cmds["conn"])

\* The bridges of all connections and the ports of the active ones exist, or will soon.
Bridged ==
  /\ connections \subseteq devices \cup InQueue("addbr")
  /\ \A p \in Pairs : \A ifs \in store.active[p] : \A t \in Ends(p, ifs) : <<t, p>> \in AddIfs
  /\ pc \notin {"pairs", "bridge"} =>
       /\ connections \subseteq devices
       /\ \A p \in Pairs : \A ifs \in store.active[p] : \A t \in Ends(p, ifs) : <<t, p>> \in slaves

\* The taps are as the book keeper believes once the queue is run.
TapsSet ==
  /\ \A t \in Taps : interface_states[t] = "up" <=>
                       \/ <<t, "up">> \in InQueue("conn")
                       \/ t \in up /\ <<t, "down">> \notin InQueue("conn")
  /\ \A c \in InQueue("conn") : interface_states[c[1]] # "unused"
  /\ \A p \in diff : \A ifs \in store.active[p] : \A c \in InQueue("conn") : c[1] \notin Ends(p, ifs)
  /\ \A c \in InQueue("addif") : <<c[1], "up">> \in InQueue("conn")

\* The connections that wait for their addresses in the present step.
Unaddressed == IF pc \in {"pairs", "bridge", "batch", "ipconfig"} THEN NewPairs ELSE {}

Addressed(p, ifs) ==
  /\ addresses[TapX(p, ifs)] = <<used_subnets[p], 1>>
  /\ addresses[TapY(p, ifs)] = <<used_subnets[p], 2>>

Provisioned ==
  /\ \A p \in Pairs : used_subnets[p] # 0 => p \in connections
  /\ \A p \in Unaddressed : used_subnets[p] = 0
  /\ \A p \in Pairs \ Unaddressed : \A ifs \in store.active[p] : Addressed(p, ifs)
  /\ pc \in {"pairs", "bridge", "batch", "ipconfig"} => before \subseteq connections
  /\ pc = "idle" /\ current_step = 0 => connections = {}

Works == Orderly /\ Bridged /\ TapsSet /\ Provisioned

\* The two taps of a connection belong to different nodes.
LEMMA EndsApart ==
  ASSUME NEW p \in Pairs, NEW ifs \in IfPairs
  PROVE  TapX(p, ifs) \in Taps /\ TapY(p, ifs) \in Taps /\ TapX(p, ifs)[1] # TapY(p, ifs)[1]
<1>1. p[1] \in Nodes /\ p[2] \in Nodes /\ p[1] < p[2] /\ p[1] \in Nat /\ p[2] \in Nat
  BY StepAssumption DEF Pairs
<1>2. p[1] # p[2]
  BY <1>1
<1>3. ifs[1] \in Ifaces /\ ifs[2] \in Ifaces
  BY MultiAssumption
<1> QED
  BY <1>1, <1>2, <1>3 DEF TapX, TapY, Taps

\* Two commands for taps without one: the queue before and after.
ConnReady(q, x, y, op) ==
  /\ Shell!IsQueue(q) /\ q.cmds["conn"] \in Seq(Taps \X {"up", "down"})
  /\ x \in Taps /\ y \in Taps /\ x # y /\ op \in {"up", "down"}
  /\ \A c \in Shell!Queued(q.cmds["conn"]) : c[1] # x /\ c[1] # y
  /\ OnceEach(q.cmds["conn"])

ConnAdded(q, r, x, y, op) ==
  /\ OnceEach(r.cmds["conn"])
  /\ Shell!Queued(r.cmds["conn"]) = Shell!Queued(q.cmds["conn"]) \cup {<<x, op>>, <<y, op>>}
  /\ r.ordered = q.ordered
  /\ \A e \in Events \ {"conn"} : r.cmds[e] = q.cmds[e]

\* The two commands are added, and each tap is still named once.
LEMMA ConnCommands ==
  ASSUME NEW q, NEW x, NEW y, NEW op, ConnReady(q, x, y, op)
  PROVE  ConnAdded(q, Shell!AddCommand(Shell!AddCommand(q, "conn", <<x, op>>), "conn", <<y, op>>),
                   x, y, op)
<1> DEFINE T == Taps \X {"up", "down"}
           dx == <<x, op>>
           dy == <<y, op>>
           s == q.cmds["conn"]
           ux == Shell!AddCommand(q, "conn", dx)
           r == Shell!AddCommand(ux, "conn", dy)
<1>1. "conn" \in Events
  BY MultiAssumption
<1>2. dx \in T /\ dy \in T /\ dx[1] = x /\ dy[1] = y /\ s \in Seq(T) /\ x # y
  BY DEF ConnReady
<1>3. Shell!IsQueue(q)
  BY DEF ConnReady
<1>4. r.ordered = ux.ordered /\ ux.ordered = q.ordered
  BY <1>1, <1>3 DEF Shell!AddCommand, Shell!IsQueue
<1>9. \A c \in Shell!Queued(s) : c[1] # x /\ c[1] # y
  BY DEF ConnReady
<1>10. OnceEach(s)
  BY DEF ConnReady
<1> HIDE DEF T, dx, dy, s, ux, r
<1>5. ASSUME NEW a \in Seq(T), NEW c \in T, OnceEach(a), \A b \in Shell!Queued(a) : b[1] # c[1]
      PROVE  OnceEach(Shell!AddUnique(a, c))
  <2>1. c \notin Shell!Queued(a)
    BY <1>5
  <2>2. Shell!AddUnique(a, c) = Append(a, c)
    BY <2>1 DEF Shell!AddUnique
  <2> DEFINE n == Len(a)
             z == Append(a, c)
  <2>3. /\ n \in Nat /\ DOMAIN a = 1..n /\ DOMAIN z = 1..(n + 1)
        /\ \A k \in 1..n : z[k] = a[k]
        /\ z[n + 1] = c
    OBVIOUS
  <2>4. 1..(n + 1) = 1..n \cup {n + 1}
    BY <2>3
  <2> HIDE DEF n, z
  <2>5. \A k \in 1..n : a[k][1] # c[1]
    BY <1>5, <2>3 DEF Shell!Queued
  <2>6. ASSUME NEW j \in DOMAIN z, NEW k \in DOMAIN z, z[j][1] = z[k][1] PROVE j = k
    <3>1. (j \in 1..n \/ j = n + 1) /\ (k \in 1..n \/ k = n + 1)
      BY <2>3, <2>4
    <3>2. CASE j \in 1..n /\ k \in 1..n
      BY <1>5, <2>3, <2>6, <3>2 DEF OnceEach
    <3> QED
      BY <2>3, <2>5, <2>6, <3>1, <3>2
  <2>7. OnceEach(z)
    BY <2>6 DEF OnceEach
  <2> QED
    BY <2>2, <2>7 DEF z
<1>6. /\ Shell!IsQueue(ux) /\ ux.cmds["conn"] = Shell!AddUnique(s, dx)
      /\ \A e \in Events \ {"conn"} : ux.cmds[e] = q.cmds[e]
  BY <1>1, <1>3, AddCommandLemma DEF ux, s
<1>7. /\ r.cmds["conn"] = Shell!AddUnique(ux.cmds["conn"], dy)
      /\ \A e \in Events \ {"conn"} : r.cmds[e] = ux.cmds[e]
  BY <1>1, <1>6, AddCommandLemma DEF r
<1>8. /\ ux.cmds["conn"] \in Seq(T) /\ OnceEach(ux.cmds["conn"])
      /\ Shell!Queued(ux.cmds["conn"]) = Shell!Queued(s) \cup {dx}
  <2>1. Shell!AddUnique(s, dx) \in Seq(T) /\ Shell!Queued(Shell!AddUnique(s, dx)) = Shell!Queued(s) \cup {dx}
    BY <1>2, AddUniqueLemma
  <2>2. \A b \in Shell!Queued(s) : b[1] # dx[1]
    BY <1>2, <1>9
  <2>3. OnceEach(Shell!AddUnique(s, dx))
    BY <1>2, <1>5, <1>10, <2>2
  <2> QED
    BY <1>6, <2>1, <2>3
<1>11. \A b \in Shell!Queued(ux.cmds["conn"]) : b[1] # dy[1]
  BY <1>2, <1>8, <1>9
<1>12. /\ OnceEach(r.cmds["conn"])
       /\ Shell!Queued(r.cmds["conn"]) = Shell!Queued(ux.cmds["conn"]) \cup {dy}
  <2> DEFINE a == ux.cmds["conn"]
  <2>1. a \in Seq(T) /\ OnceEach(a) /\ \A b \in Shell!Queued(a) : b[1] # dy[1]
    BY <1>8, <1>11
  <2>2. r.cmds["conn"] = Shell!AddUnique(a, dy)
    BY <1>7
  <2> HIDE DEF a
  <2>3. OnceEach(Shell!AddUnique(a, dy))
    BY <1>2, <1>5, <2>1
  <2>5. a \in Seq(T) /\ dy \in T
    BY <1>2, <2>1
  <2>4. Shell!Queued(Shell!AddUnique(a, dy)) = Shell!Queued(a) \cup {dy}
    BY <2>5, AddUniqueLemma
  <2> QED
    BY <2>2, <2>3, <2>4 DEF a
<1>13. Shell!Queued(r.cmds["conn"]) = Shell!Queued(s) \cup {dx, dy}
  BY <1>8, <1>12
<1> QED
  BY <1>4, <1>6, <1>7, <1>12, <1>13 DEF s, dx, dy, ux, r, ConnAdded

\* What LinkUp queues.
LEMMA LinkUpQueue ==
  ASSUME TypeOK, NEW p \in Pairs, NEW ifs \in IfPairs, LinkUp(p, ifs),
         OnceEach(queue.cmds["conn"]), \A c \in InQueue("conn") : c[1] \notin Ends(p, ifs)
  PROVE  /\ OnceEach(queue'.cmds["conn"])
         /\ InQueue("conn")' = InQueue("conn") \cup {<<t, "up">> : t \in Ends(p, ifs)}
         /\ InQueue("addif")' = InQueue("addif") \cup {<<t, p>> : t \in Ends(p, ifs)}
         /\ InQueue("addbr")' = InQueue("addbr") \cup {p}
         /\ queue'.ordered = queue.ordered
<1> DEFINE x == TapX(p, ifs)
           y == TapY(p, ifs)
           cx == <<x, p>>
           cy == <<y, p>>
           br == Shell!AddCommand(queue, "addbr", p)
           bx == Shell!AddCommand(br, "addif", cx)
           by == Shell!AddCommand(bx, "addif", cy)
<1>1. /\ x \in Taps /\ y \in Taps /\ x # y
      /\ Ends(p, ifs) = {x, y}
  BY EndsApart DEF Ends
<1>2. Events = {"addbr", "addif", "conn"}
  BY MultiAssumption
<1>3. /\ Shell!IsQueue(queue)
      /\ queue.cmds["addbr"] \in Seq(Pairs)
      /\ queue.cmds["conn"] \in Seq(Taps \X {"up", "down"})
  BY DEF TypeOK, StepTypeOK
<1>4. queue' = Shell!AddCommand(Shell!AddCommand(by, "conn", <<x, "up">>), "conn", <<y, "up">>)
  BY DEF LinkUp, QueueLink
<1>5. InQueue("addif")' = InQueue("addif") \cup {cx, cy}
  BY QueueLinkLemma DEF LinkUp, InQueue
<1>6. br.ordered = queue.ordered /\ bx.ordered = br.ordered /\ by.ordered = bx.ordered
  BY <1>2, <1>3 DEF Shell!AddCommand, Shell!IsQueue
<1> HIDE DEF x, y, cx, cy, br, bx, by
<1>7. /\ Shell!IsQueue(br) /\ br.cmds["conn"] = queue.cmds["conn"]
      /\ br.cmds["addbr"] = Shell!AddUnique(queue.cmds["addbr"], p)
  BY <1>2, <1>3, AddCommandLemma DEF br
<1>8. /\ Shell!IsQueue(bx) /\ bx.cmds["conn"] = br.cmds["conn"]
      /\ bx.cmds["addbr"] = br.cmds["addbr"]
  BY <1>2, <1>7, AddCommandLemma DEF bx
<1>9. /\ Shell!IsQueue(by) /\ by.cmds["conn"] = bx.cmds["conn"]
      /\ by.cmds["addbr"] = bx.cmds["addbr"]
  BY <1>2, <1>8, AddCommandLemma DEF by
<1>10. \A c \in Shell!Queued(by.cmds["conn"]) : c[1] # x /\ c[1] # y
  BY <1>1, <1>7, <1>8, <1>9 DEF InQueue
<1>11. by.cmds["conn"] = queue.cmds["conn"]
  BY <1>7, <1>8, <1>9
<1>13. /\ OnceEach(queue'.cmds["conn"])
       /\ Shell!Queued(queue'.cmds["conn"])
            = Shell!Queued(by.cmds["conn"]) \cup {<<x, "up">>, <<y, "up">>}
       /\ queue'.ordered = by.ordered
       /\ \A e \in Events \ {"conn"} : queue'.cmds[e] = by.cmds[e]
  <2>1. ConnReady(by, x, y, "up")
    BY <1>1, <1>3, <1>4, <1>9, <1>10, <1>11 DEF ConnReady
  <2>2. ConnAdded(by, queue', x, y, "up")
    BY <1>4, <2>1, ConnCommands
  <2> QED
    BY <2>2 DEF ConnAdded
<1>14. Shell!Queued(queue'.cmds["addbr"]) = Shell!Queued(queue.cmds["addbr"]) \cup {p}
  <2>1. queue'.cmds["addbr"] = Shell!AddUnique(queue.cmds["addbr"], p)
    BY <1>2, <1>7, <1>8, <1>9, <1>13
  <2> QED
    BY <1>3, <2>1, AddUniqueLemma
<1>15. /\ {<<t, "up">> : t \in Ends(p, ifs)} = {<<x, "up">>, <<y, "up">>}
       /\ {<<t, p>> : t \in Ends(p, ifs)} = {cx, cy}
  BY <1>1 DEF cx, cy
<1> QED
  BY <1>5, <1>6, <1>11, <1>13, <1>14, <1>15 DEF InQueue

\* What LinkDown queues.
LEMMA LinkDownQueue ==
  ASSUME TypeOK, NEW p \in Pairs, NEW ifs \in IfPairs, LinkDown(p, ifs),
         OnceEach(queue.cmds["conn"]), \A c \in InQueue("conn") : c[1] \notin Ends(p, ifs)
  PROVE  /\ OnceEach(queue'.cmds["conn"])
         /\ InQueue("conn")' = InQueue("conn") \cup {<<t, "down">> : t \in Ends(p, ifs)}
         /\ InQueue("addif")' = InQueue("addif") /\ InQueue("addbr")' = InQueue("addbr")
         /\ queue'.ordered = queue.ordered
<1> DEFINE x == TapX(p, ifs)
           y == TapY(p, ifs)
<1>1. /\ x \in Taps /\ y \in Taps /\ x # y
      /\ Ends(p, ifs) = {x, y}
  BY EndsApart DEF Ends
<1>2. Events = {"addbr", "addif", "conn"}
  BY MultiAssumption
<1>3. /\ Shell!IsQueue(queue)
      /\ queue.cmds["conn"] \in Seq(Taps \X {"up", "down"})
  BY DEF TypeOK, StepTypeOK
<1>4. queue' = Shell!AddCommand(Shell!AddCommand(queue, "conn", <<x, "down">>), "conn", <<y, "down">>)
  BY DEF LinkDown
<1>5. \A c \in Shell!Queued(queue.cmds["conn"]) : c[1] # x /\ c[1] # y
  BY <1>1 DEF InQueue
<1>6. OnceEach(queue.cmds["conn"])
  OBVIOUS
<1> HIDE DEF x, y
<1>7. /\ OnceEach(queue'.cmds["conn"])
      /\ Shell!Queued(queue'.cmds["conn"])
           = Shell!Queued(queue.cmds["conn"]) \cup {<<x, "down">>, <<y, "down">>}
      /\ queue'.ordered = queue.ordered
      /\ \A e \in Events \ {"conn"} : queue'.cmds[e] = queue.cmds[e]
  <2>1. ConnReady(queue, x, y, "down")
    BY <1>1, <1>3, <1>4, <1>5, <1>6 DEF ConnReady
  <2>2. ConnAdded(queue, queue', x, y, "down")
    BY <1>4, <2>1, ConnCommands
  <2> QED
    BY <2>2 DEF ConnAdded
<1>8. {<<t, "down">> : t \in Ends(p, ifs)} = {<<x, "down">>, <<y, "down">>}
  BY <1>1
<1> QED
  BY <1>2, <1>7, <1>8 DEF InQueue

(***************************************************************************)
(* The links work, step by step.  Before and after a step without pairs    *)
(* the queue is empty, and new pairs are those that the loop has linked.   *)
(***************************************************************************)
LEMMA EmptyQueue ==
  ASSUME \A e \in Events : queue.cmds[e] = <<>>
  PROVE  /\ InQueue("conn") = {} /\ InQueue("addif") = {} /\ InQueue("addbr") = {}
         /\ OnceEach(queue.cmds["conn"])
<1>1. queue.cmds["conn"] = <<>> /\ queue.cmds["addif"] = <<>> /\ queue.cmds["addbr"] = <<>>
  BY MultiAssumption
<1>2. Shell!Queued(<<>>) = {} /\ OnceEach(<<>>)
  BY DEF Shell!Queued, OnceEach
<1> QED
  BY <1>1, <1>2, Zenon DEF InQueue

\* A step begins: what is active is not new, and nothing is queued.
LEMMA BeginWorks ==
  ASSUME TypeOK, InStep, BookInv, Works, NEW m \in Matrices, Begin(m), UNCHANGED p2pVars
  PROVE  Works'
<1>1. /\ pc = "idle" /\ pc' \in {"pairs", "post"} /\ queue' = queue
      /\ UNCHANGED <<store, current_step, connections, interface_states>>
      /\ UNCHANGED <<devices, slaves, up, used_subnets, addresses>>
  BY DEF Begin, BeginStep, bookVars, kernelVars, p2pVars
<1>2. \A e \in Events : queue.cmds[e] = <<>>
  BY <1>1 DEF Works, Orderly
<1>3. InQueue("conn") = {} /\ InQueue("addif") = {} /\ InQueue("addbr") = {}
  BY <1>2, EmptyQueue
<1>4. \A e \in Events : InQueue(e)' = InQueue(e)
  BY <1>1 DEF InQueue
<1>5. Events = {"addbr", "addif", "conn"}
  BY MultiAssumption
<1>6. Orderly'
  BY <1>1, <1>2 DEF Works, Orderly
<1>7. AddIfs' = AddIfs
  BY <1>1 DEF AddIfs
<1>8. Bridged'
  BY <1>1, <1>3, <1>4, <1>5, <1>7 DEF Works, Bridged
<1>9. TapsSet'
  BY <1>1, <1>3, <1>4, <1>5 DEF Works, TapsSet
<1>10. pc' = "pairs" => before' = Store!ActivePairs(store)
  BY DEF Begin, BeginStep
<1>11. Store!ActivePairs(store) \subseteq connections
  BY DEF BookInv, ActiveBooked, Store!ActivePairs
<1>12. Unaddressed = {} /\ Unaddressed' = {}
  <2>1. Unaddressed = {}
    BY <1>1 DEF Unaddressed
  <2>2. CASE pc' = "post"
    BY <2>1, <2>2 DEF Unaddressed
  <2>3. CASE pc' = "pairs"
    <3>1. NewPairs' = {}
      BY <1>1, <1>10, <1>11, <2>3 DEF NewPairs, Works, Provisioned
    <3> QED
      BY <2>1, <3>1 DEF Unaddressed
  <2> QED
    BY <1>1, <2>1, <2>2, <2>3
<1>13. Provisioned'
  BY <1>1, <1>10, <1>11, <1>12 DEF Works, Provisioned, Addressed
<1> QED
  BY <1>6, <1>8, <1>9, <1>13 DEF Works

\* A pair gets its link: its taps were unused, so no command names them.
LEMMA LinkUpWorks ==
  ASSUME TypeOK, InStep, BookInv, Works, NEW p \in Pairs, NEW ifs \in IfPairs,
         TakePair(p), LinkUp(p, ifs), UNCHANGED <<kernelVars, p2pVars>>
  PROVE  Works'
<1> DEFINE new == Ends(p, ifs)
<1>1. /\ pc = "pairs" /\ pc' = pc /\ p \in diff /\ diff' = diff \ {p}
      /\ UNCHANGED <<before, current_step, devices, slaves, up, used_subnets, addresses>>
  BY DEF TakePair, kernelVars, p2pVars
<1>2. p \notin connections /\ connections' = connections \cup {p}
  BY DEF LinkUp
<1>3. store.active[p] = {}
  BY <1>2 DEF BookInv, ActiveBooked
<1>4. \A r \in Pairs : store'.active[r] = IF r = p THEN {ifs} ELSE store.active[r]
  <2>1. store' = [store EXCEPT !.active[p] = @ \cup {ifs}]
    BY LinkUpTypes
  <2>2. store \in Store!Stores
    BY DEF TypeOK, StepTypeOK
  <2> QED
    BY <1>3, <2>1, <2>2 DEF Store!Stores
<1>5. \A t \in new : t \in Taps /\ interface_states[t] = "unused"
  BY EndsApart DEF LinkUp, FirstFree, Free, Ends
<1>6. \A t \in Taps : interface_states'[t] = IF t \in new THEN "up" ELSE interface_states[t]
  BY DEF LinkUp, SetTaps
<1>7. \A c \in InQueue("conn") : c[1] \notin new
  BY <1>5 DEF Works, TapsSet
<1>8. /\ OnceEach(queue'.cmds["conn"])
      /\ InQueue("conn")' = InQueue("conn") \cup {<<t, "up">> : t \in new}
      /\ InQueue("addif")' = InQueue("addif") \cup {<<t, p>> : t \in new}
      /\ InQueue("addbr")' = InQueue("addbr") \cup {p}
      /\ queue'.ordered = queue.ordered
  BY <1>7, LinkUpQueue DEF Works, Orderly
<1>9. \A r \in Pairs : \A a \in store.active[r] : Ends(r, a) \cap new = {}
  BY <1>5 DEF BookInv, UpIffActive
<1>10. \A c \in InQueue("conn") : c[1] \in Taps
  <2> DEFINE T == Taps \X {"up", "down"}
  <2>1. queue.cmds["conn"] \in Seq(T)
    BY DEF TypeOK
  <2>2. \A c \in T : c[1] \in Taps
    OBVIOUS
  <2> HIDE DEF T
  <2> QED
    BY <2>1, <2>2, QueuedLemma DEF InQueue
<1>12. Ends(p, ifs) = new
  OBVIOUS
<1> HIDE DEF new
<1>13. Orderly'
  BY <1>1, <1>8 DEF Works, Orderly
<1>14. AddIfs' = AddIfs \cup {<<t, p>> : t \in new}
  BY <1>1, <1>8 DEF AddIfs, InQueue
<1>15. Bridged'
  BY <1>1, <1>2, <1>4, <1>8, <1>12, <1>14 DEF Works, Bridged
<1>16. TapsSet'
  <2>1. ASSUME NEW t \in Taps
        PROVE  interface_states'[t] = "up" <=>
                 \/ <<t, "up">> \in InQueue("conn")'
                 \/ t \in up' /\ <<t, "down">> \notin InQueue("conn")'
    <3>1. CASE t \in new
      BY <1>6, <1>8, <3>1
    <3>2. CASE t \notin new
      <4>1. /\ <<t, "up">> \in InQueue("conn")' <=> <<t, "up">> \in InQueue("conn")
            /\ <<t, "down">> \in InQueue("conn")' <=> <<t, "down">> \in InQueue("conn")
        BY <1>8, <3>2
      <4> QED
        BY <1>1, <1>6, <3>2, <4>1 DEF Works, TapsSet
    <3> QED
      BY <3>1, <3>2
  <2>2. \A c \in InQueue("conn")' : interface_states'[c[1]] # "unused"
    <3> SUFFICES ASSUME NEW c \in InQueue("conn")' PROVE interface_states'[c[1]] # "unused"
      OBVIOUS
    <3>1. CASE c \in InQueue("conn")
      BY <1>6, <1>7, <1>10, <3>1 DEF Works, TapsSet
    <3>2. CASE c \notin InQueue("conn")
      <4>1. PICK t \in new : c = <<t, "up">>
        BY <1>8, <3>2
      <4> QED
        BY <1>5, <1>6, <4>1
    <3> QED
      BY <3>1, <3>2
  <2>3. ASSUME NEW r \in diff', NEW a \in store'.active[r], NEW c \in InQueue("conn")'
        PROVE  c[1] \notin Ends(r, a)
    <3>1. r \in diff /\ r # p /\ r \in Pairs
      BY <1>1 DEF TypeOK, StepTypeOK
    <3>2. a \in store.active[r]
      BY <1>4, <3>1
    <3>3. CASE c \in InQueue("conn")
      BY <3>1, <3>2, <3>3 DEF Works, TapsSet
    <3>4. CASE c \notin InQueue("conn")
      <4>1. PICK t \in new : c = <<t, "up">>
        BY <1>8, <3>4
      <4> QED
        BY <1>9, <3>1, <3>2, <4>1
    <3> QED
      BY <3>3, <3>4
  <2>4. ASSUME NEW c \in InQueue("addif")' PROVE <<c[1], "up">> \in InQueue("conn")'
    <3>1. CASE c \in InQueue("addif")
      BY <1>8, <3>1 DEF Works, TapsSet
    <3>2. CASE c \notin InQueue("addif")
      <4>1. PICK t \in new : c = <<t, p>>
        BY <1>8, <3>2
      <4> QED
        BY <1>8, <4>1
    <3> QED
      BY <3>1, <3>2
  <2> QED
    BY <2>1, <2>2, <2>3, <2>4 DEF TapsSet
<1>17. Unaddressed' = Unaddressed \cup {p}
  <2>1. Store!ActivePairs(store)' = Store!ActivePairs(store) \cup {p}
    BY <1>4 DEF Store!ActivePairs
  <2>2. p \notin before
    BY <1>1, <1>2 DEF Works, Provisioned
  <2> QED
    BY <1>1, <2>1, <2>2 DEF Unaddressed, NewPairs
<1>18. used_subnets[p] = 0
  BY <1>2 DEF Works, Provisioned
<1>19. Provisioned'
  BY <1>1, <1>2, <1>4, <1>17, <1>18 DEF Works, Provisioned, Addressed
<1> QED
  BY <1>13, <1>15, <1>16, <1>19 DEF Works

\* A pair loses its link: the loop has not queued anything for its taps yet.
LEMMA LinkDownWorks ==
  ASSUME TypeOK, InStep, BookInv, Works, NEW p \in Pairs, NEW ifs \in IfPairs,
         TakePair(p), LinkDown(p, ifs), UNCHANGED <<kernelVars, p2pVars>>
  PROVE  Works'
<1> DEFINE old == Ends(p, ifs)
<1>1. /\ pc = "pairs" /\ pc' = pc /\ p \in diff /\ diff' = diff \ {p}
      /\ UNCHANGED <<before, current_step, devices, slaves, up, used_subnets, addresses>>
      /\ connections' = connections
  BY DEF TakePair, LinkDown, kernelVars, p2pVars
<1>2. ifs \in store.active[p] /\ store.active[p] = {ifs}
  BY DEF BookInv, OneConnectionPerPair, LinkDown
<1>3. \A r \in Pairs : store'.active[r] = IF r = p THEN {} ELSE store.active[r]
  <2>1. store \in Store!Stores
    BY DEF TypeOK, StepTypeOK
  <2>2. store.inactive[p] = {}
    BY DEF BookInv, InactiveEmpty
  <2>3. store' = Store!ChangeState(store, p, ifs, FALSE)
    BY DEF LinkDown
  <2>4. store' = [store EXCEPT !.active[p] = @ \ {ifs}]
    BY <1>2, <2>1, <2>2, <2>3, StoreDownLemma, Zenon
  <2> QED
    BY <1>2, <2>1, <2>4 DEF Store!Stores
<1>4. \A t \in Taps : interface_states'[t] = IF t \in old THEN "down" ELSE interface_states[t]
  BY DEF LinkDown, SetTaps
<1>5. \A c \in InQueue("conn") : c[1] \notin old
  BY <1>1, <1>2 DEF Works, TapsSet
<1>6. /\ OnceEach(queue'.cmds["conn"])
      /\ InQueue("conn")' = InQueue("conn") \cup {<<t, "down">> : t \in old}
      /\ InQueue("addif")' = InQueue("addif") /\ InQueue("addbr")' = InQueue("addbr")
      /\ queue'.ordered = queue.ordered
  BY <1>5, LinkDownQueue DEF Works, Orderly
<1>7. \A r \in Pairs \ {p} : \A a \in store.active[r] : Ends(r, a) \cap old = {}
  BY <1>2 DEF BookInv, EndsDisjoint
<1>8. \A c \in InQueue("conn") : c[1] \in Taps
  <2> DEFINE T == Taps \X {"up", "down"}
  <2>1. queue.cmds["conn"] \in Seq(T)
    BY DEF TypeOK
  <2>2. \A c \in T : c[1] \in Taps
    OBVIOUS
  <2> HIDE DEF T
  <2> QED
    BY <2>1, <2>2, QueuedLemma DEF InQueue
<1>9. old \subseteq Taps
  BY EndsApart DEF Ends
<1> HIDE DEF old
<1>10. Orderly'
  BY <1>1, <1>6 DEF Works, Orderly
<1>11. AddIfs' = AddIfs
  BY <1>1, <1>6 DEF AddIfs, InQueue
<1>12. Bridged'
  BY <1>1, <1>3, <1>6, <1>11 DEF Works, Bridged
<1>13. TapsSet'
  <2>1. ASSUME NEW t \in Taps
        PROVE  interface_states'[t] = "up" <=>
                 \/ <<t, "up">> \in InQueue("conn")'
                 \/ t \in up' /\ <<t, "down">> \notin InQueue("conn")'
    <3>1. CASE t \in old
      <4>1. <<t, "up">> \notin InQueue("conn")' /\ <<t, "down">> \in InQueue("conn")'
        BY <1>5, <1>6, <3>1
      <4> QED
        BY <1>4, <3>1, <4>1
    <3>2. CASE t \notin old
      <4>1. /\ <<t, "up">> \in InQueue("conn")' <=> <<t, "up">> \in InQueue("conn")
            /\ <<t, "down">> \in InQueue("conn")' <=> <<t, "down">> \in InQueue("conn")
        BY <1>6, <3>2
      <4> QED
        BY <1>1, <1>4, <3>2, <4>1 DEF Works, TapsSet
    <3> QED
      BY <3>1, <3>2
  <2>2. ASSUME NEW c \in InQueue("conn")' PROVE interface_states'[c[1]] # "unused"
    <3>1. CASE c \in InQueue("conn")
      BY <1>4, <1>5, <1>8, <3>1 DEF Works, TapsSet
    <3>2. CASE c \notin InQueue("conn")
      <4>1. PICK t \in old : c = <<t, "down">>
        BY <1>6, <3>2
      <4> QED
        BY <1>4, <1>9, <4>1
    <3> QED
      BY <3>1, <3>2
  <2>3. ASSUME NEW r \in diff', NEW a \in store'.active[r], NEW c \in InQueue("conn")'
        PROVE  c[1] \notin Ends(r, a)
    <3>1. r \in diff /\ r # p /\ r \in Pairs
      BY <1>1 DEF TypeOK, StepTypeOK
    <3>2. a \in store.active[r]
      BY <1>3, <3>1
    <3>3. CASE c \in InQueue("conn")
      BY <3>1, <3>2, <3>3 DEF Works, TapsSet
    <3>4. CASE c \notin InQueue("conn")
      <4>1. PICK t \in old : c = <<t, "down">>
        BY <1>6, <3>4
      <4> QED
        BY <1>7, <3>1, <3>2, <4>1
    <3> QED
      BY <3>3, <3>4
  <2>4. ASSUME NEW c \in InQueue("addif")' PROVE <<c[1], "up">> \in InQueue("conn")'
    BY <1>6 DEF Works, TapsSet
  <2> QED
    BY <2>1, <2>2, <2>3, <2>4 DEF TapsSet
<1>14. Unaddressed' = Unaddressed \ {p}
  <2>1. Store!ActivePairs(store)' = Store!ActivePairs(store) \ {p}
    BY <1>3 DEF Store!ActivePairs
  <2> QED
    BY <1>1, <2>1 DEF Unaddressed, NewPairs
<1>15. Provisioned'
  BY <1>1, <1>3, <1>14 DEF Works, Provisioned, Addressed
<1> QED
  BY <1>10, <1>12, <1>13, <1>15 DEF Works

\* An iteration without effect, and the end of the loop.
LEMMA QuietPairWorks ==
  ASSUME TypeOK, Works, pc = "pairs", pc' \in {"pairs", "bridge"}, diff' \subseteq diff,
         UNCHANGED <<store, queue, before, current_step, bookVars, kernelVars, p2pVars>>
  PROVE  Works'
<1>1. /\ UNCHANGED <<connections, interface_states, devices, slaves, up>>
      /\ UNCHANGED <<used_subnets, addresses>>
  BY DEF bookVars, kernelVars, p2pVars
<1>2. \A e \in Events : InQueue(e)' = InQueue(e)
  BY DEF InQueue
<1>3. Events = {"addbr", "addif", "conn"}
  BY MultiAssumption
<1>4. Orderly'
  BY DEF Works, Orderly
<1>5. AddIfs' = AddIfs
  BY <1>1 DEF AddIfs
<1>6. Bridged'
  BY <1>1, <1>2, <1>3, <1>5 DEF Works, Bridged
<1>7. TapsSet'
  BY <1>1, <1>2, <1>3 DEF Works, TapsSet
<1>8. NewPairs' = NewPairs
  BY DEF NewPairs
<1>9. Unaddressed' = Unaddressed
  BY <1>8 DEF Unaddressed
<1>10. Provisioned'
  BY <1>1, <1>9 DEF Works, Provisioned, Addressed
<1> QED
  BY <1>4, <1>6, <1>7, <1>10 DEF Works

\* The bridge group: a port that cannot be added is one of this bridge already.
LEMMA BridgeWorks ==
  ASSUME TypeOK, InStep, BookInv, Works, RunBridge, UNCHANGED p2pVars
  PROVE  Works'
<1>1. /\ pc = "bridge" /\ pc' = "batch" /\ UNCHANGED <<diff, store, before, queue, current_step>>
      /\ UNCHANGED <<connections, interface_states, used_subnets, addresses>>
  BY DEF RunBridge, Advance, BridgeCommandsRun, bookVars, p2pVars
<1>2. queue.ordered
  BY <1>1 DEF Works, Orderly
<1>3. /\ Shell!Queued(ToAddBr) = InQueue("addbr")
      /\ Shell!Queued(ToAddIf) = InQueue("addif")
  BY <1>2 DEF ToAddBr, ToAddIf, Shell!Runnable, InQueue
<1>4. devices' = devices \cup InQueue("addbr")
  BY <1>3 DEF RunBridge, BridgeCommandsRun, AddBr, Shell!Queued
<1>5. slaves' = slaves \cup {c \in InQueue("addif") : c[2] \in devices' /\ \A s \in slaves : s[1] # c[1]}
  BY <1>3 DEF RunBridge, BridgeCommandsRun, AddIf, Shell!Queued
<1>6. up' = up \cup {c[1] : c \in InQueue("addif")}
  BY <1>3 DEF RunBridge, BridgeCommandsRun
<1>7. \A e \in Events : InQueue(e)' = InQueue(e)
  BY <1>1 DEF InQueue
<1>8. Events = {"addbr", "addif", "conn"}
  BY MultiAssumption
<1>9. Orderly'
  BY <1>1 DEF Works, Orderly
<1>10. connections' \subseteq devices'
  BY <1>1, <1>4 DEF Works, Bridged
<1>11. ASSUME NEW p \in Pairs, NEW ifs \in store.active[p], NEW t \in Ends(p, ifs)
       PROVE  <<t, p>> \in slaves'
  <2>1. <<t, p>> \in AddIfs /\ p \in connections
    BY DEF Works, Bridged, BookInv, ActiveBooked
  <2>2. CASE <<t, p>> \in slaves
    BY <1>5, <2>2
  <2>3. CASE <<t, p>> \notin slaves
    <3>1. <<t, p>> \in InQueue("addif") /\ p \in devices'
      BY <1>1, <1>10, <2>1, <2>3 DEF AddIfs, InQueue
    <3>2. ASSUME NEW s \in slaves, s[1] = t PROVE FALSE
      <4>1. s \in AddIfs /\ s[2] = p
        BY <2>1, <3>2 DEF AddIfs, BookInv, TapOnOneBridge
      <4>2. PICK a \in Taps, b \in Pairs : s = <<a, b>>
        BY DEF TypeOK
      <4> QED
        BY <2>3, <3>2, <4>1, <4>2
    <3> QED
      BY <1>5, <3>1, <3>2
  <2> QED
    BY <2>2, <2>3
<1>12. AddIfs' = AddIfs
  BY <1>1, <1>5 DEF AddIfs, InQueue
<1>13. Bridged'
  BY <1>1, <1>7, <1>8, <1>10, <1>11, <1>12 DEF Works, Bridged
<1>14. TapsSet'
  BY <1>1, <1>6, <1>7, <1>8 DEF Works, TapsSet
<1>15. NewPairs' = NewPairs
  BY <1>1 DEF NewPairs
<1>16. Unaddressed' = Unaddressed
  BY <1>1, <1>15 DEF Unaddressed
<1>17. Provisioned'
  BY <1>1, <1>16 DEF Works, Provisioned, Addressed
<1> QED
  BY <1>9, <1>13, <1>14, <1>17 DEF Works

\* With one command for each tap, every command is the last one for its tap.
LEMMA LastOfOne ==
  ASSUME NEW s, OnceEach(s), NEW c, \A j \in DOMAIN s : j \in Nat
  PROVE  LastCommand(s, c) <=> c \in Shell!Queued(s)
<1>1. ASSUME NEW k \in DOMAIN s, s[k] = c PROVE LastCommand(s, c)
  <2>1. \A j \in DOMAIN s : s[j][1] = c[1] => j = k
    BY <1>1 DEF OnceEach
  <2>2. k <= k
    OBVIOUS
  <2> QED
    BY <1>1, <2>1, <2>2 DEF LastCommand
<1> QED
  BY <1>1 DEF LastCommand, Shell!Queued

\* The ip batch: the taps become what the book keeper believes, the queue is empty.
LEMMA BatchWorks ==
  ASSUME TypeOK, InStep, BookInv, Works, RunBatch, UNCHANGED p2pVars
  PROVE  Works'
<1>1. /\ pc = "batch" /\ pc' = "ipconfig" /\ UNCHANGED <<diff, store, before, current_step>>
      /\ UNCHANGED <<connections, interface_states, devices, slaves, used_subnets, addresses>>
      /\ queue' = Shell!ResetSerializer
  BY DEF RunBatch, BatchDone, bookVars, p2pVars
<1>2. \A e \in Events : queue'.cmds[e] = <<>>
  BY <1>1, FreshLemma
<1>3. /\ InQueue("conn")' = {} /\ InQueue("addif")' = {} /\ InQueue("addbr")' = {}
      /\ OnceEach(queue'.cmds["conn"])
  <2>1. queue'.cmds["conn"] = <<>> /\ queue'.cmds["addif"] = <<>> /\ queue'.cmds["addbr"] = <<>>
    BY <1>2, MultiAssumption
  <2>2. Shell!Queued(<<>>) = {} /\ OnceEach(<<>>)
    BY DEF Shell!Queued, OnceEach
  <2> QED
    BY <2>1, <2>2, Zenon DEF InQueue
<1>4. Orderly'
  BY <1>1, <1>2, <1>3 DEF Orderly
<1>5. AddIfs' = slaves
  BY <1>1, <1>3, Zenon DEF AddIfs, InQueue
<1>6. Bridged'
  BY <1>1, <1>5 DEF Works, Bridged
<1>7. ToSet = queue.cmds["conn"]
  BY <1>1 DEF Works, Orderly, ToSet, Shell!Runnable
<1>8. ASSUME NEW c PROVE LastCommand(ToSet, c) <=> c \in InQueue("conn")
  <2>1. queue.cmds["conn"] \in Seq(Taps \X {"up", "down"})
    BY DEF TypeOK
  <2>2. \A j \in DOMAIN ToSet : j \in Nat
    BY <1>7, <2>1
  <2>3. OnceEach(ToSet)
    BY <1>7 DEF Works, Orderly
  <2> QED
    BY <1>7, <2>2, <2>3, LastOfOne DEF InQueue
<1>9. up' = {t \in Taps : \/ <<t, "up">> \in InQueue("conn")
                          \/ t \in up /\ <<t, "down">> \notin InQueue("conn")}
  BY <1>8 DEF RunBatch
<1>10. \A t \in Taps : interface_states[t] = "up" <=> t \in up'
  BY <1>9 DEF Works, TapsSet
<1>11. TapsSet'
  BY <1>1, <1>3, <1>10 DEF TapsSet
<1>12. NewPairs' = NewPairs
  BY <1>1 DEF NewPairs
<1>13. Unaddressed' = Unaddressed
  BY <1>1, <1>12 DEF Unaddressed
<1>14. Provisioned'
  BY <1>1, <1>13 DEF Works, Provisioned, Addressed
<1> QED
  BY <1>4, <1>6, <1>11, <1>14 DEF Works

(***************************************************************************)
(* The provisioner: no new connection has a subnet, so each takes one, and *)
(* no tap is an end of two of them.                                        *)
(***************************************************************************)
LEMMA NewAddresses ==
  ASSUME TypeOK, BookInv, Works, IpConfigP2P, NEW p \in NewPairs, NEW ifs \in store.active[p]
  PROVE  /\ addresses'[TapX(p, ifs)] = <<used_subnets'[p], 1>>
         /\ addresses'[TapY(p, ifs)] = <<used_subnets'[p], 2>>
<1>1. pc = "ipconfig"
  BY DEF IpConfigP2P, IpConfig, Advance
<1>2. Fresh = NewPairs
  BY <1>1 DEF Works, Provisioned, Unaddressed, Fresh
<1>3. p \in Pairs /\ ifs \in IfPairs
  BY NewPairsTyped DEF TypeOK, StepTypeOK, Store!Stores
<1> DEFINE x == TapX(p, ifs)
           y == TapY(p, ifs)
           asX(t) == {q \in NewPairs : \E a \in store.active[q] : TapX(q, a) = t}
           asY(t) == {q \in NewPairs : \E a \in store.active[q] : TapY(q, a) = t}
<1>4. x \in Taps /\ y \in Taps /\ x[1] \in Nodes /\ y[1] \in Nodes /\ x # y
  BY <1>3, EndsApart DEF Taps
<1>5. used_subnets'[p] = UsedSubnets[p]
  BY DEF IpConfigP2P, TakeSubnets
<1>6. AddressX(p) = <<used_subnets'[p], 1>> /\ AddressY(p) = <<used_subnets'[p], 2>>
  BY <1>2, <1>5 DEF AddressX, AddressY, FirstHost, SecondHost
<1>7. \A q \in NewPairs : \A a \in store.active[q] : Ends(q, a) \cap Ends(p, ifs) # {} => q = p /\ a = ifs
  BY <1>3, NewPairsTyped DEF BookInv, EndsDisjoint, OneConnectionPerPair
<1>8. asX(x) = {p} /\ asX(y) = {} /\ asY(y) = {p}
  BY <1>4, <1>7 DEF Ends
<1>9. addresses' = Configured(Nodes)
  BY DEF IpConfigP2P
<1>10. \A t \in Taps : addresses'[t] =
         IF t[1] \notin Nodes \/ asX(t) \cup asY(t) = {} THEN addresses[t]
         ELSE IF asX(t) # {} THEN AddressX(CHOOSE q \in asX(t) : TRUE)
                             ELSE AddressY(CHOOSE q \in asY(t) : TRUE)
  BY <1>9 DEF Configured
<1>11. (CHOOSE q \in {p} : TRUE) = p
  OBVIOUS
<1> HIDE DEF x, y, asX, asY
<1>12. addresses'[x] = AddressX(CHOOSE q \in asX(x) : TRUE)
  BY <1>4, <1>8, <1>10
<1>13. addresses'[y] = AddressY(CHOOSE q \in asY(y) : TRUE)
  BY <1>4, <1>8, <1>10
<1>14. addresses'[x] = AddressX(p) /\ addresses'[y] = AddressY(p)
  BY <1>8, <1>11, <1>12, <1>13
<1> QED
  BY <1>6, <1>14 DEF x, y

\* The other connections keep their addresses and subnets.
LEMMA OldAddresses ==
  ASSUME TypeOK, BookInv, Works, IpConfigP2P,
         NEW p \in Pairs \ NewPairs, NEW ifs \in store.active[p]
  PROVE  Addressed(p, ifs)'
<1>1. pc = "ipconfig"
  BY DEF IpConfigP2P, IpConfig, Advance
<1>2. Addressed(p, ifs)
  BY <1>1 DEF Works, Provisioned, Unaddressed
<1>3. ifs \in IfPairs
  BY DEF TypeOK, StepTypeOK, Store!Stores
<1>4. used_subnets'[p] = used_subnets[p]
  BY DEF IpConfigP2P, TakeSubnets, UsedSubnets, Served, Fresh
<1> DEFINE asX(t) == {q \in NewPairs : \E a \in store.active[q] : TapX(q, a) = t}
           asY(t) == {q \in NewPairs : \E a \in store.active[q] : TapY(q, a) = t}
<1>5. \A q \in NewPairs : \A a \in store.active[q] : Ends(q, a) \cap Ends(p, ifs) = {}
  BY NewPairsTyped DEF BookInv, EndsDisjoint
<1>6. \A t \in Ends(p, ifs) : asX(t) = {} /\ asY(t) = {} /\ t \in Taps
  BY <1>3, <1>5, EndsApart DEF Ends
<1>7. addresses' = Configured(Nodes)
  BY DEF IpConfigP2P
<1>8. \A t \in Taps : asX(t) \cup asY(t) = {} => addresses'[t] = addresses[t]
  BY <1>7 DEF Configured
<1> HIDE DEF asX, asY
<1>9. \A t \in Ends(p, ifs) : addresses'[t] = addresses[t]
  BY <1>6, <1>8
<1> QED
  BY <1>2, <1>4, <1>9 DEF Addressed, Ends

\* After the ifconfig commands all active connections have their addresses.
LEMMA IpConfigWorks ==
  ASSUME TypeOK, InStep, BookInv, Works, IpConfigP2P
  PROVE  Works'
<1>1. /\ pc = "ipconfig" /\ pc' = "check"
      /\ UNCHANGED <<diff, store, before, queue, current_step>>
      /\ UNCHANGED <<connections, interface_states, devices, slaves, up>>
  BY DEF IpConfigP2P, IpConfig, Advance, bookVars, kernelVars
<1>2. \A e \in Events : InQueue(e)' = InQueue(e)
  BY <1>1 DEF InQueue
<1>3. Events = {"addbr", "addif", "conn"}
  BY MultiAssumption
<1>4. Orderly'
  BY <1>1 DEF Works, Orderly
<1>5. AddIfs' = AddIfs
  BY <1>1 DEF AddIfs
<1>6. Bridged'
  BY <1>1, <1>2, <1>3, <1>5 DEF Works, Bridged
<1>7. TapsSet'
  BY <1>1, <1>2, <1>3 DEF Works, TapsSet
<1>8. Unaddressed' = {}
  BY <1>1 DEF Unaddressed
<1>9. ASSUME NEW p \in Pairs, NEW ifs \in store.active[p] PROVE Addressed(p, ifs)'
  <2>1. CASE p \in NewPairs
    BY <2>1, NewAddresses DEF Addressed
  <2>2. CASE p \notin NewPairs
    BY <2>2, OldAddresses
  <2> QED
    BY <2>1, <2>2
<1>10. ASSUME NEW p \in Pairs, used_subnets'[p] # 0 PROVE p \in connections
  <2>1. CASE p \in NewPairs
    BY <2>1 DEF NewPairs, Store!ActivePairs, BookInv, ActiveBooked
  <2>2. CASE p \notin NewPairs
    BY <1>10, <2>2 DEF IpConfigP2P, TakeSubnets, UsedSubnets, Served, Fresh, Works, Provisioned
  <2> QED
    BY <2>1, <2>2
<1>11. Provisioned'
  BY <1>1, <1>8, <1>9, <1>10 DEF Provisioned
<1> QED
  BY <1>4, <1>6, <1>7, <1>11 DEF Works

\* The check and the end of a step change nothing of the links.
LEMMA QuietEndWorks ==
  ASSUME TypeOK, Works, CheckPassesP2P \/ (End /\ UNCHANGED p2pVars)
  PROVE  Works'
<1>1. /\ UNCHANGED <<diff, store, connections, interface_states, devices, slaves, up>>
      /\ UNCHANGED <<used_subnets, addresses>>
      /\ pc \in {"check", "post"} /\ pc' \in {"post", "idle"}
      /\ pc' = "idle" => current_step' = current_step + 1
  BY DEF CheckPassesP2P, CheckDone, End, EndStep, bookVars, kernelVars, p2pVars
<1>2. queue'.ordered /\ \A e \in Events : queue.cmds[e] = <<>> /\ queue'.cmds[e] = <<>>
  <2>1. CASE CheckPassesP2P
    <3>1. queue' = Shell!FreshSerializer
      BY <2>1 DEF CheckPassesP2P, CheckDone
    <3> QED
      BY <1>1, <3>1, FreshLemma DEF Works, Orderly, Shell!FreshSerializer
  <2>2. CASE End
    BY <1>1, <2>2 DEF End, EndStep, Works, Orderly
  <2> QED
    BY <2>1, <2>2
<1>3. Events = {"addbr", "addif", "conn"}
  BY MultiAssumption
<1>4. \A e \in Events : queue'.cmds[e] = queue.cmds[e]
  BY <1>2
<1>5. \A e \in Events : InQueue(e)' = InQueue(e)
  BY <1>4 DEF InQueue
<1>6. Orderly'
  BY <1>2, <1>3, <1>4 DEF Works, Orderly
<1>7. AddIfs' = AddIfs
  BY <1>1, <1>3, <1>4 DEF AddIfs
<1>8. Bridged'
  BY <1>1, <1>3, <1>5, <1>7 DEF Works, Bridged
<1>9. TapsSet'
  BY <1>1, <1>3, <1>5 DEF Works, TapsSet
<1>10. Unaddressed = {} /\ Unaddressed' = {}
  BY <1>1 DEF Unaddressed
<1>11. pc' = "idle" => current_step' # 0
  <2>1. current_step \in Nat
    BY StepAssumption DEF TypeOK, StepTypeOK
  <2> QED
    BY <1>1, <2>1
<1>12. Provisioned'
  BY <1>1, <1>10, <1>11 DEF Works, Provisioned, Addressed
<1> QED
  BY <1>6, <1>8, <1>9, <1>12 DEF Works

\* The state in which a scenario starts.
NoLinks ==
  /\ pc = "idle" /\ diff = {} /\ queue = Shell!FreshSerializer
  /\ \A p \in Pairs : store.active[p] = {} /\ used_subnets[p] = 0
  /\ connections = {} /\ interface_states = [t \in Taps |-> "unused"] /\ up = {}

\* Nothing of an earlier scenario is in the way of the next one.
LEMMA NothingLinked == NoLinks => Works
<1> SUFFICES ASSUME NoLinks PROVE Works
  OBVIOUS
<1> USE DEF NoLinks
<1>1. queue.ordered /\ \A e \in Events : queue.cmds[e] = <<>>
  BY FreshLemma DEF Shell!FreshSerializer
<1>2. /\ InQueue("conn") = {} /\ InQueue("addif") = {} /\ InQueue("addbr") = {}
      /\ OnceEach(queue.cmds["conn"])
  BY <1>1, EmptyQueue
<1>3. Orderly
  BY <1>1, <1>2 DEF Orderly
<1>4. Bridged
  BY DEF Bridged
<1>5. TapsSet
  BY <1>2 DEF TapsSet
<1>6. Provisioned
  BY DEF Provisioned, Unaddressed
<1> QED
  BY <1>3, <1>4, <1>5, <1>6 DEF Works

\* The inductive invariant: it is given up with the first step that fails.
WorkInv == ~ failed => Works

\* A scenario starts without links.
LEMMA WorkInit == LanInit => WorkInv
<1> SUFFICES ASSUME LanInit PROVE Works
  BY DEF WorkInv
<1>1. \A p \in Pairs : store.active[p] = {}
  BY DEF LanInit, Init, StepInit, Store!EmptyStore
<1> QED
  BY <1>1, NothingLinked DEF LanInit, Init, StepInit, P2PInit, NoLinks

\* Every step of the scenario keeps the links working, or is remembered as failed.
LEMMA WorkStep ==
  ASSUME TypeOK, InStep, BookInv, WorkInv, LanNext
  PROVE  WorkInv'
<1> SUFFICES ASSUME ~ failed' PROVE Works'
  BY DEF WorkInv
<1>1. CASE AbortP2P
  <2>1. NoLinks'
    BY <1>1 DEF AbortP2P, Abort, AbortStep, Store!EmptyStore, NoLinks
  <2>2. NoLinks' => Works'
    BY NothingLinked, PTL
  <2> QED
    BY <2>1, <2>2
<1>2. CASE LanStep /\ failed' = (failed \/ outcome' = "failed")
  <2>1. Works /\ outcome' # "failed"
    BY <1>2, Zenon DEF WorkInv
  <2>2. ASSUME NEW m \in Matrices, Begin(m), UNCHANGED p2pVars PROVE Works'
    BY <2>1, <2>2, BeginWorks
  <2>3. ASSUME NEW p \in Pairs, ProcessPair(p), UNCHANGED p2pVars PROVE Works'
    <3>1. TakePair(p) /\ UNCHANGED kernelVars
      BY <2>3 DEF ProcessPair
    <3>2. ASSUME NEW ifs \in IfPairs, LinkUp(p, ifs) PROVE Works'
      BY <2>1, <2>3, <3>1, <3>2, LinkUpWorks
    <3>3. ASSUME NEW ifs \in IfPairs, LinkDown(p, ifs) PROVE Works'
      BY <2>1, <2>3, <3>1, <3>3, LinkDownWorks
    <3>4. CASE LinkRefused(p) \/ NotLinked(p)
      <4>1. /\ pc = "pairs" /\ pc' \in {"pairs", "bridge"} /\ diff' \subseteq diff
            /\ UNCHANGED <<store, queue, before, current_step, bookVars, kernelVars, p2pVars>>
        BY <2>3, <3>1, <3>4 DEF TakePair, LinkRefused, NotLinked
      <4> QED
        BY <2>1, <4>1, QuietPairWorks
    <3> QED
      BY <2>3, <3>2, <3>3, <3>4 DEF ProcessPair
  <2>4. CASE EndOfPairs /\ UNCHANGED p2pVars
    <3>1. /\ pc = "pairs" /\ pc' \in {"pairs", "bridge"} /\ diff' \subseteq diff
          /\ UNCHANGED <<store, queue, before, current_step, bookVars, kernelVars, p2pVars>>
      BY <2>4 DEF EndOfPairs, PairsDone
    <3> QED
      BY <2>1, <3>1, QuietPairWorks
  <2>5. CASE RunBridge /\ UNCHANGED p2pVars
    BY <2>1, <2>5, BridgeWorks
  <2>6. CASE RunBatch /\ UNCHANGED p2pVars
    BY <2>1, <2>6, BatchWorks
  <2>7. CASE IpConfigP2P
    BY <2>1, <2>7, IpConfigWorks
  <2>8. CASE CheckPassesP2P \/ (End /\ UNCHANGED p2pVars)
    BY <2>1, <2>8, QuietEndWorks
  <2>9. CASE BridgeError \/ NoMoreSubnets \/ CheckFailsP2P
    BY <2>1, <2>9 DEF BridgeError, NoMoreSubnets, CheckFailsP2P, Raise
  <2>10. CASE CheckDisturbed \/ \E done \in SUBSET Nodes : IpConfigFails(done)
    BY <2>1, <2>10 DEF CheckDisturbed, IpConfigFails, Failure, EnvFailure, Raise
  <2>11. ASSUME NEW point, Failure(point) PROVE Works'
    BY <2>1, <2>11 DEF Failure, EnvFailure, Raise
  <2> QED
    BY <1>2, <2>2, <2>3, <2>4, <2>5, <2>6, <2>7, <2>8, <2>9, <2>10, <2>11 DEF LanStep
<1> QED
  BY <1>1, <1>2 DEF LanNext

\* A tap is a port of no bridge but that of its connection.
LEMMA SettledLinks ==
  ASSUME TypeOK, BookInv, WorkInv, Settled, ~ failed
  PROVE  /\ {p \in Pairs : CanTalk(p)} = Store!ActivePairs(store)
         /\ \A p \in Pairs : \A ifs \in store.active[p] : Addressed(p, ifs)
<1>1. Works /\ pc = "idle"
  BY DEF WorkInv, Settled
<1>2. InQueue("conn") = {} /\ InQueue("addif") = {}
  BY <1>1, EmptyQueue DEF Works, Orderly
<1>3. \A t \in Taps : t \in up <=> \E p \in Pairs : \E ifs \in store.active[p] : t \in Ends(p, ifs)
  BY <1>1, <1>2 DEF Works, TapsSet, BookInv, UpIffActive
<1>4. \A p \in Pairs : \A ifs \in store.active[p] : \A t \in Ends(p, ifs) : <<t, p>> \in slaves
  BY <1>1 DEF Works, Bridged
<1>5. ASSUME NEW p \in Pairs, store.active[p] # {} PROVE CanTalk(p)
  <2>1. PICK ifs \in IfPairs : ifs \in store.active[p]
    BY <1>5 DEF TypeOK, StepTypeOK, Store!Stores
  <2>2. p \in devices
    BY <1>1, <1>5 DEF Works, Bridged, BookInv, ActiveBooked
  <2>3. TapX(p, ifs) \in up /\ <<TapX(p, ifs), p>> \in slaves /\ TapX(p, ifs)[1] = p[1]
    BY <1>3, <1>4, <2>1, EndsApart DEF Ends, TapX
  <2>4. TapY(p, ifs) \in up /\ <<TapY(p, ifs), p>> \in slaves /\ TapY(p, ifs)[1] = p[2]
    BY <1>3, <1>4, <2>1, EndsApart DEF Ends, TapY
  <2> QED
    BY <2>2, <2>3, <2>4 DEF CanTalk
<1>6. ASSUME NEW p \in Pairs, CanTalk(p) PROVE store.active[p] # {}
  <2>1. PICK t \in up : <<t, p>> \in slaves
    BY <1>6 DEF CanTalk
  <2>2. PICK r \in Pairs : \E ifs \in store.active[r] : t \in Ends(r, ifs)
    BY <1>3, <2>1 DEF TypeOK
  <2>3. <<t, r>> \in slaves
    BY <1>4, <2>2
  <2>4. p = r
    <3>1. <<t, p>> \in AddIfs /\ <<t, r>> \in AddIfs
      BY <2>1, <2>3 DEF AddIfs
    <3> QED
      BY <3>1 DEF BookInv, TapOnOneBridge
  <2> QED
    BY <2>2, <2>4
<1>7. \A p \in Pairs : \A ifs \in store.active[p] : Addressed(p, ifs)
  BY <1>1 DEF Works, Provisioned, Unaddressed
<1> QED
  BY <1>5, <1>6, <1>7 DEF Store!ActivePairs

(***************************************************************************)
(* As long as no step of the scenario has failed: after every step frames  *)
(* pass between exactly the pairs with an active connection, and the two   *)
(* ends have different addresses of the subnet of their connection.        *)
(***************************************************************************)
THEOREM LinksDoWork == LanSpec => []LinksWork
<1>1. TypeOK /\ BookInv /\ WorkInv => LinksWork
  <2> SUFFICES ASSUME TypeOK, BookInv, WorkInv, Settled, ~ failed
               PROVE  /\ {p \in Pairs : CanTalk(p)} = Store!ActivePairs(store)
                      /\ \A p \in Pairs : \A ifs \in store.active[p] :
                           /\ addresses[TapX(p, ifs)][1] = used_subnets[p]
                           /\ addresses[TapY(p, ifs)][1] = used_subnets[p]
                           /\ addresses[TapX(p, ifs)] # addresses[TapY(p, ifs)]
    BY DEF LinksWork
  <2>1. \A u : <<u, 1>> # <<u, 2>> /\ <<u, 1>>[1] = u /\ <<u, 2>>[1] = u
    OBVIOUS
  <2> QED
    BY <2>1, SettledLinks DEF Addressed
<1>2. WorkInv /\ UNCHANGED lanVars => WorkInv'
  <2> SUFFICES ASSUME Works, UNCHANGED lanVars, ~ failed PROVE Works'
    BY DEF WorkInv, lanVars
  <2>1. /\ UNCHANGED <<pc, diff, store, before, queue, current_step, connections, interface_states>>
        /\ UNCHANGED <<devices, slaves, up, used_subnets, addresses>>
    BY DEF lanVars, vars, stepVars, bookVars, kernelVars, p2pVars
  <2>2. /\ InQueue("conn")' = InQueue("conn") /\ InQueue("addif")' = InQueue("addif")
        /\ InQueue("addbr")' = InQueue("addbr") /\ AddIfs' = AddIfs
    BY <2>1 DEF InQueue, AddIfs
  <2>3. Unaddressed' = Unaddressed
    BY <2>1 DEF Unaddressed, NewPairs
  <2>4. Orderly' /\ Bridged'
    BY <2>1, <2>2 DEF Works, Orderly, Bridged
  <2>5. TapsSet' /\ Provisioned'
    BY <2>1, <2>2, <2>3 DEF Works, TapsSet, Provisioned, Addressed
  <2> QED
    BY <2>4, <2>5 DEF Works
<1> QED
  BY <1>1, <1>2, LanBook, WorkInit, WorkStep, PTL DEF LanSpec
=============================================================================

---------------------- MODULE NetworkBackendVDE_proofs ----------------------
(***************************************************************************)
(* Proofs about the VDE backend, for any nodes, distances, ports and       *)
(* failures: the store follows the matrix and wanted links carry frames    *)
(* except where an exception cut the loop over the pairs off, and N + 1    *)
(* ports are enough for the first links.                                   *)
(***************************************************************************)
EXTENDS NetworkBackendVDE, FiniteSetTheorems, TLAPS
-----------------------------------------------------------------------------
(***************************************************************************)
(* The command queue and the connection store of a scenario.               *)
(***************************************************************************)

\* New and reset queues hold no commands.
LEMMA FreshLemma ==
  /\ Shell!IsQueue(Shell!FreshSerializer)
  /\ Shell!IsQueue(Shell!ResetSerializer)
  /\ \A e \in Events : /\ Shell!FreshSerializer.cmds[e] = <<>>
                       /\ Shell!ResetSerializer.cmds[e] = <<>>
  BY DEF Shell!IsQueue, Shell!FreshSerializer, Shell!ResetSerializer, Shell!NoCommands

\* A connection that was just added is active, so link_up changes nothing.
LEMMA StoreUpLemma ==
  ASSUME NEW s \in Store!Stores, NEW p \in Pairs, NEW ifs \in IfPairs
  PROVE  Store!ChangeState(Store!AddConnection(s, p, ifs), p, ifs, TRUE)
           = [s EXCEPT !.active[p] = @ \cup {ifs}]
  BY DEF Store!ChangeState, Store!AddConnection, Store!Stores
-----------------------------------------------------------------------------
(***************************************************************************)
(* The inductive invariant.                                                *)
(***************************************************************************)

\* The phases of a step of this backend; a step that has begun may still fail or end.
PhaseInv ==
  /\ pc \in {"idle", "pairs", "ipconfig", "check", "post"}
  /\ pc # "pairs" => diff = {}
  /\ pc # "idle" => failures < MaxFailures /\ current_step < MaxSteps

\* No connection is inactive, and a connection has a process.
StoreInv ==
  \A p \in Pairs : /\ store.inactive[p] = {}
                   /\ store.active[p] # {} => Len(wires[p]) > 0

\* If all processes of a pair are in the VLAN, one of them lets frames pass.
Carries(ws) ==
  (\A k \in DOMAIN ws : ws[k].vlan) => \E k \in DOMAIN ws : ~ ws[k].drops /\ ws[k].vlan

\* The pairs whose processing is done and was not cut off.
Settled == Pairs \ (skipped \cup diff)

\* Store and processes of a settled pair are as the matrix wants them.
SettledInv ==
  \A p \in Settled :
    /\ store.active[p] # {} <=> p \in Wanted
    /\ p \in Wanted => Carries(wires[p])

\* The nodes have their addresses from the first step on that comes that far.
AddressInv == current_step > 0 \/ pc \in {"check", "post"} => nics = Nodes

Inv == TypeOK /\ PhaseInv /\ StoreInv /\ SettledInv /\ AddressInv
-----------------------------------------------------------------------------
(***************************************************************************)
(* The processes and the connections of a pair.                            *)
(***************************************************************************)

\* There is one pair of interfaces.
LEMMA OneInterface == IfPairs = {TheIfs}
  BY VdeAssumption DEF TheIfs

\* A process that is launched leaves the pair with at least one.
LEMMA LaunchedLemma ==
  ASSUME TypeOK, NEW p \in Pairs, NEW ws \in Launched(p)
  PROVE  /\ ws \in Seq(Wire) /\ Len(ws) > 0
         /\ MovedToVlan(p, ws) \in Seq(Wire) /\ Len(MovedToVlan(p, ws)) > 0
<1>1. wires[p] \in Seq(Wire)
  BY DEF TypeOK
<1>2. [drops |-> TRUE, vlan |-> FALSE] \in Wire
  BY DEF Wire
<1>3. ws \in Seq(Wire) /\ Len(ws) > 0
  <2>1. CASE ws = Append(wires[p], [drops |-> TRUE, vlan |-> FALSE])
    BY <1>1, <1>2, <2>1
  <2>2. CASE ws = wires[p] /\ ws # <<>>
    BY <1>1, <2>2
  <2> QED
    BY <2>1, <2>2 DEF Launched
<1>4. ws[Len(ws)] \in Wire /\ Len(ws) \in 1..Len(ws)
  BY <1>3
<1> DEFINE w == [ws[Len(ws)] EXCEPT !.vlan = TRUE]
<1>5. w \in Wire
  BY <1>4 DEF Wire
<1>6. [ws EXCEPT ![Len(ws)].vlan = TRUE] = [ws EXCEPT ![Len(ws)] = w]
  OBVIOUS
<1> HIDE DEF w
<1>7. [ws EXCEPT ![Len(ws)] = w] \in Seq(Wire) /\ Len([ws EXCEPT ![Len(ws)] = w]) = Len(ws)
  BY <1>3, <1>4, <1>5
<1> QED
  BY <1>3, <1>6, <1>7 DEF MovedToVlan

\* "loss 0" reaches the last process of a pair.
LEMMA PassingLemma ==
  ASSUME NEW ws \in Seq(Wire), Len(ws) > 0
  PROVE  Passing(ws) \in Seq(Wire) /\ Len(Passing(ws)) > 0 /\ Carries(Passing(ws))
<1>1. ws[Len(ws)] \in Wire /\ Len(ws) \in 1..Len(ws)
  OBVIOUS
<1> DEFINE w == [ws[Len(ws)] EXCEPT !.drops = FALSE]
<1>2. w \in Wire /\ w.drops = FALSE
  BY <1>1 DEF Wire
<1>3. Passing(ws) = [ws EXCEPT ![Len(ws)] = w]
  BY DEF Passing
<1> HIDE DEF w
<1> DEFINE v == [ws EXCEPT ![Len(ws)] = w]
<1>4. v \in Seq(Wire) /\ Len(v) = Len(ws) /\ v[Len(ws)] = w /\ Len(ws) \in DOMAIN v
  BY <1>1, <1>2
<1> HIDE DEF v
<1>5. Carries(v)
  BY <1>2, <1>4 DEF Carries
<1> QED
  BY <1>3, <1>4, <1>5 DEF v

\* A connection that is added is active, the others stay as they are.
LEMMA StoredLemma ==
  ASSUME TypeOK, StoreInv, NEW p \in Pairs
  PROVE  /\ Stored(p) \in Store!Stores
         /\ Stored(p).active[p] # {}
         /\ \A r \in Pairs \ {p} : Stored(p).active[r] = store.active[r]
         /\ \A r \in Pairs : Stored(p).inactive[r] = {}
<1>1. TheIfs \in IfPairs /\ store \in Store!Stores
  BY OneInterface DEF TypeOK, StepTypeOK
<1>2. Stored(p) = [store EXCEPT !.active[p] = @ \cup {TheIfs}]
  BY <1>1, StoreUpLemma, Zenon DEF Stored
<1> DEFINE A == [store.active EXCEPT ![p] = @ \cup {TheIfs}]
<1>3. A \in [Pairs -> SUBSET IfPairs] /\ A[p] # {} /\ \A r \in Pairs \ {p} : A[r] = store.active[r]
  BY <1>1 DEF Store!Stores
<1>4. Stored(p) = [store EXCEPT !.active = A]
  BY <1>2
<1> HIDE DEF A
<1>5. [store EXCEPT !.active = A] \in Store!Stores
      /\ [store EXCEPT !.active = A].active = A
      /\ [store EXCEPT !.active = A].inactive = store.inactive
  BY <1>1, <1>3 DEF Store!Stores
<1> QED
  BY <1>3, <1>4, <1>5 DEF StoreInv

\* link_down ends the only connection of the pair.
LEMMA DownLemma ==
  ASSUME TypeOK, StoreInv, NEW p \in Pairs, store.active[p] # {},
         store' = Store!ChangeState(store, p, TheIfs, FALSE)
  PROVE  /\ store' \in Store!Stores
         /\ store'.active[p] = {}
         /\ \A r \in Pairs \ {p} : store'.active[r] = store.active[r]
         /\ \A r \in Pairs : store'.inactive[r] = {}
<1>1. store \in Store!Stores /\ store.active[p] \in SUBSET IfPairs
  BY DEF TypeOK, StepTypeOK, Store!Stores
<1>2. TheIfs \in store.active[p] /\ store.active[p] = {TheIfs}
  BY <1>1, OneInterface
<1>3. store' = [store EXCEPT !.active[p] = @ \ {TheIfs}]
  <2>1. store.inactive[p] = {}
    BY DEF StoreInv
  <2>2. store \in Store!Stores /\ TheIfs \in store.active[p]
    BY <1>1, <1>2
  <2>3. Store!ChangeState(store, p, TheIfs, FALSE)
          = [store EXCEPT !.active[p] = store.active[p] \ {TheIfs}]
    BY <2>1, <2>2 DEF Store!ChangeState, Store!PutIfKeyed, Store!Stores
  <2> QED
    BY <2>3, Zenon
<1> DEFINE A == [store.active EXCEPT ![p] = @ \ {TheIfs}]
<1>4. A \in [Pairs -> SUBSET IfPairs] /\ A[p] = {} /\ \A r \in Pairs \ {p} : A[r] = store.active[r]
  BY <1>1, <1>2 DEF Store!Stores
<1>5. store' = [store EXCEPT !.active = A]
  BY <1>3
<1> HIDE DEF A
<1>6. [store EXCEPT !.active = A] \in Store!Stores
      /\ [store EXCEPT !.active = A].active = A
      /\ [store EXCEPT !.active = A].inactive = store.inactive
  BY <1>1, <1>4 DEF Store!Stores
<1> QED
  BY <1>4, <1>5, <1>6 DEF StoreInv

(***************************************************************************)
(* The pair p is touched: its store entry and its processes change, and    *)
(* a process is left for a connection.                                     *)
(***************************************************************************)
Touched(p) ==
  /\ store' \in Store!Stores
  /\ wires' \in [Pairs -> Seq(Wire)]
  /\ \A r \in Pairs \ {p} : store'.active[r] = store.active[r] /\ wires'[r] = wires[r]
  /\ \A r \in Pairs : store'.inactive[r] = {}
  /\ store'.active[p] # {} => Len(wires'[p]) > 0

\* Everything that is done about a pair touches only that pair.
LEMMA LaunchTouches ==
  ASSUME TypeOK, StoreInv, NEW p \in Pairs, NEW ws \in Seq(Wire), Len(ws) > 0,
         wires' = [wires EXCEPT ![p] = ws],
         store' = store \/ store' = Stored(p)
  PROVE  Touched(p) /\ wires'[p] = ws
<1>1. wires \in [Pairs -> Seq(Wire)] /\ store \in Store!Stores
  BY DEF TypeOK, StepTypeOK
<1>2. wires' \in [Pairs -> Seq(Wire)] /\ wires'[p] = ws /\ \A r \in Pairs \ {p} : wires'[r] = wires[r]
  BY <1>1
<1>3. /\ store' \in Store!Stores
      /\ \A r \in Pairs \ {p} : store'.active[r] = store.active[r]
      /\ \A r \in Pairs : store'.inactive[r] = {}
  BY <1>1, StoredLemma DEF StoreInv
<1> QED
  BY <1>2, <1>3 DEF Touched

\* So does leaving it alone.
LEMMA NothingTouches ==
  ASSUME TypeOK, StoreInv, NEW p \in Pairs, UNCHANGED <<store, wires>>
  PROVE  Touched(p)
  BY DEF Touched, TypeOK, StepTypeOK, StoreInv
-----------------------------------------------------------------------------
(***************************************************************************)
(* The pairs of distance_matrix_diff.                                      *)
(***************************************************************************)

\* A pair that is processed is settled.
LEMMA ProcessPairStep ==
  ASSUME Inv, NEW p \in Pairs, ProcessPair(p)
  PROVE  Inv'
<1>1. TypeOK /\ StepTypeOK /\ PhaseInv /\ StoreInv /\ SettledInv /\ AddressInv
  BY DEF Inv, TypeOK
<1>2. /\ pc = "pairs" /\ p \in diff /\ diff' = diff \ {p} /\ skipped' = skipped \ {p}
      /\ UNCHANGED <<pc, distance_matrix, before, current_step, outcome, failures>>
      /\ UNCHANGED <<queue, scenario, switches, nics>>
  BY DEF ProcessPair, TakePair
<1>3. /\ Touched(p)
      /\ store'.active[p] # {} <=> p \in Wanted
      /\ p \in Wanted => Carries(wires'[p])
  <2>1. CASE LinkUp(p)
    <3>1. PICK ws \in Launched(p) : wires' = [wires EXCEPT ![p] = Passing(MovedToVlan(p, ws))]
      BY <2>1 DEF LinkUp
    <3>2. MovedToVlan(p, ws) \in Seq(Wire) /\ Len(MovedToVlan(p, ws)) > 0
      BY <1>1, <3>1, LaunchedLemma
    <3>3. /\ Passing(MovedToVlan(p, ws)) \in Seq(Wire)
          /\ Len(Passing(MovedToVlan(p, ws))) > 0
          /\ Carries(Passing(MovedToVlan(p, ws)))
      BY <3>2, PassingLemma
    <3>4. store' = Stored(p) /\ p \in Wanted
      BY <2>1 DEF LinkUp, NeedsWire, Wanted
    <3>5. Touched(p) /\ wires'[p] = Passing(MovedToVlan(p, ws))
      BY <1>1, <3>1, <3>3, <3>4, LaunchTouches
    <3>6. store'.active[p] # {}
      BY <1>1, <3>4, StoredLemma
    <3> QED BY <3>3, <3>4, <3>5, <3>6
  <2>2. CASE Adjust(p)
    <3>1. store.active[p] # {} /\ p \in Wanted /\ store' = store
          /\ wires' = [wires EXCEPT ![p] = Passing(wires[p])]
      BY <2>2 DEF Adjust, Wanted
    <3>2. wires[p] \in Seq(Wire) /\ Len(wires[p]) > 0
      BY <1>1, <3>1 DEF TypeOK, StoreInv
    <3>3. Passing(wires[p]) \in Seq(Wire) /\ Len(Passing(wires[p])) > 0 /\ Carries(Passing(wires[p]))
      BY <3>2, PassingLemma
    <3>4. Touched(p) /\ wires'[p] = Passing(wires[p])
      BY <1>1, <3>1, <3>3, LaunchTouches
    <3> QED BY <3>1, <3>3, <3>4
  <2>3. CASE LinkDown(p)
    <3>1. p \notin Wanted /\ store.active[p] # {} /\ wires' = wires
          /\ store' = Store!ChangeState(store, p, TheIfs, FALSE)
      BY <2>3 DEF LinkDown, Wanted
    <3>2. /\ store' \in Store!Stores
          /\ store'.active[p] = {}
          /\ \A r \in Pairs \ {p} : store'.active[r] = store.active[r]
          /\ \A r \in Pairs : store'.inactive[r] = {}
      BY <1>1, <3>1, DownLemma
    <3>3. Touched(p)
      BY <1>1, <3>1, <3>2 DEF Touched, TypeOK
    <3> QED BY <3>1, <3>2, <3>3
  <2>4. CASE NotLinked(p)
    <3>1. p \notin Wanted /\ store.active[p] = {} /\ UNCHANGED <<store, wires>>
      BY <2>4 DEF NotLinked, Wanted
    <3>2. Touched(p)
      BY <1>1, <3>1, NothingTouches
    <3> QED BY <3>1, <3>2
  <2> QED
    BY <2>1, <2>2, <2>3, <2>4 DEF ProcessPair
<1>4. TypeOK'
  BY <1>1, <1>2, <1>3 DEF TypeOK, StepTypeOK, Touched
<1>5. PhaseInv' /\ AddressInv'
  BY <1>1, <1>2 DEF PhaseInv, AddressInv
<1>6. StoreInv'
  BY <1>1, <1>3 DEF StoreInv, Touched
<1>7. SettledInv'
  <2>1. Wanted' = Wanted
    BY <1>2 DEF Wanted
  <2>2. ASSUME NEW r \in Pairs, r \notin skipped' \cup diff', r # p
        PROVE  r \in Settled /\ store'.active[r] = store.active[r] /\ wires'[r] = wires[r]
    BY <1>2, <1>3, <2>2 DEF Settled, Touched
  <2> QED
    BY <1>1, <1>3, <2>1, <2>2 DEF SettledInv, Settled
<1> QED
  BY <1>4, <1>5, <1>6, <1>7 DEF Inv

\* An exception marks the pair at hand, whatever was done about it, and all behind it.
LEMMA LostStep ==
  ASSUME Inv, NEW p \in Pairs, First(p), Touched(p), Lost
  PROVE  Inv'
<1>1. TypeOK /\ StepTypeOK /\ PhaseInv /\ StoreInv /\ SettledInv /\ AddressInv
  BY DEF Inv, TypeOK
<1>2. /\ pc = "pairs" /\ p \in diff /\ pc' = "idle" /\ diff' = {} /\ skipped' = skipped \cup diff
      /\ outcome' = "failed" /\ failures' = failures + 1
      /\ UNCHANGED <<distance_matrix, before, queue, current_step, scenario, switches, nics>>
  BY DEF First, Lost
<1>3. failures' \in 0..MaxFailures
  BY <1>1, <1>2, StepAssumption DEF PhaseInv, StepTypeOK
<1>4. TypeOK'
  BY <1>1, <1>2, <1>3 DEF TypeOK, StepTypeOK, Touched, Phases
<1>5. PhaseInv' /\ AddressInv'
  BY <1>1, <1>2 DEF PhaseInv, AddressInv
<1>6. StoreInv'
  BY <1>1 DEF StoreInv, Touched
<1>7. SettledInv'
  <2>1. Wanted' = Wanted
    BY <1>2 DEF Wanted
  <2>2. ASSUME NEW r \in Settled'
        PROVE  r \in Settled /\ store'.active[r] = store.active[r] /\ wires'[r] = wires[r]
    BY <1>2, <2>2 DEF Settled, Touched
  <2> QED
    BY <1>1, <2>1, <2>2 DEF SettledInv
<1> QED
  BY <1>4, <1>5, <1>6, <1>7 DEF Inv

\* The exceptions of the loop: no port, no set_bandwidth, a hiccup.
LEMMA ExceptionStep ==
  ASSUME Inv, NEW p \in Pairs, NoFreePort(p) \/ NoSetBandwidth(p) \/ Hiccup(p)
  PROVE  Inv'
<1>1. TypeOK /\ StoreInv
  BY DEF Inv
<1>2. First(p) /\ Lost
  BY DEF NoFreePort, NoSetBandwidth, Hiccup
<1>3. \/ UNCHANGED <<store, wires>>
      \/ \E ws \in Launched(p) : /\ \/ wires' = [wires EXCEPT ![p] = ws]
                                    \/ wires' = [wires EXCEPT ![p] = MovedToVlan(p, ws)]
                                 /\ store' = store \/ store' = Stored(p)
  BY DEF NoFreePort, NoSetBandwidth, Hiccup
<1>4. Touched(p)
  <2>1. CASE UNCHANGED <<store, wires>>
    BY <1>1, <2>1, NothingTouches
  <2>2. ASSUME NEW ws \in Launched(p),
               \/ wires' = [wires EXCEPT ![p] = ws]
               \/ wires' = [wires EXCEPT ![p] = MovedToVlan(p, ws)],
               store' = store \/ store' = Stored(p)
        PROVE  Touched(p)
    <3>1. /\ ws \in Seq(Wire) /\ Len(ws) > 0
          /\ MovedToVlan(p, ws) \in Seq(Wire) /\ Len(MovedToVlan(p, ws)) > 0
      BY <1>1, <2>2, LaunchedLemma
    <3>2. CASE wires' = [wires EXCEPT ![p] = ws]
      BY <1>1, <2>2, <3>1, <3>2, LaunchTouches
    <3>3. CASE wires' = [wires EXCEPT ![p] = MovedToVlan(p, ws)]
      BY <1>1, <2>2, <3>1, <3>3, LaunchTouches
    <3> QED BY <2>2, <3>2, <3>3
  <2> QED
    BY <1>3, <2>1, <2>2
<1> QED
  BY <1>2, <1>4, LostStep
-----------------------------------------------------------------------------
(***************************************************************************)
(* The other phases of a step.                                             *)
(***************************************************************************)

\* The director's matrix is stored; the pairs that changed are yet to be processed.
LEMMA BeginLemma ==
  ASSUME Inv, NEW m \in Matrices, Begin(m)
  PROVE  Inv'
<1>1. TypeOK /\ StepTypeOK /\ PhaseInv /\ StoreInv /\ SettledInv /\ AddressInv
  BY DEF Inv, TypeOK
<1>2. /\ pc = "idle" /\ failures < MaxFailures /\ current_step < MaxSteps
      /\ distance_matrix' = m
      /\ UNCHANGED <<store, queue, current_step, outcome, failures>> /\ UNCHANGED <<scenario, vdeVars>>
      /\ \/ pc' = "pairs" /\ diff' = Changed(m) /\ before' = Store!ActivePairs(store)
         \/ /\ current_step # 0 /\ Changed(m) = {} /\ pc' = "post"
            /\ UNCHANGED <<diff, before>>
  BY DEF Begin, BeginStep
<1>3. diff = {} /\ Changed(m) \in SUBSET Pairs /\ Store!ActivePairs(store) \in SUBSET Pairs
  BY <1>1, <1>2 DEF PhaseInv, Changed, Store!ActivePairs
<1>4. m \in [Pairs -> Distances \cup {NoEntry}]
  BY DEF Matrices
<1>5. TypeOK'
  BY <1>1, <1>2, <1>3, <1>4 DEF TypeOK, StepTypeOK, Phases, vdeVars
<1>6. PhaseInv' /\ AddressInv'
  BY <1>1, <1>2, <1>3 DEF PhaseInv, AddressInv, vdeVars, StepTypeOK
<1>7. StoreInv'
  BY <1>1, <1>2 DEF StoreInv, vdeVars
<1>8. SettledInv'
  <2>1. ASSUME NEW r \in Settled'
        PROVE  r \in Settled /\ (r \in Wanted' <=> r \in Wanted)
    BY <1>2, <1>3, <2>1 DEF Settled, Wanted, Changed, vdeVars
  <2> QED
    BY <1>1, <1>2, <2>1 DEF SettledInv, vdeVars
<1> QED
  BY <1>5, <1>6, <1>7, <1>8 DEF Inv

\* What is left alone by all phases behind the loop.
Kept == UNCHANGED <<distance_matrix, diff, store, before, scenario, switches, wires, skipped>>

\* A phase behind the loop preserves the invariant if it keeps the types and the addresses.
LEMMA KeptStep ==
  ASSUME Inv, Kept, StepTypeOK', nics' \in SUBSET Nodes, PhaseInv', AddressInv'
  PROVE  Inv'
<1>1. TypeOK /\ StoreInv /\ SettledInv
  BY DEF Inv
<1>2. TypeOK'
  BY <1>1 DEF TypeOK, Kept
<1>3. StoreInv' /\ SettledInv'
  BY <1>1 DEF StoreInv, SettledInv, Settled, Wanted, Kept
<1> QED
  BY <1>2, <1>3 DEF Inv

\* The phases behind the loop that go on, and the end of the step.
LEMMA PhaseStep ==
  ASSUME Inv, EndOfPairs \/ IpConfig \/ CheckPasses \/ End
  PROVE  Inv'
<1>1. TypeOK /\ StepTypeOK /\ PhaseInv /\ AddressInv
  BY DEF Inv, TypeOK
<1>2. Kept /\ pc # "idle" /\ diff = {} /\ failures' = failures
  BY <1>1 DEF PhaseInv, Kept, EndOfPairs, IpConfig, Advance, CheckPasses, CheckDone, End, EndStep, vdeVars
<1>3. current_step' \in 0..MaxSteps
  <2>1. current_step \in Nat /\ MaxSteps \in Nat /\ current_step < MaxSteps
    BY <1>1, <1>2, StepAssumption DEF PhaseInv, StepTypeOK
  <2>2. current_step' = current_step \/ current_step' = current_step + 1
    BY DEF EndOfPairs, IpConfig, Advance, CheckPasses, CheckDone, End, EndStep
  <2> QED BY <2>1, <2>2
<1>4. Shell!IsQueue(queue')
  <2>1. Shell!IsQueue(queue)
    BY <1>1 DEF StepTypeOK
  <2>2. queue' = queue \/ queue' = Shell!FreshSerializer
    BY DEF EndOfPairs, IpConfig, Advance, CheckPasses, CheckDone, End, EndStep
  <2> QED BY <2>1, <2>2, FreshLemma
<1>5. StepTypeOK'
  <2>1. pc' \in Phases /\ outcome' \in {"none", "ok", "failed"}
    BY <1>1 DEF EndOfPairs, IpConfig, Advance, CheckPasses, CheckDone, End, EndStep, Phases, StepTypeOK
  <2> QED
    BY <1>1, <1>2, <1>3, <1>4, <2>1 DEF StepTypeOK, Kept
<1>6. nics' \in SUBSET Nodes
  BY <1>1 DEF EndOfPairs, IpConfig, CheckPasses, End, vdeVars, TypeOK
<1>7. PhaseInv'
  <2>1. diff' = {} /\ failures' < MaxFailures
    BY <1>1, <1>2 DEF PhaseInv, Kept
  <2>2. pc' \in {"idle", "ipconfig", "check", "post"} /\ (pc' # "idle" => current_step' = current_step)
    BY DEF EndOfPairs, IpConfig, Advance, CheckPasses, CheckDone, End, EndStep
  <2> QED BY <1>1, <1>2, <2>1, <2>2 DEF PhaseInv
<1>8. AddressInv'
  <2>1. CASE IpConfig
    BY <1>1, <2>1 DEF IpConfig, Advance, AddressInv, NeedsReconfiguration, StepTypeOK
  <2>2. CASE EndOfPairs
    BY <1>1, <2>2 DEF EndOfPairs, AddressInv, vdeVars
  <2>3. CASE CheckPasses \/ End
    BY <1>1, <2>3 DEF CheckPasses, CheckDone, End, EndStep, AddressInv, vdeVars
  <2> QED
    BY <2>1, <2>2, <2>3
<1> QED
  BY <1>2, <1>5, <1>6, <1>7, <1>8, KeptStep

\* The phases behind the loop that raise.
LEMMA RaiseStep ==
  ASSUME Inv, \/ NoMoreIps \/ CheckFails
              \/ \E done \in SUBSET Nodes : IpConfigFails(done)
              \/ \E point \in FailPoints \cap {"check", "post"} : Failure(point)
  PROVE  Inv'
<1>1. TypeOK /\ StepTypeOK /\ PhaseInv /\ AddressInv
  BY DEF Inv, TypeOK
<1>2. /\ Raise /\ failures' = failures + 1 /\ UNCHANGED <<scenario, switches, wires, skipped>>
      /\ pc \in {"ipconfig", "check", "post"}
      /\ \/ nics' = nics
         \/ current_step < 1 /\ \E done \in SUBSET Nodes : nics' = nics \cup done
  <2>1. CASE NoMoreIps \/ CheckFails
    BY <2>1 DEF NoMoreIps, CheckFails, vdeVars
  <2>2. CASE \E done \in SUBSET Nodes : IpConfigFails(done)
    BY <2>2 DEF IpConfigFails, EnvFailure, NeedsReconfiguration
  <2>3. CASE \E point \in FailPoints \cap {"check", "post"} : Failure(point)
    BY <2>3 DEF Failure, EnvFailure, vdeVars
  <2> QED
    BY <2>1, <2>2, <2>3
<1>3. pc' = "idle" /\ diff' = {} /\ diff = {} /\ outcome' = "failed"
      /\ UNCHANGED <<distance_matrix, store, before, queue, current_step>>
  BY <1>1, <1>2 DEF Raise, PhaseInv
<1>4. Kept
  BY <1>2, <1>3 DEF Kept
<1>5. failures' \in 0..MaxFailures
  BY <1>1, <1>2, StepAssumption DEF PhaseInv, StepTypeOK
<1>6. StepTypeOK'
  BY <1>1, <1>3, <1>5 DEF StepTypeOK, Phases
<1>7. nics' \in SUBSET Nodes
  BY <1>1, <1>2 DEF TypeOK
<1>8. PhaseInv'
  BY <1>3 DEF PhaseInv
<1>9. AddressInv'
  BY <1>1, <1>2, <1>3 DEF AddressInv, StepTypeOK
<1> QED
  BY <1>4, <1>6, <1>7, <1>8, <1>9, KeptStep

\* A new scenario, after the start of the program or after abort().
LEMMA FreshScenario ==
  ASSUME StepInit, scenario \in Scenarios, switches = {}, wires = [p \in Pairs |-> <<>>],
         nics = {}, skipped = {}
  PROVE  TypeOK /\ SettledInv /\ StoreInv /\ AddressInv
<1>1. store = Store!EmptyStore /\ store \in Store!Stores
      /\ \A p \in Pairs : store.active[p] = {} /\ store.inactive[p] = {}
  BY DEF StepInit, Store!EmptyStore, Store!Stores
<1>2. StepTypeOK
  <2>1. 0 \in 0..MaxSteps /\ 0 \in 0..MaxFailures
    BY StepAssumption
  <2> QED
    BY <1>1, <2>1, FreshLemma DEF StepInit, StepTypeOK, Phases
<1>3. wires \in [Pairs -> Seq(Wire)]
  OBVIOUS
<1>4. \A p \in Pairs : p \notin Wanted
  BY StepAssumption DEF StepInit, Wanted
<1> QED
  BY <1>1, <1>2, <1>3, <1>4 DEF TypeOK, SettledInv, Settled, StoreInv, AddressInv, StepInit

\* abort() leaves the state of a new scenario, except for the failures so far.
LEMMA AbortLemma ==
  ASSUME Inv, Abort
  PROVE  Inv'
<1>1. TypeOK /\ StepTypeOK
  BY DEF Inv, TypeOK
<1>2. /\ pc' = "idle" /\ diff' = {} /\ before' = {} /\ outcome' = "none" /\ current_step' = 0
      /\ distance_matrix' = [p \in Pairs |-> NoEntry] /\ store' = Store!EmptyStore
      /\ queue' = Shell!FreshSerializer /\ failures' = failures
      /\ scenario' \in Scenarios /\ switches' = {} /\ wires' = [p \in Pairs |-> <<>>]
      /\ nics' = {} /\ skipped' = {}
  BY DEF Abort, AbortStep
<1>3. /\ Store!EmptyStore \in Store!Stores
      /\ \A p \in Pairs : Store!EmptyStore.active[p] = {} /\ Store!EmptyStore.inactive[p] = {}
  BY DEF Store!EmptyStore, Store!Stores
<1>4. StepTypeOK'
  <2>1. 0 \in 0..MaxSteps
    BY StepAssumption
  <2>2. Shell!IsQueue(queue')
    BY <1>2, FreshLemma
  <2> QED
    BY <1>1, <1>2, <1>3, <2>1, <2>2 DEF StepTypeOK, Phases
<1>5. TypeOK'
  <2>1. wires' \in [Pairs -> Seq(Wire)]
    BY <1>2
  <2> QED BY <1>2, <1>4, <2>1 DEF TypeOK
<1>6. \A p \in Pairs : p \notin Wanted'
  BY <1>2, StepAssumption DEF Wanted
<1>7. StoreInv' /\ SettledInv'
  BY <1>2, <1>3, <1>6 DEF StoreInv, SettledInv, Settled
<1>8. PhaseInv' /\ AddressInv'
  BY <1>2 DEF PhaseInv, AddressInv
<1> QED
  BY <1>5, <1>7, <1>8 DEF Inv

\* The start of a switch, or a step in which nothing changes.
LEMMA SwitchLemma ==
  ASSUME Inv, (\E n \in Nodes : StartSwitch(n)) \/ UNCHANGED vars
  PROVE  Inv'
<1>1. /\ UNCHANGED stepVars /\ UNCHANGED <<scenario, wires, nics, skipped>>
      /\ switches' \in SUBSET Nodes
  BY DEF StartSwitch, vars, vdeVars, Inv, TypeOK
<1>2. StepTypeOK'
  BY <1>1 DEF Inv, TypeOK, StepTypeOK, stepVars
<1>3. TypeOK'
  BY <1>1, <1>2 DEF Inv, TypeOK
<1> QED
  BY <1>1, <1>3
  DEF Inv, stepVars, PhaseInv, StoreInv, SettledInv, Settled, Wanted, AddressInv

\* Every step preserves the invariant.
LEMMA NextInv == Inv /\ [Next]_vars => Inv'
<1> SUFFICES ASSUME Inv, [Next]_vars PROVE Inv'
  OBVIOUS
<1>1. CASE (\E n \in Nodes : StartSwitch(n)) \/ UNCHANGED vars
  BY <1>1, SwitchLemma
<1>2. CASE \E m \in Matrices : Begin(m)
  BY <1>2, BeginLemma
<1>3. CASE \E p \in Pairs : ProcessPair(p)
  BY <1>3, ProcessPairStep
<1>4. CASE \E p \in Pairs : NoFreePort(p) \/ NoSetBandwidth(p) \/ Hiccup(p)
  BY <1>4, ExceptionStep
<1>5. CASE EndOfPairs \/ IpConfig \/ CheckPasses \/ End
  BY <1>5, PhaseStep
<1>6. CASE \/ NoMoreIps \/ CheckFails
           \/ \E done \in SUBSET Nodes : IpConfigFails(done)
           \/ \E point \in FailPoints \cap {"check", "post"} : Failure(point)
  BY <1>6, RaiseStep
<1>7. CASE Abort
  BY <1>7, AbortLemma
<1> QED
  BY <1>1, <1>2, <1>3, <1>4, <1>5, <1>6, <1>7 DEF Next

\* The inductive invariant of the VDE backend holds, whatever fails in a step.
THEOREM VdeInvariant == Spec => []Inv
<1>1. Init => Inv
  <2> SUFFICES ASSUME Init PROVE Inv
    OBVIOUS
  <2>1. TypeOK /\ SettledInv /\ StoreInv /\ AddressInv
    BY FreshScenario DEF Init
  <2>2. PhaseInv
    BY DEF Init, StepInit, PhaseInv
  <2> QED
    BY <2>1, <2>2 DEF Inv
<1> QED
  BY <1>1, NextInv, PTL DEF Spec

\* The variables of the backend hold what the program keeps in them; in particular the
\* failures stay within their bound, though only the begin of a step looks at it.
THEOREM VdeTypes == Spec => []TypeOK
<1>1. Inv => TypeOK
  BY DEF Inv
<1> QED
  BY <1>1, VdeInvariant, PTL

\* Between steps the store has the connections the matrix asks for, except for pairs behind
\* an exception in the loop over distance_matrix_diff (SimulationManager.step).
THEOREM StoreFollows == Spec => []StoreFollowsMatrix
<1>1. Inv => StoreFollowsMatrix
  BY DEF Inv, StoreFollowsMatrix, PhaseInv, SettledInv, Settled
<1> QED
  BY <1>1, VdeInvariant, PTL

\* A wanted pair that was not cut off can exchange frames if no failed start left one of its
\* wirefilters outside the VLAN, and has its addresses once a step has been completed.
THEOREM LinksCarry == Spec => []WantedLinksCarry
<1>1. Inv => WantedLinksCarry
  <2> SUFFICES ASSUME Inv, pc = "idle", NEW p \in Wanted \ skipped
               PROVE  /\ (\A k \in DOMAIN wires[p] : wires[p][k].vlan) => CanTalk(p)
                      /\ current_step > 0 => {p[1], p[2]} \subseteq nics
    BY DEF WantedLinksCarry
  <2>1. p \in Pairs /\ p \in Settled /\ Carries(wires[p])
    BY DEF Inv, PhaseInv, SettledInv, Settled, Wanted
  <2>2. p[1] \in Nodes /\ p[2] \in Nodes
    BY <2>1 DEF Pairs
  <2> QED
    BY <2>1, <2>2 DEF Inv, AddressInv, Carries, CanTalk
<1> QED
  BY <1>1, VdeInvariant, PTL

-----------------------------------------------------------------------------
(***************************************************************************)
(* The ports.  While every pair has at most one process, the processes at  *)
(* a switch are as many as the other nodes they lead to.                   *)
(***************************************************************************)

\* The node at the other end of a pair.
OtherEnd(q, n) == IF q[1] = n THEN q[2] ELSE q[1]

LEMMA OneProcessPerNeighbour ==
  ASSUME TypeOK, \A q \in Pairs : Len(wires[q]) <= 1,
         NEW n \in Nodes, NEW T, IsFiniteSet(T),
         \A q \in Pairs : n \in {q[1], q[2]} /\ Len(wires[q]) > 0 => OtherEnd(q, n) \in T
  PROVE  IsFiniteSet(WiresAt(n)) /\ Cardinality(WiresAt(n)) <= Cardinality(T)
<1> DEFINE f == [w \in WiresAt(n) |-> OtherEnd(w[1], n)]
<1>1. ASSUME NEW w \in WiresAt(n)
      PROVE  /\ w[1] \in Pairs /\ w[2] = 1 /\ w = <<w[1], 1>>
             /\ n \in {w[1][1], w[1][2]}
             /\ Len(wires[w[1]]) > 0
  <2>1. PICK q \in Pairs, k \in 1..NumPorts : w = <<q, k>>
    BY DEF WiresAt
  <2>2. w[1] = q /\ w[2] = k
    BY <2>1
  <2>3. n \in {q[1], q[2]} /\ k <= Len(wires[q])
    BY <2>2 DEF WiresAt
  <2>4. Len(wires[q]) \in Nat /\ Len(wires[q]) <= 1
    BY DEF TypeOK
  <2>5. k \in Nat /\ k >= 1
    BY VdeAssumption DEF VdeAssumption
  <2>6. k = 1 /\ Len(wires[q]) > 0
    BY <2>3, <2>4, <2>5
  <2> QED
    BY <2>1, <2>2, <2>3, <2>6
<1>2. f \in [WiresAt(n) -> T]
  BY <1>1
<1>3. ASSUME NEW v \in WiresAt(n), NEW w \in WiresAt(n), f[v] = f[w]
      PROVE  v = w
  <2>1. OtherEnd(v[1], n) = OtherEnd(w[1], n)
    BY <1>3
  <2>2. PICK a \in Nodes, b \in Nodes : v[1] = <<a, b>> /\ a < b
    BY <1>1 DEF Pairs
  <2>3. PICK c \in Nodes, d \in Nodes : w[1] = <<c, d>> /\ c < d
    BY <1>1 DEF Pairs
  <2>4. n \in {a, b} /\ n \in {c, d}
    BY <1>1, <2>2, <2>3
  <2>5. (IF a = n THEN b ELSE a) = (IF c = n THEN d ELSE c)
    BY <2>1, <2>2, <2>3 DEF OtherEnd
  <2>6. a \in Nat /\ b \in Nat /\ c \in Nat /\ d \in Nat
    BY StepAssumption DEF StepAssumption
  <2>7. a = c /\ b = d
    BY <2>2, <2>3, <2>4, <2>5, <2>6
  <2>8. v = <<v[1], 1>> /\ w = <<w[1], 1>>
    BY <1>1
  <2> QED
    BY <2>2, <2>3, <2>7, <2>8
<1>4. f \in Injection(WiresAt(n), T)
  BY <1>2, <1>3, Zenon DEF Injection, IsInjective
<1> HIDE DEF f
<1> QED
  BY <1>4, FS_Injection

LEMMA PortLeft ==
  ASSUME TypeOK, \A q \in Pairs : Len(wires[q]) <= 1,
         NumPorts >= Cardinality(Nodes) + 1,
         NEW p \in Pairs, wires[p] = <<>>, NEW n \in {p[1], p[2]}
  PROVE  FreePort(n)
<1> DEFINE m == OtherEnd(p, n)
<1> DEFINE T == (Nodes \ {n}) \ {m}
<1>1. PICK a \in Nodes, b \in Nodes : p = <<a, b>> /\ a < b
  BY DEF Pairs
<1>2. a \in Nat /\ b \in Nat /\ a # b
  BY <1>1, StepAssumption DEF StepAssumption
<1>3. n \in Nodes /\ m \in Nodes /\ m # n /\ ((n = a /\ m = b) \/ (n = b /\ m = a))
  BY <1>1, <1>2 DEF OtherEnd
<1>4. IsFiniteSet(Nodes) /\ NumPorts \in Nat
  BY VdeAssumption DEF VdeAssumption
<1>5. IsFiniteSet(Nodes \ {n}) /\ Cardinality(Nodes \ {n}) = Cardinality(Nodes) - 1
  BY <1>3, <1>4, FS_RemoveElement
<1>6. IsFiniteSet(T) /\ Cardinality(T) = Cardinality(Nodes) - 1 - 1
  <2>1. m \in Nodes \ {n}
    BY <1>3
  <2> QED
    BY <2>1, <1>5, FS_RemoveElement
<1>7. ASSUME NEW q \in Pairs, n \in {q[1], q[2]}, Len(wires[q]) > 0
      PROVE  OtherEnd(q, n) \in T
  <2>1. PICK c \in Nodes, d \in Nodes : q = <<c, d>> /\ c < d
    BY DEF Pairs
  <2>2. c \in Nat /\ d \in Nat
    BY StepAssumption DEF StepAssumption
  <2>3. n \in {c, d}
    BY <1>7, <2>1
  <2>4. OtherEnd(q, n) = IF c = n THEN d ELSE c
    BY <2>1 DEF OtherEnd
  <2>5. OtherEnd(q, n) \in Nodes /\ OtherEnd(q, n) # n
    BY <2>1, <2>2, <2>3, <2>4
  <2>6. OtherEnd(q, n) # m
    <3> SUFFICES ASSUME OtherEnd(q, n) = m PROVE FALSE
      OBVIOUS
    <3>1. a = c /\ b = d
      <4>1. m = IF c = n THEN d ELSE c
        BY <2>4
      <4>2. (n = c /\ m = d) \/ (n = d /\ m = c)
        BY <4>1, <2>3
      <4> HIDE DEF m
      <4> QED
        BY <4>2, <1>1, <1>2, <1>3, <2>1, <2>2
    <3>2. q = p
      BY <3>1, <1>1, <2>1
    <3>3. Len(wires[q]) = 0
      BY <3>2
    <3> QED
      BY <3>3, <1>7
  <2> QED
    BY <2>5, <2>6
<1>8. /\ IsFiniteSet(WiresAt(n))
      /\ Cardinality(WiresAt(n)) <= Cardinality(T)
  <2> HIDE DEF T
  <2> QED
    BY <1>3, <1>6, <1>7, OneProcessPerNeighbour
<1>9. Cardinality(WiresAt(n)) \in Nat /\ Cardinality(T) \in Nat /\ Cardinality(Nodes) \in Nat
  BY <1>4, <1>6, <1>8, FS_CardinalityType
<1> HIDE DEF T
<1> QED
  BY <1>4, <1>6, <1>8, <1>9 DEF FreePort

\* "we need N + 1 ports" (VDEConstants): for any number of nodes, a pair without a
\* process finds a free port at both its switches while no pair has several processes.
THEOREM FirstLinksFindPorts == Spec => []PortsForFirstLinks
<1>1. TypeOK => PortsForFirstLinks
  <2> SUFFICES ASSUME TypeOK, NumPorts >= Cardinality(Nodes) + 1,
                      NEW p \in Pairs, wires[p] = <<>>,
                      ~ \E q \in Pairs : Len(wires[q]) > 1
               PROVE  FreePorts(p)
    BY DEF PortsForFirstLinks
  <2>1. ASSUME NEW q \in Pairs PROVE Len(wires[q]) <= 1
    <3>1. Len(wires[q]) \in Nat
      BY DEF TypeOK
    <3> QED
      BY <3>1
  <2>2. FreePort(p[1]) /\ FreePort(p[2])
    BY <2>1, PortLeft
  <2> QED
    BY <2>2 DEF FreePorts
<1> QED
  BY <1>1, VdeTypes, PTL
=============================================================================

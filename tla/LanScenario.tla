---------------------------- MODULE LanScenario ----------------------------
(***************************************************************************)
(* BridgedMultiDevice together with the provisioner it asks for,           *)
(* NetworkConfiguratorP2P: every new connection is given a subnet of its   *)
(* own, its ends the first two addresses of it, and then each end pings    *)
(* the other.  The configurator lives as long as the scenario; it does not *)
(* know that a step failed.                                                *)
(***************************************************************************)
EXTENDS BridgedMultiDevice

CONSTANTS SubnetCounts   \* how many subnets the base network of a scenario may have

ASSUME LanAssumption ==
  /\ IsFiniteSet(Nodes)
  /\ SubnetCounts # {} /\ SubnetCounts \subseteq Nat

VARIABLES
  num_subnets,         \* subnets of the base network of this scenario
  used_subnets,        \* the subnet of a connection, 0 if it has none
  subnet_generator,    \* the subnets that were taken from the generator
  nic_check_commands,  \* <<node, address>>: the pings that are still to be run
  addresses,           \* guests: the address of the interface behind each tap
  failed               \* history: a step of this scenario has failed

p2pVars == <<num_subnets, used_subnets, subnet_generator, nic_check_commands,
             addresses>>
lanVars == <<vars, p2pVars, failed>>

\* An address is a subnet and a host in it; get_ip yields the hosts 1 and 2.
Addresses == (1..num_subnets) \X {1, 2}
NoAddress == <<0, 0>>

P2PTypeOK ==
  /\ num_subnets \in SubnetCounts
  /\ used_subnets \in [Pairs -> 0..num_subnets]
  /\ subnet_generator \in 0..num_subnets
  /\ nic_check_commands \in SUBSET (Nodes \X Addresses)
  /\ addresses \in [Taps -> Addresses \cup {NoAddress}]
  /\ failed \in BOOLEAN

P2PInit ==
  /\ num_subnets \in SubnetCounts
  /\ used_subnets = [p \in Pairs |-> 0]
  /\ subnet_generator = 0
  /\ nic_check_commands = {}
  /\ addresses = [t \in Taps |-> NoAddress]
  /\ failed = FALSE

LanInit == Init /\ P2PInit

(***************************************************************************)
(* get_nic_configuration_commands: the new connections are visited in the  *)
(* order of their nodes and in both directions; the first direction of a   *)
(* connection without a subnet takes the next one from the generator.      *)
(***************************************************************************)
Fresh == {p \in NewPairs : used_subnets[p] = 0}

\* Fault: the generator is asked once per step.
SubnetForSharedStep(p) == subnet_generator + 1

SubnetFor(p) == subnet_generator + Cardinality({q \in Fresh : RowOrder(q, p)})

\* The fresh connections that still find a subnet.
Served == {p \in Fresh : SubnetFor(p) <= num_subnets}

UsedSubnets ==
  [p \in Pairs |-> IF p \in Served THEN SubnetFor(p) ELSE used_subnets[p]]

TakeSubnets ==
  /\ UNCHANGED num_subnets
  /\ used_subnets' = UsedSubnets
  /\ subnet_generator' = subnet_generator + Cardinality(Served)

\* configure_connection: idx_ip is 0 for a new subnet, else 1
FirstHost(p) == IF p \in Fresh THEN 1 ELSE 2
SecondHost == 2

AddressX(p) == <<UsedSubnets[p], FirstHost(p)>>
AddressY(p) == <<UsedSubnets[p], SecondHost>>

\* The ifconfig commands of the new connections, on the nodes in done.
Configured(done) ==
  [t \in Taps |->
     LET here(p, end(_, _)) == \E ifs \in store.active[p] : end(p, ifs) = t
         asX == {p \in NewPairs : here(p, TapX)}
         asY == {p \in NewPairs : here(p, TapY)}
     IN  IF t[1] \notin done \/ asX \cup asY = {} THEN addresses[t]
         ELSE IF asX # {} THEN AddressX(CHOOSE p \in asX : TRUE)
                          ELSE AddressY(CHOOSE p \in asY : TRUE)]

\* "my peer must be able to ping me"
Pings == UNION {{<<p[2], AddressX(p)>>, <<p[1], AddressY(p)>>} : p \in NewPairs}

IpConfigP2P ==
  /\ IpConfig
  /\ Served = Fresh
  /\ TakeSubnets
  /\ addresses' = Configured(Nodes)
  /\ nic_check_commands' = nic_check_commands \cup Pings

\* next(self.subnet_generator) raises StopIteration before any command is run.
NoMoreSubnets ==
  /\ pc = "ipconfig"
  /\ Served # Fresh
  /\ Raise
  /\ TakeSubnets
  /\ UNCHANGED <<failures, bookVars, kernelVars, nic_check_commands, addresses>>

\* The commands of a node fail; its siblings run in parallel threads.
IpConfigFails(done) ==
  /\ Failure("ipconfig")
  /\ Served = Fresh
  /\ done # Nodes
  /\ TakeSubnets
  /\ addresses' = Configured(done)
  /\ nic_check_commands' = nic_check_commands \cup Pings

(***************************************************************************)
(* A ping reaches the node's own address, or an address of a subnet the    *)
(* node has an interface in, if both taps are up on one bridge.            *)
(***************************************************************************)
PingWorks(n, a) ==
  \/ \E t \in Taps : t[1] = n /\ addresses[t] = a
  \/ \E s, t \in up : /\ s[1] = n
                      /\ addresses[s][1] = a[1]
                      /\ addresses[t] = a
                      /\ \E br \in devices : {<<s, br>>, <<t, br>>} \subseteq slaves

AllPingsWork == \A c \in nic_check_commands : PingWorks(c[1], c[2])

\* The check, and the configurator's reset after it.
CheckPassesP2P ==
  /\ CheckDone
  /\ AllPingsWork
  /\ nic_check_commands' = {}
  /\ UNCHANGED <<bookVars, kernelVars, num_subnets, used_subnets, subnet_generator,
                 addresses>>

CheckFailsP2P ==
  /\ pc = "check"
  /\ ~ AllPingsWork
  /\ Raise
  /\ UNCHANGED <<failures, bookVars, kernelVars, p2pVars>>

CheckDisturbed ==
  /\ EnvFailure("check")
  /\ nic_check_commands # {}
  /\ UNCHANGED <<bookVars, kernelVars, p2pVars>>

\* init_for_next_scenario creates a new configurator.
AbortP2P ==
  /\ Abort
  /\ num_subnets' \in SubnetCounts
  /\ used_subnets' = [p \in Pairs |-> 0]
  /\ subnet_generator' = 0
  /\ nic_check_commands' = {}
  /\ addresses' = [t \in Taps |-> NoAddress]
  /\ failed' = FALSE

LanStep ==
  \/ \E m \in Matrices : Begin(m) /\ UNCHANGED p2pVars
  \/ \E p \in Pairs : ProcessPair(p) /\ UNCHANGED p2pVars
  \/ EndOfPairs /\ UNCHANGED p2pVars
  \/ RunBridge /\ UNCHANGED p2pVars
  \/ BridgeError /\ UNCHANGED p2pVars
  \/ RunBatch /\ UNCHANGED p2pVars
  \/ IpConfigP2P
  \/ NoMoreSubnets
  \/ \E done \in SUBSET Nodes : IpConfigFails(done)
  \/ CheckPassesP2P
  \/ CheckFailsP2P
  \/ CheckDisturbed
  \/ End /\ UNCHANGED p2pVars
  \/ \E point \in FailPoints \cap {"bridge", "batch", "post"} :
       Failure(point) /\ UNCHANGED p2pVars

LanNext ==
  \/ LanStep /\ failed' = (failed \/ outcome' = "failed")
  \/ AbortP2P

LanSpec == LanInit /\ [][LanNext]_lanVars
-----------------------------------------------------------------------------
(***************************************************************************)
(* "For each connection, a link with an own subnet is created"             *)
(* (NetworkConfiguratorP2P): no two connections of a scenario share a      *)
(* subnet, however often steps fail and are repeated, and a subnet that    *)
(* was taken belongs to a connection.                                      *)
(***************************************************************************)
OwnSubnets ==
  /\ \A p, q \in Pairs : used_subnets[p] # 0 /\ used_subnets[p] = used_subnets[q] => p = q
  /\ {used_subnets[p] : p \in Pairs} \ {0} = 1..subnet_generator

(***************************************************************************)
(* As long as no step of the scenario has failed, after each of them       *)
(* frames pass between exactly the pairs with an active connection (what   *)
(* tap_link_up and add_if skip because the book keeper remembers it has    *)
(* really been done, and nothing of an aborted scenario is in the way),    *)
(* and the two ends have different addresses of the connection's subnet.   *)
(* Later the addresses may be wrong for ever: used_subnets does not        *)
(* remember which end has which, so a first step that is repeated gives    *)
(* the second one to both ends, and the ping of one's own address works.   *)
(***************************************************************************)
LinksWork ==
  Settled /\ ~ failed =>
    /\ {p \in Pairs : CanTalk(p)} = Store!ActivePairs(store)
    /\ \A p \in Pairs : \A ifs \in store.active[p] :
         /\ addresses[TapX(p, ifs)][1] = used_subnets[p]
         /\ addresses[TapY(p, ifs)][1] = used_subnets[p]
         /\ addresses[TapX(p, ifs)] # addresses[TapY(p, ifs)]
=============================================================================

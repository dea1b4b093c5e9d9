-------------------------- MODULE NodeDistribution --------------------------
(***************************************************************************)
(* How the coordinator spreads the nodes over the emulation servers.       *)
(*                                                                         *)
(* Nodes and servers are numbered from 1.  The lists of nodes are kept as  *)
(* sets.  Scores are natural numbers; the shares are computed in floating  *)
(* point, so a share that is a whole number may come out just above it and *)
(* be rounded up: rounded holds the servers to which this happens.         *)
(***************************************************************************)
EXTENDS Naturals, FiniteSets, Sequences

CONSTANTS
  MaxNodes,     \* bound on the number of nodes
  MaxServers,   \* bound on the number of servers
  CpuScores,    \* possible cpu scores
  FreeMemories, \* possible amounts of free memory
  VmSize        \* memory of one node

ASSUME DistributionAssumption ==
  /\ MaxNodes \in Nat /\ MaxServers \in Nat \ {0}
  /\ CpuScores \subseteq Nat \ {0}
  /\ FreeMemories \subseteq Nat
  /\ VmSize \in Nat \ {0}

VARIABLES
  input,   \* the arguments, the scores and the strategy
  res      \* the distribution, NotDistributed before the call

distributionVars == <<input, res>>

NotDistributed == <<>>
NoInput == <<>>

\* The sums of the first 0, 1, ... numbers of a sequence.
PrefixSums(c) ==
  LET pos[k \in 0..Len(c)] == IF k = 0 THEN 0 ELSE pos[k - 1] + c[k]
  IN  pos

Sum(c) == PrefixSums(c)[Len(c)]

\* ceil(cpu / sum * n), without and with the error of the floating point.
Quotient(cpu, n, k) == (cpu[k] * n + Sum(cpu) - 1) \div Sum(cpu)
IsWhole(cpu, n, k) == (cpu[k] * n) % Sum(cpu) = 0

\* sorted(..., reverse=True) keeps equal scores in the order of the messages.
Rankings(cpu) ==
  {r \in [DOMAIN cpu -> DOMAIN cpu] :
     \A i, j \in DOMAIN cpu : i < j => r[i] # r[j] /\ cpu[r[i]] >= cpu[r[j]]}

Inputs(n, cnt) ==
  {i \in [strategy : {"equal", "score"}, cnt_nodes : {n}, cnt_servers : {cnt},
          cpu : [1..cnt -> CpuScores], free_mem : [1..cnt -> FreeMemories],
          ranking : [1..cnt -> 1..cnt], rounded : SUBSET (1..cnt)] :
     /\ i.ranking \in Rankings(i.cpu)
     /\ \A k \in i.rounded : n > 0 /\ IsWhole(i.cpu, n, k)}

\* The servers have sent their scores.
ScoresKnown ==
  /\ \E n \in 0..MaxNodes, cnt \in 1..MaxServers : input \in Inputs(n, cnt)
  /\ res = NotDistributed
-----------------------------------------------------------------------------
Smaller(a, b) == IF a < b THEN a ELSE b

\* Fault: the rest starts behind the node it should start with.
RestOffByOne(last, n) == (last + 2)..n

\* The nodes that are left after every server has got its number.
Rest(last, n) == (last + 1)..n

(***************************************************************************)
(* apply_distribution_strategy: the servers get the numbers of nodes in    *)
(* cnts, one after the other until the nodes or the numbers run out; the   *)
(* rest is dealt out one by one in the order of the ranking.               *)
(***************************************************************************)
ApplyDistributionStrategy(n, cnt, cnts, ranking) ==
  LET pos == PrefixSums([k \in 1..cnt |-> IF 1..k \subseteq DOMAIN cnts THEN cnts[k] ELSE 0])
      dealt(node) == ranking[((node - pos[cnt] - 1) % cnt) + 1]
  IN  [k \in 1..cnt |->
         (pos[k - 1] + 1)..Smaller(pos[k], n)
           \cup {node \in Rest(pos[cnt], n) : dealt(node) = k}]

\* NDSEqual: the numbers are filed under the ids of the nodes, not of the servers.
NDSEqual(i) ==
  ApplyDistributionStrategy(
    i.cnt_nodes, i.cnt_servers,
    [id \in 1..i.cnt_nodes |->
       IF i.cnt_nodes < i.cnt_servers THEN 1 ELSE i.cnt_nodes \div i.cnt_servers],
    [k \in 1..i.cnt_servers |-> k])

\* Fault: the share is rounded up twice.
ShareTooLarge(i, k) ==
  Quotient(i.cpu, i.cnt_nodes, k) + 2

\* The part of the nodes that the cpu score is good for.
Share(i, k) ==
  Quotient(i.cpu, i.cnt_nodes, k) + (IF k \in i.rounded THEN 1 ELSE 0)

\* Number of nodes that fit into the free memory of a server.
Fitting(i, k) == i.free_mem[k] \div VmSize

NDSScore(i) ==
  ApplyDistributionStrategy(
    i.cnt_nodes, i.cnt_servers,
    [k \in 1..i.cnt_servers |-> Smaller(Share(i, k), Fitting(i, k))],
    i.ranking)

DistributeEmulationNodes ==
  /\ input # NoInput
  /\ res = NotDistributed
  /\ res' = IF input.strategy = "equal" THEN NDSEqual(input) ELSE NDSScore(input)
  /\ UNCHANGED input
-----------------------------------------------------------------------------
Done == res # NotDistributed
Load(k) == Cardinality(res[k])
Score == Done /\ input.strategy = "score"
Roomy == \A k \in DOMAIN res : Fitting(input, k) >= input.cnt_nodes + 1

\* Every node is placed on exactly one server and none is invented, for any scores,
\* shares cut by memory, and more servers than nodes (apply_distribution_strategy).
NodesPlacedOnce ==
  Done => /\ UNION {res[k] : k \in DOMAIN res} = 1..input.cnt_nodes
          /\ \A j, k \in DOMAIN res : j # k => res[j] \cap res[k] = {}
          /\ DOMAIN res = 1..input.cnt_servers

\* Shares are kept.  The strategy "equal" deserves its name: loads differ by one node at
\* most, although NDSEqual files the numbers under node ids.  With enough memory the
\* other one gives no server more than its cpu share, rounded up.
SharesKept ==
  /\ Done /\ input.strategy = "equal"
    => \A j, k \in DOMAIN res : Load(j) <= Load(k) + 1
  /\ Score /\ Roomy
    => \A k \in DOMAIN res : Load(k) * Sum(input.cpu) < (input.cpu[k] * input.cnt_nodes)
                                                          + 2 * Sum(input.cpu)
=============================================================================

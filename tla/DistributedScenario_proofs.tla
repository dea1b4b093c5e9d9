---------------------- MODULE DistributedScenario_proofs ----------------------
(***************************************************************************)
(* Proofs about the distributed mode, for any nodes, servers, distances    *)
(* and scores: the nodes are placed once and as the strategies promise,    *)
(* the servers start the nodes they are counted on for, a matrix survives  *)
(* its way to them, both ends of a link learn its distance, and the two    *)
(* ends of its tunnel meet.                                                *)
(***************************************************************************)
EXTENDS DistributedScenario, FiniteSetTheorems, TLAPS

\* A matrix is a function on pairs of nodes.
LEMMA MatrixShape ==
  ASSUME NEW m \in Matrices
  PROVE  /\ m = [p \in DOMAIN m |-> m[p]]
         /\ DOMAIN m \subseteq Pairs
         /\ \A p \in DOMAIN m : p = <<p[1], p[2]>>
<1>1. PICK P \in SUBSET Pairs : m \in [P -> Distances]
  BY DEF Matrices
<1>2. DOMAIN m = P /\ m = [p \in DOMAIN m |-> m[p]]
  BY <1>1
<1>3. \A p \in Pairs : p = <<p[1], p[2]>>
  BY DEF Pairs
<1> QED
  BY <1>1, <1>2, <1>3

\* The part of a matrix on some of its pairs is a matrix.
LEMMA RestrictedIsMatrix ==
  ASSUME NEW m \in Matrices, NEW P \in SUBSET DOMAIN m
  PROVE  Restricted(m, P) \in Matrices
<1>1. PICK Q \in SUBSET Pairs : m \in [Q -> Distances]
  BY DEF Matrices
<1>2. P \in SUBSET Pairs
  BY <1>1
<1>3. Restricted(m, P) \in [P -> Distances]
  BY <1>1 DEF Restricted
<1> QED
  BY <1>2, <1>3 DEF Matrices

Entries(w) == UNION {{<<IntOf(k), e[1], e[2]>> : e \in w[k]} : k \in DOMAIN w}

\* The entries that arrive are those of the matrix that was sent, no more and no fewer.
LEMMA EntriesArrive ==
  ASSUME NEW m \in Matrices
  PROVE  Entries(Transform(m)) = {<<p[1], p[2], m[p]>> : p \in DOMAIN m}
<1> DEFINE w == Transform(m)
<1>1. DOMAIN w = {Str(p[1]) : p \in DOMAIN m}
  BY DEF Transform
<1>2. \A k \in DOMAIN w : w[k] = {<<p[2], m[p]>> : p \in {q \in DOMAIN m : Str(q[1]) = k}}
  BY DEF Transform
<1>3. \A x, y : Str(x) = Str(y) => x = y
  BY DEF Str
<1>4. \A x : IntOf(Str(x)) = x
  BY DEF Str, IntOf
<1> HIDE DEF w
<1>5. ASSUME NEW t \in Entries(w)
      PROVE  t \in {<<p[1], p[2], m[p]>> : p \in DOMAIN m}
  <2>1. PICK k \in DOMAIN w : t \in {<<IntOf(k), e[1], e[2]>> : e \in w[k]}
    BY <1>5 DEF Entries
  <2>2. PICK e \in w[k] : t = <<IntOf(k), e[1], e[2]>>
    BY <2>1
  <2>3. PICK p \in DOMAIN m : Str(p[1]) = k /\ e = <<p[2], m[p]>>
    BY <2>2, <1>2
  <2>4. IntOf(k) = p[1]
    BY <2>3, <1>4
  <2>5. t = <<p[1], p[2], m[p]>>
    BY <2>2, <2>3, <2>4
  <2> QED
    BY <2>5
<1>6. ASSUME NEW p \in DOMAIN m
      PROVE  <<p[1], p[2], m[p]>> \in Entries(w)
  <2> DEFINE k == Str(p[1])
             e == <<p[2], m[p]>>
  <2>1. k \in DOMAIN w
    BY <1>1
  <2>2. e \in w[k]
    BY <1>2, <2>1
  <2>3. <<p[1], p[2], m[p]>> = <<IntOf(k), e[1], e[2]>>
    BY <1>4
  <2> HIDE DEF k, e
  <2> QED
    BY <2>1, <2>2, <2>3 DEF Entries
<1> QED
  BY <1>5, <1>6 DEF w

\* What a server reads is the matrix that was sent to it, whatever the nodes are.
THEOREM RoundTrip ==
  ASSUME NEW m \in Matrices
  PROVE  Detransform(Transform(m)) = m
<1> DEFINE E == Entries(Transform(m))
           D == {<<e[1], e[2]>> : e \in E}
           V(p) == CHOOSE d \in {e[3] : e \in E} : <<p[1], p[2], d>> \in E
<1>1. Detransform(Transform(m)) = [p \in D |-> V(p)]
  BY DEF Detransform, Entries
<1>2. E = {<<p[1], p[2], m[p]>> : p \in DOMAIN m}
  BY EntriesArrive
<1>3. \A p \in DOMAIN m : p = <<p[1], p[2]>>
  BY MatrixShape
<1> HIDE DEF E
<1>4. D = DOMAIN m
  <2>1. \A p \in DOMAIN m : p \in D
    <3>1. TAKE p \in DOMAIN m
    <3>2. <<p[1], p[2], m[p]>> \in E
      BY <1>2
    <3>3. <<p[1], p[2]>> \in D
      BY <3>2
    <3> QED
      BY <3>3, <1>3
  <2>2. \A x \in D : x \in DOMAIN m
    <3>1. TAKE x \in D
    <3>2. PICK e \in E : x = <<e[1], e[2]>>
      OBVIOUS
    <3>3. PICK p \in DOMAIN m : e = <<p[1], p[2], m[p]>>
      BY <1>2, <3>2
    <3>4. x = <<p[1], p[2]>>
      BY <3>2, <3>3
    <3> QED
      BY <3>4, <1>3
  <2> QED
    BY <2>1, <2>2
<1>5. ASSUME NEW p \in DOMAIN m
      PROVE  V(p) = m[p]
  <2>1. <<p[1], p[2], m[p]>> \in E
    BY <1>2
  <2>2. m[p] \in {e[3] : e \in E}
    BY <2>1
  <2>3. ASSUME NEW d, <<p[1], p[2], d>> \in E
        PROVE  d = m[p]
    <3>1. PICK q \in DOMAIN m : <<p[1], p[2], d>> = <<q[1], q[2], m[q]>>
      BY <1>2, <2>3
    <3>2. q[1] = p[1] /\ q[2] = p[2] /\ d = m[q]
      BY <3>1
    <3>3. q = p
      BY <3>2, <1>3
    <3> QED
      BY <3>2, <3>3
  <2> QED
    BY <2>1, <2>2, <2>3
<1>6. m = [p \in DOMAIN m |-> m[p]]
  BY MatrixShape
<1> HIDE DEF D, V
<1> QED
  BY <1>1, <1>4, <1>5, <1>6

\* The coordinator's map_distance_matrix_to_servers and the server's
\* get_local_distance_matrix_to_servers cut out the same part.
THEOREM SamePart ==
  ASSUME NEW map \in [Nodes -> Servers], NEW m \in Matrices, NEW s \in Servers
  PROVE  Part(map, m, s) = LocalPart(map, m, s)
<1>1. \A p \in DOMAIN m : p[1] \in Nodes /\ p[2] \in Nodes
  BY MatrixShape DEF Pairs
<1>2. \A p \in DOMAIN m : s \in {map[p[1]], map[p[2]]}
         <=> p[1] \in LocalNodes(map, s) \/ p[2] \in LocalNodes(map, s)
  BY <1>1 DEF LocalNodes
<1>3. {p \in DOMAIN m : s \in {map[p[1]], map[p[2]]}}
        = {p \in DOMAIN m : p[1] \in LocalNodes(map, s) \/ p[2] \in LocalNodes(map, s)}
  BY <1>2
<1> QED
  BY <1>3 DEF Part, LocalPart
-----------------------------------------------------------------------------
\* What is on the wire is this step's matrix, or the reader's part of it.
Sent(s) == IF mode = "individual" THEN Part(mapping, distance_matrix, s) ELSE distance_matrix

WireInv ==
  /\ mapping \in [Nodes -> Servers]
  /\ distance_matrix \in Matrices
  /\ local = [s \in Servers |-> local[s]]
  /\ \A s \in Servers : wire[s] = Transform(Sent(s))
  /\ \A s \in Servers \ pending : local[s] = Part(mapping, distance_matrix, s)

\* A server reads its part of this step's matrix, in every mode.
LEMMA ReceivedPart ==
  ASSUME WireInv, NEW s \in Servers
  PROVE  Received(s) = Part(mapping, distance_matrix, s)
<1>1. Sent(s) \in Matrices
  <2>1. Part(mapping, distance_matrix, s) \in Matrices
    BY RestrictedIsMatrix DEF WireInv, Part
  <2> QED
    BY <2>1 DEF WireInv, Sent
<1>2. Detransform(wire[s]) = Sent(s)
  BY <1>1, RoundTrip DEF WireInv
<1>3. LocalPart(mapping, distance_matrix, s) = Part(mapping, distance_matrix, s)
  BY SamePart DEF WireInv
<1> QED
  BY <1>2, <1>3 DEF Received, Sent

LEMMA EmptyIsMatrix ==
  /\ Empty \in Matrices
  /\ \A map, s : Part(map, Empty, s) = Empty
<1>1. Empty \in [{} -> Distances]
  BY DEF Empty
<1>2. \A map, s : Part(map, Empty, s) = Empty
  BY DEF Part, Restricted, Empty
<1> QED
  BY <1>1, <1>2 DEF Matrices

LEMMA WireStep == WireInv /\ [Next]_vars => WireInv'
<1> SUFFICES ASSUME WireInv, [Next]_vars PROVE WireInv'
  OBVIOUS
<1>1. ASSUME NEW m \in Matrices, Distribute(m) PROVE WireInv'
  BY <1>1 DEF WireInv, Distribute, Sent
<1>2. ASSUME NEW s \in Servers, RecvDistanceMatrix(s) PROVE WireInv'
  <2>1. local' = [local EXCEPT ![s] = Part(mapping, distance_matrix, s)]
    BY <1>2, ReceivedPart DEF RecvDistanceMatrix
  <2>2. UNCHANGED <<mode, mapping, distance_matrix, wire>> /\ pending' = pending \ {s}
    BY <1>2 DEF RecvDistanceMatrix
  <2>3. \A r \in Servers : Sent(r)' = Sent(r)
    BY <2>2 DEF Sent
  <2>4. \A r \in Servers \ pending' : local'[r] = Part(mapping, distance_matrix, r)
    BY <2>1, <2>2 DEF WireInv
  <2>5. local' = [r \in Servers |-> local'[r]]
    BY <2>1 DEF WireInv
  <2> QED
    BY <2>2, <2>3, <2>4, <2>5 DEF WireInv
<1>3. ASSUME NEW s \in Servers, RecvNothing(s) PROVE WireInv'
  BY <1>3 DEF RecvNothing, WireInv, Sent
<1>4. CASE UNCHANGED vars
  BY <1>4 DEF WireInv, vars, Sent
<1> QED
  BY <1>1, <1>2, <1>3, <1>4 DEF Next

\* No server has stepped with an old message when a new matrix is sent, and none has
\* stepped with anything but its part: the invariant from which BothEndsKnow follows.
THEOREM WireInvariant == Spec => []WireInv
<1>1. Init => WireInv
  BY EmptyIsMatrix DEF Init, MatrixInit, WireInv, Sent
<1> QED
  BY <1>1, WireStep, PTL DEF Spec

LEMMA WireKnown == WireInv => BothEndsKnow
<1> SUFFICES ASSUME WireInv, NEW s \in Servers \ pending
             PROVE  local[s] = Restricted(distance_matrix,
                                 {p \in DOMAIN distance_matrix : Touches(p, s)})
  BY DEF BothEndsKnow
<1>1. \A p \in DOMAIN distance_matrix :
        s \in {mapping[p[1]], mapping[p[2]]} <=> Touches(p, s)
  BY DEF Touches
<1>2. {p \in DOMAIN distance_matrix : s \in {mapping[p[1]], mapping[p[2]]}}
        = {p \in DOMAIN distance_matrix : Touches(p, s)}
  BY <1>1
<1> QED
  BY <1>2 DEF WireInv, Part

\* Both ends of every link learn its distance, for any nodes, servers and distances,
\* in each of the three modes.
THEOREM LinksKnown == Spec => []BothEndsKnow
  BY WireInvariant, WireKnown, PTL
-----------------------------------------------------------------------------
(***************************************************************************)
(* Sums.  Induction up to N is used in the form of sets: there is no least *)
(* number outside of a set that holds 0 and, with n - 1, also n.           *)
(***************************************************************************)
LEMMA UpTo ==
  ASSUME NEW N \in Nat, NEW S \in SUBSET (0..N), 0 \in S,
         \A n \in 1..N : n - 1 \in S => n \in S
  PROVE  S = 0..N
<1> DEFINE R == OpToRel(<, Nat)
           T == (0..N) \ S
<1> SUFFICES ASSUME T # {} PROVE FALSE
  OBVIOUS
<1>1. IsWellFoundedOn(R, Nat)
  BY NatLessThanWellFounded, Zenon
<1>2. \A x, y \in Nat : <<y, x>> \in R <=> y < x
  BY DEF OpToRel
<1>3. T \in SUBSET Nat
  OBVIOUS
<1> HIDE DEF R
<1>4. PICK x \in T : \A y \in T : ~ (<<y, x>> \in R)
  <2> HIDE DEF T
  <2> QED
    BY <1>1, <1>3, WFMin
<1>5. x \in 0..N /\ x \notin S /\ \A y \in T : ~ (y < x)
  BY <1>2, <1>3, <1>4
<1>6. x \in 1..N /\ x - 1 \in 0..N /\ x - 1 < x
  <2>1. x # 0
    BY <1>5
  <2> QED
    BY <2>1, <1>5
<1>7. x - 1 \in S
  BY <1>5, <1>6
<1> QED
  BY <1>5, <1>6, <1>7

\* A function on 1..n is a sequence of length n.
LEMMA IsSequence ==
  ASSUME NEW n \in Nat, NEW c \in [1..n -> Nat]
  PROVE  c \in Seq(Nat) /\ Len(c) = n
  OBVIOUS

\* The prefix sums p of the numbers c[1], ..., c[n].
SumsOf(p, c, n) ==
  /\ p \in [0..n -> Nat]
  /\ p[0] = 0
  /\ \A k \in 1..n : p[k] = p[k-1] + c[k]

LEMMA SumsExist ==
  ASSUME NEW n \in Nat, NEW c \in [1..n -> Nat]
  PROVE  \E p : SumsOf(p, c, n)
<1> DEFINE S == {m \in 0..n : \E p : SumsOf(p, c, m)}
<1>1. 0 \in S
  <2> DEFINE p == [i \in 0..0 |-> 0]
  <2>1. SumsOf(p, c, 0)
    BY DEF SumsOf
  <2> QED
    BY <2>1
<1>2. ASSUME NEW m \in 1..n, m - 1 \in S PROVE m \in S
  <2>1. PICK p : SumsOf(p, c, m - 1)
    BY <1>2
  <2> DEFINE v == p[m-1] + c[m]
             h == [i \in 0..m |-> IF i = m THEN v ELSE p[i]]
  <2>2. v \in Nat /\ p \in [0..(m-1) -> Nat] /\ p[0] = 0
    BY <2>1 DEF SumsOf
  <2>3. h \in [0..m -> Nat] /\ h[m] = v /\ \A i \in 0..(m-1) : h[i] = p[i]
    BY <2>2
  <2> HIDE DEF h
  <2>4. ASSUME NEW i \in 1..m PROVE h[i] = h[i-1] + c[i]
    <3>1. CASE i = m
      <4>1. m - 1 \in 0..(m-1)
        OBVIOUS
      <4> QED
        BY <2>3, <3>1, <4>1
    <3>2. CASE i # m
      <4>1. i \in 1..(m-1) /\ i - 1 \in 0..(m-1) /\ i \in 0..(m-1)
        BY <3>2
      <4> QED
        BY <2>1, <2>3, <4>1 DEF SumsOf
    <3> QED
      BY <3>1, <3>2
  <2>5. h[0] = 0
    BY <2>2, <2>3
  <2>6. SumsOf(h, c, m)
    BY <2>3, <2>4, <2>5 DEF SumsOf
  <2> QED
    BY <2>6
<1>3. S = 0..n
  <2>1. S \in SUBSET (0..n)
    OBVIOUS
  <2> HIDE DEF S
  <2> QED
    BY <1>1, <1>2, <2>1, UpTo
<1>4. n \in S
  <2>1. n \in 0..n
    OBVIOUS
  <2> HIDE DEF S
  <2> QED
    BY <1>3, <2>1
<1> QED
  BY <1>4

LEMMA PrefixSumsAre ==
  ASSUME NEW n \in Nat, NEW c \in [1..n -> Nat]
  PROVE  SumsOf(PrefixSums(c), c, n)
<1> DEFINE F(f) == f = [k \in 0..n |-> IF k = 0 THEN 0 ELSE f[k-1] + c[k]]
           a == PrefixSums(c)
<1>1. Len(c) = n
  BY IsSequence
<1>2. a = CHOOSE f : F(f)
  BY <1>1 DEF PrefixSums
<1>3. PICK g : SumsOf(g, c, n)
  BY SumsExist
<1>4. F(g)
  <2>1. g \in [0..n -> Nat] /\ \A k \in 0..n : g[k] = IF k = 0 THEN 0 ELSE g[k-1] + c[k]
    BY <1>3 DEF SumsOf
  <2> QED
    BY <2>1
<1>5. F(a)
  <2> HIDE DEF F, a
  <2> QED
    BY <1>2, <1>4
<1> HIDE DEF a
<1>6. /\ a = [k \in 0..n |-> a[k]] /\ a[0] = 0
      /\ \A k \in 1..n : a[k] = a[k-1] + c[k]
  BY <1>5
<1> HIDE DEF F
<1> DEFINE S == {k \in 0..n : a[k] \in Nat}
<1>7. S = 0..n
  <2>1. S \in SUBSET (0..n) /\ 0 \in S
    BY <1>6
  <2>2. ASSUME NEW k \in 1..n, k - 1 \in S PROVE k \in S
    <3>1. c[k] \in Nat /\ k \in 0..n /\ a[k-1] \in Nat
      BY <2>2
    <3>2. a[k] = a[k-1] + c[k]
      BY <1>6
    <3>3. a[k] \in Nat
      BY <3>1, <3>2
    <3> QED
      BY <3>1, <3>3
  <2> HIDE DEF S
  <2> QED
    BY <2>1, <2>2, UpTo
<1>8. a \in [0..n -> Nat]
  BY <1>6, <1>7
<1> QED
  BY <1>6, <1>8 DEF SumsOf, a

\* The same for natural numbers.
Sums(p, c, n) == c \in [1..n -> Nat] /\ SumsOf(p, c, n)

\* Prefix sums grow.
LEMMA SumsGrow ==
  ASSUME NEW n \in Nat, NEW c, NEW p, Sums(p, c, n),
         NEW j \in 0..n, NEW k \in 0..n, j <= k
  PROVE  p[j] <= p[k]
<1> DEFINE S == {m \in 0..n : j <= m => p[j] <= p[m]}
<1>0. /\ p \in [0..n -> Nat] /\ c \in [1..n -> Nat]
      /\ \A m \in 1..n : p[m] = p[m-1] + c[m]
  BY DEF Sums, SumsOf
<1>1. 0 \in S
  BY <1>0
<1>2. ASSUME NEW m \in 1..n, m - 1 \in S PROVE m \in S
  <2>1. p[m] = p[m-1] + c[m] /\ c[m] \in Nat /\ m - 1 \in 0..n /\ m \in 0..n
    BY <1>0
  <2>2. p[m] \in Nat /\ p[m-1] \in Nat /\ p[j] \in Nat
    BY <1>0, <2>1
  <2>3. CASE j <= m - 1
    <3>1. p[j] <= p[m-1]
      BY <2>3, <1>2
    <3> QED
      BY <2>1, <2>2, <3>1
  <2>4. CASE j = m
    BY <2>1, <2>2, <2>4
  <2>5. CASE j > m
    BY <2>1, <2>5
  <2> QED
    BY <2>3, <2>4, <2>5
<1>3. S = 0..n
  <2>1. S \in SUBSET (0..n)
    OBVIOUS
  <2> HIDE DEF S
  <2> QED
    BY <1>1, <1>2, <2>1, UpTo
<1> QED
  BY <1>3
-----------------------------------------------------------------------------
(***************************************************************************)
(* apply_distribution_strategy.                                            *)
(***************************************************************************)

\* The numbers of nodes that are handed out, for every server.
Counted(cnt, cnts) == [k \in 1..cnt |-> IF 1..k \subseteq DOMAIN cnts THEN cnts[k] ELSE 0]

\* The nodes a server gets by its number, and those it is dealt of the rest.
Own(p, n, k) == (p[k-1] + 1)..Smaller(p[k], n)
Dealer(p, cnt, ranking, node) == ranking[((node - p[cnt] - 1) % cnt) + 1]
Dealt(p, n, cnt, ranking, k) == {node \in Rest(p[cnt], n) : Dealer(p, cnt, ranking, node) = k}

\* The servers in the order in which the rest is dealt.
Orders(cnt) == [1..cnt -> 1..cnt]

\* The distribution r hands out both.
HandsOut(r, p, n, cnt, ranking) ==
  r = [k \in 1..cnt |-> Own(p, n, k) \cup Dealt(p, n, cnt, ranking, k)]

LEMMA StrategyParts ==
  ASSUME NEW n \in Nat, NEW cnt \in Nat, NEW cnts, NEW ranking,
         Counted(cnt, cnts) \in [1..cnt -> Nat]
  PROVE  \E p : /\ Sums(p, Counted(cnt, cnts), cnt)
                /\ HandsOut(ApplyDistributionStrategy(n, cnt, cnts, ranking), p, n, cnt, ranking)
<1> DEFINE p == PrefixSums(Counted(cnt, cnts))
<1>1. Sums(p, Counted(cnt, cnts), cnt)
  BY PrefixSumsAre DEF Sums
<1>2. HandsOut(ApplyDistributionStrategy(n, cnt, cnts, ranking), p, n, cnt, ranking)
  BY DEF ApplyDistributionStrategy, HandsOut, Counted, Own, Dealt, Dealer
<1> HIDE DEF p
<1> QED
  BY <1>1, <1>2

\* Every node is in one part.
Placed(r, n, cnt) ==
  /\ r = [k \in 1..cnt |-> r[k]]
  /\ \A k \in 1..cnt : r[k] \subseteq 1..n
  /\ \A x \in 1..n : \E k \in 1..cnt : x \in r[k]
  /\ \A j, k \in 1..cnt : j # k => r[j] \cap r[k] = {}

\* The first server up to which the numbers cover a node.
LEMMA FirstCovering ==
  ASSUME NEW cnt \in Nat, NEW c, NEW p, Sums(p, c, cnt),
         NEW x \in Nat \ {0}, x <= p[cnt]
  PROVE  \E k \in 1..cnt : p[k-1] < x /\ x <= p[k]
<1> DEFINE S == {k \in 0..cnt : p[k] < x}
<1>0. p \in [0..cnt -> Nat] /\ p[0] = 0
  BY DEF Sums, SumsOf
<1> SUFFICES ASSUME \A k \in 1..cnt : ~ (p[k-1] < x /\ x <= p[k]) PROVE FALSE
  OBVIOUS
<1>1. 0 \in S
  BY <1>0
<1>2. ASSUME NEW k \in 1..cnt, k - 1 \in S PROVE k \in S
  <2>1. k \in 0..cnt /\ p[k] \in Nat /\ p[k-1] < x
    BY <1>0, <1>2
  <2>2. ~ (x <= p[k])
    BY <2>1
  <2> QED
    BY <2>1, <2>2
<1>3. S = 0..cnt
  <2>1. S \in SUBSET (0..cnt)
    OBVIOUS
  <2> HIDE DEF S
  <2> QED
    BY <1>1, <1>2, <2>1, UpTo
<1>4. cnt \in 0..cnt /\ p[cnt] \in Nat
  BY <1>0
<1>5. cnt \in S
  <2> HIDE DEF S
  <2> QED
    BY <1>3, <1>4
<1> QED
  BY <1>4, <1>5

\* For any numbers and any ranking, apply_distribution_strategy places every node once.
LEMMA StrategyPlaces ==
  ASSUME NEW n \in Nat, NEW cnt \in Nat, cnt > 0, NEW c, NEW p, Sums(p, c, cnt),
         NEW ranking \in Orders(cnt), NEW r,
         HandsOut(r, p, n, cnt, ranking)
  PROVE  Placed(r, n, cnt)
<1>a. /\ r = [k \in 1..cnt |-> r[k]]
      /\ \A k \in 1..cnt : r[k] = Own(p, n, k) \cup Dealt(p, n, cnt, ranking, k)
  BY DEF HandsOut
<1>0. p \in [0..cnt -> Nat] /\ cnt \in 0..cnt /\ p[cnt] \in Nat
  BY DEF Sums, SumsOf
<1>b. cnt \in 0..cnt /\ p[cnt] \in Nat
  BY <1>0
<1>1. \A k \in 1..cnt : k - 1 \in 0..cnt /\ k \in 0..cnt /\ p[k-1] \in Nat /\ p[k] \in Nat
  BY <1>0
<1>2. \A k \in 1..cnt : p[k] <= p[cnt]
  <2> SUFFICES ASSUME NEW k \in 1..cnt PROVE p[k] <= p[cnt]
    OBVIOUS
  <2>1. k \in 0..cnt /\ k <= cnt
    OBVIOUS
  <2> QED
    BY <2>1, <1>b, SumsGrow
<1>3. ASSUME NEW k \in 1..cnt, NEW x \in Own(p, n, k)
      PROVE  x \in 1..n /\ p[k-1] < x /\ x <= p[k] /\ x <= p[cnt]
  <2>1. p[k-1] \in Nat /\ p[k] \in Nat /\ p[k] <= p[cnt]
    BY <1>1, <1>2
  <2>2. x \in (p[k-1] + 1)..Smaller(p[k], n)
    BY DEF Own
  <2>3. Smaller(p[k], n) \in Nat /\ Smaller(p[k], n) <= p[k] /\ Smaller(p[k], n) <= n
    BY <2>1 DEF Smaller
  <2> QED
    BY <2>1, <2>2, <2>3, <1>b
<1>4. ASSUME NEW k \in 1..cnt, NEW x \in Dealt(p, n, cnt, ranking, k)
      PROVE  x \in 1..n /\ p[cnt] < x /\ Dealer(p, cnt, ranking, x) = k
  <2>1. x \in (p[cnt] + 1)..n /\ Dealer(p, cnt, ranking, x) = k
    BY DEF Dealt, Rest
  <2> QED
    BY <2>1, <1>b
<1>5. ASSUME NEW x \in 1..n PROVE \E k \in 1..cnt : x \in r[k]
  <2>1. CASE x <= p[cnt]
    <3>1. PICK k \in 1..cnt : p[k-1] < x /\ x <= p[k]
      BY <2>1, FirstCovering
    <3>2. x \in Own(p, n, k)
      BY <3>1, <1>1 DEF Own, Smaller
    <3> QED
      BY <3>2, <1>a
  <2>2. CASE p[cnt] < x
    <3> DEFINE d == x - p[cnt] - 1
    <3>1. d \in Nat
      BY <2>2, <1>0
    <3>2. (d % cnt) + 1 \in 1..cnt
      <4> HIDE DEF d
      <4>1. d % cnt \in 0..(cnt - 1)
        BY <3>1
      <4> QED
        BY <4>1
    <3>3. Dealer(p, cnt, ranking, x) \in 1..cnt
      BY <3>2 DEF Dealer, Orders
    <3>4. x \in Dealt(p, n, cnt, ranking, Dealer(p, cnt, ranking, x))
      BY <2>2, <1>0 DEF Dealt, Rest
    <3> QED
      BY <3>3, <3>4, <1>a
  <2> QED
    BY <2>1, <2>2, <1>0
<1>6. ASSUME NEW j \in 1..cnt, NEW k \in 1..cnt, j < k, NEW x \in r[j], x \in r[k] PROVE FALSE
  <2>1. /\ x \in Own(p, n, j) \/ x \in Dealt(p, n, cnt, ranking, j)
        /\ x \in Own(p, n, k) \/ x \in Dealt(p, n, cnt, ranking, k)
    BY <1>6, <1>a
  <2>2. x \in Nat /\ p[k-1] \in Nat /\ p[j] \in Nat
    BY <2>1, <1>1, <1>3, <1>4
  <2>3. CASE x \in Own(p, n, j) /\ x \in Own(p, n, k)
    <3>1. x <= p[j] /\ p[k-1] < x
      BY <2>3, <1>3
    <3>2. p[j] <= p[k-1]
      <4>1. j \in 0..cnt /\ k - 1 \in 0..cnt /\ j <= k - 1
        BY <1>6
      <4> QED
        BY <4>1, SumsGrow
    <3> QED
      BY <2>2, <3>1, <3>2
  <2>4. CASE x \in Dealt(p, n, cnt, ranking, j) /\ x \in Dealt(p, n, cnt, ranking, k)
    <3>1. j = k
      BY <2>4, <1>4
    <3> QED
      BY <3>1, <1>6
  <2>5. CASE \/ x \in Own(p, n, j) /\ x \in Dealt(p, n, cnt, ranking, k)
             \/ x \in Own(p, n, k) /\ x \in Dealt(p, n, cnt, ranking, j)
    <3>1. x <= p[cnt] /\ p[cnt] < x
      BY <2>5, <1>3, <1>4
    <3> QED
      BY <3>1, <2>2, <1>0
  <2> QED
    BY <2>1, <2>3, <2>4, <2>5
<1>7. \A j, k \in 1..cnt : j # k => r[j] \cap r[k] = {}
  <2> SUFFICES ASSUME NEW j \in 1..cnt, NEW k \in 1..cnt, j # k, NEW x \in r[j] \cap r[k]
               PROVE  FALSE
    OBVIOUS
  <2>1. j < k \/ k < j
    OBVIOUS
  <2> QED
    BY <2>1, <1>6
<1>8. \A k \in 1..cnt : r[k] \subseteq 1..n
  BY <1>3, <1>4, <1>a
<1> QED
  BY <1>5, <1>7, <1>8, <1>a DEF Placed
-----------------------------------------------------------------------------
(***************************************************************************)
(* The strategies.                                                         *)
(***************************************************************************)

\* What the strategies are called with.
InputOK(i) ==
  /\ i.cnt_nodes \in Nat
  /\ i.cnt_servers \in Nat /\ i.cnt_servers > 0
  /\ i.cpu \in [1..i.cnt_servers -> Nat \ {0}]
  /\ i.free_mem \in [1..i.cnt_servers -> Nat]
  /\ i.ranking \in Orders(i.cnt_servers)
  /\ i.strategy \in {"equal", "score"}

LEMMA InputsOK ==
  ASSUME NEW n \in 0..MaxNodes, NEW cnt \in 1..MaxServers, NEW i \in Inputs(n, cnt)
  PROVE  InputOK(i)
<1>1. n \in Nat /\ cnt \in Nat /\ cnt > 0
  BY DistributionAssumption DEF DistributionAssumption
<1>2. /\ i.strategy \in {"equal", "score"} /\ i.cnt_nodes = n /\ i.cnt_servers = cnt
      /\ i.cpu \in [1..cnt -> CpuScores] /\ i.free_mem \in [1..cnt -> FreeMemories]
      /\ i.ranking \in [1..cnt -> 1..cnt]
  BY DEF Inputs
<1>3. CpuScores \subseteq Nat \ {0} /\ FreeMemories \subseteq Nat
  BY DistributionAssumption DEF DistributionAssumption
<1>4. i.cpu \in [1..cnt -> Nat \ {0}] /\ i.free_mem \in [1..cnt -> Nat]
  BY <1>2, <1>3
<1> QED
  BY <1>1, <1>2, <1>4 DEF InputOK, Orders

LEMMA Division ==
  ASSUME NEW a \in Nat, NEW b \in Nat, b > 0
  PROVE  /\ a \div b \in Nat
         /\ (a \div b) * b <= a
         /\ a < (a \div b) * b + b
  OBVIOUS

\* The sum of the scores is at least each of them.
LEMMA SumOfScores ==
  ASSUME NEW cnt \in Nat, NEW cpu \in [1..cnt -> Nat \ {0}]
  PROVE  \E p : /\ Sums(p, cpu, cnt) /\ Sum(cpu) = p[cnt] /\ Sum(cpu) \in Nat
                /\ \A k \in 1..cnt : cpu[k] \in Nat /\ cpu[k] <= Sum(cpu) /\ Sum(cpu) > 0
<1> DEFINE p == PrefixSums(cpu)
<1>1. cpu \in [1..cnt -> Nat]
  OBVIOUS
<1>2. Sums(p, cpu, cnt)
  BY <1>1, PrefixSumsAre DEF Sums
<1>3. Sum(cpu) = p[cnt]
  BY <1>1, IsSequence DEF Sum
<1> HIDE DEF p
<1>4. p \in [0..cnt -> Nat] /\ \A k \in 1..cnt : p[k] = p[k-1] + cpu[k]
  BY <1>2 DEF Sums, SumsOf
<1>5. p[cnt] \in Nat /\ cnt \in 0..cnt
  BY <1>4
<1>6. ASSUME NEW k \in 1..cnt PROVE cpu[k] \in Nat /\ cpu[k] <= p[cnt] /\ p[cnt] > 0
  <2>1. k \in 0..cnt /\ k - 1 \in 0..cnt /\ k <= cnt
    OBVIOUS
  <2>2. p[k] <= p[cnt]
    BY <1>2, <1>5, <2>1, SumsGrow
  <2>3. p[k] \in Nat /\ p[k-1] \in Nat /\ p[k] = p[k-1] + cpu[k]
    BY <1>4, <2>1
  <2>4. cpu[k] \in Nat /\ cpu[k] > 0
    OBVIOUS
  <2>5. \A x, y, z, t \in Nat : x = y + z /\ z > 0 /\ x <= t => z <= t /\ t > 0
    OBVIOUS
  <2> QED
    BY <2>2, <2>3, <2>4, <2>5, <1>5
<1> QED
  BY <1>2, <1>3, <1>5, <1>6

\* A share is the server's part of the nodes rounded up, or one more.
LEMMA ShareBounds ==
  ASSUME NEW i, InputOK(i), NEW k \in 1..i.cnt_servers
  PROVE  /\ Share(i, k) \in Nat /\ Sum(i.cpu) \in Nat
         /\ Share(i, k) <= i.cnt_nodes + 1
         /\ i.cpu[k] * i.cnt_nodes <= Share(i, k) * Sum(i.cpu)
         /\ Share(i, k) * Sum(i.cpu) < i.cpu[k] * i.cnt_nodes + 2 * Sum(i.cpu)
<1> DEFINE S == Sum(i.cpu)
           n == i.cnt_nodes
           a == i.cpu[k] * n
           q == (a + S - 1) \div S
           e == IF k \in i.rounded THEN 1 ELSE 0
<1>0. Share(i, k) = q + e
  BY DEF Share, Quotient
<1>1. S \in Nat /\ S > 0 /\ i.cpu[k] \in Nat /\ i.cpu[k] <= S
  BY SumOfScores DEF InputOK
<1>2. n \in Nat /\ e \in {0, 1}
  BY DEF InputOK
<1>e. i.cpu[k] * n = a
  OBVIOUS
<1> HIDE DEF S, n, e
<1>3. a \in Nat /\ a <= S * n
  BY <1>1, <1>2
<1> HIDE DEF a
<1>4. a + S - 1 \in Nat
  BY <1>1, <1>3
<1>5. q \in Nat /\ q * S <= a + S - 1 /\ a + S - 1 < q * S + S
  BY <1>1, <1>4, Division
<1> HIDE DEF q
<1>6. q <= n
  <2> SUFFICES ASSUME q >= n + 1 PROVE FALSE
    BY <1>2, <1>5
  <2>1. q * S >= (n + 1) * S
    BY <1>1, <1>2, <1>5
  <2>2. (n + 1) * S = S * n + S /\ S * n \in Nat /\ q * S \in Nat
    BY <1>1, <1>2, <1>5
  <2> QED
    BY <2>1, <2>2, <1>1, <1>3, <1>5
<1>7. (q + e) * S = q * S + e * S /\ q * S \in Nat /\ e * S \in {0, S}
  BY <1>1, <1>2, <1>5
<1>8. a <= (q + e) * S /\ (q + e) * S < a + 2 * S
  BY <1>1, <1>3, <1>5, <1>7
<1>9. q + e \in Nat /\ q + e <= n + 1
  BY <1>2, <1>5, <1>6
<1> QED
  BY <1>0, <1>1, <1>8, <1>9, <1>e DEF S, n

LEMMA FittingType ==
  ASSUME NEW i, InputOK(i), NEW k \in 1..i.cnt_servers
  PROVE  Fitting(i, k) \in Nat
<1>1. i.free_mem[k] \in Nat
  BY DEF InputOK
<1>2. VmSize \in Nat /\ VmSize > 0
  BY DistributionAssumption DEF DistributionAssumption
<1> QED
  BY <1>1, <1>2, Division DEF Fitting

\* The numbers that the strategies hand to apply_distribution_strategy.
ScoreCounts(i) == [k \in 1..i.cnt_servers |-> Smaller(Share(i, k), Fitting(i, k))]

EqualCounts(n, cnt) ==
  [k \in 1..cnt |-> IF n < cnt THEN IF k <= n THEN 1 ELSE 0 ELSE n \div cnt]

LEMMA ScoreHandsOut ==
  ASSUME NEW i, InputOK(i)
  PROVE  \E p : /\ Sums(p, ScoreCounts(i), i.cnt_servers)
                /\ HandsOut(NDSScore(i), p, i.cnt_nodes, i.cnt_servers, i.ranking)
<1> DEFINE c == ScoreCounts(i)
<1>1. i.cnt_nodes \in Nat /\ i.cnt_servers \in Nat
  BY DEF InputOK
<1>2. c \in [1..i.cnt_servers -> Nat]
  <2>1. \A k \in 1..i.cnt_servers : Smaller(Share(i, k), Fitting(i, k)) \in Nat
    BY ShareBounds, FittingType DEF Smaller
  <2> QED
    BY <2>1 DEF ScoreCounts
<1>3. Counted(i.cnt_servers, c) = c
  <2>1. \A k \in 1..i.cnt_servers : 1..k \subseteq 1..i.cnt_servers
    BY <1>1
  <2>2. c = [k \in 1..i.cnt_servers |-> c[k]] /\ DOMAIN c = 1..i.cnt_servers
    BY <1>2
  <2> HIDE DEF c
  <2> QED
    BY <2>1, <2>2 DEF Counted
<1>4. NDSScore(i) = ApplyDistributionStrategy(i.cnt_nodes, i.cnt_servers, c, i.ranking)
  BY DEF NDSScore, ScoreCounts
<1> HIDE DEF c
<1>5. \E p : /\ Sums(p, Counted(i.cnt_servers, c), i.cnt_servers)
             /\ HandsOut(ApplyDistributionStrategy(i.cnt_nodes, i.cnt_servers, c, i.ranking),
                         p, i.cnt_nodes, i.cnt_servers, i.ranking)
  <2>1. Counted(i.cnt_servers, c) \in [1..i.cnt_servers -> Nat]
    BY <1>2, <1>3
  <2> QED
    BY <1>1, <2>1, StrategyParts
<1> QED
  BY <1>3, <1>4, <1>5 DEF c

InOrder(cnt) == [k \in 1..cnt |-> k]

LEMMA EqualHandsOut ==
  ASSUME NEW i, InputOK(i)
  PROVE  \E p : /\ Sums(p, EqualCounts(i.cnt_nodes, i.cnt_servers), i.cnt_servers)
                /\ HandsOut(NDSEqual(i), p, i.cnt_nodes, i.cnt_servers, InOrder(i.cnt_servers))
<1> DEFINE n == i.cnt_nodes
           cnt == i.cnt_servers
           c == [id \in 1..n |-> IF n < cnt THEN 1 ELSE n \div cnt]
<1>1. n \in Nat /\ cnt \in Nat /\ cnt > 0
  BY DEF InputOK
<1>2. NDSEqual(i) = ApplyDistributionStrategy(n, cnt, c, InOrder(cnt))
  BY DEF NDSEqual, InOrder
<1> HIDE DEF n, cnt
<1>3. n \div cnt \in Nat
  BY <1>1, Division
<1>4. EqualCounts(n, cnt) \in [1..cnt -> Nat]
  BY <1>1, <1>3 DEF EqualCounts
<1>5. Counted(cnt, c) = EqualCounts(n, cnt)
  <2>1. DOMAIN c = 1..n /\ \A k \in 1..n : c[k] = IF n < cnt THEN 1 ELSE n \div cnt
    OBVIOUS
  <2> HIDE DEF c
  <2>2. ASSUME NEW k \in 1..cnt
        PROVE  (IF 1..k \subseteq DOMAIN c THEN c[k] ELSE 0)
                 = IF n < cnt THEN IF k <= n THEN 1 ELSE 0 ELSE n \div cnt
    <3>1. 1..k \subseteq 1..n <=> k <= n
      <4>1. k \in 1..k
        OBVIOUS
      <4> QED
        BY <4>1, <1>1
    <3>2. n >= cnt => k <= n
      BY <1>1
    <3>3. k <= n => k \in 1..n
      BY <1>1
    <3> QED
      BY <2>1, <3>1, <3>2, <3>3, <1>1
  <2> QED
    BY <2>2 DEF Counted, EqualCounts
<1> HIDE DEF c
<1>6. \E p : /\ Sums(p, Counted(cnt, c), cnt)
             /\ HandsOut(ApplyDistributionStrategy(n, cnt, c, InOrder(cnt)), p, n, cnt, InOrder(cnt))
  <2>1. Counted(cnt, c) \in [1..cnt -> Nat]
    BY <1>4, <1>5
  <2> QED
    BY <1>1, <2>1, StrategyParts
<1> QED
  BY <1>2, <1>5, <1>6 DEF n, cnt

\* Whatever the strategy, every node is placed once.
LEMMA StrategiesPlace ==
  ASSUME NEW i, InputOK(i)
  PROVE  /\ Placed(NDSEqual(i), i.cnt_nodes, i.cnt_servers)
         /\ Placed(NDSScore(i), i.cnt_nodes, i.cnt_servers)
<1>1. i.cnt_nodes \in Nat /\ i.cnt_servers \in Nat /\ i.cnt_servers > 0
      /\ i.ranking \in Orders(i.cnt_servers)
  BY DEF InputOK
<1>2. InOrder(i.cnt_servers) \in Orders(i.cnt_servers)
  BY DEF InOrder, Orders
<1>3. PICK p : /\ Sums(p, ScoreCounts(i), i.cnt_servers)
               /\ HandsOut(NDSScore(i), p, i.cnt_nodes, i.cnt_servers, i.ranking)
  BY ScoreHandsOut
<1>4. PICK q : /\ Sums(q, EqualCounts(i.cnt_nodes, i.cnt_servers), i.cnt_servers)
               /\ HandsOut(NDSEqual(i), q, i.cnt_nodes, i.cnt_servers, InOrder(i.cnt_servers))
  BY EqualHandsOut
<1> QED
  BY <1>1, <1>2, <1>3, <1>4, StrategyPlaces
-----------------------------------------------------------------------------
(***************************************************************************)
(* The loads.                                                              *)
(***************************************************************************)
LEMMA IntervalSize ==
  ASSUME NEW a \in Nat, NEW b \in Nat
  PROVE  /\ IsFiniteSet((a + 1)..b) /\ Cardinality((a + 1)..b) \in Nat
         /\ a <= b => Cardinality((a + 1)..b) = b - a
         /\ b <= a => Cardinality((a + 1)..b) = 0
<1>1. a + 1 \in Int /\ b \in Int
  OBVIOUS
<1>2. /\ IsFiniteSet((a + 1)..b)
      /\ Cardinality((a + 1)..b) = IF (a + 1) > b THEN 0 ELSE b - (a + 1) + 1
  BY <1>1, FS_Interval
<1> QED
  BY <1>2

\* Fewer nodes than servers: the first n servers get one node each.
LEMMA FewNodes ==
  ASSUME NEW n \in Nat, NEW cnt \in Nat, n < cnt, NEW p, Sums(p, EqualCounts(n, cnt), cnt),
         NEW r, HandsOut(r, p, n, cnt, InOrder(cnt))
  PROVE  \A k \in 1..cnt : Cardinality(r[k]) \in {0, 1}
<1> DEFINE S == {k \in 0..cnt : p[k] = Smaller(k, n)}
<1>0. /\ p \in [0..cnt -> Nat] /\ p[0] = 0
      /\ \A k \in 1..cnt : p[k] = p[k-1] + EqualCounts(n, cnt)[k]
  BY DEF Sums, SumsOf
<1>1. \A k \in 1..cnt : EqualCounts(n, cnt)[k] = IF k <= n THEN 1 ELSE 0
  BY DEF EqualCounts
<1>2. 0 \in S
  BY <1>0 DEF Smaller
<1>3. ASSUME NEW k \in 1..cnt, k - 1 \in S PROVE k \in S
  <2>1. p[k] = p[k-1] + (IF k <= n THEN 1 ELSE 0) /\ p[k-1] = Smaller(k - 1, n)
    BY <1>0, <1>1, <1>3
  <2>2. p[k] = Smaller(k, n) /\ k \in 0..cnt
    BY <2>1 DEF Smaller
  <2> QED
    BY <2>2
<1>4. S = 0..cnt
  <2>1. S \in SUBSET (0..cnt)
    OBVIOUS
  <2> HIDE DEF S
  <2> QED
    BY <1>2, <1>3, <2>1, UpTo
<1>5. ASSUME NEW k \in 0..cnt PROVE p[k] = Smaller(k, n)
  <2>1. k \in S
    <3> HIDE DEF S
    <3> QED
      BY <1>4
  <2> QED
    BY <2>1
<1> SUFFICES ASSUME NEW k \in 1..cnt PROVE Cardinality(r[k]) \in {0, 1}
  OBVIOUS
<1>6. p[cnt] = n /\ p[k] = Smaller(k, n) /\ p[k-1] = Smaller(k - 1, n)
  <2>1. cnt \in 0..cnt /\ k \in 0..cnt /\ k - 1 \in 0..cnt
    OBVIOUS
  <2> QED
    BY <2>1, <1>5 DEF Smaller
<1>7. Dealt(p, n, cnt, InOrder(cnt), k) = {}
  <2>1. (n + 1)..n = {}
    OBVIOUS
  <2> QED
    BY <2>1, <1>6 DEF Dealt, Rest
<1>8. r[k] = Own(p, n, k)
  <2>1. r[k] = Own(p, n, k) \cup Dealt(p, n, cnt, InOrder(cnt), k)
    BY DEF HandsOut
  <2> QED
    BY <2>1, <1>7
<1> DEFINE a == Smaller(k - 1, n)
           b == Smaller(Smaller(k, n), n)
<1>9. r[k] = (a + 1)..b
  BY <1>6, <1>8 DEF Own
<1>10. a \in Nat /\ b \in Nat /\ ((a <= b /\ b - a \in {0, 1}) \/ b <= a)
  BY DEF Smaller
<1> HIDE DEF a, b
<1> QED
  BY <1>9, <1>10, IntervalSize

LEMMA Product ==
  ASSUME NEW k \in Nat, k > 0, NEW q \in Nat
  PROVE  (k - 1) * q + q = k * q /\ (k - 1) * q \in Nat /\ k * q \in Nat
  OBVIOUS

LEMMA ProductGrows ==
  ASSUME NEW j \in Nat, NEW k \in Nat, j <= k, NEW q \in Nat
  PROVE  j * q <= k * q
  OBVIOUS

\* Enough nodes: every server gets n \div cnt of them, and one of the rest at most.
LEMMA ManyNodes ==
  ASSUME NEW n \in Nat, NEW cnt \in Nat, cnt > 0, n >= cnt,
         NEW p, Sums(p, EqualCounts(n, cnt), cnt),
         NEW r, HandsOut(r, p, n, cnt, InOrder(cnt)), NEW q, q = n \div cnt
  PROVE  q \in Nat /\ \A k \in 1..cnt : Cardinality(r[k]) \in {q, q + 1}
<1> DEFINE S == {k \in 0..cnt : p[k] = k * q}
<1>0. /\ p \in [0..cnt -> Nat] /\ p[0] = 0
      /\ \A k \in 1..cnt : p[k] = p[k-1] + EqualCounts(n, cnt)[k]
  BY DEF Sums, SumsOf
<1>1. \A k \in 1..cnt : EqualCounts(n, cnt)[k] = q
  BY DEF EqualCounts
<1>2. q \in Nat /\ q * cnt <= n /\ n < q * cnt + cnt
  BY Division
<1>3. 0 \in S
  BY <1>0, <1>2
<1>4. ASSUME NEW k \in 1..cnt, k - 1 \in S PROVE k \in S
  <2>1. p[k] = p[k-1] + q /\ p[k-1] = (k - 1) * q /\ k \in 0..cnt
    BY <1>0, <1>1, <1>4
  <2>2. (k - 1) * q + q = k * q
    BY <1>2, Product
  <2>3. p[k] = k * q
    BY <2>1, <2>2
  <2> QED
    BY <2>1, <2>3
<1>5. S = 0..cnt
  <2>1. S \in SUBSET (0..cnt)
    OBVIOUS
  <2> HIDE DEF S
  <2> QED
    BY <1>3, <1>4, <2>1, UpTo
<1>6. ASSUME NEW k \in 0..cnt PROVE p[k] = k * q
  <2>1. k \in S
    <3> HIDE DEF S
    <3> QED
      BY <1>5
  <2> QED
    BY <2>1
<1> SUFFICES ASSUME NEW k \in 1..cnt PROVE Cardinality(r[k]) \in {q, q + 1}
  BY <1>2
<1> DEFINE b == k * q
           t == cnt * q
           x == t + k
<1>7. p[cnt] = t /\ p[k] = b /\ p[k-1] = (k - 1) * q
  <2>1. cnt \in 0..cnt /\ k \in 0..cnt /\ k - 1 \in 0..cnt
    OBVIOUS
  <2> QED
    BY <2>1, <1>6
<1>8. (k - 1) * q = b - q /\ b \in Nat /\ b - q \in Nat
  <2>1. (k - 1) * q + q = b /\ (k - 1) * q \in Nat /\ b \in Nat
    BY <1>2, Product
  <2> QED
    BY <2>1, <1>2
<1>9. b <= t /\ t \in Nat /\ t <= n /\ n < t + cnt
  <2>1. b <= t
    BY <1>2, ProductGrows
  <2>2. t = q * cnt /\ t \in Nat
    BY <1>2
  <2> QED
    BY <2>1, <2>2, <1>2
<1> HIDE DEF b, t
<1>10. Own(p, n, k) = ((b - q) + 1)..b
  BY <1>7, <1>8, <1>9 DEF Own, Smaller
<1>11. Dealt(p, n, cnt, InOrder(cnt), k) \subseteq {x}
  <2> SUFFICES ASSUME NEW node \in Dealt(p, n, cnt, InOrder(cnt), k) PROVE node = x
    OBVIOUS
  <2> DEFINE d == node - t - 1
  <2>1. node \in (t + 1)..n /\ InOrder(cnt)[(d % cnt) + 1] = k
    BY <1>7 DEF Dealt, Rest, Dealer
  <2>2. d \in Nat /\ d < cnt /\ node = t + d + 1
    BY <2>1, <1>9
  <2> HIDE DEF d
  <2>3. d % cnt = d
    BY <2>2
  <2>4. d + 1 \in 1..cnt
    BY <2>2
  <2>5. InOrder(cnt)[d + 1] = d + 1
    BY <2>4 DEF InOrder
  <2>6. InOrder(cnt)[(d % cnt) + 1] = InOrder(cnt)[d + 1]
    BY <2>3
  <2>7. k = d + 1
    BY <2>1, <2>5, <2>6
  <2> QED
    BY <2>2, <2>7, <1>9
<1> DEFINE O == ((b - q) + 1)..b
<1>12. IsFiniteSet(O) /\ Cardinality(O) = q
  <2> DEFINE a == b - q
  <2>1. a \in Nat /\ a <= b /\ b - a = q
    BY <1>2, <1>8
  <2> HIDE DEF a
  <2>2. IsFiniteSet((a + 1)..b) /\ Cardinality((a + 1)..b) = q
    BY <1>8, <2>1, IntervalSize
  <2> QED
    BY <2>2 DEF a
<1>13. x \notin O
  BY <1>8, <1>9
<1>14. r[k] = O \/ r[k] = O \cup {x}
  <2>1. r[k] = Own(p, n, k) \cup Dealt(p, n, cnt, InOrder(cnt), k)
    BY DEF HandsOut
  <2> HIDE DEF x
  <2> QED
    BY <2>1, <1>10, <1>11
<1>15. Cardinality(O \cup {x}) = q + 1
  <2> HIDE DEF x, O
  <2> QED
    BY <1>12, <1>13, FS_AddElement
<1> QED
  BY <1>12, <1>14, <1>15

\* Loads differ by one node at most.
Even(r, cnt) == \A j, k \in 1..cnt : Cardinality(r[j]) <= Cardinality(r[k]) + 1

LEMMA EqualIsEven ==
  ASSUME NEW i, InputOK(i)
  PROVE  Even(NDSEqual(i), i.cnt_servers)
<1> DEFINE n == i.cnt_nodes
           cnt == i.cnt_servers
           r == NDSEqual(i)
<1>1. n \in Nat /\ cnt \in Nat /\ cnt > 0
  BY DEF InputOK
<1>2. PICK p : Sums(p, EqualCounts(n, cnt), cnt) /\ HandsOut(r, p, n, cnt, InOrder(cnt))
  BY EqualHandsOut
<1> HIDE DEF n, cnt, r
<1>3. \E q \in Nat : \A k \in 1..cnt : Cardinality(r[k]) \in {q, q + 1}
  <2>1. CASE n < cnt
    <3>1. \A k \in 1..cnt : Cardinality(r[k]) \in {0, 0 + 1}
      BY <1>1, <1>2, <2>1, FewNodes
    <3> QED
      BY <3>1
  <2>2. CASE n >= cnt
    <3> DEFINE q == n \div cnt
    <3>1. q \in Nat /\ \A k \in 1..cnt : Cardinality(r[k]) \in {q, q + 1}
      BY <1>1, <1>2, <2>2, ManyNodes
    <3> HIDE DEF q
    <3> QED
      BY <3>1
  <2> QED
    BY <1>1, <2>1, <2>2
<1>4. PICK q \in Nat : \A k \in 1..cnt : Cardinality(r[k]) \in {q, q + 1}
  BY <1>3
<1>5. ASSUME NEW j \in 1..cnt, NEW k \in 1..cnt
      PROVE  Cardinality(r[j]) <= Cardinality(r[k]) + 1
  <2>1. Cardinality(r[j]) \in {q, q + 1} /\ Cardinality(r[k]) \in {q, q + 1}
    BY <1>4
  <2> QED
    BY <2>1
<1> QED
  BY <1>5 DEF Even, cnt, r

\* If every share fits, all nodes are handed out with the shares.
LEMMA SharesCover ==
  ASSUME NEW i, InputOK(i), NEW p, Sums(p, ScoreCounts(i), i.cnt_servers),
         \A k \in 1..i.cnt_servers : ScoreCounts(i)[k] = Share(i, k)
  PROVE  i.cnt_nodes <= p[i.cnt_servers]
<1> DEFINE n == i.cnt_nodes
           cnt == i.cnt_servers
           cpu == i.cpu
           W == Sum(cpu)
<1>1. n \in Nat /\ cnt \in Nat /\ cnt > 0 /\ cpu \in [1..cnt -> Nat \ {0}]
  BY DEF InputOK
<1>2. \A k \in 1..cnt : Share(i, k) \in Nat /\ cpu[k] * n <= Share(i, k) * W
  BY ShareBounds
<1>3. p \in [0..cnt -> Nat] /\ p[0] = 0 /\ \A k \in 1..cnt : p[k] = p[k-1] + Share(i, k)
  BY DEF Sums, SumsOf
<1> HIDE DEF n, cnt, cpu
<1>4. PICK c : /\ Sums(c, cpu, cnt) /\ W = c[cnt] /\ W \in Nat
               /\ \A k \in 1..cnt : cpu[k] \in Nat /\ W > 0
  BY <1>1, SumOfScores
<1>5. c \in [0..cnt -> Nat] /\ c[0] = 0 /\ \A k \in 1..cnt : c[k] = c[k-1] + cpu[k]
  BY <1>4 DEF Sums, SumsOf
<1>6. W > 0
  <2>1. 1 \in 1..cnt
    BY <1>1
  <2> QED
    BY <1>4, <2>1
<1> HIDE DEF W
<1> DEFINE S == {k \in 0..cnt : c[k] * n <= p[k] * W}
<1>7. 0 \in S
  BY <1>1, <1>3, <1>4, <1>5
<1>8. ASSUME NEW k \in 1..cnt, k - 1 \in S PROVE k \in S
  <2>1. /\ c[k] = c[k-1] + cpu[k] /\ p[k] = p[k-1] + Share(i, k)
        /\ cpu[k] * n <= Share(i, k) * W /\ c[k-1] * n <= p[k-1] * W
    BY <1>2, <1>3, <1>5, <1>8
  <2>2. k \in 0..cnt /\ k - 1 \in 0..cnt
    BY <1>1
  <2>3. c[k-1] \in Nat /\ p[k-1] \in Nat /\ cpu[k] \in Nat /\ Share(i, k) \in Nat
    BY <1>2, <1>3, <1>4, <1>5, <2>2
  <2>4. \A a, b, d, e, u, v \in Nat :
          a * u <= b * v /\ d * u <= e * v => (a + d) * u <= (b + e) * v
    <3> SUFFICES ASSUME NEW a \in Nat, NEW b \in Nat, NEW d \in Nat, NEW e \in Nat,
                        NEW u \in Nat, NEW v \in Nat, a * u <= b * v, d * u <= e * v
                 PROVE  (a + d) * u <= (b + e) * v
      OBVIOUS
    <3>1. (a + d) * u = a * u + d * u /\ (b + e) * v = b * v + e * v
      OBVIOUS
    <3>2. a * u \in Nat /\ d * u \in Nat /\ b * v \in Nat /\ e * v \in Nat
      OBVIOUS
    <3> QED
      BY <3>1, <3>2
  <2>5. (c[k-1] + cpu[k]) * n <= (p[k-1] + Share(i, k)) * W
    BY <1>1, <1>4, <2>1, <2>3, <2>4
  <2>6. c[k] * n <= p[k] * W
    BY <2>1, <2>5
  <2> QED
    BY <2>2, <2>6
<1>9. S = 0..cnt
  <2>1. S \in SUBSET (0..cnt)
    OBVIOUS
  <2> HIDE DEF S
  <2> QED
    BY <1>1, <1>7, <1>8, <2>1, UpTo
<1>10. cnt \in S
  <2>1. cnt \in 0..cnt
    BY <1>1
  <2> HIDE DEF S
  <2> QED
    BY <1>9, <2>1
<1>11. W * n <= p[cnt] * W /\ p[cnt] \in Nat
  BY <1>1, <1>3, <1>4, <1>10
<1>12. n <= p[cnt]
  <2> SUFFICES ASSUME p[cnt] + 1 <= n PROVE FALSE
    BY <1>1, <1>11
  <2>1. (p[cnt] + 1) * W <= n * W
    BY <1>1, <1>4, <1>11, ProductGrows
  <2>2. (p[cnt] + 1) * W = p[cnt] * W + W /\ n * W = W * n /\ W * n \in Nat /\ p[cnt] * W \in Nat
    BY <1>1, <1>4, <1>11
  <2> QED
    BY <2>1, <2>2, <1>4, <1>6, <1>11
<1> QED
  BY <1>12 DEF n, cnt

\* With enough memory no server gets more than its share of the nodes, rounded up.
LEMMA ScoreKeepsShares ==
  ASSUME NEW i, InputOK(i),
         \A k \in 1..i.cnt_servers : Fitting(i, k) >= i.cnt_nodes + 1,
         NEW k \in 1..i.cnt_servers
  PROVE  Cardinality(NDSScore(i)[k]) * Sum(i.cpu)
           < i.cpu[k] * i.cnt_nodes + 2 * Sum(i.cpu)
<1> DEFINE n == i.cnt_nodes
           cnt == i.cnt_servers
           r == NDSScore(i)
           c == ScoreCounts(i)
           W == Sum(i.cpu)
           sh == Share(i, k)
<1>1. n \in Nat /\ cnt \in Nat
  BY DEF InputOK
<1>2. PICK p : Sums(p, c, cnt) /\ HandsOut(r, p, n, cnt, i.ranking)
  BY ScoreHandsOut
<1>3. ASSUME NEW j \in 1..cnt PROVE c[j] = Share(i, j)
  <2>1. Share(i, j) \in Nat /\ Share(i, j) <= n + 1 /\ Fitting(i, j) \in Nat
        /\ Fitting(i, j) >= n + 1
    BY ShareBounds, FittingType
  <2>2. c[j] = Smaller(Share(i, j), Fitting(i, j))
    BY DEF ScoreCounts
  <2> HIDE DEF c, n
  <2> QED
    BY <1>1, <2>1, <2>2 DEF Smaller
<1>4. n <= p[cnt]
  BY <1>2, <1>3, SharesCover
<1>5. sh \in Nat /\ W \in Nat /\ sh * W < i.cpu[k] * n + 2 * W
  BY ShareBounds
<1>6. p \in [0..cnt -> Nat] /\ p[k] = p[k-1] + sh
  <2>1. p \in [0..cnt -> Nat] /\ p[k] = p[k-1] + c[k]
    BY <1>2 DEF Sums, SumsOf
  <2> QED
    BY <2>1, <1>3
<1>7. r[k] = Own(p, n, k) \cup Dealt(p, n, cnt, i.ranking, k)
  BY <1>2 DEF HandsOut
<1>a. i.cpu[k] \in Nat
  BY DEF InputOK
<1> HIDE DEF n, cnt, r, c, W, sh
<1>8. p[k-1] \in Nat /\ p[k] \in Nat /\ p[cnt] \in Nat
  <2>1. k \in 0..cnt /\ k - 1 \in 0..cnt /\ cnt \in 0..cnt
    BY <1>1 DEF cnt
  <2> QED
    BY <1>6, <2>1
<1>9. r[k] = Own(p, n, k)
  <2>1. (p[cnt] + 1)..n = {}
    BY <1>1, <1>4, <1>8
  <2>2. Dealt(p, n, cnt, i.ranking, k) = {}
    BY <2>1 DEF Dealt, Rest
  <2> QED
    BY <1>7, <2>2
<1>10. Cardinality(r[k]) \in Nat /\ Cardinality(r[k]) <= sh
  <2> DEFINE b == Smaller(p[k], n)
             a == p[k-1]
  <2>1. r[k] = (a + 1)..b
    BY <1>9 DEF Own
  <2>2. a \in Nat /\ b \in Nat /\ b <= a + sh
    <3>1. p[k] = a + sh /\ a \in Nat /\ p[k] \in Nat
      BY <1>6, <1>8
    <3>2. b \in Nat /\ b <= p[k]
      BY <1>1, <1>8 DEF Smaller
    <3> QED
      BY <3>1, <3>2
  <2> HIDE DEF a, b
  <2>3. Cardinality((a + 1)..b) \in Nat /\ Cardinality((a + 1)..b) <= sh
    BY <2>2, <1>5, IntervalSize
  <2> QED
    BY <2>1, <2>3
<1>11. Cardinality(r[k]) * W <= sh * W
  BY <1>5, <1>10, ProductGrows
<1>12. Cardinality(r[k]) * W \in Nat /\ sh * W \in Nat /\ i.cpu[k] * n \in Nat
  BY <1>1, <1>5, <1>10, <1>a
<1>13. Cardinality(r[k]) * W < i.cpu[k] * n + 2 * W
  BY <1>5, <1>11, <1>12
<1> QED
  BY <1>13 DEF n, r, W
-----------------------------------------------------------------------------
(***************************************************************************)
(* The configs.                                                            *)
(***************************************************************************)

\* Two conversions to JSON and json2dict give the dict back.
LEMMA JsonRoundTrip ==
  ASSUME NEW d, d = [x \in DOMAIN d |-> d[x]]
  PROVE  Json2Dict(Json(d)) = d
<1> DEFINE j == Json(d)
<1>1. \A x, y : JsonKey(x) = JsonKey(y) => x = y
  BY DEF JsonKey
<1>2. \A x : JsonKey(x)[2] = x
  BY DEF JsonKey
<1>3. DOMAIN j = {JsonKey(x) : x \in DOMAIN d} /\ \A x \in DOMAIN d : j[JsonKey(x)] = d[x]
  <2>1. j = [k \in {JsonKey(x) : x \in DOMAIN d} |-> d[k[2]]]
    BY DEF Json
  <2> QED
    BY <1>2, <2>1
<1> HIDE DEF j
<1>4. {k[2] : k \in DOMAIN j} = DOMAIN d
  <2>1. \A y \in DOMAIN d : JsonKey(y) \in DOMAIN j /\ y = JsonKey(y)[2]
    BY <1>2, <1>3
  <2>2. \A k \in DOMAIN j : k[2] \in DOMAIN d
    BY <1>2, <1>3
  <2> QED
    BY <2>1, <2>2
<1>5. Json2Dict(j) = [x \in DOMAIN d |-> j[JsonKey(x)]]
  BY <1>4 DEF Json2Dict
<1>6. [x \in DOMAIN d |-> j[JsonKey(x)]] = [x \in DOMAIN d |-> d[x]]
  BY <1>3
<1> QED
  BY <1>5, <1>6 DEF j

\* What the servers are told: each its own part of the mapping.
Parts(map) == [s \in Servers |-> LocalNodes(map, s)]

\* What a server reads from its config.
LEMMA ConfigRead ==
  ASSUME NEW map \in [Nodes -> Servers], NEW s \in Servers, NEW c,
         c = ServerConfig(Parts(map), Endpoints, s)
  PROVE  /\ LocalNodeIds(c) = LocalNodes(map, s)
         /\ \A t \in Servers : TunnelEndpoint(c, t) = Ip(t)
         /\ \A x \in Nodes : ServerForNode(c, x) = map[x]
<1>1. Json2Dict(Json(Parts(map))) = Parts(map)
  <2>1. Parts(map) = [t \in DOMAIN Parts(map) |-> Parts(map)[t]]
    BY DEF Parts
  <2> QED
    BY <2>1, JsonRoundTrip
<1>2. Json2Dict(Json(Endpoints)) = Endpoints
  <2>1. Endpoints = [t \in DOMAIN Endpoints |-> Endpoints[t]]
    BY DEF Endpoints
  <2> QED
    BY <2>1, JsonRoundTrip
<1>3. /\ c.server_node_mapping = Json(Parts(map))
      /\ c.tunnel_endpoints = Json(Endpoints)
      /\ c.server_id = s
  BY DEF ServerConfig
<1>4. LocalNodeIds(c) = LocalNodes(map, s)
  BY <1>1, <1>3 DEF LocalNodeIds, Parts
<1>5. \A t \in Servers : TunnelEndpoint(c, t) = Ip(t)
  BY <1>2, <1>3 DEF TunnelEndpoint, Endpoints
<1>6. ASSUME NEW x \in Nodes PROVE ServerForNode(c, x) = map[x]
  <2>1. ServerForNode(c, x) = CHOOSE t \in Servers : x \in Parts(map)[t]
    BY <1>1, <1>3 DEF ServerForNode, Parts
  <2>2. \A t \in Servers : x \in Parts(map)[t] <=> t = map[x]
    BY DEF Parts, LocalNodes
  <2>3. map[x] \in Servers
    OBVIOUS
  <2> QED
    BY <2>1, <2>2, <2>3
<1> QED
  BY <1>4, <1>5, <1>6

\* The tunnel a server opens for the link between one of its nodes and another's.
LEMMA TunnelRead ==
  ASSUME NEW map \in [Nodes -> Servers], NEW s \in Servers, NEW c,
         c = ServerConfig(Parts(map), Endpoints, s), NEW p \in Pairs
  PROVE  /\ TunnelFor(c, p).name = p
         /\ TunnelFor(c, p).key = SzudzikPairing(p[1], p[2])
         /\ map[p[1]] = s => TunnelFor(c, p).remote = Ip(map[p[2]])
         /\ map[p[1]] # s => TunnelFor(c, p).remote = Ip(map[p[1]])
         /\ map[p[1]] # map[p[2]] /\ s \in {map[p[1]], map[p[2]]} => AmongServers(c, p)
<1>1. p[1] \in Nodes /\ p[2] \in Nodes
  BY DEF Pairs
<1>2. /\ LocalNodeIds(c) = LocalNodes(map, s)
      /\ \A t \in Servers : TunnelEndpoint(c, t) = Ip(t)
      /\ \A x \in Nodes : ServerForNode(c, x) = map[x]
  BY ConfigRead
<1>3. \A x \in Nodes : x \in LocalNodeIds(c) <=> map[x] = s
  BY <1>2 DEF LocalNodes
<1>4. TunnelFor(c, p).name = p /\ TunnelFor(c, p).key = SzudzikPairing(p[1], p[2])
      /\ TunnelFor(c, p).remote = RemoteIp(c, p)
  BY DEF TunnelFor
<1>5. \A x \in Nodes : TunnelEndpoint(c, ServerForNode(c, x)) = Ip(map[x])
  <2> SUFFICES ASSUME NEW x \in Nodes
               PROVE  TunnelEndpoint(c, ServerForNode(c, x)) = Ip(map[x])
    OBVIOUS
  <2>1. ServerForNode(c, x) = map[x] /\ map[x] \in Servers
    BY <1>2
  <2> QED
    BY <1>2, <2>1
<1>6. RemoteIp(c, p) = IF map[p[1]] = s THEN Ip(map[p[2]]) ELSE Ip(map[p[1]])
  BY <1>1, <1>3, <1>5 DEF RemoteIp
<1>7. map[p[1]] # map[p[2]] /\ s \in {map[p[1]], map[p[2]]} => AmongServers(c, p)
  BY <1>1, <1>3 DEF AmongServers
<1> QED
  BY <1>4, <1>6, <1>7

\* get_tunnel_id: different pairs of nodes have different keys.
LEMMA KeysDiffer ==
  ASSUME NEW p \in Pairs, NEW q \in Pairs,
         SzudzikPairing(p[1], p[2]) = SzudzikPairing(q[1], q[2])
  PROVE  p = q
<1>1. PICK a \in Nodes, b \in Nodes : p = <<a, b>> /\ a < b
  BY DEF Pairs
<1>2. PICK c \in Nodes, d \in Nodes : q = <<c, d>> /\ c < d
  BY DEF Pairs
<1>3. a \in Nat /\ b \in Nat /\ c \in Nat /\ d \in Nat
  BY MatrixAssumption DEF MatrixAssumption
<1>4. a + b * b = c + d * d
  BY <1>1, <1>2, <1>3 DEF SzudzikPairing
<1>5. ASSUME NEW v \in Nat, NEW w \in Nat, NEW x \in Nat, NEW y \in Nat,
             v < w, w < y, v + w * w = x + y * y
      PROVE  FALSE
  <2>1. (w + 1) * w <= y * w
    BY <1>5, ProductGrows
  <2>2. w * y <= y * y
    BY <1>5, ProductGrows
  <2>3. (w + 1) * w = w * w + w /\ w * y = y * w /\ y * w \in Nat /\ w * w \in Nat /\ y * y \in Nat
    OBVIOUS
  <2> QED
    BY <2>1, <2>2, <2>3, <1>5
<1>6. b = d
  BY <1>1, <1>2, <1>3, <1>4, <1>5
<1>7. a = c
  <2>1. b * b = d * d /\ b * b \in Nat
    BY <1>3, <1>6
  <2> QED
    BY <1>3, <1>4, <2>1
<1> QED
  BY <1>1, <1>2, <1>6, <1>7
-----------------------------------------------------------------------------
(***************************************************************************)
(* The inductive invariant of a scenario.                                  *)
(***************************************************************************)

\* The distribution is the strategies' answer to a proper call.
DistributionInv ==
  /\ input # NoInput => InputOK(input)
  /\ res # NotDistributed =>
       /\ input # NoInput
       /\ res = IF input.strategy = "equal" THEN NDSEqual(input) ELSE NDSScore(input)

\* Before the configs are created nothing is mapped, sent or opened.
Fresh ==
  /\ mapping = NoMapping
  /\ configs = NoConfigs
  /\ MatrixInit
  /\ tunnels = [s \in Servers |-> {}]

\* The config of a server is the one for the coordinator's mapping.
ConfigInv == configs = [s \in Servers |-> ServerConfig(Parts(mapping), Endpoints, s)]

\* A server has tunnels for pairs of nodes only, and once it has stepped, one for every
\* link of the matrix that leads from its nodes to another server.
TunnelInv ==
  /\ tunnels = [s \in Servers |-> tunnels[s]]
  /\ \A s \in Servers : \A a \in tunnels[s] : \E p \in Pairs : a = TunnelFor(configs[s], p)
  /\ \A s \in Servers \ pending : \A p \in CrossLinks :
       Touches(p, s) => TunnelFor(configs[s], p) \in tunnels[s]

\* The lists are dropped with the creation of the configs, so it is not repeated.
Running == input = NoInput /\ WireInv /\ ConfigInv /\ TunnelInv

ScenarioInv == DistributionInv /\ (Fresh \/ Running)

\* The parts of a distribution are the servers' nodes under the mapping made from it.
MappingOf(r) == [x \in Nodes |-> CHOOSE s \in Servers : x \in r[s]]

LEMMA MappingParts ==
  ASSUME NEW r, NEW n, NEW cnt, Placed(r, n, cnt), DOMAIN r = Servers, 1..n = Nodes
  PROVE  MappingOf(r) \in [Nodes -> Servers] /\ r = Parts(MappingOf(r))
<1> DEFINE map == MappingOf(r)
<1>1. /\ r = [s \in Servers |-> r[s]]
      /\ \A s \in Servers : r[s] \subseteq Nodes
      /\ \A x \in Nodes : \E s \in Servers : x \in r[s]
      /\ \A s, t \in Servers : s # t => r[s] \cap r[t] = {}
  BY DEF Placed
<1>2. \A x \in Nodes : map[x] \in Servers /\ x \in r[map[x]]
  BY <1>1 DEF MappingOf
<1>3. map \in [Nodes -> Servers] /\ DOMAIN map = Nodes
  BY <1>2 DEF MappingOf
<1> HIDE DEF map
<1>4. ASSUME NEW s \in Servers PROVE r[s] = LocalNodes(map, s)
  <2>1. ASSUME NEW x \in Nodes PROVE x \in r[s] <=> map[x] = s
    <3>1. map[x] \in Servers /\ x \in r[map[x]]
      BY <1>2
    <3>2. s # map[x] => r[s] \cap r[map[x]] = {}
      BY <1>1, <3>1, Zenon
    <3> QED
      BY <3>1, <3>2, Zenon
  <2> QED
    BY <1>1, <1>3, <2>1 DEF LocalNodes
<1>5. [s \in Servers |-> r[s]] = Parts(map)
  BY <1>4 DEF Parts
<1> QED
  BY <1>1, <1>3, <1>5 DEF map

LEMMA ExchangeStep ==
  ASSUME ScenarioInv, Exchange
  PROVE  ScenarioInv'
<1>1. /\ input # NoInput /\ input' = input
      /\ res' = IF input.strategy = "equal" THEN NDSEqual(input) ELSE NDSScore(input)
  BY DEF Exchange, DistributeEmulationNodes
<1>2. UNCHANGED <<mode, mapping, distance_matrix, pending, wire, local, dead, configs, tunnels>>
  BY DEF Exchange, vars
<1>3. DistributionInv'
  BY <1>1 DEF ScenarioInv, DistributionInv
<1>4. Fresh
  BY <1>1 DEF ScenarioInv, Running
<1>5. Fresh'
  BY <1>2, <1>4 DEF Fresh, MatrixInit
<1> QED
  BY <1>3, <1>5 DEF ScenarioInv

\* No server has stepped with anything yet when its config is created.
LEMMA FreshWire ==
  ASSUME MatrixInit, NEW map \in [Nodes -> Servers], mapping' = map,
         UNCHANGED <<mode, distance_matrix, pending, wire, local, dead>>
  PROVE  WireInv'
<1>1. Empty \in Matrices /\ \A s \in Servers : Part(map, Empty, s) = Empty
  BY EmptyIsMatrix
<1>2. /\ distance_matrix' = Empty /\ local' = [s \in Servers |-> Empty]
      /\ wire' = [s \in Servers |-> Transform(Empty)]
  BY DEF MatrixInit
<1>3. \A s \in Servers : Sent(s)' = Empty
  BY <1>1, <1>2 DEF Sent
<1> QED
  BY <1>1, <1>2, <1>3 DEF WireInv

LEMMA CreateStep ==
  ASSUME ScenarioInv, CreateScenarioConfigs
  PROVE  ScenarioInv'
<1> DEFINE map == MappingOf(res)
<1>1. /\ Done /\ DOMAIN res = Servers /\ 1..input.cnt_nodes = Nodes
      /\ mapping' = map
      /\ configs' = [s \in Servers |-> ServerConfig(res, Endpoints, s)]
      /\ input' = NoInput /\ res' = NotDistributed
      /\ UNCHANGED <<mode, distance_matrix, pending, wire, local, dead, tunnels>>
  BY DEF CreateScenarioConfigs, ScenarioConfigs, MappingOf
<1>2. InputOK(input) /\ res \in {NDSEqual(input), NDSScore(input)} /\ input # NoInput
  BY <1>1 DEF ScenarioInv, DistributionInv, Done
<1>3. Placed(res, input.cnt_nodes, input.cnt_servers)
  BY <1>2, StrategiesPlace
<1>4. Fresh
  BY <1>2 DEF ScenarioInv, Running
<1>5. map \in [Nodes -> Servers] /\ res = Parts(map)
  <2>1. DOMAIN res = Servers /\ 1..input.cnt_nodes = Nodes
    BY <1>1
  <2> QED
    BY <2>1, <1>3, MappingParts
<1> HIDE DEF map
<1>6. WireInv'
  BY <1>1, <1>4, <1>5, FreshWire DEF Fresh
<1>7. ConfigInv'
  BY <1>1, <1>5 DEF ConfigInv, Parts, Endpoints
<1>8. TunnelInv'
  <2>1. tunnels' = [s \in Servers |-> {}] /\ distance_matrix' = Empty
    BY <1>1, <1>4 DEF Fresh, MatrixInit
  <2>2. CrossLinks' = {}
    BY <2>1 DEF CrossLinks, Empty
  <2> QED
    BY <2>1, <2>2 DEF TunnelInv
<1>9. DistributionInv'
  BY <1>1 DEF DistributionInv
<1> QED
  BY <1>1, <1>6, <1>7, <1>8, <1>9 DEF ScenarioInv, Running

\* A server that steps with its part of the matrix opens the tunnels that are missing.
LEMMA OpensMissing ==
  ASSUME WireInv, ConfigInv, NEW s \in Servers
  PROVE  /\ \A a \in OpenTunnels(s) : \E p \in Pairs : a = TunnelFor(configs[s], p)
         /\ \A p \in CrossLinks : Touches(p, s) => TunnelFor(configs[s], p) \in OpenTunnels(s)
<1> DEFINE P == {q \in DOMAIN Received(s) : Received(s)[q] \in Linked /\ AmongServers(configs[s], q)}
<1>1. mapping \in [Nodes -> Servers] /\ distance_matrix \in Matrices
  BY DEF WireInv
<1>2. DOMAIN distance_matrix \subseteq Pairs
  BY <1>1, MatrixShape
<1>3. Received(s) = Part(mapping, distance_matrix, s)
  BY ReceivedPart
<1>4. /\ DOMAIN Received(s) = {p \in DOMAIN distance_matrix : s \in {mapping[p[1]], mapping[p[2]]}}
      /\ \A p \in DOMAIN Received(s) : Received(s)[p] = distance_matrix[p]
  BY <1>3 DEF Part, Restricted
<1>5. OpenTunnels(s) = {TunnelFor(configs[s], p) : p \in P}
  BY DEF OpenTunnels
<1>6. P \subseteq Pairs
  BY <1>2, <1>4
<1>7. ASSUME NEW p \in CrossLinks, Touches(p, s) PROVE p \in P
  <2>1. /\ p \in DOMAIN distance_matrix /\ distance_matrix[p] \in Linked
        /\ mapping[p[1]] # mapping[p[2]] /\ s \in {mapping[p[1]], mapping[p[2]]}
    BY <1>7 DEF CrossLinks, Touches
  <2>2. p \in Pairs
    BY <1>2, <2>1
  <2>3. configs[s] = ServerConfig(Parts(mapping), Endpoints, s)
    BY DEF ConfigInv
  <2>4. AmongServers(configs[s], p)
    BY <1>1, <2>1, <2>2, <2>3, TunnelRead
  <2> QED
    BY <1>4, <2>1, <2>4
<1> HIDE DEF P
<1> QED
  BY <1>5, <1>6, <1>7

LEMMA SimulateStep ==
  ASSUME ScenarioInv, Simulate
  PROVE  ScenarioInv'
<1>1. mapping # NoMapping /\ UNCHANGED <<input, res, configs>>
  BY DEF Simulate, distributionVars
<1>2. Running
  BY <1>1 DEF ScenarioInv, Fresh
<1>3. WireInv /\ ConfigInv /\ TunnelInv /\ input = NoInput
  BY <1>2 DEF Running
<1>4. DistributionInv'
  BY <1>1 DEF ScenarioInv, DistributionInv
<1>5. Next
  BY DEF Simulate, Next
<1>6. WireInv'
  BY <1>3, <1>5, WireStep
<1>7. mapping' = mapping
  BY <1>5 DEF Next, Distribute, RecvDistanceMatrix, RecvNothing
<1>8. ConfigInv'
  BY <1>1, <1>3, <1>7 DEF ConfigInv, Parts, LocalNodes, Endpoints
<1>9. TunnelInv'
  <2>1. ASSUME NEW m \in Matrices, Distribute(m), UNCHANGED tunnels PROVE TunnelInv'
    <3>1. pending' = Servers
      BY <2>1 DEF Distribute
    <3> QED
      BY <2>1, <3>1, <1>1, <1>3 DEF TunnelInv
  <2>2. ASSUME NEW s \in Servers, RecvDistanceMatrix(s),
               tunnels' = [tunnels EXCEPT ![s] = @ \cup OpenTunnels(s)]
        PROVE  TunnelInv'
    <3>1. UNCHANGED <<mapping, distance_matrix>> /\ pending' = pending \ {s}
      BY <2>2 DEF RecvDistanceMatrix
    <3>2. CrossLinks' = CrossLinks /\ \A p \in CrossLinks, r \in Servers : Touches(p, r)' = Touches(p, r)
      BY <3>1 DEF CrossLinks, Touches
    <3>3. /\ tunnels' = [r \in Servers |-> tunnels'[r]]
          /\ tunnels'[s] = tunnels[s] \cup OpenTunnels(s)
          /\ \A r \in Servers \ {s} : tunnels'[r] = tunnels[r]
      BY <2>2, <1>3 DEF TunnelInv
    <3>4. /\ \A a \in OpenTunnels(s) : \E p \in Pairs : a = TunnelFor(configs[s], p)
          /\ \A p \in CrossLinks : Touches(p, s) => TunnelFor(configs[s], p) \in OpenTunnels(s)
      BY <1>3, OpensMissing
    <3>5. ASSUME NEW r \in Servers, NEW a \in tunnels'[r]
          PROVE  \E p \in Pairs : a = TunnelFor(configs'[r], p)
      BY <3>3, <3>4, <3>5, <1>1, <1>3 DEF TunnelInv
    <3>6. ASSUME NEW r \in Servers \ pending', NEW p \in CrossLinks, Touches(p, r)
          PROVE  TunnelFor(configs'[r], p) \in tunnels'[r]
      <4>1. CASE r = s
        BY <4>1, <3>3, <3>4, <3>6, <1>1
      <4>2. CASE r # s
        BY <4>2, <3>1, <3>3, <3>6, <1>1, <1>3 DEF TunnelInv
      <4> QED
        BY <4>1, <4>2
    <3> QED
      BY <3>2, <3>3, <3>5, <3>6 DEF TunnelInv
  <2>3. ASSUME NEW s \in Servers, RecvNothing(s), UNCHANGED tunnels PROVE TunnelInv'
    <3>1. UNCHANGED <<mapping, distance_matrix, pending>>
      BY <2>3 DEF RecvNothing
    <3> QED
      BY <2>3, <3>1, <1>1, <1>3 DEF TunnelInv, CrossLinks, Touches
  <2> QED
    BY <2>1, <2>2, <2>3 DEF Simulate
<1> QED
  BY <1>1, <1>3, <1>4, <1>6, <1>8, <1>9 DEF ScenarioInv, Running

\* The inductive invariant of a scenario holds, for any scores, nodes and matrices.
THEOREM ScenarioInvariant == ScenarioSpec => []ScenarioInv
<1>1. ScenarioInit => ScenarioInv
  <2> SUFFICES ASSUME ScenarioInit PROVE ScenarioInv
    OBVIOUS
  <2>1. Fresh
    BY DEF ScenarioInit, Fresh
  <2>2. InputOK(input) /\ res = NotDistributed
    BY InputsOK DEF ScenarioInit, ScoresKnown
  <2> QED
    BY <2>1, <2>2 DEF ScenarioInv, DistributionInv
<1>2. ScenarioInv /\ [ScenarioNext]_scenarioVars => ScenarioInv'
  <2> SUFFICES ASSUME ScenarioInv, [ScenarioNext]_scenarioVars PROVE ScenarioInv'
    OBVIOUS
  <2>1. CASE UNCHANGED scenarioVars
    <3>1. UNCHANGED <<mode, mapping, distance_matrix, pending, wire, local, dead,
                      input, res, configs, tunnels>>
      BY <2>1 DEF scenarioVars, vars, distributionVars
    <3>2. DistributionInv'
      BY <3>1 DEF ScenarioInv, DistributionInv
    <3>3. Fresh => Fresh'
      BY <3>1 DEF Fresh, MatrixInit
    <3>4. Running => Running'
      BY <3>1 DEF Running, WireInv, Sent, ConfigInv, TunnelInv, CrossLinks, Touches
    <3> QED
      BY <3>2, <3>3, <3>4 DEF ScenarioInv
  <2> QED
    BY <2>1, ExchangeStep, CreateStep, SimulateStep DEF ScenarioNext
<1> QED
  BY <1>1, <1>2, PTL DEF ScenarioSpec
-----------------------------------------------------------------------------
(***************************************************************************)
(* What follows for every scenario.                                        *)
(***************************************************************************)

\* Every node is placed on exactly one server and none is invented, by both strategies and
\* for any number of nodes and servers, any scores and any rounding of the shares
\* (apply_distribution_strategy).
THEOREM NodesArePlacedOnce == ScenarioSpec => []NodesPlacedOnce
<1>1. ScenarioInv => NodesPlacedOnce
  <2> SUFFICES ASSUME ScenarioInv, Done
               PROVE  /\ UNION {res[k] : k \in DOMAIN res} = 1..input.cnt_nodes
                      /\ \A j, k \in DOMAIN res : j # k => res[j] \cap res[k] = {}
                      /\ DOMAIN res = 1..input.cnt_servers
    BY DEF NodesPlacedOnce
  <2> DEFINE n == input.cnt_nodes
             cnt == input.cnt_servers
  <2>1. InputOK(input) /\ res \in {NDSEqual(input), NDSScore(input)}
    BY DEF ScenarioInv, DistributionInv, Done
  <2>2. Placed(res, n, cnt)
    BY <2>1, StrategiesPlace
  <2> HIDE DEF n, cnt
  <2>3. /\ DOMAIN res = 1..cnt
        /\ \A k \in DOMAIN res : res[k] \subseteq 1..n
        /\ \A x \in 1..n : \E k \in DOMAIN res : x \in res[k]
        /\ \A j, k \in DOMAIN res : j # k => res[j] \cap res[k] = {}
    BY <2>2 DEF Placed
  <2>4. UNION {res[k] : k \in DOMAIN res} = 1..n
    <3>1. \A x \in 1..n : x \in UNION {res[k] : k \in DOMAIN res}
      BY <2>3
    <3>2. \A x \in UNION {res[k] : k \in DOMAIN res} : x \in 1..n
      BY <2>3
    <3> QED
      BY <3>1, <3>2
  <2> QED
    BY <2>3, <2>4 DEF n, cnt
<1> QED
  BY <1>1, ScenarioInvariant, PTL

\* The loads of the strategy "equal" differ by one node at most, and with enough memory the
\* other one gives no server more than its cpu share, rounded up.
THEOREM SharesAreKept == ScenarioSpec => []SharesKept
<1>1. ScenarioInv => SharesKept
  <2> SUFFICES ASSUME ScenarioInv PROVE SharesKept
    OBVIOUS
  <2>1. ASSUME Done
        PROVE  /\ InputOK(input) /\ DOMAIN res = 1..input.cnt_servers
               /\ input.strategy = "equal" => res = NDSEqual(input)
               /\ input.strategy = "score" => res = NDSScore(input)
    <3>1. /\ InputOK(input)
          /\ res = IF input.strategy = "equal" THEN NDSEqual(input) ELSE NDSScore(input)
      BY <2>1 DEF ScenarioInv, DistributionInv, Done
    <3>2. Placed(res, input.cnt_nodes, input.cnt_servers)
      BY <3>1, StrategiesPlace
    <3>3. DOMAIN res = 1..input.cnt_servers
      BY <3>2 DEF Placed
    <3> QED
      BY <3>1, <3>3
  <2>2. ASSUME Done, input.strategy = "equal", NEW j \in DOMAIN res, NEW k \in DOMAIN res
        PROVE  Load(j) <= Load(k) + 1
    <3>1. Even(res, input.cnt_servers)
      BY <2>1, <2>2, EqualIsEven
    <3> QED
      BY <2>1, <2>2, <3>1 DEF Even, Load
  <2>3. ASSUME Score, Roomy, NEW k \in DOMAIN res
        PROVE  Load(k) * Sum(input.cpu) < (input.cpu[k] * input.cnt_nodes) + 2 * Sum(input.cpu)
    <3>1. /\ InputOK(input) /\ res = NDSScore(input) /\ k \in 1..input.cnt_servers
          /\ \A j \in 1..input.cnt_servers : Fitting(input, j) >= input.cnt_nodes + 1
      BY <2>1, <2>3 DEF Score, Roomy
    <3>2. Cardinality(NDSScore(input)[k]) * Sum(input.cpu)
            < input.cpu[k] * input.cnt_nodes + 2 * Sum(input.cpu)
      BY <3>1, ScoreKeepsShares
    <3> QED
      BY <3>1, <3>2 DEF Load
  <2> QED
    BY <2>2, <2>3 DEF SharesKept
<1> QED
  BY <1>1, ScenarioInvariant, PTL

\* Both ends of every link learn its distance also when the mapping is the one that the
\* coordinator has made from the distribution of the nodes.
THEOREM ScenarioLinksKnown == ScenarioSpec => []BothEndsKnow
<1>1. ScenarioInv => BothEndsKnow
  <2> SUFFICES ASSUME ScenarioInv PROVE BothEndsKnow
    OBVIOUS
  <2>1. CASE Fresh
    <3>1. \A s \in Servers : local[s] = Empty /\ distance_matrix = Empty
      BY <2>1 DEF Fresh, MatrixInit
    <3>2. \A s \in Servers : Restricted(Empty, {p \in DOMAIN Empty : Touches(p, s)}) = Empty
      BY DEF Restricted, Empty
    <3> QED
      BY <3>1, <3>2 DEF BothEndsKnow
  <2>2. CASE Running
    BY <2>2, WireKnown DEF Running
  <2> QED
    BY <2>1, <2>2 DEF ScenarioInv
<1> QED
  BY <1>1, ScenarioInvariant, PTL

\* Every server starts the nodes the coordinator counts on it for, and together they start
\* every node (create_scenario_configs, get_local_node_ids).
THEOREM ServersStart == ScenarioSpec => []ServersStartTheirNodes
<1>1. ScenarioInv => ServersStartTheirNodes
  <2> SUFFICES ASSUME ScenarioInv, configs # NoConfigs
               PROVE  /\ \A s \in Servers : LocalNodeIds(configs[s]) = LocalNodes(mapping, s)
                      /\ UNION {LocalNodeIds(configs[s]) : s \in Servers} = Nodes
    BY DEF ServersStartTheirNodes
  <2>1. mapping \in [Nodes -> Servers] /\ ConfigInv
    BY DEF ScenarioInv, Fresh, Running, WireInv
  <2>2. \A s \in Servers : configs[s] = ServerConfig(Parts(mapping), Endpoints, s)
    BY <2>1 DEF ConfigInv
  <2>3. \A s \in Servers : LocalNodeIds(configs[s]) = LocalNodes(mapping, s)
    BY <2>1, <2>2, ConfigRead
  <2>4. ASSUME NEW x \in Nodes PROVE \E s \in Servers : x \in LocalNodes(mapping, s)
    BY <2>1 DEF LocalNodes
  <2>5. \A s \in Servers : LocalNodes(mapping, s) \subseteq Nodes
    BY <2>1 DEF LocalNodes
  <2>6. \A x \in UNION {LocalNodeIds(configs[s]) : s \in Servers} : x \in Nodes
    BY <2>3, <2>5
  <2>7. \A x \in Nodes : x \in UNION {LocalNodeIds(configs[s]) : s \in Servers}
    BY <2>3, <2>4
  <2> QED
    BY <2>3, <2>6, <2>7
<1> QED
  BY <1>1, ScenarioInvariant, PTL

\* The two ends of a tunnel meet: once both servers of a link have stepped, each has a tunnel
\* to the other under the same key, and no server has two tunnels under one key.
THEOREM TunnelEndsMeet == ScenarioSpec => []TunnelsMeet
<1>1. ScenarioInv => TunnelsMeet
  <2> SUFFICES ASSUME ScenarioInv PROVE TunnelsMeet
    OBVIOUS
  <2>1. CASE Fresh
    <3>1. CrossLinks = {} /\ \A s \in Servers : tunnels[s] = {}
      BY <2>1 DEF Fresh, MatrixInit, CrossLinks, Empty
    <3> QED
      BY <3>1 DEF TunnelsMeet
  <2>2. CASE Running
    <3>1. WireInv /\ ConfigInv /\ TunnelInv /\ mapping \in [Nodes -> Servers]
      BY <2>2 DEF Running, WireInv
    <3>2. \A s \in Servers : configs[s] = ServerConfig(Parts(mapping), Endpoints, s)
      BY <3>1 DEF ConfigInv
    <3>3. DOMAIN distance_matrix \subseteq Pairs
      BY <3>1, MatrixShape DEF WireInv
    <3>4. ASSUME NEW p \in CrossLinks, {mapping[p[1]], mapping[p[2]]} \cap pending = {}
          PROVE  \E a \in tunnels[mapping[p[1]]], b \in tunnels[mapping[p[2]]] :
                   /\ a.name = p /\ b.name = p
                   /\ a.remote = Ip(mapping[p[2]]) /\ b.remote = Ip(mapping[p[1]])
                   /\ a.key = b.key
      <4> DEFINE s == mapping[p[1]]
                 t == mapping[p[2]]
                 a == TunnelFor(configs[s], p)
                 b == TunnelFor(configs[t], p)
      <4>1. p \in Pairs /\ s # t
        BY <3>3 DEF CrossLinks
      <4>2. s \in Servers /\ t \in Servers
        BY <3>1, <4>1 DEF Pairs
      <4>3. s \in Servers \ pending /\ t \in Servers \ pending
        BY <3>4, <4>2
      <4>4. Touches(p, s) /\ Touches(p, t)
        BY DEF Touches
      <4>5. a \in tunnels[s] /\ b \in tunnels[t]
        BY <3>1, <4>3, <4>4 DEF TunnelInv
      <4>6. a.name = p /\ a.key = SzudzikPairing(p[1], p[2]) /\ a.remote = Ip(t)
        BY <3>1, <3>2, <4>1, <4>2, TunnelRead
      <4>7. b.name = p /\ b.key = SzudzikPairing(p[1], p[2]) /\ b.remote = Ip(s)
        BY <3>1, <3>2, <4>1, <4>2, TunnelRead
      <4> HIDE DEF a, b
      <4> QED
        BY <4>5, <4>6, <4>7
    <3>5. ASSUME NEW s \in Servers, NEW a \in tunnels[s], NEW b \in tunnels[s], a.key = b.key
          PROVE  a = b
      <4>1. PICK p \in Pairs : a = TunnelFor(configs[s], p)
        BY <3>1 DEF TunnelInv
      <4>2. PICK q \in Pairs : b = TunnelFor(configs[s], q)
        BY <3>1 DEF TunnelInv
      <4>3. a.key = SzudzikPairing(p[1], p[2]) /\ b.key = SzudzikPairing(q[1], q[2])
        BY <4>1, <4>2 DEF TunnelFor
      <4>4. p = q
        BY <3>5, <4>3, KeysDiffer
      <4> QED
        BY <4>1, <4>2, <4>4
    <3> QED
      BY <3>4, <3>5 DEF TunnelsMeet
  <2> QED
    BY <2>1, <2>2 DEF ScenarioInv
<1> QED
  BY <1>1, ScenarioInvariant, PTL
=============================================================================

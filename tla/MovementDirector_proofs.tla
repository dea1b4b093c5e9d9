----------------------- MODULE MovementDirector_proofs -----------------------
(***************************************************************************)
(* Proofs about the movement director, for any Core files, maps, scenarios *)
(* and length of a step: the files are shown for the walks that the list   *)
(* gives them, and walkers stay on the roads they may take.                *)
(***************************************************************************)
EXTENDS MovementDirector, WellFoundedInduction, TLAPS
-----------------------------------------------------------------------------
(***************************************************************************)
(* The inductive invariant.                                                *)
(***************************************************************************)

Changes == Nat \X DOMAIN CoreFiles
Cores   == [changes : Seq(Changes), remaining : Int, loaded : DOMAIN CoreFiles \cup {NoFile}]
MapNodes == Points \cup {NoNode}

\* A walker as its movement pattern keeps it.
Walker == [pattern : MapModels, speed : Nat, at : Points, next : MapNodes,
           left : Nat, gone : Nat, heading : MapNodes \X MapNodes]

\* A walker is where OnRoad wants it, after steps that raised for the given reason.
Placed(w, why) ==
  \/ Stands(w)
  \/ w.at = w.next /\ why = "trapped" /\ ListLength(w.at) >= 2
  \/ /\ MayGo(w.pattern, w.at, w.next)
     /\ w.heading = <<w.at, w.next>>
     /\ w.gone + w.left = Dist[w.at, w.next]

WalkerInv(w, why) ==
  /\ w \in Walker
  /\ w.left > 0 \/ Stands(w)
  /\ Placed(w, why)

\* The n walkers of a scenario.
WalkersInv(ws, n, why) ==
  /\ ws = [k \in 0..(n - 1) |-> ws[k]]
  /\ \A k \in 0..(n - 1) : WalkerInv(ws[k], why)

\* Walkers exist on a map only, and walk in the order of their ids.
MapInv ==
  /\ ~ OnMap => walkers = NoWalkers /\ phase # "walk"
  /\ OnMap => WalkersInv(walkers, scenario.nodes, raised)
  /\ phase # "walk" => todo = {}
  /\ phase = "walk" => \E k \in 0..(scenario.nodes - 1) : todo = k..(scenario.nodes - 1)
  /\ togo \in Nat

\* How many entries of the list have been taken off.
Taken == Len(scenario.changes) - Len(core.changes)

\* What is left of a list is its end.
EndOfList(c, all) ==
  /\ Len(c) <= Len(all)
  /\ \A k \in 1..Len(c) : c[k] = all[Len(all) - Len(c) + k]

\* The walks for which the code shows a file.
ShownFor(change) == 1 + StepsOf(change)

\* The walk in which it shows the i-th file last.
LastWalk(changes) == EndOf(changes, 1)

\* Before the first walk of a round, the file of the last one may still be shown.
RoundBegins(all, file, seconds, k) ==
  k = 0 /\ seconds = 0 /\ file \in {NoFile, all[Len(all)][2]}

\* The t-th file is shown in walk k, since the walk after those of the files before it.
FileShown(all, t, file, seconds, k) ==
  LET before == LastWalk(all)[t - 1]
  IN  /\ file = all[t][2]
      /\ before < k /\ k <= LastWalk(all)[t]
      /\ seconds = all[t][1] - TimeStep * (k - before - 1)

OnSchedule(all, t, file, seconds, k) ==
  IF t = 0 THEN RoundBegins(all, file, seconds, k) ELSE FileShown(all, t, file, seconds, k)

ListInv == EndOfList(core.changes, scenario.changes)

ScheduleInv == OnSchedule(scenario.changes, Taken, core.loaded, core.remaining, walks)

\* The matrix of the last step is that of the file.
MatrixInv ==
  phase = "idle" /\ matrix # NoMatrix /\ scenario.mode = "lan"
    => matrix = LanMatrix(core.loaded, scenario.nodes)

CoreInv ==
  /\ core \in Cores /\ core.remaining > 0 - TimeStep
  /\ phase = "none" => matrix = NoMatrix
  /\ Is("core") => ListInv /\ (raised = "none" => ScheduleInv /\ MatrixInv)

\* The variables that are neither the walkers' nor the files'.
Control ==
  /\ scenario \in Scenarios \cup {NoScenario}
  /\ phase \in {"none", "idle", "walk", "distances"}
  /\ phase = "none" <=> scenario = NoScenario
  /\ run_loop \in BOOLEAN /\ alive \in BOOLEAN /\ points \in BOOLEAN
  /\ alive => run_loop
  /\ raised \in Reasons
  /\ walks \in Nat

Inv == Control /\ MapInv /\ CoreInv
-----------------------------------------------------------------------------
(***************************************************************************)
(* Walkers.                                                                *)
(***************************************************************************)

\* The far end of a road is another place, to which the road leads.
LEMMA RoadsLead ==
  ASSUME NEW r \in Roads, NEW p, p \in {r.start, r.end}
  PROVE  /\ OtherEnd(r, p) \in Points /\ OtherEnd(r, p) # p
         /\ p \in Points
         /\ MayGo("RandomWalk", p, OtherEnd(r, p))
         /\ r.start = p \/ r.car_reverse => \A m : MayGo(m, p, OtherEnd(r, p))
  BY MapAssumption, Zenon DEF OtherEnd, MayGo

\* Cars take roads that they may take.
LEMMA CarRoads ==
  ASSUME NEW p, NEW r \in Candidates(p)
  PROVE  r \in Roads /\ (r.start = p \/ (r.end = p /\ r.car_reverse))
<1>1. \A q : NextRoads(p, q) \subseteq {s \in Roads : s.start = p \/ (s.end = p /\ s.car_reverse)}
  BY DEF NextRoads
<1>2. \E q : r \in NextRoads(p, q)
  BY Zenon DEF Candidates
<1> QED
  BY <1>1, <1>2, Zenon

\* Where a walker goes on to, there is a road for it.
LEMMA NextIsReachable ==
  ASSUME NEW m \in MapModels, NEW p \in Points, NEW last,
         NEW q \in NextMapNodes(m, p, last), q # NoNode
  PROVE  /\ q \in Points /\ q # p
         /\ MayGo(m, p, q)
         /\ Dist[p, q] \in Nat \ {0}
<1>1. CASE m = "RandomWalk"
  <2>1. q \in Neighbours(p)
    BY <1>1, Zenon DEF NextMapNodes, NextOfRandomWalk
  <2>2. PICK r \in Roads : p \in {r.start, r.end} /\ q = OtherEnd(r, p)
    BY <2>1, Zenon DEF Neighbours
  <2>3. q \in Points /\ q # p /\ MayGo(m, p, q)
    BY <1>1, <2>2, RoadsLead, Zenon
  <2>4. Dist[p, q] \in Nat \ {0}
    BY <2>3, MapAssumption, Zenon
  <2> QED
    BY <2>3, <2>4, Zenon
<1>2. CASE m # "RandomWalk"
  <2>1. q \in NextOfCar(p, last)
    BY <1>2, Zenon DEF NextMapNodes
  <2>2. PICK r \in Candidates(p) : q = OtherEnd(r, p)
    BY <2>1, Zenon DEF NextOfCar, RoadsOnwards
  <2>3. r \in Roads /\ p \in {r.start, r.end} /\ (r.start = p \/ r.car_reverse)
    BY CarRoads, Zenon
  <2>4. q \in Points /\ q # p /\ MayGo(m, p, q)
    BY <2>2, <2>3, RoadsLead, Zenon
  <2>5. Dist[p, q] \in Nat \ {0}
    BY <2>4, MapAssumption, Zenon
  <2> QED
    BY <2>4, <2>5, Zenon
<1> QED
  BY <1>1, <1>2

\* A walker that sets out on a new leg, or stands because there is none.
LEMMA NewLeg ==
  ASSUME NEW w, NEW m \in MapModels, NEW p \in Points, NEW last,
         NEW q \in NextMapNodes(m, p, last),
         w.pattern = m,
         w = [pattern |-> w.pattern, speed |-> w.speed, at |-> w.at, next |-> w.next,
              left |-> w.left, gone |-> w.gone, heading |-> w.heading],
         w.speed \in Nat, w.left \in Nat, w.heading \in MapNodes \X MapNodes
  PROVE  /\ \A why : WalkerInv(Towards(w, p, q), why)
         /\ Towards(w, p, q).speed = w.speed
<1> DEFINE d == Dist[p, q]
           l == IF q = NoNode THEN w.left ELSE d
           h == IF q = NoNode THEN w.heading ELSE <<p, q>>
           v == [pattern |-> m, speed |-> w.speed, at |-> p, next |-> q,
                 left |-> l, gone |-> 0, heading |-> h]
<1>1. Towards(w, p, q) = v
  <2>1. Towards(w, p, q) = [w EXCEPT !.at = p, !.next = q, !.gone = 0, !.left = l, !.heading = h]
    BY Zenon DEF Towards
  <2> HIDE DEF l, h
  <2> QED
    BY <2>1
<1>2. q # NoNode => d \in Nat \ {0} /\ MayGo(m, p, q)
  BY NextIsReachable, Zenon
<1>3. q \in MapNodes
  BY NextIsReachable, Zenon DEF MapNodes
<1> HIDE DEF d
<1>4. l \in Nat /\ (q # NoNode => l > 0 /\ 0 + l = d)
  BY <1>2
<1>5. h \in MapNodes \X MapNodes
  BY <1>3 DEF MapNodes
<1>6. q # NoNode => h = <<p, q>>
  OBVIOUS
<1> HIDE DEF l, h
<1>7. /\ v.pattern = m /\ v.speed = w.speed /\ v.at = p /\ v.next = q
      /\ v.left = l /\ v.gone = 0 /\ v.heading = h
  OBVIOUS
<1>8. v \in Walker
  BY <1>3, <1>4, <1>5 DEF Walker
<1> HIDE DEF v
<1>9. \A why : Placed(v, why)
  BY <1>2, <1>4, <1>6, <1>7, Zenon DEF Placed, Stands, d
<1>10. v.left > 0 \/ Stands(v)
  BY <1>4, <1>7 DEF Stands
<1> QED
  BY <1>1, <1>7, <1>8, <1>9, <1>10 DEF WalkerInv

\* A walker goes on within its leg.
LEMMA GoLemma ==
  ASSUME NEW w, NEW why, WalkerInv(w, why), NEW d \in Nat, ~ Stands(w), StaysOnLeg(w, d)
  PROVE  WalkerInv(Go(w, d), why)
<1> DEFINE v == Go(w, d)
<1>1. w \in Walker /\ w.left \in Nat /\ w.gone \in Nat /\ d < w.left
  BY DEF WalkerInv, Walker, StaysOnLeg
<1>2. /\ v \in Walker /\ v.pattern = w.pattern /\ v.at = w.at /\ v.next = w.next
      /\ v.heading = w.heading /\ v.left = w.left - d /\ v.gone = w.gone + d
  <2> DEFINE l == w.left - d
             g == w.gone + d
  <2>1. l \in Nat /\ g \in Nat
    BY <1>1
  <2>2. v = [w EXCEPT !.left = l, !.gone = g]
    BY DEF Go
  <2> HIDE DEF l, g, v
  <2>3. /\ v \in Walker /\ v.pattern = w.pattern /\ v.at = w.at /\ v.next = w.next
        /\ v.heading = w.heading /\ v.left = l /\ v.gone = g
    BY <1>1, <2>1, <2>2 DEF Walker
  <2> QED
    BY <2>3 DEF l, g
<1> HIDE DEF v
<1>3. v.left > 0 /\ v.gone + v.left = w.gone + w.left
  BY <1>1, <1>2
<1>4. Placed(w, why)
  BY DEF WalkerInv
<1>5. Placed(v, why)
  BY <1>2, <1>3, <1>4, Zenon DEF Placed, Stands
<1> QED
  BY <1>2, <1>3, <1>5 DEF WalkerInv, v

\* A car that has no choice left is at a place with two listed roads or more.
LEMMA StuckLemma ==
  ASSUME NEW w, NEW why, WalkerInv(w, why), ~ Stands(w), Trapped(w.next, w.at)
  PROVE  WalkerInv(Stuck(w), "trapped")
<1> DEFINE v == Stuck(w)
<1>1. w \in Walker /\ w.next \in Points /\ (w.left > 0)
  BY DEF WalkerInv, Walker, Stands, MapNodes
<1>2. v \in Walker /\ v.at = w.next /\ v.next = w.next /\ v.left = w.left
  BY <1>1 DEF Stuck, Walker
<1> HIDE DEF v
<1>3. ListLength(w.next) >= 2
  BY Zenon DEF Trapped, RoadsOnwards
<1>4. Placed(v, "trapped")
  BY <1>2, <1>3, Zenon DEF Placed
<1> QED
  BY <1>1, <1>2, <1>4 DEF WalkerInv, v

\* A walker that passes a map node.
LEMMA PastLemma ==
  ASSUME NEW w, NEW why, WalkerInv(w, why), ~ Stands(w),
         NEW q \in NextMapNodes(w.pattern, w.next, w.at)
  PROVE  WalkerInv(Towards(w, w.next, q), why)
<1>1. /\ w.pattern \in MapModels /\ w.next \in Points
      /\ w.speed \in Nat /\ w.left \in Nat /\ w.heading \in MapNodes \X MapNodes
      /\ w = [pattern |-> w.pattern, speed |-> w.speed, at |-> w.at, next |-> w.next,
              left |-> w.left, gone |-> w.gone, heading |-> w.heading]
  BY DEF WalkerInv, Walker, Stands, MapNodes
<1> QED
  BY <1>1, NewLeg

\* The walkers that are created.
LEMMA NewWalkersLemma ==
  ASSUME NEW m \in MapModels, NEW w \in NewWalkers(m), NEW why
  PROVE  WalkerInv(w, why)
<1> DEFINE blank(speed) == [pattern |-> m, speed |-> speed, at |-> NoNode, next |-> NoNode,
                            left |-> 0, gone |-> 0, heading |-> <<NoNode, NoNode>>]
<1>1. PICK p \in Points, s \in Speeds[m] :
        \E q \in NextMapNodes(m, p, NoNode) : w = Towards(blank(s), p, q)
  BY DEF NewWalkers
<1>2. s \in Nat
  BY <1>1, DirectorAssumption
<1> DEFINE b == blank(s)
<1>3. /\ b.pattern = m /\ b.speed \in Nat /\ b.left \in Nat /\ b.heading \in MapNodes \X MapNodes
      /\ b = [pattern |-> b.pattern, speed |-> b.speed, at |-> b.at, next |-> b.next,
              left |-> b.left, gone |-> b.gone, heading |-> b.heading]
  BY <1>2 DEF MapNodes
<1>4. PICK q \in NextMapNodes(m, p, NoNode) : w = Towards(b, p, q)
  BY <1>1, Zenon
<1> HIDE DEF b
<1> QED
  BY <1>1, <1>3, <1>4, NewLeg

\* One of them walks.
LEMMA OneWalks ==
  ASSUME NEW ws, NEW n, NEW why, NEW why2, WalkersInv(ws, n, why),
         why2 = why \/ why2 = "trapped",
         NEW k \in 0..(n - 1), NEW w, WalkerInv(w, why2)
  PROVE  WalkersInv([ws EXCEPT ![k] = w], n, why2)
<1>1. \A v : WalkerInv(v, why) => WalkerInv(v, why2)
  BY Zenon DEF WalkerInv, Placed
<1> DEFINE vs == [ws EXCEPT ![k] = w]
<1>2. /\ vs = [j \in 0..(n - 1) |-> vs[j]]
      /\ vs[k] = w
      /\ \A j \in 0..(n - 1) : j # k => vs[j] = ws[j]
  BY DEF WalkersInv
<1> HIDE DEF vs
<1>3. \A j \in 0..(n - 1) : WalkerInv(vs[j], why2)
  BY <1>1, <1>2, Zenon DEF WalkersInv
<1> QED
  BY <1>2, <1>3, Zenon DEF WalkersInv, vs
-----------------------------------------------------------------------------
(***************************************************************************)
(* The schedule of the Core files.  Induction up to N is used in the form  *)
(* of sets: there is no least number outside of a set that holds 0 and,    *)
(* with n - 1, also n.                                                     *)
(***************************************************************************)
LEMMA UpTo ==
  ASSUME NEW N \in Nat, NEW S \in SUBSET (0..N), 0 \in S,
         \A n \in 1..N : n - 1 \in S => n \in S
  PROVE  S = 0..N
<1> DEFINE R == OpToRel(<, Nat)
           T == (0..N) \ S
<1> SUFFICES ASSUME T # {} PROVE FALSE
  OBVIOUS
<1>1. IsWellFoundedOn(R, Nat)
  BY NatLessThanWellFounded, Zenon
<1>2. \A x, y \in Nat : <<y, x>> \in R <=> y < x
  BY DEF OpToRel
<1>3. T \in SUBSET Nat
  OBVIOUS
<1> HIDE DEF R
<1>4. PICK x \in T : \A y \in T : ~ (<<y, x>> \in R)
  <2> HIDE DEF T
  <2> QED
    BY <1>1, <1>3, WFMin
<1>5. x \in 0..N /\ x \notin S /\ \A y \in T : ~ (y < x)
  BY <1>2, <1>3, <1>4
<1>6. x \in 1..N /\ x - 1 \in 0..N /\ x - 1 < x
  <2>1. x # 0
    BY <1>5
  <2> QED
    BY <2>1, <1>5
<1>7. x - 1 \in S
  BY <1>5, <1>6
<1> QED
  BY <1>5, <1>6, <1>7

\* How long a file is shown: for one walk, and until its seconds are over.
LEMMA ShownForIs ==
  ASSUME NEW c \in Changes
  PROVE  /\ ShownFor(c) \in Nat /\ ShownFor(c) >= 1 /\ c[1] \in Nat
         /\ \A x \in Nat : /\ c[1] - TimeStep * x \in Int
                           /\ c[1] - TimeStep * x > 0 => x + 1 < ShownFor(c)
                           /\ c[1] - TimeStep * x <= 0 => ShownFor(c) <= x + 1
<1> DEFINE s == c[1]
           T == TimeStep
           q == (s + T - 1) \div T
<1>1. s \in Nat /\ T \in Nat /\ T > 0
  BY DirectorAssumption DEF Changes
<1>2. ShownFor(c) = 1 + q
  BY DEF ShownFor, StepsOf
<1> HIDE DEF s, T
<1>3. s + T - 1 \in Nat
  BY <1>1
<1>4. q \in Nat /\ q * T <= s + T - 1 /\ s + T - 1 < q * T + T
  <2>1. \A a, b \in Nat : b > 0 => /\ a \div b \in Nat /\ (a \div b) * b <= a
                                  /\ a < (a \div b) * b + b
    OBVIOUS
  <2> QED
    BY <1>1, <1>3, <2>1
<1> HIDE DEF q
<1>5. ASSUME NEW x \in Nat PROVE /\ s - T * x \in Int
                                 /\ s - T * x > 0 => x < q
                                 /\ s - T * x <= 0 => q <= x
  <2> DEFINE a == T * x
             b == q * T
  <2>1. a \in Nat /\ b \in Nat
    BY <1>1, <1>4
  <2>2. q <= x => b <= a
    BY <1>1, <1>4
  <2>3. x + 1 <= q => a + T <= b
    <3>1. x + 1 <= q => T * (x + 1) <= T * q
      BY <1>1, <1>4
    <3>2. T * (x + 1) = a + T /\ T * q = b
      BY <1>1, <1>4
    <3> QED
      BY <3>1, <3>2
  <2>4. b <= s + T - 1 /\ s + T - 1 < b + T
    BY <1>4
  <2>5. s - T * x = s - a
    OBVIOUS
  <2> HIDE DEF a, b
  <2>6. /\ s - a \in Int
        /\ s - a > 0 => x < q
        /\ s - a <= 0 => q <= x
    BY <1>1, <1>4, <2>1, <2>2, <2>3, <2>4
  <2> QED
    BY <2>5, <2>6
<1> QED
  BY <1>1, <1>2, <1>4, <1>5 DEF s, T

LEMMA ShownForAll ==
  ASSUME NEW c \in Seq(Changes)
  PROVE  /\ Len(c) \in Nat
         /\ \A k \in 1..Len(c) : c[k] \in Changes /\ ShownFor(c[k]) \in Nat /\ ShownFor(c[k]) >= 1
<1>1. ASSUME NEW k \in 1..Len(c)
      PROVE  c[k] \in Changes /\ ShownFor(c[k]) \in Nat /\ ShownFor(c[k]) >= 1
  <2>1. c[k] \in Changes
    OBVIOUS
  <2> QED
    BY <2>1, ShownForIs
<1> QED
  BY <1>1

\* The ends of the files of a list.
EndsAre(e, c, n) ==
  /\ e \in [0..n -> Nat] /\ e[0] = 0
  /\ \A k \in 1..n : e[k] = e[k-1] + ShownFor(c[k])

Ends(e, c) == c \in Seq(Changes) /\ EndsAre(e, c, Len(c))

LEMMA EndsExist ==
  ASSUME NEW c \in Seq(Changes)
  PROVE  \E e : EndsAre(e, c, Len(c))
<1> DEFINE n == Len(c)
           S == {m \in 0..n : \E e : EndsAre(e, c, m)}
<1>0. n \in Nat /\ \A k \in 1..n : ShownFor(c[k]) \in Nat
  BY ShownForAll
<1> HIDE DEF n
<1>1. 0 \in S
  <2> DEFINE e == [i \in 0..0 |-> 0]
  <2>1. EndsAre(e, c, 0)
    BY DEF EndsAre
  <2> QED
    BY <2>1, <1>0
<1>2. ASSUME NEW m \in 1..n, m - 1 \in S PROVE m \in S
  <2>1. PICK e : EndsAre(e, c, m - 1)
    BY <1>2
  <2> DEFINE v == e[m-1] + ShownFor(c[m])
             h == [i \in 0..m |-> IF i = m THEN v ELSE e[i]]
  <2>2. v \in Nat /\ e \in [0..(m-1) -> Nat] /\ e[0] = 0
    BY <1>0, <2>1 DEF EndsAre
  <2>3. h \in [0..m -> Nat] /\ h[m] = v /\ \A i \in 0..(m-1) : h[i] = e[i]
    BY <1>0, <2>2
  <2> HIDE DEF h
  <2>4. ASSUME NEW i \in 1..m PROVE h[i] = h[i-1] + ShownFor(c[i])
    <3>1. CASE i = m
      <4>1. m - 1 \in 0..(m-1)
        BY <1>0
      <4> QED
        BY <2>3, <3>1, <4>1
    <3>2. CASE i # m
      <4>1. i \in 1..(m-1) /\ i - 1 \in 0..(m-1) /\ i \in 0..(m-1)
        BY <1>0, <3>2
      <4> QED
        BY <2>1, <2>3, <4>1 DEF EndsAre
    <3> QED
      BY <3>1, <3>2
  <2>5. h[0] = 0
    BY <1>0, <2>2, <2>3
  <2>6. EndsAre(h, c, m)
    BY <2>3, <2>4, <2>5 DEF EndsAre
  <2> QED
    BY <1>0, <2>6
<1>3. S = 0..n
  <2>1. S \in SUBSET (0..n)
    OBVIOUS
  <2> HIDE DEF S
  <2> QED
    BY <1>0, <1>1, <1>2, <2>1, UpTo
<1> QED
  BY <1>0, <1>3 DEF n

\* LastWalk is what its recursive definition says.
LEMMA EndOfIs ==
  ASSUME NEW c \in Seq(Changes)
  PROVE  Ends(LastWalk(c), c)
<1> DEFINE n == Len(c)
           F(f) == f = [i \in 0..n |-> IF i = 0 THEN 0 ELSE f[i-1] + ShownFor(c[i])]
           a == LastWalk(c)
<1>1. n \in Nat
  OBVIOUS
<1>2. a = CHOOSE f : F(f)
  BY DEF LastWalk, EndOf, ShownFor
<1>3. PICK g : EndsAre(g, c, n)
  BY EndsExist
<1> HIDE DEF n
<1>4. F(g)
  <2>1. g \in [0..n -> Nat] /\ \A k \in 0..n : g[k] = IF k = 0 THEN 0 ELSE g[k-1] + ShownFor(c[k])
    BY <1>1, <1>3 DEF EndsAre
  <2> QED
    BY <2>1
<1>5. F(a)
  <2> HIDE DEF F, a
  <2> QED
    BY <1>2, <1>4
<1> HIDE DEF a
<1>6. /\ a = [k \in 0..n |-> a[k]] /\ a[0] = 0
      /\ \A k \in 1..n : a[k] = a[k-1] + ShownFor(c[k])
  <2> DEFINE G(k) == IF k = 0 THEN 0 ELSE a[k-1] + ShownFor(c[k])
  <2>1. a = [k \in 0..n |-> G(k)]
    BY <1>5
  <2>2. G(0) = 0 /\ \A k \in 1..n : G(k) = a[k-1] + ShownFor(c[k])
    BY <1>1
  <2>3. 0 \in 0..n /\ \A k \in 1..n : k \in 0..n
    BY <1>1
  <2> HIDE DEF G
  <2>4. /\ a = [k \in 0..n |-> a[k]] /\ \A k \in 0..n : a[k] = G(k)
    BY <2>1
  <2> QED
    BY <2>2, <2>3, <2>4
<1> HIDE DEF F
<1> DEFINE S == {k \in 0..n : a[k] \in Nat}
<1>7. S = 0..n
  <2>1. S \in SUBSET (0..n) /\ 0 \in S
    BY <1>1, <1>6
  <2>2. ASSUME NEW k \in 1..n, k - 1 \in S PROVE k \in S
    <3>1. ShownFor(c[k]) \in Nat /\ k \in 0..n /\ a[k-1] \in Nat
      BY <1>1, <2>2, ShownForAll DEF n
    <3>2. a[k] = a[k-1] + ShownFor(c[k])
      BY <1>6
    <3>3. a[k] \in Nat
      BY <3>1, <3>2
    <3> QED
      BY <3>1, <3>3
  <2> HIDE DEF S
  <2> QED
    BY <1>1, <2>1, <2>2, UpTo
<1>8. a \in [0..n -> Nat]
  BY <1>6, <1>7
<1> QED
  BY <1>6, <1>8 DEF Ends, EndsAre, a, n

\* Every file is shown for at least one walk.
LEMMA EndsGrow ==
  ASSUME NEW c, NEW e, Ends(e, c),
         NEW j \in 0..Len(c), NEW k \in 0..Len(c), j < k
  PROVE  e[j] < e[k]
<1> DEFINE n == Len(c)
           S == {m \in 0..n : j < m => e[j] < e[m]}
<1>0. /\ n \in Nat /\ j \in 0..n /\ k \in 0..n
      /\ e \in [0..n -> Nat]
      /\ \A m \in 1..n : /\ e[m] = e[m-1] + ShownFor(c[m])
                         /\ ShownFor(c[m]) \in Nat /\ ShownFor(c[m]) >= 1
  <2>1. c \in Seq(Changes) /\ EndsAre(e, c, n)
    BY DEF Ends
  <2>2. n \in Nat /\ \A m \in 1..n : ShownFor(c[m]) \in Nat /\ ShownFor(c[m]) >= 1
    BY <2>1, ShownForAll
  <2> QED
    BY <2>1, <2>2 DEF EndsAre
<1> HIDE DEF n
<1>1. 0 \in S
  BY <1>0
<1>2. ASSUME NEW m \in 1..n, m - 1 \in S PROVE m \in S
  <2>1. /\ e[m] = e[m-1] + ShownFor(c[m]) /\ ShownFor(c[m]) \in Nat /\ ShownFor(c[m]) >= 1
        /\ m - 1 \in 0..n /\ m \in 0..n
    BY <1>0
  <2>2. e[m] \in Nat /\ e[m-1] \in Nat /\ e[j] \in Nat
    BY <1>0, <2>1
  <2>3. CASE j < m - 1
    <3>1. e[j] < e[m-1]
      BY <2>3, <1>2
    <3> QED
      BY <2>1, <2>2, <3>1
  <2>4. CASE j = m - 1
    BY <2>1, <2>2, <2>4
  <2>5. CASE ~ (j < m)
    BY <2>1, <2>5
  <2> QED
    BY <1>0, <2>1, <2>3, <2>4, <2>5
<1>3. S = 0..n
  <2>1. S \in SUBSET (0..n)
    OBVIOUS
  <2> HIDE DEF S
  <2> QED
    BY <1>0, <1>1, <1>2, <2>1, UpTo
<1> QED
  BY <1>0, <1>3
-----------------------------------------------------------------------------
(***************************************************************************)
(* Steps on a map.                                                         *)
(***************************************************************************)

\* What a scenario without map or without files leaves alone.
LEMMA MapStays ==
  ASSUME MapInv, ~ OnMap, UNCHANGED <<scenario, walkers>>, phase' # "walk", todo' = {}, togo' \in Nat
  PROVE  MapInv'
  BY DEF MapInv, OnMap

LEMMA CoreStays ==
  ASSUME CoreInv, ~ Is("core"), UNCHANGED <<scenario, core>>, phase' # "none"
  PROVE  CoreInv'
  BY DEF CoreInv, Is

\* A director on a map has no files, and at least one node.
LEMMA MapScenario ==
  ASSUME Control, OnMap
  PROVE  ~ Is("core") /\ scenario \in Scenarios /\ phase # "none"
         /\ scenario.nodes \in Nat /\ scenario.nodes > 0
  BY DirectorAssumption DEF Control, OnMap, Is, MapModels

\* A run loop whose step raises ends, another one goes on.
LEMMA LoopMayEnd ==
  ASSUME Control, alive' \in {alive, FALSE}
  PROVE  alive' \in BOOLEAN /\ (alive' => run_loop)
<1>1. CASE alive' = alive
  BY <1>1 DEF Control
<1>2. CASE alive' = FALSE
  BY <1>2
<1> QED
  BY <1>1, <1>2

LEMMA BeginMapStepLemma ==
  ASSUME Inv, BeginMapStep
  PROVE  Inv'
<1> USE DEF Inv, BeginMapStep, Walked
<1>1. Control'
  BY DEF Control, OnMap
<1>2. CoreInv'
  BY MapScenario, CoreStays
<1>3. MapInv'
  <2> DEFINE n == scenario.nodes
  <2>1. n \in Nat /\ 0 \in 0..(n - 1)
    BY MapScenario
  <2>2. WalkersInv(walkers, n, raised)
    BY DEF MapInv
  <2>3. todo' = 0..(n - 1) /\ walkers[0] \in Walker
    BY <2>1, <2>2 DEF WalkersInv, WalkerInv
  <2>4. togo' \in Nat
    BY <2>3 DEF Walker
  <2> QED
    BY <2>1, <2>2, <2>3, <2>4 DEF MapInv, OnMap
<1> QED
  BY <1>1, <1>2, <1>3

\* The nodes of todo are those from First on.
LEMMA FirstIs ==
  ASSUME Control, MapInv, phase = "walk"
  PROVE  /\ OnMap
         /\ First \in 0..(scenario.nodes - 1)
         /\ todo = First..(scenario.nodes - 1)
         /\ scenario.nodes \in Nat
<1>1. OnMap
  BY DEF MapInv
<1>2. scenario.nodes \in Nat
  BY <1>1, MapScenario
<1> DEFINE N == scenario.nodes - 1
<1>3. PICK k \in 0..N : todo = k..N
  BY DEF MapInv
<1>4. N \in Int
  BY <1>2
<1> HIDE DEF N
<1>5. k \in todo /\ \A m \in todo : k <= m
  BY <1>3, <1>4
<1>6. First \in todo /\ \A m \in todo : First <= m
  BY <1>5 DEF First
<1>7. First = k
  BY <1>3, <1>4, <1>5, <1>6
<1> QED
  BY <1>1, <1>2, <1>3, <1>7 DEF N

\* The first node of todo is done, with all walkers where they should be.
LEMMA NodeDoneLemma ==
  ASSUME Inv, phase = "walk", NodeDone, core' = core, walks' = walks,
         WalkersInv(walkers', scenario.nodes, raised)
  PROVE  Inv'
<1> DEFINE n == scenario.nodes
           k == First
<1>1. OnMap /\ n \in Nat /\ k \in 0..(n - 1) /\ todo = k..(n - 1)
  BY FirstIs DEF Inv
<1>2. UNCHANGED <<scenario, run_loop, alive, points, matrix, raised>> /\ todo' = todo \ {k}
  BY DEF NodeDone, Walked
<1>3. WalkersInv(walkers, n, raised)
  BY <1>1 DEF Inv, MapInv
<1>4. \/ todo' = {} /\ togo' = 0 /\ phase' = "distances"
      \/ todo' # {} /\ togo' = walkers[k + 1].speed /\ phase' = "walk"
  BY DEF NodeDone, Walked
<1>5. scenario # NoScenario
  BY <1>1 DEF OnMap
<1> HIDE DEF n, k
<1>6. todo' = (k + 1)..(n - 1)
  BY <1>1, <1>2
<1>7. todo' # {} => k + 1 \in 0..(n - 1)
  BY <1>1, <1>6
<1>8. togo' \in Nat
  <2>1. \A j \in 0..(n - 1) : walkers[j].speed \in Nat
    BY <1>3 DEF WalkersInv, WalkerInv, Walker
  <2> QED
    BY <1>4, <1>7, <2>1
<1>9. Control'
  BY <1>2, <1>4, <1>5 DEF Inv, Control
<1>10. CoreInv'
  BY <1>1, <1>2, <1>4, MapScenario, CoreStays DEF Inv
<1>11. OnMap'
  BY <1>1, <1>2 DEF OnMap
<1>12. phase' = "walk" => \E j \in 0..(n - 1) : todo' = j..(n - 1)
  BY <1>4, <1>6, <1>7
<1>13. MapInv'
  BY <1>2, <1>4, <1>8, <1>11, <1>12 DEF MapInv, n
<1> QED
  BY <1>9, <1>10, <1>13 DEF Inv

\* The walker whose turn it is.
LEMMA TurnIs ==
  ASSUME Inv, phase = "walk"
  PROVE  /\ OnMap /\ First \in 0..(scenario.nodes - 1)
         /\ WalkersInv(walkers, scenario.nodes, raised)
         /\ WalkerInv(walkers[First], raised)
         /\ togo \in Nat
<1>1. OnMap /\ First \in 0..(scenario.nodes - 1)
  BY FirstIs DEF Inv
<1>2. WalkersInv(walkers, scenario.nodes, raised) /\ togo \in Nat
  BY <1>1 DEF Inv, MapInv
<1> QED
  BY <1>1, <1>2, Zenon DEF WalkersInv

LEMMA WalkOnLemma == Inv /\ WalkOn => Inv'
<1> SUFFICES ASSUME Inv, WalkOn PROVE Inv'
  OBVIOUS
<1> DEFINE v == Go(walkers[First], togo)
<1>1. phase = "walk" /\ NodeDone /\ core' = core /\ walks' = walks
      /\ walkers' = [walkers EXCEPT ![First] = v]
  BY DEF WalkOn
<1>2. WalkerInv(v, raised)
  BY <1>1, TurnIs, GoLemma DEF WalkOn
<1> HIDE DEF v
<1>3. WalkersInv(walkers', scenario.nodes, raised)
  BY <1>1, <1>2, TurnIs, OneWalks
<1> QED
  BY <1>1, <1>3, NodeDoneLemma

LEMMA StandStillLemma == Inv /\ StandStill => Inv'
<1> SUFFICES ASSUME Inv, StandStill PROVE Inv'
  OBVIOUS
<1>1. phase = "walk" /\ NodeDone /\ core' = core /\ walks' = walks /\ walkers' = walkers
  BY DEF StandStill
<1>2. WalkersInv(walkers', scenario.nodes, raised)
  BY <1>1, TurnIs
<1> QED
  BY <1>1, <1>2, NodeDoneLemma

LEMMA WalkPastLemma == Inv /\ WalkPast => Inv'
<1> SUFFICES ASSUME Inv, WalkPast PROVE Inv'
  OBVIOUS
<1> DEFINE w == walkers[First]
<1>1. phase = "walk" /\ ~ Stands(w) /\ ~ StaysOnLeg(w, togo) /\ core' = core /\ walks' = walks
  BY DEF WalkPast, Arrives
<1>2. PICK q \in NextMapNodes(w.pattern, w.next, w.at) :
        /\ walkers' = [walkers EXCEPT ![First] = Towards(w, w.next, q)]
        /\ IF q = NoNode THEN NodeDone
           ELSE togo' = togo - w.left /\ Walked("walk") /\ UNCHANGED todo
  BY DEF WalkPast
<1>3. /\ OnMap /\ First \in 0..(scenario.nodes - 1)
      /\ WalkersInv(walkers, scenario.nodes, raised)
      /\ WalkerInv(w, raised) /\ togo \in Nat
  BY <1>1, TurnIs
<1> DEFINE v == Towards(w, w.next, q)
<1>4. WalkerInv(v, raised)
  BY <1>1, <1>3, PastLemma
<1>5. walkers' = [walkers EXCEPT ![First] = v]
  BY <1>2
<1> HIDE DEF v
<1>6. WalkersInv(walkers', scenario.nodes, raised)
  BY <1>3, <1>4, <1>5, OneWalks
<1>7. CASE q = NoNode
  BY <1>1, <1>2, <1>6, <1>7, NodeDoneLemma
<1>8. CASE q # NoNode
  <2>1. /\ togo' = togo - w.left /\ phase' = "walk" /\ todo' = todo
        /\ UNCHANGED <<scenario, run_loop, alive, points, matrix, raised>>
    BY <1>2, <1>8 DEF Walked
  <2>2. togo' \in Nat
    <3>1. w.left \in Nat /\ w.left <= togo
      BY <1>1, <1>3 DEF WalkerInv, Walker, StaysOnLeg
    <3> HIDE DEF w
    <3> QED
      BY <1>3, <2>1, <3>1
  <2>3. Control'
    BY <1>1, <2>1 DEF Inv, Control
  <2>4. CoreInv'
    BY <1>1, <1>3, <2>1, MapScenario, CoreStays DEF Inv
  <2>5. MapInv'
    <3>1. \E k \in 0..(scenario.nodes - 1) : todo = k..(scenario.nodes - 1)
      BY <1>1 DEF Inv, MapInv
    <3> HIDE DEF w
    <3> QED
      BY <1>3, <1>6, <2>1, <2>2, <3>1 DEF MapInv, OnMap
  <2> QED
    BY <2>3, <2>4, <2>5 DEF Inv
<1> QED
  BY <1>7, <1>8

LEMMA CarIsTrappedLemma == Inv /\ CarIsTrapped => Inv'
<1> SUFFICES ASSUME Inv, CarIsTrapped PROVE Inv'
  OBVIOUS
<1> DEFINE w == walkers[First]
           v == Stuck(w)
<1>1. phase = "walk" /\ ~ Stands(w) /\ core' = core /\ Trapped(w.next, w.at)
      /\ walkers' = [walkers EXCEPT ![First] = v]
  BY DEF CarIsTrapped, Arrives
<1>2. /\ phase' = "idle" /\ raised' = "trapped" /\ alive' \in {alive, FALSE} /\ todo' = {} /\ togo' = 0
      /\ UNCHANGED <<scenario, run_loop, points, matrix, walks>>
  BY DEF CarIsTrapped, StepRaises
<1>3. /\ OnMap /\ First \in 0..(scenario.nodes - 1)
      /\ WalkersInv(walkers, scenario.nodes, raised)
      /\ WalkerInv(w, raised)
  BY <1>1, TurnIs
<1>4. WalkerInv(v, "trapped")
  BY <1>1, <1>3, StuckLemma
<1> HIDE DEF v, w
<1>5. WalkersInv(walkers', scenario.nodes, "trapped")
  BY <1>1, <1>3, <1>4, OneWalks
<1>6. Control'
  <2>1. scenario # NoScenario
    BY <1>3 DEF OnMap
  <2>2. alive' \in BOOLEAN /\ (alive' => run_loop)
    BY <1>2, LoopMayEnd DEF Inv
  <2> QED
    BY <1>2, <2>1, <2>2 DEF Inv, Control, Reasons
<1>7. CoreInv'
  BY <1>1, <1>2, <1>3, MapScenario, CoreStays DEF Inv
<1>8. MapInv'
  BY <1>2, <1>3, <1>5 DEF MapInv, OnMap
<1> QED
  BY <1>6, <1>7, <1>8 DEF Inv
-----------------------------------------------------------------------------
(***************************************************************************)
(* Steps with Core files.                                                  *)
(***************************************************************************)

\* The walks that are counted for the t-th file, and the seconds it has left.
LEMMA FileTimes ==
  ASSUME NEW all \in Seq(Changes), NEW t \in 1..Len(all), NEW file, NEW seconds, NEW k \in Nat,
         FileShown(all, t, file, seconds, k)
  PROVE  \E before, end, shown \in Nat, x \in Nat :
           /\ before = LastWalk(all)[t - 1] /\ end = LastWalk(all)[t] /\ end = before + shown
           /\ k = before + 1 + x /\ k <= end
           /\ seconds = all[t][1] - TimeStep * x /\ seconds \in Int
           /\ seconds > 0 => x + 1 < shown
           /\ seconds <= 0 => shown <= x + 1
<1> DEFINE before == LastWalk(all)[t - 1]
           end == LastWalk(all)[t]
           shown == ShownFor(all[t])
           x == k - before - 1
<1>1. Ends(LastWalk(all), all)
  BY EndOfIs
<1>2. all[t] \in Changes /\ Len(all) \in Nat
  OBVIOUS
<1>3. before \in Nat /\ end \in Nat /\ end = before + shown
  BY <1>1, <1>2 DEF Ends, EndsAre
<1>4. before < k /\ k <= end /\ seconds = all[t][1] - TimeStep * x
  BY DEF FileShown
<1> DEFINE Over(s, y) == s \in Int /\ (s > 0 => y + 1 < shown) /\ (s <= 0 => shown <= y + 1)
<1>5. shown \in Nat /\ \A y \in Nat : Over(all[t][1] - TimeStep * y, y)
  BY <1>2, ShownForIs
<1>6. x \in Nat /\ k = before + 1 + x
  BY <1>3, <1>4
<1>7. Over(seconds, x)
  <2> HIDE DEF Over, x, shown
  <2>1. Over(all[t][1] - TimeStep * x, x)
    BY <1>5, <1>6
  <2> QED
    BY <1>4, <2>1
<1> HIDE DEF before, end, shown, x, Over
<1>8. before = LastWalk(all)[t - 1] /\ end = LastWalk(all)[t]
  BY DEF before, end
<1> QED
  BY <1>3, <1>4, <1>5, <1>6, <1>7, <1>8, Zenon DEF Over

\* When the seconds of a file are over, it has been shown for all its walks.
LEMMA NextFile ==
  ASSUME NEW all \in Seq(Changes), NEW t \in 0..Len(all), t < Len(all), NEW file, NEW seconds,
         NEW k \in Nat, OnSchedule(all, t, file, seconds, k), seconds <= 0
  PROVE  OnSchedule(all, t + 1, all[t + 1][2], all[t + 1][1], k + 1)
<1> DEFINE e == LastWalk(all)
<1>0. Len(all) \in Nat /\ t \in Nat /\ t + 1 \in 1..Len(all) /\ t + 1 # 0 /\ (t + 1) - 1 = t
  OBVIOUS
<1>1. Ends(e, all)
  BY EndOfIs
<1>2. all[t + 1] \in Changes
  BY <1>0
<1>3. /\ e[0] = 0 /\ e[t] \in Nat /\ e[t + 1] = e[t] + ShownFor(all[t + 1])
      /\ ShownFor(all[t + 1]) \in Nat /\ ShownFor(all[t + 1]) >= 1
  BY <1>0, <1>1, <1>2, ShownForIs DEF Ends, EndsAre
<1>4. k = e[t]
  <2>1. CASE t = 0
    BY <1>3, <2>1 DEF OnSchedule, RoundBegins
  <2>2. CASE t # 0
    <3>1. FileShown(all, t, file, seconds, k) /\ t \in 1..Len(all)
      BY <1>0, <2>2 DEF OnSchedule
    <3>2. PICK before, end, shown \in Nat, x \in Nat :
           /\ before = LastWalk(all)[t - 1] /\ end = LastWalk(all)[t] /\ end = before + shown
           /\ k = before + 1 + x /\ k <= end
           /\ seconds = all[t][1] - TimeStep * x /\ seconds \in Int
           /\ seconds > 0 => x + 1 < shown
           /\ seconds <= 0 => shown <= x + 1
      BY <3>1, FileTimes
    <3>3. shown <= x + 1 /\ end = before + shown /\ k = before + 1 + x /\ k <= end
      BY <3>2
    <3>4. k = end
      BY <3>3
    <3> QED
      BY <3>2, <3>4
  <2> QED
    BY <2>1, <2>2
<1>5. PICK u, l : u = t + 1 /\ l = k + 1
  OBVIOUS
<1>6. u # 0 /\ u - 1 = t /\ u \in 1..Len(all)
  BY <1>0, <1>5
<1>7. LastWalk(all)[u - 1] < l /\ l <= LastWalk(all)[u] /\ l - LastWalk(all)[u - 1] - 1 = 0
  BY <1>3, <1>4, <1>5, <1>6
<1>8. all[u][1] = all[u][1] - TimeStep * (l - LastWalk(all)[u - 1] - 1)
  <2>1. TimeStep * 0 = 0 /\ all[u][1] \in Nat
    BY <1>6, DirectorAssumption DEF Changes
  <2> QED
    BY <1>7, <2>1
<1>9. FileShown(all, u, all[u][2], all[u][1], l)
  BY <1>7, <1>8 DEF FileShown
<1>10. OnSchedule(all, u, all[u][2], all[u][1], l)
  BY <1>6, <1>9 DEF OnSchedule
<1> QED
  BY <1>5, <1>10

\* A file that has seconds left is shown for another walk.
LEMMA SameFile ==
  ASSUME NEW all \in Seq(Changes), NEW t \in 0..Len(all), NEW file, NEW seconds,
         NEW k \in Nat, OnSchedule(all, t, file, seconds, k), seconds > 0
  PROVE  OnSchedule(all, t, file, seconds - TimeStep, k + 1)
<1>1. t # 0
  BY DEF OnSchedule, RoundBegins
<1>2. FileShown(all, t, file, seconds, k) /\ t \in 1..Len(all)
  BY <1>1 DEF OnSchedule
<1>3. PICK before, end, shown \in Nat, x \in Nat :
       /\ before = LastWalk(all)[t - 1] /\ end = LastWalk(all)[t] /\ end = before + shown
       /\ k = before + 1 + x /\ k <= end
       /\ seconds = all[t][1] - TimeStep * x /\ seconds \in Int
       /\ seconds > 0 => x + 1 < shown
       /\ seconds <= 0 => shown <= x + 1
  BY <1>2, FileTimes
<1>4. PICK s, l : s = seconds - TimeStep /\ l = k + 1
  OBVIOUS
<1>5. /\ LastWalk(all)[t - 1] < l /\ l <= LastWalk(all)[t]
      /\ l - LastWalk(all)[t - 1] - 1 = x + 1
  <2>1. x + 1 < shown /\ l = before + 1 + x + 1 /\ end = before + shown
    BY <1>3, <1>4
  <2>2. before < l /\ l <= end /\ l - before - 1 = x + 1
    BY <2>1
  <2> QED
    BY <1>3, <2>2, Zenon
<1>6. s = all[t][1] - TimeStep * (l - LastWalk(all)[t - 1] - 1)
  <2>1. all[t][1] \in Nat /\ TimeStep \in Nat
    BY <1>2, DirectorAssumption DEF Changes
  <2>2. TimeStep * (x + 1) = TimeStep * x + TimeStep /\ TimeStep * x \in Nat
    BY <2>1
  <2>3. seconds = all[t][1] - TimeStep * x
    BY <1>3
  <2>4. s = all[t][1] - TimeStep * (x + 1)
    BY <1>4, <2>1, <2>2, <2>3
  <2> QED
    BY <1>5, <2>4
<1>7. FileShown(all, t, file, s, l)
  BY <1>2, <1>5, <1>6 DEF FileShown
<1>8. OnSchedule(all, t, file, s, l)
  BY <1>1, <1>7 DEF OnSchedule
<1> QED
  BY <1>4, <1>8

\* The next round begins with the last file.
LEMMA NextRound ==
  ASSUME NEW all \in Seq(Changes), all # << >>, NEW file, NEW seconds, NEW k,
         OnSchedule(all, Len(all), file, seconds, k)
  PROVE  OnSchedule(all, 0, file, 0, 0)
<1>1. Len(all) # 0
  OBVIOUS
<1> QED
  BY <1>1 DEF OnSchedule, FileShown, RoundBegins

\* The first entry of what is left is the one after those taken.
LEMMA TakenOff ==
  ASSUME NEW all \in Seq(Changes), NEW c \in Seq(Changes), c # << >>, EndOfList(c, all)
  PROVE  /\ Tail(c) \in Seq(Changes) /\ Len(Tail(c)) = Len(c) - 1
         /\ EndOfList(Tail(c), all)
         /\ Head(c) = all[Len(all) - Len(c) + 1] /\ Head(c) \in Changes
         /\ Len(all) - Len(c) \in 0..Len(all) /\ Len(all) - Len(c) < Len(all)
<1> DEFINE d == Tail(c)
<1>1. /\ d \in Seq(Changes) /\ Len(d) = Len(c) - 1 /\ Len(c) \in Nat /\ Len(c) > 0
      /\ Head(c) = c[1] /\ Head(c) \in Changes /\ Len(all) \in Nat /\ Len(c) <= Len(all)
  BY DEF EndOfList
<1>2. \A k \in 1..Len(d) : d[k] = c[k + 1]
  OBVIOUS
<1> HIDE DEF d
<1>3. ASSUME NEW k \in 1..Len(d) PROVE d[k] = all[Len(all) - Len(d) + k]
  <2>1. k + 1 \in 1..Len(c) /\ Len(all) - Len(c) + (k + 1) = Len(all) - Len(d) + k
    BY <1>1
  <2>2. c[k + 1] = all[Len(all) - Len(c) + (k + 1)]
    BY <2>1 DEF EndOfList
  <2> QED
    BY <1>2, <2>1, <2>2
<1>4. EndOfList(d, all)
  BY <1>1, <1>3 DEF EndOfList
<1>5. c[1] = all[Len(all) - Len(c) + 1]
  BY <1>1 DEF EndOfList
<1> QED
  BY <1>1, <1>4, <1>5 DEF d

\* The matrix of a file joins the nodes that a channel joins.
LEMMA LanMatrixJoins ==
  ASSUME NEW file, NEW n \in Nat, NEW p \in PairsOf(n)
  PROVE  LanMatrix(file, n)[p] # Unlimited <=> Joined(file, p[1], p[2])
<1> DEFINE x == p[1]
           y == p[2]
<1>1. x \in Nat /\ y \in Nat /\ x < y
  BY DEF PairsOf
<1>2. LanMatrix(file, n)[p] # Unlimited <=> Parsed(file, x, y)
  BY DEF LanMatrix, Unlimited
<1>3. y >= x
  BY <1>1
<1> HIDE DEF x, y
<1>4. \A a, b, u, v : {a, b} = {u, v} <=> (a = u /\ b = v) \/ (a = v /\ b = u)
  OBVIOUS
<1>5. \A c, k : {c[1], c[k]} = {x, y} <=> (c[1] = x /\ c[k] = y) \/ (c[1] = y /\ c[k] = x)
  BY <1>4
<1>6. \A c : c[1] = y => c[1] >= x
  BY <1>3
<1>7. Parsed(file, x, y) <=> Joined(file, x, y)
  BY <1>5, <1>6, Zenon DEF Parsed, Joined
<1> QED
  BY <1>2, <1>7 DEF x, y

-----------------------------------------------------------------------------
(***************************************************************************)
(* The actions of scenarios with Core files, or with neither.              *)
(***************************************************************************)

\* A scenario with files lists one, and is not on a map.
LEMMA CoreScenario ==
  ASSUME NEW s \in Scenarios, s.model = "core"
  PROVE  s.changes \in Seq(Changes) /\ s.changes # << >> /\ s.model \notin MapModels
  BY DirectorAssumption DEF Changes, MapModels

LEMMA CoreDirector ==
  ASSUME Control, Is("core")
  PROVE  /\ scenario \in Scenarios /\ ~ OnMap /\ phase # "none"
         /\ scenario.changes \in Seq(Changes) /\ scenario.changes # << >>
  BY CoreScenario DEF Control, Is, OnMap

\* The control of a step that goes on, and of one that raises.
LEMMA WalkedControl ==
  ASSUME Control, phase # "none", NEW next \in {"idle", "walk", "distances"}, Walked(next), walks' \in Nat
  PROVE  Control'
  BY DEF Control, Walked

LEMMA RaisesControl ==
  ASSUME Control, phase # "none", NEW why \in Reasons, StepRaises(why)
  PROVE  Control'
<1>1. alive' \in BOOLEAN /\ (alive' => run_loop)
  BY LoopMayEnd DEF StepRaises
<1> QED
  BY <1>1 DEF Control, StepRaises

\* What taking an entry off the list, reading its file or starting again makes of the core.
LEMMA CoreChanges ==
  ASSUME NEW c \in Cores, c.changes # << >>
  PROVE  LET t == TakeChange(c)
             l == Load(c)
         IN  /\ c.changes \in Seq(Changes) /\ Head(c.changes) \in Changes
             /\ t \in Cores /\ t.changes = Tail(c.changes) /\ t.remaining = Head(c.changes)[1]
             /\ l \in Cores /\ l.changes = Tail(c.changes) /\ l.remaining = Head(c.changes)[1]
             /\ l.loaded = Head(c.changes)[2]
             /\ Head(c.changes)[1] \in Nat
<1> DEFINE h == Head(c.changes)
           d == Tail(c.changes)
<1>1. c.changes \in Seq(Changes) /\ c.loaded \in DOMAIN CoreFiles \cup {NoFile}
  BY DEF Cores
<1>2. h \in Changes /\ d \in Seq(Changes)
  BY <1>1
<1> DEFINE s == h[1]
           f == h[2]
<1>3. s \in Nat /\ s \in Int /\ f \in DOMAIN CoreFiles
  BY <1>2 DEF Changes
<1>4. TakeChange(c) = [c EXCEPT !.changes = d, !.remaining = s]
  BY DEF TakeChange, NextChange
<1>5. Load(c) = [TakeChange(c) EXCEPT !.loaded = f]
  BY DEF Load, NextChange
<1> HIDE DEF h, d, s, f
<1>6. /\ TakeChange(c) \in Cores /\ TakeChange(c).changes = d /\ TakeChange(c).remaining = s
  BY <1>2, <1>3, <1>4 DEF Cores
<1>7. Load(c) \in Cores /\ Load(c).changes = d /\ Load(c).remaining = s /\ Load(c).loaded = f
  BY <1>3, <1>5, <1>6 DEF Cores
<1> QED
  BY <1>1, <1>2, <1>3, <1>6, <1>7 DEF h, d, s, f

LEMMA Restarted ==
  ASSUME NEW c \in Cores, NEW all \in Seq(Changes)
  PROVE  LET r == ResetCore(c, all)
         IN  r \in Cores /\ r.changes = all /\ r.remaining = 0 /\ r.loaded = c.loaded
<1>1. PICK z \in Int : z = 0
  OBVIOUS
<1>2. ResetCore(c, all) = [c EXCEPT !.changes = all, !.remaining = z]
  BY <1>1 DEF ResetCore
<1>3. /\ ResetCore(c, all) \in Cores /\ ResetCore(c, all).changes = all
      /\ ResetCore(c, all).remaining = z /\ ResetCore(c, all).loaded = c.loaded
  BY <1>2 DEF Cores
<1> QED
  BY <1>1, <1>3

\* The entries taken off are some of those listed.
LEMMA TakenIs ==
  ASSUME scenario.changes \in Seq(Changes), core.changes \in Seq(Changes), ListInv
  PROVE  Len(scenario.changes) \in Nat /\ Taken \in 0..Len(scenario.changes)
<1> DEFINE n == Len(scenario.changes)
           m == Len(core.changes)
<1>1. n \in Nat /\ m \in Nat /\ m <= n
  BY DEF ListInv, EndOfList
<1>2. Taken = n - m
  BY DEF Taken
<1> HIDE DEF n, m, Taken
<1>3. Taken \in 0..n
  BY <1>1, <1>2
<1> QED
  BY <1>1, <1>3 DEF n

\* The next entry of the list.
LEMMA NextEntry ==
  ASSUME Inv, Is("core"), core.changes # << >>
  PROVE  LET all == scenario.changes
             c   == core.changes
         IN  /\ all \in Seq(Changes) /\ Taken \in 0..Len(all) /\ Taken < Len(all)
             /\ EndOfList(Tail(c), all) /\ Len(all) - Len(Tail(c)) = Taken + 1
             /\ Head(c) = all[Taken + 1]
<1> DEFINE all == scenario.changes
           c == core.changes
<1>1. all \in Seq(Changes) /\ c \in Seq(Changes) /\ EndOfList(c, all)
  BY CoreDirector DEF Inv, CoreInv, ListInv, Cores
<1>2. Taken = Len(all) - Len(c)
  BY DEF Taken
<1> HIDE DEF all, c
<1>3. c # << >>
  BY DEF c
<1>4. Len(all) \in Nat /\ Len(c) \in Nat
  BY <1>1
<1>5. /\ Len(Tail(c)) = Len(c) - 1 /\ EndOfList(Tail(c), all) /\ Head(c) = all[Len(all) - Len(c) + 1]
      /\ Len(all) - Len(c) \in 0..Len(all) /\ Len(all) - Len(c) < Len(all)
  BY <1>1, <1>3, TakenOff
<1>6. Len(all) - Len(Tail(c)) = Len(all) - Len(c) + 1
  <2>1. \A i, j \in Nat : i - (j - 1) = i - j + 1
    OBVIOUS
  <2> QED
    BY <1>4, <1>5, <2>1, Zenon
<1> HIDE DEF Taken
<1> QED
  BY <1>1, <1>2, <1>5, <1>6 DEF all, c

LEMMA WalkLoadsLemma == Inv /\ WalkLoads => Inv'
<1> SUFFICES ASSUME Inv, WalkLoads PROVE Inv'
  OBVIOUS
<1> DEFINE all == scenario.changes
<1>1. /\ Is("core") /\ phase = "idle" /\ core.remaining <= 0 /\ core.changes # << >>
      /\ core' = Load(core) /\ walks' = walks + 1 /\ Walked("distances") /\ MapStep
  BY DEF WalkLoads, CoreStep, TimeIsUp
<1>2. phase' = "distances" /\ UNCHANGED <<scenario, run_loop, alive, points, matrix, raised, walkers, todo, togo>>
  BY <1>1 DEF Walked, MapStep
<1>3. ~ OnMap /\ phase # "none"
  BY <1>1, CoreDirector DEF Inv
<1>4. Control'
  BY <1>1, <1>3, WalkedControl DEF Inv, Control
<1>5. MapInv'
  BY <1>1, <1>2, <1>3, MapStays DEF Inv, MapInv
<1>6. /\ core' \in Cores /\ core'.changes = Tail(core.changes) /\ core'.remaining = Head(core.changes)[1]
      /\ core'.loaded = Head(core.changes)[2] /\ core'.remaining \in Nat
  BY <1>1, CoreChanges DEF Inv, CoreInv
<1>7. /\ all \in Seq(Changes) /\ Taken \in 0..Len(all) /\ Taken < Len(all)
      /\ EndOfList(core'.changes, all) /\ Len(all) - Len(core'.changes) = Taken + 1
      /\ Head(core.changes) = all[Taken + 1]
  BY <1>1, <1>6, NextEntry
<1>8. ListInv' /\ Taken' = Taken + 1
  BY <1>2, <1>7 DEF ListInv, Taken
<1>9. ASSUME raised = "none" PROVE ScheduleInv'
  <2>1. OnSchedule(all, Taken, core.loaded, core.remaining, walks) /\ walks \in Nat
    BY <1>1, <1>9 DEF Inv, CoreInv, ScheduleInv, Control
  <2>2. OnSchedule(all, Taken + 1, all[Taken + 1][2], all[Taken + 1][1], walks + 1)
    BY <1>1, <1>7, <2>1, NextFile
  <2>3. OnSchedule(all, Taken', core'.loaded, core'.remaining, walks')
    BY <1>1, <1>6, <1>7, <1>8, <2>2
  <2> QED
    BY <1>2, <2>3 DEF ScheduleInv
<1>10. CoreInv'
  <2>1. core'.remaining > 0 - TimeStep
    BY <1>6, DirectorAssumption
  <2> QED
    BY <1>2, <1>6, <1>8, <1>9, <2>1 DEF CoreInv, MatrixInv
<1> QED
  BY <1>4, <1>5, <1>10 DEF Inv

LEMMA WalkLoadFailsLemma == Inv /\ WalkLoadFails => Inv'
<1> SUFFICES ASSUME Inv, WalkLoadFails PROVE Inv'
  OBVIOUS
<1> DEFINE all == scenario.changes
<1>1. /\ Is("core") /\ phase = "idle" /\ core.changes # << >> /\ walkers' = walkers
      /\ core' = TakeChange(core) \/ core' = Load(core)
  BY DEF WalkLoadFails, CoreStep
<1>2. PICK why \in Reasons \ {"none"} : StepRaises(why)
  BY DEF WalkLoadFails, Reasons
<1>3. /\ phase' = "idle" /\ raised' # "none" /\ todo' = {} /\ togo' = 0
      /\ UNCHANGED <<scenario, matrix, walkers>>
  BY <1>1, <1>2 DEF StepRaises
<1>4. ~ OnMap /\ phase # "none"
  BY <1>1, CoreDirector DEF Inv
<1>5. Control'
  BY <1>2, <1>4, RaisesControl DEF Inv
<1>6. MapInv'
  BY <1>3, <1>4, MapStays DEF Inv
<1>7. /\ core' \in Cores /\ core'.changes = Tail(core.changes) /\ core'.remaining \in Nat
  BY <1>1, CoreChanges DEF Inv, CoreInv
<1>8. EndOfList(core'.changes, all)
  BY <1>1, <1>7, NextEntry
<1>9. core'.remaining > 0 - TimeStep
  BY <1>7, DirectorAssumption
<1>10. CoreInv'
  BY <1>3, <1>7, <1>8, <1>9 DEF CoreInv, ListInv
<1> QED
  BY <1>5, <1>6, <1>10 DEF Inv

\* A list that starts again.
LEMMA WholeList ==
  ASSUME NEW all \in Seq(Changes)
  PROVE  EndOfList(all, all) /\ Len(all) - Len(all) = 0 /\ 0 \in 0..Len(all)
<1>1. Len(all) \in Nat
  OBVIOUS
<1>2. \A k \in 1..Len(all) : Len(all) - Len(all) + k = k
  BY <1>1
<1> QED
  BY <1>1, <1>2 DEF EndOfList

LEMMA WalkEndsLemma == Inv /\ WalkEnds => Inv'
<1> SUFFICES ASSUME Inv, WalkEnds PROVE Inv'
  OBVIOUS
<1> DEFINE all == scenario.changes
<1>1. /\ Is("core") /\ phase = "idle" /\ core.changes = << >> /\ Walked("distances") /\ MapStep
      /\ \/ core' = [core EXCEPT !.changes = all, !.remaining = 0] /\ walks' = 0
         \/ core' = core /\ walks' = walks
  BY DEF WalkEnds, CoreStep, ResetCore
<1>2. phase' = "distances" /\ UNCHANGED <<scenario, run_loop, alive, points, matrix, raised, walkers, todo, togo>>
  BY <1>1 DEF Walked, MapStep
<1>3. ~ OnMap /\ phase # "none" /\ all \in Seq(Changes) /\ all # << >>
  BY <1>1, CoreDirector DEF Inv
<1>4. Control'
  BY <1>1, <1>3, WalkedControl DEF Inv, Control
<1>5. MapInv'
  BY <1>1, <1>2, <1>3, MapStays DEF Inv, MapInv
<1>6. core \in Cores /\ core.remaining > 0 - TimeStep
  BY DEF Inv, CoreInv
<1>7. CASE core' = core /\ walks' = walks
  <2>1. CoreInv'
    BY <1>1, <1>2, <1>7 DEF Inv, CoreInv, ListInv, ScheduleInv, MatrixInv, Taken, Is
  <2> QED
    BY <1>4, <1>5, <2>1 DEF Inv
<1>8. CASE core' = [core EXCEPT !.changes = all, !.remaining = 0] /\ walks' = 0
  <2>1. core' \in Cores /\ core'.changes = all /\ core'.remaining = 0 /\ core'.loaded = core.loaded
    BY <1>3, <1>6, <1>8, Restarted DEF ResetCore
  <2>2. ListInv' /\ Taken' = 0
    BY <1>2, <1>3, <2>1, WholeList DEF ListInv, Taken
  <2>3. ASSUME raised = "none" PROVE ScheduleInv'
    <3>1. OnSchedule(all, Taken, core.loaded, core.remaining, walks)
      BY <1>1, <2>3 DEF Inv, CoreInv, ScheduleInv
    <3>2. Taken = Len(all)
      BY <1>1, <1>3 DEF Taken
    <3>3. OnSchedule(all, 0, core.loaded, 0, 0)
      BY <1>3, <3>1, <3>2, NextRound
    <3>4. OnSchedule(all, Taken', core'.loaded, core'.remaining, walks')
      BY <1>8, <2>1, <2>2, <3>3
    <3> QED
      BY <1>2, <3>4 DEF ScheduleInv
  <2>4. core'.remaining > 0 - TimeStep
    BY <2>1, DirectorAssumption
  <2>5. CoreInv'
    BY <1>2, <2>1, <2>2, <2>3, <2>4 DEF CoreInv, MatrixInv
  <2> QED
    BY <1>4, <1>5, <2>5 DEF Inv
<1> QED
  BY <1>1, <1>7, <1>8

LEMMA WalkWaitsLemma == Inv /\ WalkWaits => Inv'
<1> SUFFICES ASSUME Inv, WalkWaits PROVE Inv'
  OBVIOUS
<1> DEFINE all == scenario.changes
<1>1. /\ Is("core") /\ phase = "idle" /\ ~ (core.remaining <= 0) /\ walks' = walks + 1
      /\ Walked("distances") /\ MapStep
      /\ core' = [core EXCEPT !.remaining = core.remaining - TimeStep]
  BY DEF WalkWaits, CoreStep, TimeIsUp
<1>2. phase' = "distances" /\ UNCHANGED <<scenario, run_loop, alive, points, matrix, raised, walkers, todo, togo>>
  BY <1>1 DEF Walked, MapStep
<1>3. ~ OnMap /\ phase # "none" /\ all \in Seq(Changes)
  BY <1>1, CoreDirector DEF Inv
<1>4. Control'
  BY <1>1, <1>3, WalkedControl DEF Inv, Control
<1>5. MapInv'
  BY <1>1, <1>2, <1>3, MapStays DEF Inv, MapInv
<1>6. core \in Cores /\ core.remaining \in Int /\ core.changes \in Seq(Changes)
  BY DEF Inv, CoreInv, Cores
<1>7. core.remaining > 0 /\ core.remaining - TimeStep \in Int /\ core.remaining - TimeStep > 0 - TimeStep
  BY <1>1, <1>6, DirectorAssumption
<1>8. /\ core' \in Cores /\ core'.changes = core.changes /\ core'.remaining = core.remaining - TimeStep
      /\ core'.loaded = core.loaded
  <2> DEFINE r == core.remaining - TimeStep
  <2>1. r \in Int /\ core' = [core EXCEPT !.remaining = r]
    BY <1>1, <1>7
  <2> HIDE DEF r
  <2>2. core' \in Cores /\ core'.changes = core.changes /\ core'.remaining = r /\ core'.loaded = core.loaded
    BY <1>6, <2>1 DEF Cores
  <2> QED
    BY <2>2 DEF r
<1>9. ListInv /\ ListInv' /\ Taken' = Taken /\ Taken \in 0..Len(all)
  <2>1. ListInv
    BY <1>1 DEF Inv, CoreInv
  <2>2. Taken \in 0..Len(all)
    BY <1>3, <1>6, <2>1, TakenIs
  <2> QED
    BY <1>2, <1>8, <2>1, <2>2 DEF ListInv, Taken
<1>10. ASSUME raised = "none" PROVE ScheduleInv'
  <2>1. OnSchedule(all, Taken, core.loaded, core.remaining, walks) /\ walks \in Nat
    BY <1>1, <1>10 DEF Inv, CoreInv, ScheduleInv, Control
  <2>2. OnSchedule(all, Taken, core.loaded, core.remaining - TimeStep, walks + 1)
    BY <1>3, <1>7, <1>9, <2>1, SameFile
  <2>3. OnSchedule(all, Taken', core'.loaded, core'.remaining, walks')
    BY <1>1, <1>8, <1>9, <2>2
  <2> QED
    BY <1>2, <2>3 DEF ScheduleInv
<1>11. core'.remaining > 0 - TimeStep
  BY <1>7, <1>8
<1>12. CoreInv'
  BY <1>2, <1>8, <1>9, <1>10, <1>11 DEF CoreInv, MatrixInv
<1> QED
  BY <1>4, <1>5, <1>12 DEF Inv

\* A step that raises and leaves core and walkers alone.
LEMMA RaisesLemma ==
  ASSUME Inv, NEW why \in Reasons \ {"none", "trapped"}, StepRaises(why), Is("core"),
         UNCHANGED <<core, walkers>>
  PROVE  Inv'
<1>1. ~ OnMap /\ phase # "none"
  BY CoreDirector DEF Inv
<1>2. Control'
  BY <1>1, RaisesControl DEF Inv
<1>3. phase' = "idle" /\ raised' # "none" /\ todo' = {} /\ togo' = 0 /\ scenario' = scenario
  BY DEF StepRaises
<1>4. MapInv'
  BY <1>1, <1>3, MapStays DEF Inv
<1>5. CoreInv'
  BY <1>3 DEF Inv, CoreInv, ListInv
<1> QED
  BY <1>2, <1>4, <1>5 DEF Inv

LEMMA WalkWithoutRunLoopLemma == Inv /\ WalkWithoutRunLoop => Inv'
  BY RaisesLemma DEF WalkWithoutRunLoop, CoreStep, Reasons

LEMMA NoMobilityStepLemma == Inv /\ NoMobilityStep => Inv'
<1> SUFFICES ASSUME Inv, NoMobilityStep PROVE Inv'
  OBVIOUS
<1>1. ~ Is("core") /\ ~ OnMap /\ phase = "idle"
  BY DEF NoMobilityStep, Is, OnMap, MapModels
<1>2. Walked("distances") /\ MapStep /\ UNCHANGED <<core, walks>>
  BY DEF NoMobilityStep
<1>3. phase' = "distances" /\ UNCHANGED <<scenario, walkers, todo, togo>>
  BY <1>2 DEF Walked, MapStep
<1>4. Control'
  BY <1>1, <1>2, WalkedControl DEF Inv, Control
<1>5. MapInv'
  BY <1>1, <1>3, MapStays DEF Inv, MapInv
<1>6. CoreInv'
  BY <1>1, <1>2, <1>3, CoreStays DEF Inv
<1> QED
  BY <1>4, <1>5, <1>6 DEF Inv

LEMMA GetDistancesLemma == Inv /\ GetDistances => Inv'
<1> SUFFICES ASSUME Inv, GetDistances PROVE Inv'
  OBVIOUS
<1>1. /\ phase = "distances" /\ phase' = "idle" /\ matrix' = Distances
      /\ UNCHANGED <<scenario, run_loop, alive, points, core, walkers, todo, togo, raised, walks>>
  BY DEF GetDistances
<1>2. Control'
  BY <1>1 DEF Inv, Control
<1>3. MapInv'
  BY <1>1 DEF Inv, MapInv, OnMap
<1>4. CoreInv'
  <2>1. CASE ~ Is("core")
    BY <1>1, <2>1, CoreStays DEF Inv
  <2>2. CASE Is("core")
    <3>1. ~ Is("none") /\ ~ OnMap
      BY <2>2 DEF Is, OnMap, MapModels
    <3>2. scenario.mode = "lan" => matrix' = LanMatrix(core.loaded, scenario.nodes)
      BY <1>1, <2>2, <3>1 DEF Distances
    <3>3. MatrixInv'
      BY <1>1, <3>2 DEF MatrixInv
    <3> QED
      BY <1>1, <2>2, <3>3 DEF Inv, CoreInv, ListInv, ScheduleInv, Taken, Is
  <2> QED
    BY <2>1, <2>2
<1> QED
  BY <1>2, <1>3, <1>4 DEF Inv

LEMMA GetDistancesRaisesLemma == Inv /\ GetDistancesRaises => Inv'
  BY RaisesLemma DEF GetDistancesRaises, Known, Reasons

-----------------------------------------------------------------------------
(***************************************************************************)
(* The factory and the abort.                                              *)
(***************************************************************************)

LEMMA CreatedLemma ==
  ASSUME Inv, NEW s \in Scenarios, NEW auto \in BOOLEAN, Created(s, auto)
  PROVE  /\ Control'
         /\ ~ OnMap /\ walkers = NoWalkers /\ matrix = NoMatrix
         /\ phase' = "idle" /\ todo' = {} /\ togo' \in Nat /\ raised' = "none" /\ walks' = 0
         /\ scenario' = s /\ matrix' = matrix
         /\ core \in Cores /\ core.remaining > 0 - TimeStep
<1>1. /\ phase = "none" /\ scenario' = s /\ phase' = "idle" /\ run_loop' = auto /\ alive' = auto
      /\ raised' = "none" /\ walks' = 0 /\ UNCHANGED <<points, todo, togo, matrix>>
  BY DEF Created
<1>2. scenario = NoScenario /\ s # NoScenario
  BY <1>1, DirectorAssumption DEF Inv, Control
<1>3. Control'
  BY <1>1, <1>2 DEF Inv, Control, Reasons
<1>4. ~ OnMap
  BY <1>2 DEF OnMap
<1> QED
  BY <1>1, <1>3, <1>4 DEF Inv, MapInv, CoreInv

LEMMA CreateNoMobilityLemma ==
  ASSUME Inv, NEW s \in Scenarios, NEW auto \in BOOLEAN, CreateNoMobility(s, auto)
  PROVE  Inv'
<1>1. Created(s, auto) /\ s.model = "none" /\ UNCHANGED <<core, walkers>>
  BY DEF CreateNoMobility
<1>2. ~ OnMap' /\ ~ Is("core")'
  BY <1>1, CreatedLemma DEF OnMap, Is, MapModels
<1>3. MapInv'
  BY <1>1, <1>2, CreatedLemma DEF MapInv
<1>4. CoreInv'
  BY <1>1, <1>2, CreatedLemma DEF CoreInv
<1> QED
  BY <1>1, <1>3, <1>4, CreatedLemma DEF Inv

LEMMA CreateCoreLemma ==
  ASSUME Inv, NEW s \in Scenarios, NEW auto \in BOOLEAN, CreateCore(s, auto)
  PROVE  Inv'
<1>1. Created(s, auto) /\ s.model = "core" /\ walkers' = walkers
      /\ core' = [changes |-> s.changes, remaining |-> 0, loaded |-> NoFile]
  BY DEF CreateCore, NewCore
<1>2. s.changes \in Seq(Changes) /\ s.changes # << >>
  BY <1>1, CoreScenario
<1>3. core' \in Cores /\ core'.changes = s.changes /\ core'.remaining = 0 /\ core'.loaded = NoFile
  BY <1>1, <1>2 DEF Cores
<1>4. ~ OnMap' /\ scenario' = s /\ walks' = 0 /\ phase' = "idle" /\ matrix' = NoMatrix
  BY <1>1, CreatedLemma DEF OnMap, MapModels
<1>5. MapInv'
  BY <1>1, <1>4, CreatedLemma DEF MapInv
<1>6. ListInv' /\ Taken' = 0
  BY <1>2, <1>3, <1>4, WholeList DEF ListInv, Taken
<1>7. ScheduleInv'
  BY <1>3, <1>4, <1>6 DEF ScheduleInv, OnSchedule, RoundBegins
<1>8. core'.remaining > 0 - TimeStep
  BY <1>3, DirectorAssumption
<1>9. CoreInv'
  BY <1>3, <1>4, <1>6, <1>7, <1>8 DEF CoreInv, MatrixInv
<1> QED
  BY <1>1, <1>5, <1>9, CreatedLemma DEF Inv

LEMMA CreateWalkersLemma ==
  ASSUME Inv, NEW s \in Scenarios, NEW auto \in BOOLEAN, CreateWalkers(s, auto)
  PROVE  Inv'
<1>1. Created(s, auto) /\ s.model \in MapModels /\ core' = core
      /\ walkers' \in [0..(s.nodes - 1) -> NewWalkers(s.model)]
  BY DEF CreateWalkers
<1>2. OnMap' /\ ~ Is("core")'
  BY <1>1, CreatedLemma, DirectorAssumption DEF OnMap, Is, MapModels
<1>3. \A k \in 0..(s.nodes - 1) : walkers'[k] \in NewWalkers(s.model)
  BY <1>1
<1>4. walkers' = [k \in 0..(s.nodes - 1) |-> walkers'[k]]
  BY <1>1
<1>5. ASSUME NEW k \in 0..(s.nodes - 1) PROVE WalkerInv(walkers'[k], "none")
  BY <1>1, <1>3, NewWalkersLemma
<1>6. WalkersInv(walkers', s.nodes, "none")
  BY <1>4, <1>5 DEF WalkersInv
<1>7. MapInv'
  BY <1>1, <1>2, <1>6, CreatedLemma DEF MapInv
<1>8. CoreInv'
  BY <1>1, <1>2, CreatedLemma DEF CoreInv
<1> QED
  BY <1>1, <1>7, <1>8, CreatedLemma DEF Inv

\* No director: nothing to walk and nothing to show.
LEMMA NoDirector ==
  ASSUME scenario = NoScenario, phase = "none", alive = FALSE, run_loop = FALSE,
         points \in BOOLEAN, core = Idle, walkers = NoWalkers, todo = {}, togo \in Nat,
         matrix = NoMatrix, raised = "none", walks = 0
  PROVE  Inv
<1>1. Control
  BY DEF Control, Reasons
<1>2. MapInv
  BY DEF MapInv, OnMap
<1>3. core = [changes |-> << >>, remaining |-> 0, loaded |-> NoFile] /\ << >> \in Seq(Changes)
  BY DEF Idle, NewCore
<1>4. core \in Cores /\ core.remaining = 0
  BY <1>3 DEF Cores
<1>5. core.remaining > 0 - TimeStep
  BY <1>4, DirectorAssumption
<1>6. CoreInv
  BY <1>4, <1>5 DEF CoreInv, Is
<1> QED
  BY <1>1, <1>2, <1>6 DEF Inv

LEMMA AbortLemma == Inv /\ Abort => Inv'
<1> SUFFICES ASSUME Inv, Abort PROVE Inv'
  OBVIOUS
<1>1. todo' = {} /\ togo' \in Nat
  BY DEF Abort, Inv, MapInv
<1>2. Control'
  BY DEF Abort, Control, Reasons
<1>3. MapInv'
  BY <1>1 DEF Abort, MapInv, OnMap
<1>4. core' = [changes |-> << >>, remaining |-> 0, loaded |-> NoFile] /\ << >> \in Seq(Changes)
  BY DEF Abort, Idle, NewCore
<1>5. core' \in Cores /\ core'.remaining = 0
  BY <1>4 DEF Cores
<1>6. core'.remaining > 0 - TimeStep
  BY <1>5, DirectorAssumption
<1>7. CoreInv'
  BY <1>5, <1>6 DEF Abort, CoreInv, Is
<1> QED
  BY <1>2, <1>3, <1>7 DEF Inv

LEMMA NothingHappens == Inv /\ UNCHANGED vars => Inv'
<1> SUFFICES ASSUME Inv, UNCHANGED vars PROVE Inv'
  OBVIOUS
<1> USE DEF vars
<1>1. Control'
  BY DEF Inv, Control
<1>2. MapInv'
  BY DEF Inv, MapInv, OnMap
<1>3. CoreInv'
  BY DEF Inv, CoreInv, Is, ListInv, ScheduleInv, MatrixInv, Taken
<1> QED
  BY <1>1, <1>2, <1>3 DEF Inv
-----------------------------------------------------------------------------
(***************************************************************************)
(* The theorems.                                                           *)
(***************************************************************************)

(***************************************************************************)
(* Every action of MovementDirector keeps the invariant, with any number   *)
(* of scenarios one after the other: lists of files, walkers and what the  *)
(* factory and an abort make of them.                                      *)
(***************************************************************************)
THEOREM DirectorInvariant == Spec => []Inv
<1>1. Init => Inv
  <2> SUFFICES ASSUME Init PROVE Inv
    OBVIOUS
  <2>1. points \in BOOLEAN /\ togo \in Nat
    BY DEF Init
  <2> QED
    BY <2>1, NoDirector, Zenon DEF Init
<1>2. Inv /\ [Next]_vars => Inv'
  <2> SUFFICES ASSUME Inv, [Next]_vars PROVE Inv'
    OBVIOUS
  <2>1. CASE Start
    <3>1. PICK s \in Scenarios :
            \/ \E auto \in BOOLEAN : \/ CreateNoMobility(s, auto)
                                     \/ CreateCore(s, auto)
                                     \/ CreateWalkers(s, auto)
            \/ FactoryRaises(s)
      BY <2>1 DEF Start
    <3>2. CASE FactoryRaises(s)
      BY <3>2, NothingHappens DEF FactoryRaises
    <3>3. ASSUME NEW auto \in BOOLEAN,
                 CreateNoMobility(s, auto) \/ CreateCore(s, auto) \/ CreateWalkers(s, auto)
          PROVE  Inv'
      BY <3>3, CreateNoMobilityLemma, CreateCoreLemma, CreateWalkersLemma
    <3> QED
      BY <3>1, <3>2, <3>3
  <2>2. CASE Step
    BY <2>2, NoMobilityStepLemma, WalkLoadsLemma, WalkLoadFailsLemma, WalkEndsLemma,
       WalkWaitsLemma, WalkWithoutRunLoopLemma, BeginMapStepLemma, WalkOnLemma, StandStillLemma,
       WalkPastLemma, CarIsTrappedLemma, GetDistancesLemma, GetDistancesRaisesLemma DEF Step
  <2>3. CASE Abort
    BY <2>3, AbortLemma
  <2>4. CASE UNCHANGED vars
    BY <2>4, NothingHappens
  <2> QED
    BY <2>1, <2>2, <2>3, <2>4 DEF Next
<1> QED
  BY <1>1, <1>2, PTL DEF Spec

(***************************************************************************)
(* The variables keep their types; in particular the seconds that a file   *)
(* has left never fall below zero by a whole step, and every walker that   *)
(* has somewhere to go has a way left.                                     *)
(***************************************************************************)
THEOREM DirectorTypes == Spec => []TypeOK
<1>1. ASSUME Inv PROVE TypeOK
  <2> DEFINE ns == 0..(scenario.nodes - 1)
  <2>1. core.remaining \in Int /\ core.remaining > 0 - TimeStep
        /\ core.loaded \in DOMAIN CoreFiles \cup {NoFile}
    BY <1>1 DEF Inv, CoreInv, Cores
  <2>2. CASE OnMap
    <3>1. WalkersInv(walkers, scenario.nodes, raised)
      BY <1>1, <2>2 DEF Inv, MapInv
    <3>2. DOMAIN walkers = ns /\ \A n \in ns : walkers[n].left > 0 \/ Stands(walkers[n])
      BY <3>1, Zenon DEF WalkersInv, WalkerInv
    <3>3. todo \subseteq ns
      <4>1. CASE phase = "walk"
        BY <1>1, <2>2, <4>1, FirstIs DEF Inv
      <4>2. CASE phase # "walk"
        BY <1>1, <4>2 DEF Inv, MapInv
      <4> QED
        BY <4>1, <4>2
    <3> QED
      BY <1>1, <2>1, <3>2, <3>3 DEF Inv, Control, MapInv, TypeOK
  <2>3. CASE ~ OnMap
    <3>1. walkers = << >> /\ todo = {}
      BY <1>1, <2>3 DEF Inv, MapInv, NoWalkers
    <3>2. \A n \in DOMAIN walkers : walkers[n].left > 0 \/ Stands(walkers[n])
      BY <3>1
    <3> QED
      BY <1>1, <2>1, <2>3, <3>1, <3>2 DEF Inv, Control, MapInv, TypeOK
  <2> QED
    BY <2>2, <2>3
<1> QED
  BY <1>1, DirectorInvariant, PTL

\* The walk that the schedule is in belongs to the entry taken last.
LEMMA WalkOfEntry ==
  ASSUME NEW all \in Seq(Changes), NEW t \in 0..Len(all), NEW file, NEW seconds, NEW k \in Nat,
         OnSchedule(all, t, file, seconds, k), NEW i \in 1..Len(all),
         LastWalk(all)[i - 1] < k, k <= LastWalk(all)[i]
  PROVE  file = all[i][2]
<1> DEFINE e == LastWalk(all)
           n == Len(all)
<1>1. Ends(e, all) /\ n \in Nat
  BY EndOfIs
<1>2. i \in 0..n /\ i - 1 \in 0..n /\ e[i - 1] \in Nat /\ e[i] \in Nat
  <2>1. e \in [0..n -> Nat]
    BY <1>1 DEF Ends, EndsAre
  <2>2. i \in 0..n /\ i - 1 \in 0..n
    BY <1>1
  <2> QED
    BY <2>1, <2>2
<1>3. t # 0
  BY <1>2 DEF OnSchedule, RoundBegins
<1>4. t \in 1..n /\ t - 1 \in 0..n /\ e[t - 1] \in Nat /\ e[t] \in Nat
  BY <1>1, <1>3 DEF Ends, EndsAre
<1>5. file = all[t][2] /\ e[t - 1] < k /\ k <= e[t]
  BY <1>3 DEF OnSchedule, FileShown
<1>6. \A a, b \in 0..n : a < b => e[a] < e[b]
  BY <1>1, EndsGrow
<1> HIDE DEF e, n
<1>7. \A a, b \in 0..n : a <= b => e[a] <= e[b]
  <2> SUFFICES ASSUME NEW a \in 0..n, NEW b \in 0..n, a <= b PROVE e[a] <= e[b]
    OBVIOUS
  <2>1. e[a] \in Nat /\ e[b] \in Nat
    BY <1>1 DEF Ends, EndsAre, n
  <2> QED
    BY <1>1, <1>6, <2>1
<1>8. ~ (t < i)
  <2> SUFFICES ASSUME t < i PROVE FALSE
    OBVIOUS
  <2>1. t <= i - 1
    BY <1>1, <1>2, <1>4
  <2>2. e[t] <= e[i - 1]
    BY <1>2, <1>4, <1>7, <2>1
  <2> QED
    BY <1>2, <1>4, <1>5, <2>2 DEF e
<1>9. ~ (i < t)
  <2> SUFFICES ASSUME i < t PROVE FALSE
    OBVIOUS
  <2>1. i <= t - 1
    BY <1>1, <1>2, <1>4
  <2>2. e[i] <= e[t - 1]
    BY <1>2, <1>4, <1>7, <2>1
  <2> QED
    BY <1>2, <1>4, <1>5, <2>2 DEF e
<1>10. t = i
  BY <1>1, <1>2, <1>4, <1>8, <1>9
<1> QED
  BY <1>5, <1>10

(***************************************************************************)
(* For every list of files, every number of seconds and every length of a  *)
(* step: as long as no step raised, the file shown in walk k of a round is *)
(* the one whose turn it is by the sum of the times before it and one step *)
(* for each of them, and in LAN mode the matrix of a completed step joins  *)
(* two nodes exactly if a channel of that file does.                       *)
(***************************************************************************)
THEOREM FilesComeInTurn == Spec => []FilesInTurn
<1>1. ASSUME Inv PROVE FilesInTurn
  <2> SUFFICES ASSUME Is("core"), raised = "none"
               PROVE  /\ ShowsInTurn(1)
                      /\ walks = 0 /\ core.loaded # NoFile =>
                           Shows(scenario.changes[Len(scenario.changes)][2])
    BY DEF FilesInTurn
  <2> DEFINE all == scenario.changes
  <2>1. all \in Seq(Changes) /\ scenario \in Scenarios /\ scenario.nodes \in Nat /\ core.changes \in Seq(Changes)
    BY <1>1, CoreDirector, DirectorAssumption DEF Inv, CoreInv, Cores
  <2>2. ListInv /\ ScheduleInv /\ MatrixInv /\ walks \in Nat
    BY <1>1 DEF Inv, CoreInv, Control
  <2>3. Len(all) \in Nat /\ Taken \in 0..Len(all)
    BY <2>1, <2>2, TakenIs
  <2>4. ASSUME NEW file, core.loaded = file PROVE Shows(file)
    <3>1. \A p \in PairsOf(scenario.nodes) :
            LanMatrix(file, scenario.nodes)[p] # Unlimited <=> Joined(file, p[1], p[2])
      BY <2>1, LanMatrixJoins
    <3> QED
      BY <2>2, <2>4, <3>1 DEF Shows, MatrixInv
  <2>5. OnSchedule(all, Taken, core.loaded, core.remaining, walks)
    BY <2>2 DEF ScheduleInv
  <2>6. ASSUME NEW i \in 1..Len(all), LastWalk(all)[i - 1] < walks, walks <= LastWalk(all)[i]
        PROVE  Shows(all[i][2])
    <3>1. core.loaded = all[i][2]
      BY <2>1, <2>2, <2>3, <2>5, <2>6, WalkOfEntry
    <3> QED
      BY <2>4, <3>1
  <2>7. ASSUME walks = 0, core.loaded # NoFile PROVE Shows(all[Len(all)][2])
    <3>1. CASE Taken = 0
      <4>1. core.loaded = all[Len(all)][2]
        BY <2>5, <2>7, <3>1 DEF OnSchedule, RoundBegins
      <4> QED
        BY <2>4, <4>1
    <3>2. CASE Taken # 0
      <4>1. LastWalk(all)[Taken - 1] < 0
        BY <2>5, <2>7, <3>2 DEF OnSchedule, FileShown
      <4>2. Ends(LastWalk(all), all) /\ Taken - 1 \in 0..Len(all)
        BY <2>1, <2>3, <3>2, EndOfIs
      <4>3. LastWalk(all)[Taken - 1] \in Nat
        BY <4>2 DEF Ends, EndsAre
      <4> QED
        BY <4>1, <4>3
    <3> QED
      BY <3>1, <3>2
  <2> QED
    BY <2>6, <2>7 DEF ShowsInTurn, LastWalk
<1> QED
  BY <1>1, DirectorInvariant, PTL

(***************************************************************************)
(* On every map: a walker is between two map nodes that a road joins, in   *)
(* the direction it may take, with its way adding up, unless it stands or  *)
(* is a car whose choice raised.                                           *)
(***************************************************************************)
THEOREM WalkersStayOnRoads == Spec => []OnRoad
<1>1. ASSUME Inv PROVE OnRoad
  <2>1. CASE OnMap
    <3>1. WalkersInv(walkers, scenario.nodes, raised)
      BY <1>1, <2>1 DEF Inv, MapInv
    <3>2. \A n \in DOMAIN walkers : Placed(walkers[n], raised)
      BY <3>1, Zenon DEF WalkersInv, WalkerInv
    <3> QED
      BY <3>2, Zenon DEF OnRoad, Placed
  <2>2. CASE ~ OnMap
    <3>1. DOMAIN walkers = {}
      BY <1>1, <2>2 DEF Inv, MapInv, NoWalkers
    <3> QED
      BY <3>1 DEF OnRoad
  <2> QED
    BY <2>1, <2>2
<1> QED
  BY <1>1, DirectorInvariant, PTL
=============================================================================

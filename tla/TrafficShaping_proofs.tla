----------------------- MODULE TrafficShaping_proofs -----------------------
(***************************************************************************)
(* Proofs about the WiFi backend with traffic shaping, for any set of      *)
(* nodes, distances, matrices, failure points and number of failures.      *)
(***************************************************************************)
EXTENDS TrafficShaping, WellFoundedInduction, TLAPS
-----------------------------------------------------------------------------
(***************************************************************************)
(* The command queue.                                                      *)
(***************************************************************************)

\* Adding a command to an event's queue keeps its type and adds one element.
LEMMA AddUniqueLemma ==
  ASSUME NEW T, NEW s \in Seq(T), NEW c \in T
  PROVE  /\ Shell!AddUnique(s, c) \in Seq(T)
         /\ Shell!Queued(Shell!AddUnique(s, c)) = Shell!Queued(s) \cup {c}
<1>1. CASE c \in Shell!Queued(s)
  BY <1>1 DEF Shell!AddUnique
<1>2. CASE c \notin Shell!Queued(s)
  <2>1. Shell!AddUnique(s, c) = Append(s, c)
    BY <1>2 DEF Shell!AddUnique
  <2>2. Append(s, c) \in Seq(T)
    OBVIOUS
  <2>3. Shell!Queued(Append(s, c)) = Shell!Queued(s) \cup {c}
    <3> DEFINE n == Len(s)
    <3>1. /\ n \in Nat
          /\ DOMAIN s = 1..n
          /\ DOMAIN Append(s, c) = 1..(n+1)
          /\ \A k \in 1..n : Append(s, c)[k] = s[k]
          /\ Append(s, c)[n+1] = c
      OBVIOUS
    <3>2. 1..(n+1) = 1..n \cup {n+1}
      BY <3>1
    <3> HIDE DEF n
    <3>3. QED
      BY <3>1, <3>2, Zenon DEF Shell!Queued
  <2>4. QED
    BY <2>1, <2>2, <2>3
<1>3. QED
  BY <1>1, <1>2

\* AddCommand touches the queue of one event only.
LEMMA AddCommandLemma ==
  ASSUME NEW q, Shell!IsQueue(q), NEW e \in Events, NEW c
  PROVE  /\ Shell!IsQueue(Shell!AddCommand(q, e, c))
         /\ Shell!AddCommand(q, e, c).cmds[e] = Shell!AddUnique(q.cmds[e], c)
         /\ \A o \in Events \ {e} : Shell!AddCommand(q, e, c).cmds[o] = q.cmds[o]
  BY DEF Shell!IsQueue, Shell!AddCommand

\* New and reset queues hold no commands.
LEMMA FreshLemma ==
  /\ Shell!IsQueue(Shell!FreshSerializer)
  /\ Shell!IsQueue(Shell!ResetSerializer)
  /\ \A e \in Events : /\ Shell!FreshSerializer.cmds[e] = <<>>
                       /\ Shell!ResetSerializer.cmds[e] = <<>>
  BY DEF Shell!IsQueue, Shell!FreshSerializer, Shell!ResetSerializer, Shell!NoCommands

\* The elements of a typed command queue.
LEMMA QueuedLemma ==
  ASSUME NEW T, NEW s \in Seq(T)
  PROVE  Shell!Queued(s) \in SUBSET T
  BY DEF Shell!Queued

(***************************************************************************)
(* The connection store.                                                   *)
(***************************************************************************)

\* A connection that was just added is active, so link_up changes nothing.
LEMMA StoreUpLemma ==
  ASSUME NEW s \in Store!Stores, NEW p \in Pairs, NEW ifs \in IfPairs
  PROVE  Store!ChangeState(Store!AddConnection(s, p, ifs), p, ifs, TRUE)
           = [s EXCEPT !.active[p] = @ \cup {ifs}]
  BY DEF Store!ChangeState, Store!AddConnection, Store!Stores

\* An active connection of a pair without inactive ones is lost by link_down.
LEMMA StoreDownLemma ==
  ASSUME NEW s \in Store!Stores, NEW p \in Pairs, NEW ifs \in s.active[p],
         s.inactive[p] = {}
  PROVE  Store!ChangeState(s, p, ifs, FALSE)
           = [s EXCEPT !.active[p] = @ \ {ifs}]
  BY DEF Store!ChangeState, Store!PutIfKeyed, Store!Stores

(***************************************************************************)
(* Recursive functions.  Induction is used in the form of sets: there is   *)
(* no least number outside of a set that holds 0 and is closed under + 1.  *)
(***************************************************************************)
LEMMA NatLeast ==
  ASSUME NEW T \in SUBSET Nat, T # {}
  PROVE  \E x \in T : \A y \in T : ~ (y < x)
<1> DEFINE R == OpToRel(<, Nat)
<1>1. IsWellFoundedOn(R, Nat)
  BY NatLessThanWellFounded, Zenon
<1>2. \A x, y \in Nat : <<y, x>> \in R <=> y < x
  BY DEF OpToRel
<1> HIDE DEF R
<1>3. \E x \in T : \A y \in T : ~ (<<y, x>> \in R)
  BY <1>1, WFMin
<1> QED
  BY <1>2, <1>3

LEMMA NatSet ==
  ASSUME NEW S \in SUBSET Nat, 0 \in S, \A n \in S : n + 1 \in S
  PROVE  S = Nat
<1> SUFFICES ASSUME Nat \ S # {} PROVE FALSE
  OBVIOUS
<1>1. PICK x \in Nat \ S : \A y \in Nat \ S : ~ (y < x)
  <2> DEFINE T == Nat \ S
  <2>1. T \in SUBSET Nat /\ T # {}
    OBVIOUS
  <2> HIDE DEF T
  <2>2. \E x \in T : \A y \in T : ~ (y < x)
    BY <2>1, NatLeast
  <2> QED
    BY <2>2 DEF T
<1>2. x # 0 /\ x - 1 \in Nat /\ x - 1 < x /\ (x - 1) + 1 = x
  BY <1>1
<1> QED
  BY <1>1, <1>2

\* The same for an interval from 0.
LEMMA UpTo ==
  ASSUME NEW N \in Nat, NEW S \in SUBSET (0..N), 0 \in S,
         \A n \in 1..N : n - 1 \in S => n \in S
  PROVE  S = 0..N
<1> DEFINE U == {n \in Nat : n \in S \/ n > N}
<1>1. U \in SUBSET Nat /\ 0 \in U
  OBVIOUS
<1>2. ASSUME NEW n \in U PROVE n + 1 \in U
  <2>1. CASE n + 1 > N
    BY <2>1
  <2>2. CASE n + 1 <= N
    <3>1. n + 1 \in 1..N /\ (n + 1) - 1 = n /\ n \in S
      BY <2>2
    <3> QED
      BY <3>1
  <2> QED
    BY <2>1, <2>2
<1> HIDE DEF U
<1>3. U = Nat
  BY <1>1, <1>2, NatSet
<1>4. \A n \in 0..N : n \in S
  <2> SUFFICES ASSUME NEW n \in 0..N PROVE n \in S
    OBVIOUS
  <2>1. n \in U /\ ~ (n > N)
    BY <1>3
  <2> QED
    BY <2>1 DEF U
<1> QED
  BY <1>4

\* A function is defined on 0..N by its value at 0 and a step from n - 1 to n.
Follows(g, T, N, t, step) ==
  g \in [0..N -> T] /\ g[0] = t /\ \A n \in 1..N : g[n] = step[n][g[n-1]]

LEMMA RecursionExists ==
  ASSUME NEW T, NEW N \in Nat, NEW t \in T, NEW step \in [1..N -> [T -> T]]
  PROVE  \E g : Follows(g, T, N, t, step)
<1> DEFINE Good(g, k) == g[0] = t /\ \A n \in 1..k : g[n] = step[n][g[n-1]]
           S == {k \in 0..N : \E g \in [0..k -> T] : Good(g, k)}
<1>1. 0 \in S
  <2> DEFINE g == [i \in 0..0 |-> t]
  <2>1. g \in [0..0 -> T] /\ g[0] = t
    OBVIOUS
  <2> HIDE DEF g
  <2>2. Good(g, 0)
    BY <2>1
  <2> QED
    BY <2>1, <2>2
<1>2. ASSUME NEW n \in 1..N, n - 1 \in S PROVE n \in S
  <2>1. PICK g \in [0..(n-1) -> T] : Good(g, n - 1)
    BY <1>2
  <2> DEFINE v == step[n][g[n-1]]
             h == [i \in 0..n |-> IF i = n THEN v ELSE g[i]]
  <2>2. v \in T
    <3>1. g[n-1] \in T
      OBVIOUS
    <3> QED
      BY <3>1
  <2>3. h \in [0..n -> T]
    BY <2>2
  <2>4. h[n] = v /\ \A i \in 0..(n-1) : h[i] = g[i]
    OBVIOUS
  <2>5. Good(h, n)
    <3>1. h[0] = t
      BY <2>1, <2>4
    <3>2. ASSUME NEW i \in 1..n PROVE h[i] = step[i][h[i-1]]
      <4>1. CASE i = n
        <5>1. n - 1 \in 0..(n-1) /\ n \in Nat
          OBVIOUS
        <5> HIDE DEF h
        <5> QED
          BY <2>4, <4>1, <5>1 DEF v
      <4>2. CASE i # n
        <5>1. i \in 1..(n-1) /\ i - 1 \in 0..(n-1) /\ i \in 0..(n-1)
          BY <4>2
        <5> HIDE DEF h
        <5> QED
          BY <2>1, <2>4, <5>1
      <4> QED
        BY <4>1, <4>2
    <3> HIDE DEF h
    <3> QED
      BY <3>1, <3>2
  <2> HIDE DEF h, Good
  <2> QED
    BY <2>3, <2>5
<1>3. S = 0..N
  <2>1. S \in SUBSET (0..N)
    OBVIOUS
  <2> HIDE DEF S
  <2> QED
    BY <1>1, <1>2, <2>1, UpTo
<1>4. N \in S
  BY <1>3
<1> QED
  BY <1>4 DEF Follows

(***************************************************************************)
(* The ebtables commands and the tc batch, one after the other.            *)
(***************************************************************************)
LEMMA EditTyped ==
  ASSUME NEW t \in Tables, NEW c \in RuleCommands
  PROVE  /\ Edit(t, c) \in Tables
         /\ Edit(t, c).chain = t.chain
         /\ Edit(t, c).rules[c[2]] = IF c[1] = "I" THEN t.rules[c[2]] + 1
                                     ELSE IF t.rules[c[2]] > 0 THEN t.rules[c[2]] - 1
                                     ELSE t.rules[c[2]]
         /\ \A d \in Directions \ {c[2]} : Edit(t, c).rules[d] = t.rules[d]
<1>1. c[2] \in Directions
  BY DEF RuleCommands
<1> QED
  BY <1>1 DEF Tables, Edit

LEMMA EditAllSteps ==
  ASSUME NEW t \in Tables, NEW cmds \in Seq(RuleCommands)
  PROVE  LET after == EditAll(t, cmds)
         IN  /\ after \in [0..Len(cmds) -> Tables]
             /\ after[0] = t
             /\ \A n \in 1..Len(cmds) :
                  after[n] = IF t.chain THEN Edit(after[n-1], cmds[n]) ELSE t
<1> DEFINE N == Len(cmds)
           step == [n \in 1..N |-> [u \in Tables |-> IF t.chain THEN Edit(u, cmds[n]) ELSE t]]
           F(f) == f = [n \in 0..N |-> IF n = 0 \/ ~ t.chain THEN t ELSE Edit(f[n-1], cmds[n])]
<1>0. N \in Nat /\ \A n \in 1..N : cmds[n] \in RuleCommands
  OBVIOUS
<1>1. step \in [1..N -> [Tables -> Tables]]
  BY <1>0, EditTyped
<1>2. \A n \in 1..N, u \in Tables : step[n][u] = IF t.chain THEN Edit(u, cmds[n]) ELSE t
  OBVIOUS
<1>3. EditAll(t, cmds) = CHOOSE f : F(f)
  BY DEF EditAll
<1> HIDE DEF step
<1>g. PICK g : Follows(g, Tables, N, t, step)
  <2> HIDE DEF N
  <2> QED
    BY <1>0, <1>1, RecursionExists
<1>4. /\ g \in [0..N -> Tables] /\ g[0] = t
      /\ \A n \in 1..N : g[n] = step[n][g[n-1]]
  BY <1>g DEF Follows
<1>5. \A n \in 1..N : g[n] = IF t.chain THEN Edit(g[n-1], cmds[n]) ELSE t
  <2> SUFFICES ASSUME NEW n \in 1..N
               PROVE  g[n] = IF t.chain THEN Edit(g[n-1], cmds[n]) ELSE t
    OBVIOUS
  <2>1. n - 1 \in 0..N
    BY <1>0
  <2>2. g[n-1] \in Tables
    BY <1>4, <2>1
  <2> QED
    BY <1>2, <1>4, <2>2
<1>6. F(g)
  <2>1. \A n \in 0..N : g[n] = IF n = 0 \/ ~ t.chain THEN t ELSE Edit(g[n-1], cmds[n])
    BY <1>0, <1>4, <1>5
  <2> QED
    BY <1>4, <2>1
<1> DEFINE a == EditAll(t, cmds)
<1>7. F(a)
  <2> HIDE DEF F
  <2> QED
    BY <1>3, <1>6
<1> HIDE DEF a
<1>8. /\ a[0] = t
      /\ \A n \in 1..N : a[n] = IF t.chain THEN Edit(a[n-1], cmds[n]) ELSE t
  <2>1. \A n \in 0..N : a[n] = IF n = 0 \/ ~ t.chain THEN t ELSE Edit(a[n-1], cmds[n])
    BY <1>7 DEF F
  <2>2. 0 \in 0..N /\ \A n \in 1..N : n \in 0..N /\ n # 0
    BY <1>0
  <2> QED
    BY <2>1, <2>2
<1>9. a \in [0..N -> Tables]
  <2> DEFINE S == {n \in 0..N : a[n] \in Tables}
  <2>1. 0 \in S
    BY <1>0, <1>8
  <2>2. ASSUME NEW n \in 1..N, n - 1 \in S PROVE n \in S
    <3>1. Edit(a[n-1], cmds[n]) \in Tables
      BY <1>0, <2>2, EditTyped
    <3> QED
      BY <1>8, <3>1
  <2>3. S \in SUBSET (0..N)
    OBVIOUS
  <2> HIDE DEF S
  <2>4. S = 0..N
    BY <1>0, <2>1, <2>2, <2>3, UpTo
  <2>5. \A n \in 0..N : a[n] \in Tables
    BY <2>4 DEF S
  <2> HIDE DEF F
  <2>6. a = [n \in 0..N |-> a[n]]
    BY <1>7 DEF F
  <2> QED
    BY <2>5, <2>6
<1> QED
  BY <1>8, <1>9 DEF a

\* The commands of a tc batch.
ShapeCommands == ({"qdisc"} \X Nodes) \cup ({"class"} \X (Nodes \X Pairs \X Linked))

LEMMA TcEditTyped ==
  ASSUME NEW t \in Shapes, NEW c \in ShapeCommands
  PROVE  TcEdit(t, c) \in Shapes
  BY DEF ShapeCommands, Shapes, TcEdit

LEMMA ConcatLemma ==
  ASSUME NEW S, NEW a \in Seq(S), NEW b \in Seq(S)
  PROVE  /\ a \o b \in Seq(S)
         /\ Len(a \o b) = Len(a) + Len(b)
         /\ \A k \in 1..Len(a) : (a \o b)[k] = a[k]
         /\ \A k \in 1..Len(b) : (a \o b)[Len(a) + k] = b[k]
  OBVIOUS

LEMMA ToShapeParts ==
  ASSUME ShapeTypeOK
  PROVE  /\ ToShape \in Seq(ShapeCommands)
         /\ ~ queue.ordered => ToShape = <<>>
         /\ queue.ordered =>
              /\ Len(ToShape) = Len(tc_cmds.qdisc) + Len(tc_cmds.class)
              /\ \A k \in 1..Len(tc_cmds.qdisc) : ToShape[k] = <<"qdisc", tc_cmds.qdisc[k]>>
              /\ \A k \in 1..Len(tc_cmds.class) :
                   ToShape[Len(tc_cmds.qdisc) + k] = <<"class", tc_cmds.class[k]>>
<1> DEFINE C == Nodes \X Pairs \X Linked
           S == ShapeCommands
<1>1. CASE ~ queue.ordered
  <2>1. ToShape = <<>>
    BY <1>1 DEF ToShape
  <2>2. <<>> \in Seq(S)
    OBVIOUS
  <2> QED
    BY <1>1, <2>1, <2>2
<1>2. CASE queue.ordered
  <2> DEFINE qd == tc_cmds.qdisc
             cl == tc_cmds.class
             A == [k \in DOMAIN qd |-> <<"qdisc", qd[k]>>]
             B == [k \in DOMAIN cl |-> <<"class", cl[k]>>]
  <2>1. qd \in Seq(Nodes) /\ cl \in Seq(C)
    BY DEF ShapeTypeOK, TcCommands
  <2>2. ToShape = A \o B
    BY <1>2 DEF ToShape
  <2>3. /\ \A n \in Nodes : <<"qdisc", n>> \in S
        /\ \A c \in C : <<"class", c>> \in S
    BY DEF ShapeCommands
  <2> HIDE DEF qd, cl, C, S
  <2>4. A \in Seq(S) /\ Len(A) = Len(qd) /\ \A k \in 1..Len(qd) : A[k] = <<"qdisc", qd[k]>>
    <3>1. Len(qd) \in Nat /\ DOMAIN qd = 1..Len(qd) /\ \A k \in 1..Len(qd) : qd[k] \in Nodes
      BY <2>1
    <3> QED
      BY <2>3, <3>1
  <2>7. B \in Seq(S) /\ Len(B) = Len(cl) /\ \A k \in 1..Len(cl) : B[k] = <<"class", cl[k]>>
    BY <2>1, <2>3
  <2> HIDE DEF A, B
  <2>8. A \o B \in Seq(S) /\ Len(A \o B) = Len(A) + Len(B)
    BY <2>4, <2>7, ConcatLemma
  <2>9. /\ \A k \in 1..Len(qd) : (A \o B)[k] = A[k]
        /\ \A k \in 1..Len(cl) : (A \o B)[Len(qd) + k] = B[k]
    BY <2>4, <2>7, ConcatLemma
  <2> QED
    BY <1>2, <2>2, <2>4, <2>7, <2>8, <2>9 DEF qd, cl, S
<1> QED
  BY <1>1, <1>2

LEMMA TcAfterSteps ==
  ASSUME ShapeTypeOK
  PROVE  /\ Len(ToShape) \in Nat
         /\ TcAfter \in [0..Len(ToShape) -> Shapes]
         /\ TcAfter[0] = tc
         /\ \A n \in 1..Len(ToShape) : TcAfter[n] = TcEdit(TcAfter[n-1], ToShape[n])
<1> DEFINE cmds == ToShape
           N == Len(cmds)
           step == [n \in 1..N |-> [u \in Shapes |-> TcEdit(u, cmds[n])]]
           F(f) == f = [n \in 0..N |-> IF n = 0 THEN tc ELSE TcEdit(f[n-1], cmds[n])]
<1>a. TcAfter = CHOOSE f : F(f)
  BY DEF TcAfter
<1>b. cmds \in Seq(ShapeCommands) /\ tc \in Shapes
  BY ToShapeParts DEF ShapeTypeOK
<1> HIDE DEF cmds
<1>0. N \in Nat /\ \A n \in 1..N : cmds[n] \in ShapeCommands
  BY <1>b
<1>1. step \in [1..N -> [Shapes -> Shapes]]
  BY <1>0, TcEditTyped
<1>2. \A n \in 1..N, u \in Shapes : step[n][u] = TcEdit(u, cmds[n])
  OBVIOUS
<1> HIDE DEF step
<1>g. PICK g : Follows(g, Shapes, N, tc, step)
  <2> HIDE DEF N
  <2> QED
    BY <1>0, <1>1, <1>b, RecursionExists
<1>4. /\ g \in [0..N -> Shapes] /\ g[0] = tc
      /\ \A n \in 1..N : g[n] = step[n][g[n-1]]
  BY <1>g DEF Follows
<1>5. \A n \in 1..N : g[n] = TcEdit(g[n-1], cmds[n])
  <2> SUFFICES ASSUME NEW n \in 1..N PROVE g[n] = TcEdit(g[n-1], cmds[n])
    OBVIOUS
  <2>1. n - 1 \in 0..N
    BY <1>0
  <2>2. g[n-1] \in Shapes
    BY <1>4, <2>1
  <2> QED
    BY <1>2, <1>4, <2>2
<1>6. F(g)
  <2>1. \A n \in 0..N : g[n] = IF n = 0 THEN tc ELSE TcEdit(g[n-1], cmds[n])
    BY <1>0, <1>4, <1>5
  <2> QED
    BY <1>4, <2>1
<1> DEFINE a == TcAfter
<1>7. F(a)
  <2> HIDE DEF F
  <2> QED
    BY <1>a, <1>6
<1> HIDE DEF a
<1>8. a[0] = tc /\ \A n \in 1..N : a[n] = TcEdit(a[n-1], cmds[n])
  <2>1. \A n \in 0..N : a[n] = IF n = 0 THEN tc ELSE TcEdit(a[n-1], cmds[n])
    BY <1>7 DEF F
  <2>2. 0 \in 0..N /\ \A n \in 1..N : n \in 0..N /\ n # 0
    BY <1>0
  <2> QED
    BY <2>1, <2>2
<1>9. a \in [0..N -> Shapes]
  <2> DEFINE S == {n \in 0..N : a[n] \in Shapes}
  <2>1. 0 \in S
    BY <1>0, <1>8, <1>b
  <2>2. ASSUME NEW n \in 1..N, n - 1 \in S PROVE n \in S
    <3>1. TcEdit(a[n-1], cmds[n]) \in Shapes
      BY <1>0, <2>2, TcEditTyped
    <3> QED
      BY <1>8, <3>1
  <2>3. S \in SUBSET (0..N)
    OBVIOUS
  <2> HIDE DEF S
  <2>4. S = 0..N
    BY <1>0, <2>1, <2>2, <2>3, UpTo
  <2>5. \A n \in 0..N : a[n] \in Shapes
    BY <2>4 DEF S
  <2> HIDE DEF F
  <2>6. a = [n \in 0..N |-> a[n]]
    BY <1>7 DEF F
  <2> QED
    BY <2>5, <2>6
<1> QED
  BY <1>0, <1>8, <1>9 DEF a, cmds

(***************************************************************************)
(* Type correctness.                                                       *)
(***************************************************************************)

\* The commands of an event.
CommandsOf(e) ==
  CASE e = "addbr" -> {Wifi}
    [] e = "addif" -> Nodes \X {Wifi}
    [] e = "chain" -> {"new"}
    [] e = "rules" -> RuleCommands

QueueTyped(q) ==
  /\ Shell!IsQueue(q)
  /\ \A e \in Events : q.cmds[e] \in Seq(CommandsOf(e))

LEMMA FourQueues ==
  ASSUME NEW q
  PROVE  QueueTyped(q) <=>
           /\ Shell!IsQueue(q)
           /\ q.cmds["addbr"] \in Seq({Wifi})
           /\ q.cmds["addif"] \in Seq(Nodes \X {Wifi})
           /\ q.cmds["chain"] \in Seq({"new"})
           /\ q.cmds["rules"] \in Seq(RuleCommands)
<1>1. /\ CommandsOf("addbr") = {Wifi}
      /\ CommandsOf("addif") = Nodes \X {Wifi}
      /\ CommandsOf("chain") = {"new"}
      /\ CommandsOf("rules") = RuleCommands
  BY DEF CommandsOf
<1>2. Events = {"addbr", "addif", "chain", "rules"}
  BY SingleAssumption
<1> QED
  BY <1>1, <1>2, Zenon DEF QueueTyped

LEMMA QueueTypedAdd ==
  ASSUME NEW q, QueueTyped(q), NEW e \in Events, NEW c \in CommandsOf(e)
  PROVE  QueueTyped(Shell!AddCommand(q, e, c))
<1> DEFINE r == Shell!AddCommand(q, e, c)
<1>1. /\ Shell!IsQueue(r)
      /\ r.cmds[e] = Shell!AddUnique(q.cmds[e], c)
      /\ \A o \in Events \ {e} : r.cmds[o] = q.cmds[o]
  BY AddCommandLemma DEF QueueTyped
<1> HIDE DEF r
<1>2. r.cmds[e] \in Seq(CommandsOf(e))
  <2>1. q.cmds[e] \in Seq(CommandsOf(e))
    BY DEF QueueTyped
  <2> QED
    BY <1>1, <2>1, AddUniqueLemma
<1>3. QueueTyped(r)
  BY <1>1, <1>2, Zenon DEF QueueTyped
<1> QED
  BY <1>3 DEF r

LEMMA QueueTypedFresh ==
  QueueTyped(Shell!FreshSerializer) /\ QueueTyped(Shell!ResetSerializer)
<1>1. \A T : <<>> \in Seq(T)
  OBVIOUS
<1> QED
  BY <1>1, FreshLemma, Zenon DEF QueueTyped

\* Pairs are directions, and so is the way back.
LEMMA PairsAreDirections ==
  /\ Pairs \subseteq Directions
  /\ \A d \in Directions : Reverse(d) \in Directions /\ Reverse(d) # d /\ Reverse(Reverse(d)) = d
  /\ \A p \in Pairs : p[1] \in Nodes /\ p[2] \in Nodes /\ p[1] # p[2] /\ p[1] < p[2]
<1>1. Nodes \subseteq Nat
  BY StepAssumption
<1>2. \A d \in Directions : Reverse(d) \in Directions /\ Reverse(d) # d
  BY DEF Directions, Reverse
<1>3. \A d \in Directions : Reverse(Reverse(d)) = d
  BY DEF Directions, Reverse
<1>4. \A p \in Pairs : p \in Nodes \X Nodes /\ p[1] # p[2] /\ p[1] < p[2]
  <2> SUFFICES ASSUME NEW p \in Pairs PROVE p \in Nodes \X Nodes /\ p[1] # p[2] /\ p[1] < p[2]
    OBVIOUS
  <2>1. p \in Nodes \X Nodes /\ p[1] < p[2]
    BY DEF Pairs
  <2>2. p[1] \in Nat /\ p[2] \in Nat
    BY <1>1, <2>1
  <2> QED
    BY <2>1, <2>2
<1>5. Pairs \subseteq Directions
  BY <1>4, Zenon DEF Directions
<1> QED
  BY <1>2, <1>3, <1>4, <1>5

LEMMA OneInterface == IfPairs = {TheIfs}
<1>1. PICK ifs \in IfPairs : IfPairs = {ifs}
  BY SingleAssumption
<1>2. TheIfs \in IfPairs
  BY Zenon DEF TheIfs
<1> QED
  BY <1>1, <1>2

\* What the commands of a link do to the queue.
LEMMA QueueRulesLemma ==
  ASSUME NEW q, QueueTyped(q), NEW p \in Pairs, NEW op \in {"I", "D"}
  PROVE  LET r == QueueRules(q, p, op)
         IN  /\ QueueTyped(r)
             /\ r.ordered = q.ordered
             /\ r.cmds["rules"] = Shell!AddUnique(Shell!AddUnique(q.cmds["rules"], <<op, p>>),
                                                  <<op, Reverse(p)>>)
             /\ \A e \in Events \ {"rules"} : r.cmds[e] = q.cmds[e]
<1> DEFINE r1 == Shell!AddCommand(q, "rules", <<op, p>>)
           r2 == Shell!AddCommand(r1, "rules", <<op, Reverse(p)>>)
<1>1. "rules" \in Events /\ CommandsOf("rules") = RuleCommands
  BY SingleAssumption DEF CommandsOf
<1>2. <<op, p>> \in RuleCommands /\ <<op, Reverse(p)>> \in RuleCommands
  BY PairsAreDirections DEF RuleCommands
<1>3. /\ QueueTyped(r1)
      /\ r1.cmds["rules"] = Shell!AddUnique(q.cmds["rules"], <<op, p>>)
      /\ \A e \in Events \ {"rules"} : r1.cmds[e] = q.cmds[e]
      /\ r1.ordered = q.ordered
  <2>1. Shell!IsQueue(q)
    BY DEF QueueTyped
  <2>2. r1.ordered = q.ordered
    BY <2>1 DEF Shell!IsQueue, Shell!AddCommand
  <2> QED
    BY <1>1, <1>2, <2>1, <2>2, QueueTypedAdd, AddCommandLemma
<1> HIDE DEF r1
<1>4. /\ QueueTyped(r2)
      /\ r2.cmds["rules"] = Shell!AddUnique(r1.cmds["rules"], <<op, Reverse(p)>>)
      /\ \A e \in Events \ {"rules"} : r2.cmds[e] = r1.cmds[e]
      /\ r2.ordered = r1.ordered
  <2>1. Shell!IsQueue(r1)
    BY <1>3 DEF QueueTyped
  <2>2. r2.ordered = r1.ordered
    BY <2>1 DEF Shell!IsQueue, Shell!AddCommand
  <2> QED
    BY <1>1, <1>2, <1>3, <2>1, <2>2, QueueTypedAdd, AddCommandLemma
<1>5. QueueRules(q, p, op) = r2
  BY DEF QueueRules, r1
<1> HIDE DEF r2
<1> QED
  BY <1>3, <1>4, <1>5

LEMMA QueueBridgeLemma ==
  ASSUME NEW q, QueueTyped(q), NEW p \in Pairs
  PROVE  LET r == QueueBridge(q, p)
         IN  /\ QueueTyped(r)
             /\ r.ordered = q.ordered
             /\ r.cmds["rules"] = q.cmds["rules"]
             /\ r.cmds["addbr"] = IF bridge THEN q.cmds["addbr"]
                                  ELSE Shell!AddUnique(q.cmds["addbr"], Wifi)
             /\ r.cmds["chain"] = IF bridge THEN q.cmds["chain"]
                                  ELSE Shell!AddUnique(q.cmds["chain"], "new")
             /\ Shell!Queued(r.cmds["addif"])
                  = Shell!Queued(q.cmds["addif"]) \cup {<<p[1], Wifi>>, <<p[2], Wifi>>}
<1> DEFINE q1 == Shell!AddCommand(q, "chain", "new")
           q2 == Shell!AddCommand(q1, "addbr", Wifi)
           cx == <<p[1], Wifi>>
           cy == <<p[2], Wifi>>
           created == IF bridge THEN q ELSE q2
           r1 == Shell!AddCommand(created, "addif", cx)
           r2 == Shell!AddCommand(r1, "addif", cy)
           T == CommandsOf("addif")
<1>1. Events = {"addbr", "addif", "chain", "rules"}
  BY SingleAssumption
<1>2. /\ "new" \in CommandsOf("chain") /\ Wifi \in CommandsOf("addbr")
      /\ cx \in T /\ cy \in T
  BY PairsAreDirections DEF CommandsOf
<1>o. \A s, e, c : Shell!IsQueue(s) => Shell!AddCommand(s, e, c).ordered = s.ordered
  BY DEF Shell!IsQueue, Shell!AddCommand
<1>3. /\ QueueTyped(q1)
      /\ q1.cmds["chain"] = Shell!AddUnique(q.cmds["chain"], "new")
      /\ \A e \in Events \ {"chain"} : q1.cmds[e] = q.cmds[e]
      /\ q1.ordered = q.ordered
  <2>1. Shell!IsQueue(q) /\ "chain" \in Events
    BY <1>1 DEF QueueTyped
  <2> QED
    BY <1>2, <1>o, <2>1, QueueTypedAdd, AddCommandLemma
<1> HIDE DEF q1
<1>4. /\ QueueTyped(q2)
      /\ q2.cmds["addbr"] = Shell!AddUnique(q1.cmds["addbr"], Wifi)
      /\ \A e \in Events \ {"addbr"} : q2.cmds[e] = q1.cmds[e]
      /\ q2.ordered = q1.ordered
  <2>1. Shell!IsQueue(q1) /\ "addbr" \in Events
    BY <1>1, <1>3 DEF QueueTyped
  <2> QED
    BY <1>2, <1>3, <1>o, <2>1, QueueTypedAdd, AddCommandLemma
<1> HIDE DEF q2
<1>5. /\ QueueTyped(created)
      /\ created.ordered = q.ordered
      /\ created.cmds["addbr"] = IF bridge THEN q.cmds["addbr"]
                                  ELSE Shell!AddUnique(q.cmds["addbr"], Wifi)
      /\ created.cmds["chain"] = IF bridge THEN q.cmds["chain"]
                                  ELSE Shell!AddUnique(q.cmds["chain"], "new")
      /\ created.cmds["addif"] = q.cmds["addif"]
      /\ created.cmds["rules"] = q.cmds["rules"]
  BY <1>1, <1>3, <1>4
<1>e. QueueBridge(q, p) = r2
  BY DEF QueueBridge, q1, q2, created, r1
<1> HIDE DEF created, T, cx, cy
<1>6. /\ QueueTyped(r1)
      /\ r1.cmds["addif"] = Shell!AddUnique(created.cmds["addif"], cx)
      /\ \A e \in Events \ {"addif"} : r1.cmds[e] = created.cmds[e]
      /\ r1.ordered = created.ordered
  <2>1. Shell!IsQueue(created) /\ "addif" \in Events
    BY <1>1, <1>5 DEF QueueTyped
  <2>2. QueueTyped(r1)
    BY <1>2, <1>5, <2>1, QueueTypedAdd DEF T
  <2> QED
    BY <1>o, <2>1, <2>2, AddCommandLemma
<1> HIDE DEF r1
<1>7. /\ QueueTyped(r2)
      /\ r2.cmds["addif"] = Shell!AddUnique(r1.cmds["addif"], cy)
      /\ \A e \in Events \ {"addif"} : r2.cmds[e] = r1.cmds[e]
      /\ r2.ordered = r1.ordered
  <2>1. Shell!IsQueue(r1) /\ "addif" \in Events
    BY <1>1, <1>6 DEF QueueTyped
  <2>2. QueueTyped(r2)
    BY <1>2, <1>6, <2>1, QueueTypedAdd DEF T
  <2> QED
    BY <1>o, <2>1, <2>2, AddCommandLemma
<1> HIDE DEF r2
<1> DEFINE s0 == created.cmds["addif"]
           s1 == r1.cmds["addif"]
           s2 == r2.cmds["addif"]
<1>9. /\ s0 \in Seq(T) /\ s1 \in Seq(T)
      /\ cx \in T /\ cy \in T
  BY <1>1, <1>2, <1>5, <1>6 DEF QueueTyped, T
<1>10. s0 = q.cmds["addif"] /\ s1 = Shell!AddUnique(s0, cx) /\ s2 = Shell!AddUnique(s1, cy)
  BY <1>5, <1>6, <1>7
<1> HIDE DEF s0, s1, s2
<1>11. Shell!Queued(s1) = Shell!Queued(s0) \cup {cx}
  <2>1. s0 \in Seq(T) /\ cx \in T
    BY <1>9
  <2>2. Shell!Queued(Shell!AddUnique(s0, cx)) = Shell!Queued(s0) \cup {cx}
    BY <2>1, AddUniqueLemma
  <2> QED
    BY <1>10, <2>2
<1>12. Shell!Queued(s2) = Shell!Queued(s1) \cup {cy}
  <2>1. s1 \in Seq(T) /\ cy \in T
    BY <1>9
  <2>2. Shell!Queued(Shell!AddUnique(s1, cy)) = Shell!Queued(s1) \cup {cy}
    BY <2>1, AddUniqueLemma
  <2> QED
    BY <1>10, <2>2
<1>13. Shell!Queued(r2.cmds["addif"]) = Shell!Queued(q.cmds["addif"]) \cup {cx, cy}
  BY <1>10, <1>11, <1>12 DEF s2
<1> QED
  BY <1>1, <1>5, <1>6, <1>7, <1>e, <1>13 DEF cx, cy

\* What the phases of a step guarantee besides the types.
InStep ==
  /\ pc # "pairs" => diff = {}
  /\ pc # "idle" => current_step < MaxSteps

Typed == TypeOK /\ ShapeTypeOK /\ InStep

LEMMA TypedQueue == ASSUME TypeOK PROVE QueueTyped(queue)
  BY FourQueues DEF TypeOK, StepTypeOK

LEMMA EmptyTyped ==
  /\ EmptyTable \in Tables
  /\ NoTc \in TcCommands
  /\ NoShape \in Shapes
  /\ Store!EmptyStore \in Store!Stores
  BY DEF EmptyTable, Tables, NoTc, TcCommands, NoShape, Shapes, Store!EmptyStore, Store!Stores

LEMMA TypedInit == ShapedInit => Typed
<1> SUFFICES ASSUME ShapedInit PROVE Typed
  OBVIOUS
<1> USE DEF ShapedInit, Init, StepInit
<1>1. QueueTyped(queue)
  BY QueueTypedFresh
<1>2. StepTypeOK
  BY <1>1, EmptyTyped, StepAssumption DEF StepTypeOK, Phases, QueueTyped
<1>3. TypeOK
  BY <1>1, <1>2, EmptyTyped, FourQueues DEF TypeOK
<1> QED
  BY <1>3, EmptyTyped DEF Typed, ShapeTypeOK, InStep

\* A pair is processed: what LinkUp, LinkDown and LinkKept do to the store.
LEMMA StoreUpEffect ==
  ASSUME TypeOK, NEW p \in Pairs, LinkUp(p)
  PROVE  /\ store' \in Store!Stores
         /\ store'.inactive = store.inactive
         /\ store'.active[p] = {TheIfs}
         /\ \A r \in Pairs \ {p} : store'.active[r] = store.active[r]
         /\ store.active[p] = {}
<1>1. store \in Store!Stores /\ TheIfs \in IfPairs /\ IfPairs = {TheIfs}
  BY OneInterface DEF TypeOK, StepTypeOK
<1>2. store' = [store EXCEPT !.active[p] = @ \cup {TheIfs}]
  BY <1>1, StoreUpLemma DEF LinkUp
<1>3. store.active[p] \subseteq {TheIfs} /\ TheIfs \notin store.active[p]
  BY <1>1 DEF LinkUp, Store!Known, Store!Stores
<1> QED
  BY <1>1, <1>2, <1>3 DEF Store!Stores

LEMMA StoreDownEffect ==
  ASSUME TypeOK, NEW p \in Pairs, LinkDown(p)
  PROVE  /\ store' \in Store!Stores
         /\ store.inactive[p] = {} =>
              /\ store'.inactive = store.inactive
              /\ store'.active[p] = {}
              /\ \A r \in Pairs \ {p} : store'.active[r] = store.active[r]
         /\ store.active[p] = {TheIfs}
<1>1. store \in Store!Stores /\ TheIfs \in IfPairs /\ IfPairs = {TheIfs}
  BY OneInterface DEF TypeOK, StepTypeOK
<1>2. store' = Store!ChangeState(store, p, TheIfs, FALSE)
  BY DEF LinkDown
<1>3. store.active[p] \subseteq {TheIfs} /\ store.active[p] # {}
  BY <1>1 DEF LinkDown, Store!Stores
<1>4. store' \in Store!Stores
  BY <1>1, <1>2 DEF Store!Stores, Store!ChangeState, Store!PutIfKeyed
<1>5. store.active[p] = {TheIfs}
  BY <1>3
<1>6. ASSUME store.inactive[p] = {}
      PROVE  store' = [store EXCEPT !.active[p] = @ \ {TheIfs}]
  <2>1. TheIfs \in store.active[p]
    BY <1>5
  <2>2. Store!ChangeState(store, p, TheIfs, FALSE) = [store EXCEPT !.active[p] = @ \ {TheIfs}]
    BY <1>1, <1>6, <2>1, StoreDownLemma
  <2> QED
    BY <1>2, <2>2
<1>7. ASSUME store.inactive[p] = {}
      PROVE  /\ store'.inactive = store.inactive
             /\ store'.active[p] = {}
             /\ \A r \in Pairs \ {p} : store'.active[r] = store.active[r]
  <2>1. store' = [store EXCEPT !.active[p] = @ \ {TheIfs}]
    BY <1>6, <1>7
  <2> QED
    BY <1>1, <1>5, <2>1 DEF Store!Stores
<1> QED
  BY <1>4, <1>5, <1>7

\* The bridge commands run in a typed state.
LEMMA BridgeTypes ==
  ASSUME TypeOK, BridgeCommandsRun
  PROVE  /\ devices' \in SUBSET {Wifi}
         /\ slaves' \in SUBSET (Nodes \X {Wifi})
<1>1. QueueTyped(queue)
  BY TypedQueue
<1>2. /\ queue.cmds["addbr"] \in Seq({Wifi})
      /\ queue.cmds["addif"] \in Seq(Nodes \X {Wifi})
  BY <1>1, FourQueues
<1>3. /\ Shell!Queued(ToAddBr) \subseteq {Wifi}
      /\ Shell!Queued(ToAddIf) \subseteq Nodes \X {Wifi}
  <2>1. Shell!Queued(<<>>) = {}
    BY DEF Shell!Queued
  <2>2. Shell!Queued(queue.cmds["addbr"]) \subseteq {Wifi}
    BY <1>2, QueuedLemma
  <2>3. Shell!Queued(queue.cmds["addif"]) \subseteq Nodes \X {Wifi}
    BY <1>2, QueuedLemma
  <2> QED
    BY <2>1, <2>2, <2>3 DEF ToAddBr, ToAddIf, Shell!Runnable
<1>4. AddBr(devices, ToAddBr) = devices \cup Shell!Queued(ToAddBr)
  BY DEF AddBr, Shell!Queued
<1>5. AddIf(devices', slaves, ToAddIf) \subseteq slaves \cup Shell!Queued(ToAddIf)
  BY DEF AddIf, Shell!Queued
<1> QED
  BY <1>3, <1>4, <1>5 DEF BridgeCommandsRun, TypeOK

\* What shape_device does to the book of shaped taps and to the tc commands.
Books == [ifaces : SUBSET Nodes, cmds : TcCommands]

LEMMA ShapeDeviceLemma ==
  ASSUME NEW s \in Books, NEW n \in Nodes, NEW p \in Pairs, NEW d \in Linked
  PROVE  LET r == ShapeDevice(s, n, p, d)
         IN  /\ r \in Books
             /\ r.ifaces = s.ifaces \cup {n}
             /\ r.cmds.qdisc = IF n \in s.ifaces THEN s.cmds.qdisc
                              ELSE Shell!AddUnique(s.cmds.qdisc, n)
             /\ r.cmds.class = Shell!AddUnique(s.cmds.class, <<n, p, d>>)
<1> DEFINE C == Nodes \X Pairs \X Linked
           q == IF n \in s.ifaces THEN s.cmds.qdisc ELSE Shell!AddUnique(s.cmds.qdisc, n)
           c == Shell!AddUnique(s.cmds.class, <<n, p, d>>)
<1>1. s.cmds.qdisc \in Seq(Nodes) /\ s.cmds.class \in Seq(C) /\ <<n, p, d>> \in C
  BY DEF Books, TcCommands
<1> HIDE DEF C
<1>2. q \in Seq(Nodes)
  BY <1>1, AddUniqueLemma
<1>3. c \in Seq(C)
  BY <1>1, AddUniqueLemma
<1>4. ShapeDevice(s, n, p, d) = [ifaces |-> s.ifaces \cup {n}, cmds |-> [qdisc |-> q, class |-> c]]
  <2>1. PICK f \in SUBSET Nodes, a \in Seq(Nodes), b \in Seq(Nodes \X Pairs \X Linked) :
          s = [ifaces |-> f, cmds |-> [qdisc |-> a, class |-> b]]
    BY DEF Books, TcCommands
  <2>2. s.ifaces = f /\ s.cmds = [qdisc |-> a, class |-> b] /\ s.cmds.qdisc = a /\ s.cmds.class = b
    BY <2>1
  <2> DEFINE x == <<n, p, d>>
             rooted == [qdisc |-> q, class |-> b]
  <2>3. (IF n \in s.ifaces THEN s.cmds ELSE [s.cmds EXCEPT !.qdisc = Shell!AddUnique(@, n)])
          = rooted
    BY <2>2
  <2>4. QueueClass(rooted, n, p, d) = [qdisc |-> q, class |-> Shell!AddUnique(b, x)]
    BY DEF QueueClass
  <2>5. ShapeDevice(s, n, p, d) = [ifaces |-> f \cup {n}, cmds |-> QueueClass(rooted, n, p, d)]
    BY <2>2, <2>3, Zenon DEF ShapeDevice
  <2>6. c = Shell!AddUnique(b, x)
    BY <2>2
  <2> QED
    BY <2>2, <2>4, <2>5, <2>6
<1> HIDE DEF q, c
<1>5. [qdisc |-> q, class |-> c] \in TcCommands
  BY <1>2, <1>3 DEF C, TcCommands
<1>6. s.ifaces \cup {n} \in SUBSET Nodes
  BY DEF Books
<1> QED
  BY <1>4, <1>5, <1>6 DEF Books, q, c

\* Both taps of a link are shaped.
LEMMA ShapedPair ==
  ASSUME ShapeTypeOK, NEW p \in Pairs, NEW d \in Linked
  PROVE  LET s == ShapeDevice(ShapeDevice([ifaces |-> shaped_ifaces, cmds |-> tc_cmds],
                                          p[1], p, d), p[2], p, d)
         IN  s \in Books
<1>1. [ifaces |-> shaped_ifaces, cmds |-> tc_cmds] \in Books
  BY DEF Books, ShapeTypeOK
<1>2. p[1] \in Nodes /\ p[2] \in Nodes
  BY PairsAreDirections
<1>3. ShapeDevice([ifaces |-> shaped_ifaces, cmds |-> tc_cmds], p[1], p, d) \in Books
  BY <1>1, <1>2, ShapeDeviceLemma
<1> QED
  BY <1>2, <1>3, ShapeDeviceLemma

\* The ebtables commands leave a table.
LEMMA EbtablesTyped ==
  ASSUME TypeOK
  PROVE  EbtablesRun.table \in Tables
<1> DEFINE chain == Shell!Runnable(queue, "chain")
           rules == Shell!Runnable(queue, "rules")
           start == [table EXCEPT !.chain = @ \/ chain # <<>>]
<1>1. start \in Tables
  BY DEF TypeOK, Tables
<1>2. rules \in Seq(RuleCommands)
  BY DEF TypeOK, Shell!Runnable
<1>3. EbtablesRun.table = EditAll(start, rules)[Len(rules)]
  BY DEF EbtablesRun
<1> HIDE DEF start, rules
<1>4. EditAll(start, rules) \in [0..Len(rules) -> Tables]
  BY <1>1, <1>2, EditAllSteps
<1>5. Len(rules) \in 0..Len(rules)
  BY <1>2
<1> QED
  BY <1>3, <1>4, <1>5

\* A batch leaves a shape, however far it gets.
LEMMA TcTyped ==
  ASSUME ShapeTypeOK
  PROVE  /\ TcReaches \subseteq 0..Len(ToShape)
         /\ TcAfter[Len(ToShape)] \in Shapes
         /\ \A k \in TcReaches : TcAfter[k] \in Shapes
  BY TcAfterSteps DEF TcReaches

\* The batch ends where its first command fails.
LEMMA TcEnd ==
  ASSUME ShapeTypeOK
  PROVE  (CHOOSE k \in TcReaches : \A j \in TcReaches : j <= k) \in TcReaches
<1> DEFINE R == TcReaches
           N == Len(ToShape)
           Above == {n \in Nat : \A j \in R : j <= n}
<1>1. N \in Nat /\ R \subseteq 0..N /\ 0 \in R
  BY TcAfterSteps DEF TcReaches
<1> HIDE DEF R, N
<1>2. N \in Above
  BY <1>1
<1>3. PICK m \in Above : \A y \in Above : ~ (y < m)
  <2>1. Above \in SUBSET Nat /\ Above # {}
    BY <1>2
  <2> HIDE DEF Above
  <2> QED
    BY <2>1, NatLeast
<1>4. m \in R
  <2>1. CASE m = 0
    BY <1>1, <2>1
  <2>2. CASE m # 0
    <3>1. m - 1 \in Nat /\ m - 1 < m
      BY <2>2
    <3>2. m - 1 \notin Above
      BY <1>3, <3>1
    <3>3. PICK j \in R : ~ (j <= m - 1)
      BY <3>1, <3>2
    <3>4. j \in Nat /\ j <= m
      BY <1>1
    <3> QED
      BY <3>1, <3>3, <3>4
  <2> QED
    BY <2>1, <2>2
<1>5. \E k \in R : \A j \in R : j <= k
  BY <1>4
<1> QED
  BY <1>5, Zenon DEF R

\* A step of a scenario preserves the types.
LEMMA TypedStep ==
  ASSUME Typed, ShapedStep, late' \in BOOLEAN, redone' \in BOOLEAN
  PROVE  Typed'
<1>0. /\ TypeOK /\ ShapeTypeOK /\ InStep /\ StepTypeOK
      /\ QueueTyped(queue) /\ store \in Store!Stores /\ table \in Tables
      /\ MaxSteps \in Nat /\ MaxFailures \in Nat
  BY TypedQueue, StepAssumption DEF Typed, TypeOK, StepTypeOK
<1>u. ASSUME UNCHANGED shapeVars PROVE ShapeTypeOK'
  BY <1>0, <1>u DEF shapeVars, ShapeTypeOK
<1>k. ASSUME UNCHANGED <<bridge, kernelVars, queue>>, StepTypeOK', ShapeTypeOK', InStep'
      PROVE  Typed'
  BY <1>0, <1>k DEF kernelVars, TypeOK, Typed
<1>1. ASSUME NEW m \in Inputs, BeginShaped(m)
      PROVE  Typed'
  <2>1. m \in Matrices
    BY ShapingAssumption
  <2>2. StepTypeOK' /\ InStep' /\ UNCHANGED <<bridge, devices, slaves, queue>>
    BY <1>0, <1>1, <2>1 DEF BeginShaped, Begin, BeginStep, StepTypeOK, InStep, Phases,
                            Matrices, Changed, Store!ActivePairs
  <2>3. table' \in Tables
    BY <1>0, <1>1, EmptyTyped DEF BeginShaped, Begin
  <2> QED
    BY <1>0, <1>1, <1>u, <2>2, <2>3 DEF BeginShaped, TypeOK, Typed
<1>2. ASSUME NEW p \in Pairs, ProcessPairShaped(p)
      PROVE  Typed'
  <2>1. TakePair(p) /\ UNCHANGED kernelVars /\ (LinkUp(p) \/ LinkDown(p) \/ LinkKept(p))
    BY <1>2 DEF ProcessPairShaped, ProcessPair
  <2>2. store' \in Store!Stores /\ QueueTyped(queue') /\ bridge' \in BOOLEAN
    <3>1. CASE LinkUp(p)
      <4>1. queue' = QueueRules(QueueBridge(queue, p), p, "I") /\ bridge' = TRUE
        BY <3>1 DEF LinkUp
      <4>2. QueueTyped(QueueBridge(queue, p))
        BY <1>0, QueueBridgeLemma
      <4>3. QueueTyped(queue')
        BY <4>1, <4>2, QueueRulesLemma
      <4> QED
        BY <1>0, <3>1, <4>1, <4>3, StoreUpEffect
    <3>2. CASE LinkDown(p)
      <4>1. queue' = QueueRules(queue, p, "D") /\ bridge' = bridge
        BY <3>2 DEF LinkDown
      <4>2. QueueTyped(queue')
        BY <1>0, <4>1, QueueRulesLemma
      <4> QED
        BY <1>0, <3>2, <4>1, <4>2, StoreDownEffect DEF TypeOK
    <3>3. CASE LinkKept(p)
      BY <1>0, <3>3 DEF LinkKept, TypeOK
    <3> QED
      BY <2>1, <3>1, <3>2, <3>3
  <2>3. ShapeTypeOK'
    <3>1. CASE Adjusts(p)
      <4> DEFINE d == distance_matrix[p]
                 s == ShapeDevice(ShapeDevice([ifaces |-> shaped_ifaces, cmds |-> tc_cmds],
                                              p[1], p, d), p[2], p, d)
      <4>1. s \in Books
        BY <1>0, <3>1, ShapedPair DEF Adjusts
      <4>2. shaped_ifaces' = s.ifaces /\ tc_cmds' = s.cmds /\ tc' = tc
        BY <1>2, <3>1 DEF ProcessPairShaped
      <4> HIDE DEF s
      <4> QED
        BY <1>0, <4>1, <4>2 DEF Books, ShapeTypeOK
    <3>2. CASE ~ Adjusts(p)
      <4>1. UNCHANGED shapeVars
        BY <1>2, <3>2 DEF ProcessPairShaped, shapeVars
      <4> QED
        BY <1>u, <4>1
    <3> QED
      BY <3>1, <3>2
  <2>4. StepTypeOK' /\ InStep'
    BY <1>0, <2>1, <2>2 DEF TakePair, StepTypeOK, InStep, QueueTyped
  <2>5. TypeOK'
    BY <1>0, <2>1, <2>2, <2>4, FourQueues DEF kernelVars, TypeOK
  <2> QED
    BY <2>3, <2>4, <2>5 DEF Typed
<1>3. CASE EndOfPairs /\ UNCHANGED shapeVars
  <2>1. StepTypeOK' /\ InStep' /\ UNCHANGED queue
    BY <1>0, <1>3 DEF EndOfPairs, PairsDone, StepTypeOK, InStep, Phases
  <2> QED
    BY <1>3, <1>k, <1>u, <2>1 DEF EndOfPairs
<1>4. CASE RunBridge /\ UNCHANGED shapeVars
  <2>1. StepTypeOK' /\ InStep' /\ UNCHANGED queue
    BY <1>0, <1>4 DEF RunBridge, Advance, StepTypeOK, InStep, Phases
  <2>2. BridgeCommandsRun
    BY <1>4 DEF RunBridge
  <2>3. /\ devices' \in SUBSET {Wifi} /\ slaves' \in SUBSET (Nodes \X {Wifi})
        /\ UNCHANGED <<bridge, table>>
    BY <1>0, <2>2, BridgeTypes DEF BridgeCommandsRun
  <2> QED
    BY <1>0, <1>4, <1>u, <2>1, <2>3 DEF TypeOK, Typed
<1>5. CASE (BridgeError \/ EbtablesError \/ CheckFails) /\ UNCHANGED shapeVars
  <2>1. StepTypeOK' /\ InStep' /\ UNCHANGED <<queue, bridge, kernelVars>>
    BY <1>0, <1>5 DEF BridgeError, EbtablesError, CheckFails, Raise, StepTypeOK, InStep, Phases
  <2> QED
    BY <1>5, <1>k, <1>u, <2>1
<1>6. CASE RunEbtables /\ UNCHANGED shapeVars
  <2>1. StepTypeOK' /\ InStep' /\ UNCHANGED <<queue, bridge, devices, slaves>>
    BY <1>0, <1>6 DEF RunEbtables, Advance, StepTypeOK, InStep, Phases
  <2>2. table' \in Tables
    BY <1>0, <1>6, EbtablesTyped DEF RunEbtables
  <2> QED
    BY <1>0, <1>6, <1>u, <2>1, <2>2 DEF TypeOK, Typed
<1>7. CASE RunBatchShaped
  <2>1. QueueTyped(queue') /\ pc' = "ipconfig" /\ UNCHANGED <<bridge, kernelVars>>
    BY <1>7, QueueTypedFresh DEF RunBatchShaped, RunBatch, BatchDone
  <2>2. StepTypeOK' /\ InStep'
    BY <1>0, <1>7, <2>1 DEF RunBatchShaped, RunBatch, BatchDone, StepTypeOK, InStep, Phases,
                            QueueTyped
  <2>3. ShapeTypeOK'
    BY <1>0, <1>7, TcTyped, EmptyTyped DEF RunBatchShaped, ShapeTypeOK
  <2>4. TypeOK'
    BY <1>0, <2>1, <2>2, FourQueues DEF kernelVars, TypeOK
  <2> QED
    BY <2>2, <2>3, <2>4 DEF Typed
<1>8. CASE TcError
  <2>1. StepTypeOK' /\ InStep' /\ UNCHANGED <<queue, bridge, kernelVars>>
    BY <1>0, <1>8 DEF TcError, Raise, StepTypeOK, InStep, Phases
  <2>2. ShapeTypeOK'
    BY <1>0, <1>8, TcTyped, TcEnd DEF TcError, ShapeTypeOK
  <2> QED
    BY <1>k, <2>1, <2>2
<1>9. CASE BatchFails
  <2>1. StepTypeOK' /\ InStep' /\ UNCHANGED <<queue, bridge, kernelVars>>
    BY <1>0, <1>9 DEF BatchFails, Failure, EnvFailure, Raise, StepTypeOK, InStep, Phases
  <2>2. ShapeTypeOK'
    BY <1>0, <1>9, TcTyped DEF BatchFails, ShapeTypeOK
  <2> QED
    BY <1>k, <2>1, <2>2
<1>10. CASE IpConfig /\ UNCHANGED shapeVars
  <2>1. StepTypeOK' /\ InStep' /\ UNCHANGED queue
    BY <1>0, <1>10 DEF IpConfig, Advance, StepTypeOK, InStep, Phases
  <2> QED
    BY <1>10, <1>k, <1>u, <2>1 DEF IpConfig
<1>11. CASE CheckPassesShaped
  <2>1. QueueTyped(queue') /\ UNCHANGED <<bridge, kernelVars>>
    BY <1>11, QueueTypedFresh DEF CheckPassesShaped, CheckPasses, CheckDone
  <2>2. StepTypeOK' /\ InStep'
    BY <1>0, <1>11, <2>1 DEF CheckPassesShaped, CheckPasses, CheckDone, StepTypeOK, InStep,
                             Phases, QueueTyped
  <2>3. ShapeTypeOK'
    BY <1>0, <1>11, EmptyTyped DEF CheckPassesShaped, ShapeTypeOK
  <2>4. TypeOK'
    BY <1>0, <2>1, <2>2, FourQueues DEF kernelVars, TypeOK
  <2> QED
    BY <2>2, <2>3, <2>4 DEF Typed
<1>12. CASE End /\ UNCHANGED shapeVars
  <2>1. StepTypeOK' /\ InStep' /\ UNCHANGED queue
    BY <1>0, <1>12 DEF End, EndStep, StepTypeOK, InStep, Phases
  <2> QED
    BY <1>12, <1>k, <1>u, <2>1 DEF End
<1>13. ASSUME NEW point \in FailPoints, Failure(point), UNCHANGED shapeVars
       PROVE  Typed'
  <2>1. StepTypeOK' /\ InStep' /\ UNCHANGED queue
    BY <1>0, <1>13 DEF Failure, EnvFailure, Raise, StepTypeOK, InStep, Phases
  <2>2. CASE UNCHANGED <<bridge, kernelVars>>
    BY <1>13, <1>k, <1>u, <2>1, <2>2
  <2>3. CASE BridgeCommandsRun
    <3>1. /\ devices' \in SUBSET {Wifi} /\ slaves' \in SUBSET (Nodes \X {Wifi})
          /\ UNCHANGED <<bridge, table>>
      BY <1>0, <2>3, BridgeTypes DEF BridgeCommandsRun
    <3> QED
      BY <1>0, <1>13, <1>u, <2>1, <3>1 DEF TypeOK, Typed
  <2> QED
    BY <1>13, <2>2, <2>3 DEF Failure
<1> QED
  BY <1>1, <1>2, <1>3, <1>4, <1>5, <1>6, <1>7, <1>8, <1>9, <1>10, <1>11, <1>12, <1>13
  DEF ShapedStep

\* abort() leaves the types of the beginning.
LEMMA TypedAbort ==
  ASSUME Typed, AbortShaped
  PROVE  Typed'
<1>1. QueueTyped(queue') /\ store' \in Store!Stores /\ table' \in Tables
  BY QueueTypedFresh, EmptyTyped DEF AbortShaped, Abort, AbortStep
<1>2. StepTypeOK' /\ InStep'
  BY <1>1, StepAssumption DEF AbortShaped, Abort, AbortStep, StepTypeOK, InStep, Phases,
                              QueueTyped, Typed, TypeOK
<1>3. TypeOK'
  BY <1>1, <1>2, FourQueues DEF AbortShaped, Abort, TypeOK
<1>4. ShapeTypeOK'
  BY EmptyTyped DEF AbortShaped, ShapeTypeOK
<1> QED
  BY <1>2, <1>3, <1>4 DEF Typed

LEMMA TypedNext ==
  ASSUME Typed, ShapedNext
  PROVE  Typed'
<1>1. CASE /\ ShapedStep
           /\ late' = (late \/ (pc \in {"batch", "ipconfig", "check"} /\ pc' = "idle"))
           /\ redone' = (redone \/ (pc = "post" /\ outcome' = "failed"))
  BY <1>1, TypedStep DEF Typed, ShapeTypeOK
<1>2. CASE AbortShaped
  BY <1>2, TypedAbort
<1> QED
  BY <1>1, <1>2 DEF ShapedNext

LEMMA TypedStutter ==
  ASSUME Typed, UNCHANGED shapedVars
  PROVE  Typed'
  BY DEF shapedVars, vars, stepVars, kernelVars, shapeVars, Typed, TypeOK, StepTypeOK,
         ShapeTypeOK, InStep

(***************************************************************************)
(* Every reachable state is well typed, the kernel's tables and the tc     *)
(* commands included.                                                      *)
(***************************************************************************)
THEOREM TypeCorrect == ShapedSpec => []Typed
  BY TypedInit, TypedNext, TypedStutter, PTL DEF ShapedSpec

(***************************************************************************)
(* The store.  A pair that is not worked off yet is in the difference.     *)
(***************************************************************************)
Active(p) == store.active[p] # {}

StoreInv ==
  /\ \A p \in Pairs : store.inactive[p] = {}
  /\ \A p \in Pairs \ diff : Active(p) <=> distance_matrix[p] \in Linked

\* The three things that may happen to a pair.
PairUp(p) ==
  /\ distance_matrix[p] \in Linked /\ ~ Active(p) /\ Active(p)'
  /\ bridge' = TRUE
  /\ queue' = QueueRules(QueueBridge(queue, p), p, "I")

PairDown(p) ==
  /\ distance_matrix[p] \notin Linked /\ Active(p) /\ ~ Active(p)'
  /\ bridge' = bridge
  /\ queue' = QueueRules(queue, p, "D")

PairKept(p) ==
  /\ distance_matrix[p] \in Linked <=> Active(p)
  /\ UNCHANGED <<store, queue, bridge>>

LEMMA PairCases ==
  ASSUME TypeOK, StoreInv, NEW p \in Pairs, ProcessPairShaped(p)
  PROVE  /\ TakePair(p)
         /\ UNCHANGED kernelVars
         /\ store'.inactive = store.inactive
         /\ \A r \in Pairs \ {p} : store'.active[r] = store.active[r]
         /\ PairUp(p) \/ PairDown(p) \/ PairKept(p)
<1>1. TakePair(p) /\ UNCHANGED kernelVars /\ (LinkUp(p) \/ LinkDown(p) \/ LinkKept(p))
  BY DEF ProcessPairShaped, ProcessPair
<1>2. CASE LinkUp(p)
  BY <1>1, <1>2, StoreUpEffect DEF LinkUp, PairUp, Active
<1>3. CASE LinkDown(p)
  BY <1>1, <1>3, StoreDownEffect DEF LinkDown, PairDown, Active, StoreInv
<1>4. CASE LinkKept(p)
  <2>1. store.active[p] \subseteq {TheIfs}
    BY OneInterface DEF TypeOK, StepTypeOK, Store!Stores
  <2> QED
    BY <1>1, <1>4, <2>1 DEF LinkKept, PairKept, Active
<1> QED
  BY <1>1, <1>2, <1>3, <1>4

\* All other actions of a step leave the store and the matrix alone.
LEMMA StepCases ==
  ASSUME Typed, ShapedStep
  PROVE  \/ \E m \in Inputs : BeginShaped(m)
         \/ \E p \in Pairs : ProcessPairShaped(p)
         \/ UNCHANGED <<store, distance_matrix, diff>>
<1>0. pc # "pairs" => diff = {}
  BY DEF Typed, InStep
<1>1. CASE EndOfPairs \/ RunBridge \/ RunEbtables \/ RunBatchShaped \/ IpConfig
           \/ CheckPassesShaped \/ End
  BY <1>1 DEF EndOfPairs, PairsDone, RunBridge, RunEbtables, Advance, RunBatchShaped, RunBatch,
              BatchDone, IpConfig, CheckPassesShaped, CheckPasses, CheckDone, End, EndStep
<1>2. CASE BridgeError \/ EbtablesError \/ TcError \/ CheckFails
  BY <1>0, <1>2 DEF BridgeError, EbtablesError, TcError, CheckFails, Raise
<1>3. ASSUME NEW point \in FailPoints, Failure(point)
      PROVE  UNCHANGED <<store, distance_matrix, diff>>
  BY <1>0, <1>3, SingleAssumption DEF Failure, EnvFailure, Raise
<1>4. BatchFails => Failure("batch") /\ "batch" \in FailPoints
  BY DEF BatchFails, Failure, EnvFailure
<1> QED
  BY <1>1, <1>2, <1>3, <1>4 DEF ShapedStep

LEMMA StoreInit == ShapedInit => StoreInv
  BY StepAssumption DEF ShapedInit, Init, StepInit, StoreInv, Active, Store!EmptyStore

LEMMA StoreStep ==
  ASSUME Typed, StoreInv, ShapedNext
  PROVE  StoreInv'
<1>1. ASSUME NEW m \in Inputs, BeginShaped(m)
      PROVE  StoreInv'
  <2>1. diff = {} /\ store' = store /\ distance_matrix' = m
    BY <1>1 DEF BeginShaped, Begin, BeginStep, Typed, InStep
  <2>2. \A p \in Pairs \ diff' : m[p] = distance_matrix[p]
    BY <1>1, <2>1 DEF BeginShaped, Begin, BeginStep, Changed
  <2> QED
    BY <2>1, <2>2 DEF StoreInv, Active
<1>2. ASSUME NEW p \in Pairs, ProcessPairShaped(p)
      PROVE  StoreInv'
  <2>1. /\ TakePair(p)
        /\ store'.inactive = store.inactive
        /\ \A r \in Pairs \ {p} : store'.active[r] = store.active[r]
        /\ PairUp(p) \/ PairDown(p) \/ PairKept(p)
    BY <1>2, PairCases DEF Typed
  <2>2. diff' = diff \ {p} /\ distance_matrix' = distance_matrix
    BY <2>1 DEF TakePair
  <2>3. Active(p)' <=> distance_matrix[p] \in Linked
    BY <2>1 DEF PairUp, PairDown, PairKept, Active
  <2> QED
    BY <2>1, <2>2, <2>3 DEF StoreInv, Active
<1>3. CASE UNCHANGED <<store, distance_matrix, diff>>
  BY <1>3 DEF StoreInv, Active
<1>4. CASE AbortShaped
  BY <1>4, StepAssumption DEF AbortShaped, Abort, AbortStep, StoreInv, Active, Store!EmptyStore
<1> QED
  BY <1>1, <1>2, <1>3, <1>4, StepCases DEF ShapedNext

LEMMA StoreInvariant == ShapedSpec => []StoreInv
<1>1. StoreInv /\ UNCHANGED shapedVars => StoreInv'
  BY DEF StoreInv, Active, shapedVars, vars, stepVars
<1> QED
  BY <1>1, StoreInit, StoreStep, TypeCorrect, PTL DEF ShapedSpec

(***************************************************************************)
(* Between steps the store holds exactly the wanted pairs, whatever failed *)
(* in the steps before.                                                    *)
(***************************************************************************)
THEOREM StoreFollowsMatrix == ShapedSpec => []StoreMatchesMatrix
<1>1. Typed /\ StoreInv => StoreMatchesMatrix
  BY DEF Typed, InStep, StoreInv, Active, StoreMatchesMatrix, Store!ActivePairs, Wanted
<1> QED
  BY <1>1, TypeCorrect, StoreInvariant, PTL

(***************************************************************************)
(* The ebtables rules.  Commands are queued by twos, one per direction, so *)
(* that after an even number of commands both directions are alike.        *)
(***************************************************************************)
Rules == queue.cmds["rules"]

Paired(cmds) ==
  \E k \in Nat :
    /\ Len(cmds) = 2 * k
    /\ \A i \in 1..k : \E op \in {"I", "D"}, d \in Directions :
         cmds[2*i - 1] = <<op, d>> /\ cmds[2*i] = <<op, Reverse(d)>>

Mirrored == Paired(Rules) /\ NoHalfOpenLink

Symmetric(t) == \A d \in Directions : t.rules[d] = t.rules[Reverse(d)]

\* A command and its mirror image are queued together, ...
LEMMA PairedHas ==
  ASSUME NEW s \in Seq(RuleCommands), Paired(s), NEW op, NEW d \in Directions
  PROVE  <<op, d>> \in Shell!Queued(s) => <<op, Reverse(d)>> \in Shell!Queued(s)
<1> SUFFICES ASSUME <<op, d>> \in Shell!Queued(s) PROVE <<op, Reverse(d)>> \in Shell!Queued(s)
  OBVIOUS
<1>1. PICK j \in 1..Len(s) : s[j] = <<op, d>>
  BY DEF Shell!Queued
<1>2. PICK k \in Nat :
        /\ Len(s) = 2 * k
        /\ \A i \in 1..k : \E o \in {"I", "D"}, e \in Directions :
             s[2*i - 1] = <<o, e>> /\ s[2*i] = <<o, Reverse(e)>>
  BY DEF Paired
<1>3. PICK i \in 1..k : j = 2*i - 1 \/ j = 2*i
  <2> DEFINE h == j \div 2
  <2>1. j \in Nat /\ j >= 1 /\ j <= 2 * k
    BY <1>2
  <2>2. h \in Nat /\ (j = 2 * h \/ j = 2 * h + 1)
    BY <2>1
  <2> HIDE DEF h
  <2>3. CASE j = 2 * h
    <3>1. h \in 1..k
      BY <2>1, <2>2, <2>3
    <3> QED
      BY <2>3, <3>1
  <2>4. CASE j = 2 * h + 1
    <3>1. h + 1 \in 1..k /\ j = 2 * (h + 1) - 1
      BY <2>1, <2>2, <2>4
    <3> QED
      BY <3>1
  <2> QED
    BY <2>2, <2>3, <2>4
<1>4. PICK o \in {"I", "D"}, e \in Directions :
        s[2*i - 1] = <<o, e>> /\ s[2*i] = <<o, Reverse(e)>>
  BY <1>2
<1>5. 2*i - 1 \in 1..Len(s) /\ 2*i \in 1..Len(s)
  BY <1>2
<1>6. CASE j = 2*i - 1
  <2>1. s[2*i] = <<op, Reverse(d)>>
    BY <1>1, <1>4, <1>6
  <2> QED
    BY <1>5, <2>1 DEF Shell!Queued
<1>7. CASE j = 2*i
  <2>1. o = op /\ Reverse(e) = d
    BY <1>1, <1>4, <1>7
  <2>2. Reverse(d) = e
    BY <2>1, PairsAreDirections
  <2>3. s[2*i - 1] = <<op, Reverse(d)>>
    BY <1>4, <2>1, <2>2
  <2> QED
    BY <1>5, <2>3 DEF Shell!Queued
<1> QED
  BY <1>3, <1>6, <1>7

\* ... and stay so when two more are added, dropped or not.
LEMMA PairedAdd ==
  ASSUME NEW s \in Seq(RuleCommands), Paired(s), NEW op \in {"I", "D"}, NEW d \in Directions
  PROVE  Paired(Shell!AddUnique(Shell!AddUnique(s, <<op, d>>), <<op, Reverse(d)>>))
<1> DEFINE a == <<op, d>>
           b == <<op, Reverse(d)>>
           Q == Shell!Queued(s)
<1>0. Reverse(d) \in Directions /\ Reverse(d) # d /\ Reverse(Reverse(d)) = d
  BY PairsAreDirections
<1>1. a \in Q <=> b \in Q
  BY <1>0, PairedHas
<1>2. a # b /\ a \in RuleCommands /\ b \in RuleCommands
  BY <1>0 DEF RuleCommands
<1>3. CASE a \in Q
  <2>1. Shell!AddUnique(s, a) = s /\ Shell!AddUnique(s, b) = s
    BY <1>1, <1>3 DEF Shell!AddUnique
  <2> QED
    BY <2>1
<1>4. CASE a \notin Q
  <2> DEFINE s1 == Append(s, a)
             s2 == Append(s1, b)
  <2>1. Shell!AddUnique(s, a) = s1
    BY <1>4 DEF Shell!AddUnique
  <2>2. s1 \in Seq(RuleCommands) /\ Shell!Queued(s1) = Q \cup {a}
    <3>1. a \in RuleCommands
      BY <1>2
    <3> HIDE DEF a, s1
    <3>2. /\ Shell!AddUnique(s, a) \in Seq(RuleCommands)
          /\ Shell!Queued(Shell!AddUnique(s, a)) = Shell!Queued(s) \cup {a}
      BY <3>1, AddUniqueLemma
    <3> QED
      BY <2>1, <3>2
  <2>3. Shell!AddUnique(s1, b) = s2
    BY <1>1, <1>2, <1>4, <2>2 DEF Shell!AddUnique
  <2>4. PICK k \in Nat :
        /\ Len(s) = 2 * k
        /\ \A i \in 1..k : \E o \in {"I", "D"}, e \in Directions :
             s[2*i - 1] = <<o, e>> /\ s[2*i] = <<o, Reverse(e)>>
    BY DEF Paired
  <2>5. /\ Len(s1) = 2*k + 1 /\ s1[2*k + 1] = a
        /\ \A j \in 1..(2*k) : s1[j] = s[j]
    BY <2>4
  <2>6. /\ Len(s2) = 2*(k + 1) /\ s2[2*(k+1)] = b /\ s2[2*(k+1) - 1] = a
        /\ \A j \in 1..(2*k) : s2[j] = s[j]
    <3>1. Len(s2) = Len(s1) + 1 /\ s2[Len(s1) + 1] = b /\ \A j \in 1..Len(s1) : s2[j] = s1[j]
      BY <2>2
    <3> HIDE DEF s1, s2
    <3>2. 2*(k+1) = 2*k + 2 /\ 2*(k+1) - 1 = 2*k + 1 /\ 2*k \in Nat
      OBVIOUS
    <3> QED
      BY <2>5, <3>1, <3>2
  <2> HIDE DEF s1, s2
  <2>7. ASSUME NEW i \in 1..(k+1)
        PROVE  \E o \in {"I", "D"}, e \in Directions :
                 s2[2*i - 1] = <<o, e>> /\ s2[2*i] = <<o, Reverse(e)>>
    <3>1. CASE i = k + 1
      BY <2>6, <3>1
    <3>2. CASE i \in 1..k
      <4>1. 2*i - 1 \in 1..(2*k) /\ 2*i \in 1..(2*k)
        BY <3>2
      <4>2. PICK o \in {"I", "D"}, e \in Directions :
              s[2*i - 1] = <<o, e>> /\ s[2*i] = <<o, Reverse(e)>>
        BY <2>4, <3>2
      <4>3. s2[2*i - 1] = <<o, e>> /\ s2[2*i] = <<o, Reverse(e)>>
        BY <2>6, <4>1, <4>2
      <4> QED
        BY <4>3
    <3> QED
      BY <3>1, <3>2
  <2>8. Paired(s2)
    <3>1. k + 1 \in Nat
      OBVIOUS
    <3> QED
      BY <2>6, <2>7, <3>1 DEF Paired
  <2> QED
    BY <2>1, <2>3, <2>8
<1> QED
  BY <1>3, <1>4

\* Two commands that mirror each other keep a table symmetric.
LEMMA EditTwo ==
  ASSUME NEW t \in Tables, Symmetric(t), NEW op \in {"I", "D"}, NEW d \in Directions
  PROVE  Symmetric(Edit(Edit(t, <<op, d>>), <<op, Reverse(d)>>))
<1> DEFINE a == <<op, d>>
           b == <<op, Reverse(d)>>
           u == Edit(t, a)
           v == Edit(u, b)
           n == IF op = "I" THEN t.rules[d] + 1
                ELSE IF t.rules[d] > 0 THEN t.rules[d] - 1 ELSE t.rules[d]
<1>1. Reverse(d) \in Directions /\ Reverse(d) # d /\ Reverse(Reverse(d)) = d
  BY PairsAreDirections
<1>2. a \in RuleCommands /\ b \in RuleCommands /\ a[1] = op /\ a[2] = d /\ b[1] = op
      /\ b[2] = Reverse(d)
  BY <1>1 DEF RuleCommands
<1>3. t.rules[d] = t.rules[Reverse(d)]
  BY DEF Symmetric
<1> HIDE DEF a, b
<1>4. u \in Tables /\ u.rules[d] = n /\ \A e \in Directions \ {d} : u.rules[e] = t.rules[e]
  BY <1>2, EditTyped
<1> HIDE DEF u
<1>5. v.rules[Reverse(d)] = n /\ \A e \in Directions \ {Reverse(d)} : v.rules[e] = u.rules[e]
  <2>1. u.rules[Reverse(d)] = t.rules[d]
    BY <1>1, <1>3, <1>4
  <2>2. /\ v.rules[b[2]] = IF b[1] = "I" THEN u.rules[b[2]] + 1
                           ELSE IF u.rules[b[2]] > 0 THEN u.rules[b[2]] - 1
                           ELSE u.rules[b[2]]
        /\ \A e \in Directions \ {b[2]} : v.rules[e] = u.rules[e]
    BY <1>2, <1>4, EditTyped
  <2> HIDE DEF v
  <2> QED
    BY <1>2, <2>1, <2>2
<1> HIDE DEF v, n
<1>6. ASSUME NEW e \in Directions PROVE v.rules[e] = v.rules[Reverse(e)]
  <2>1. CASE e = d
    BY <1>1, <1>4, <1>5, <2>1
  <2>2. CASE e = Reverse(d)
    BY <1>1, <1>4, <1>5, <2>2
  <2>3. CASE e # d /\ e # Reverse(d)
    <3>1. Reverse(e) \in Directions /\ Reverse(e) # d /\ Reverse(e) # Reverse(d)
      BY <1>1, <2>3, PairsAreDirections
    <3>2. v.rules[e] = t.rules[e] /\ v.rules[Reverse(e)] = t.rules[Reverse(e)]
      BY <1>4, <1>5, <2>3, <3>1
    <3> QED
      BY <3>2 DEF Symmetric
  <2> QED
    BY <2>1, <2>2, <2>3
<1> QED
  BY <1>6 DEF Symmetric, v, u, a, b

\* All commands of a queue keep the table symmetric.
LEMMA EditAllSymmetric ==
  ASSUME NEW t \in Tables, Symmetric(t), NEW s \in Seq(RuleCommands), Paired(s)
  PROVE  Symmetric(EditAll(t, s)[Len(s)])
<1> DEFINE after == EditAll(t, s)
<1>1. /\ after \in [0..Len(s) -> Tables]
      /\ after[0] = t
      /\ \A n \in 1..Len(s) : after[n] = IF t.chain THEN Edit(after[n-1], s[n]) ELSE t
  BY EditAllSteps
<1> HIDE DEF after
<1>2. PICK k \in Nat :
        /\ Len(s) = 2 * k
        /\ \A i \in 1..k : \E o \in {"I", "D"}, e \in Directions :
             s[2*i - 1] = <<o, e>> /\ s[2*i] = <<o, Reverse(e)>>
  BY DEF Paired
<1> DEFINE S == {i \in 0..k : Symmetric(after[2*i])}
<1>3. 0 \in S
  BY <1>1
<1>4. ASSUME NEW i \in 1..k, i - 1 \in S PROVE i \in S
  <2>1. /\ 2*i - 1 \in 1..Len(s) /\ 2*i \in 1..Len(s) /\ 2*i - 2 \in 0..Len(s)
        /\ (2*i - 1) - 1 = 2*i - 2 /\ 2*(i - 1) = 2*i - 2
    <3>1. Len(s) = 2 * k /\ i \in 1..k /\ k \in Nat
      BY <1>2
    <3> HIDE DEF S
    <3> QED
      BY <3>1
  <2>2. Symmetric(after[2*i - 2]) /\ after[2*i - 2] \in Tables
    BY <1>1, <1>4, <2>1
  <2>3. PICK o \in {"I", "D"}, e \in Directions :
          s[2*i - 1] = <<o, e>> /\ s[2*i] = <<o, Reverse(e)>>
    BY <1>2
  <2>4. CASE t.chain
    <3>1. after[2*i - 1] = Edit(after[2*i - 2], <<o, e>>)
      BY <1>1, <2>1, <2>3, <2>4
    <3>2. after[2*i] = Edit(after[2*i - 1], <<o, Reverse(e)>>)
      BY <1>1, <2>1, <2>3, <2>4
    <3>3. Symmetric(after[2*i])
      BY <2>2, <3>1, <3>2, EditTwo
    <3> QED
      BY <3>3
  <2>5. CASE ~ t.chain
    <3>1. after[2*i] = t
      BY <1>1, <2>1, <2>5
    <3> QED
      BY <3>1
  <2> QED
    BY <2>4, <2>5
<1>5. S = 0..k
  <2>1. S \in SUBSET (0..k)
    OBVIOUS
  <2> HIDE DEF S
  <2> QED
    BY <1>3, <1>4, <2>1, UpTo
<1>6. k \in S
  <2> HIDE DEF S
  <2> QED
    BY <1>5
<1>7. Symmetric(after[2*k])
  BY <1>6
<1> QED
  BY <1>2, <1>7 DEF after

LEMMA PairedEmpty == Paired(<<>>)
<1>1. 0 \in Nat /\ Len(<<>>) = 2 * 0 /\ 1..0 = {}
  OBVIOUS
<1> QED
  BY <1>1 DEF Paired

LEMMA EmptyRules ==
  /\ Shell!FreshSerializer.cmds["rules"] = <<>>
  /\ Shell!ResetSerializer.cmds["rules"] = <<>>
  BY FreshLemma, SingleAssumption

\* What the actions that process no pair do to the queued commands and the table.
LEMMA QueueCases ==
  ASSUME Typed, ShapedStep
  PROVE  /\ \/ \E p \in Pairs : ProcessPairShaped(p)
            \/ queue' \in {queue, Shell!FreshSerializer, Shell!ResetSerializer}
         /\ table' \in {table, EmptyTable, EbtablesRun.table}
<1>1. CASE EndOfPairs \/ RunBridge \/ RunEbtables \/ RunBatchShaped \/ IpConfig
           \/ CheckPassesShaped \/ End
  BY <1>1 DEF EndOfPairs, PairsDone, RunBridge, BridgeCommandsRun, RunEbtables, Advance,
     RunBatchShaped, RunBatch, BatchDone, IpConfig, CheckPassesShaped, CheckPasses, CheckDone,
     End, EndStep, kernelVars
<1>2. CASE BridgeError \/ EbtablesError \/ TcError \/ CheckFails
  BY <1>2 DEF BridgeError, EbtablesError, TcError, CheckFails, Raise, kernelVars
<1>3. ASSUME NEW point \in FailPoints, Failure(point)
      PROVE  queue' = queue /\ table' = table
  BY <1>3 DEF Failure, EnvFailure, Raise, BridgeCommandsRun, kernelVars
<1>4. BatchFails => Failure("batch") /\ "batch" \in FailPoints
  BY DEF BatchFails, Failure, EnvFailure
<1>5. ASSUME NEW m \in Inputs, BeginShaped(m)
      PROVE  queue' = queue /\ table' \in {table, EmptyTable}
  BY <1>5 DEF BeginShaped, Begin, BeginStep
<1>6. ASSUME NEW p \in Pairs, ProcessPairShaped(p)
      PROVE  table' = table
  BY <1>6 DEF ProcessPairShaped, ProcessPair, kernelVars
<1> QED
  BY <1>1, <1>2, <1>3, <1>4, <1>5, <1>6 DEF ShapedStep

LEMMA MirroredInit == ShapedInit => Mirrored
<1> SUFFICES ASSUME ShapedInit PROVE Mirrored
  OBVIOUS
<1>1. Rules = <<>>
  BY EmptyRules DEF ShapedInit, Init, StepInit, Rules
<1>2. NoHalfOpenLink
  BY PairsAreDirections DEF ShapedInit, Init, EmptyTable, NoHalfOpenLink
<1> QED
  BY <1>1, <1>2, PairedEmpty DEF Mirrored

LEMMA MirroredStep ==
  ASSUME Typed, StoreInv, Mirrored, ShapedNext
  PROVE  Mirrored'
<1>0. /\ TypeOK /\ QueueTyped(queue) /\ Rules \in Seq(RuleCommands) /\ table \in Tables
      /\ Paired(Rules) /\ NoHalfOpenLink
  <2>1. TypeOK
    BY DEF Typed
  <2>2. Rules \in Seq(RuleCommands) /\ table \in Tables
    BY <2>1 DEF TypeOK, Rules
  <2> QED
    BY <2>1, <2>2, TypedQueue DEF Mirrored
<1>1. ASSUME NEW q, QueueTyped(q), q.cmds["rules"] = Rules, NEW p \in Pairs,
             NEW op \in {"I", "D"}, queue' = QueueRules(q, p, op)
      PROVE  Paired(Rules')
  <2> DEFINE r == QueueRules(q, p, op)
  <2>r. r.cmds["rules"] = Shell!AddUnique(Shell!AddUnique(q.cmds["rules"], <<op, p>>),
                                          <<op, Reverse(p)>>)
    BY <1>1, QueueRulesLemma
  <2>q. Rules' = r.cmds["rules"]
    BY <1>1 DEF Rules
  <2> HIDE DEF r
  <2>1. Rules' = Shell!AddUnique(Shell!AddUnique(Rules, <<op, p>>), <<op, Reverse(p)>>)
    BY <1>1, <2>q, <2>r
  <2>2. p \in Directions
    BY PairsAreDirections
  <2> QED
    BY <1>0, <2>1, <2>2, PairedAdd
<1>2. ASSUME NEW p \in Pairs, ProcessPairShaped(p)
      PROVE  Paired(Rules')
  <2>1. CASE PairUp(p)
    <3>1. /\ QueueTyped(QueueBridge(queue, p))
          /\ QueueBridge(queue, p).cmds["rules"] = Rules
      BY <1>0, QueueBridgeLemma DEF Rules
    <3> QED
      BY <1>1, <2>1, <3>1 DEF PairUp
  <2>2. CASE PairDown(p)
    BY <1>0, <1>1, <2>2 DEF PairDown, Rules
  <2>3. CASE PairKept(p)
    BY <1>0, <2>3 DEF PairKept, Rules
  <2> QED
    BY <1>0, <1>2, <2>1, <2>2, <2>3, PairCases
<1>3. ASSUME queue' \in {queue, Shell!FreshSerializer, Shell!ResetSerializer}
      PROVE  Paired(Rules')
  <2>1. Rules' = Rules \/ Rules' = <<>>
    BY <1>3, EmptyRules DEF Rules
  <2> QED
    BY <1>0, <2>1, PairedEmpty
<1>4. \A d \in Directions : EmptyTable.rules[d] = EmptyTable.rules[Reverse(d)]
  BY PairsAreDirections DEF EmptyTable
<1>5. \A d \in Directions : EbtablesRun.table.rules[d] = EbtablesRun.table.rules[Reverse(d)]
  <2> DEFINE chain == Shell!Runnable(queue, "chain")
             rules == Shell!Runnable(queue, "rules")
             start == [table EXCEPT !.chain = @ \/ chain # <<>>]
  <2>1. start \in Tables /\ start.rules = table.rules
    BY <1>0 DEF Tables
  <2>2. Symmetric(start)
    BY <1>0, <2>1 DEF Symmetric, NoHalfOpenLink
  <2>3. rules \in Seq(RuleCommands) /\ Paired(rules)
    BY <1>0, PairedEmpty DEF Rules, Shell!Runnable
  <2>4. EbtablesRun.table = EditAll(start, rules)[Len(rules)]
    BY DEF EbtablesRun
  <2> HIDE DEF start, rules
  <2>5. Symmetric(EbtablesRun.table)
    BY <2>1, <2>2, <2>3, <2>4, EditAllSymmetric
  <2> QED
    BY <2>5 DEF Symmetric
<1>6. ASSUME table' \in {table, EmptyTable, EbtablesRun.table}
      PROVE  NoHalfOpenLink'
  BY <1>0, <1>4, <1>5, <1>6 DEF NoHalfOpenLink
<1>7. CASE ShapedStep
  BY <1>2, <1>3, <1>6, <1>7, QueueCases DEF Mirrored
<1>8. CASE AbortShaped
  BY <1>3, <1>6, <1>8 DEF AbortShaped, Abort, AbortStep, Mirrored
<1> QED
  BY <1>7, <1>8 DEF ShapedNext

(***************************************************************************)
(* Neither duplicate suppression nor failing commands nor the rerun of a   *)
(* queue ever lets one direction of a link through without the other.      *)
(***************************************************************************)
THEOREM LinksAreSymmetric == ShapedSpec => []NoHalfOpenLink
<1>1. Mirrored /\ UNCHANGED shapedVars => Mirrored'
  BY DEF Mirrored, Paired, NoHalfOpenLink, Rules, shapedVars, vars, stepVars, kernelVars
<1>2. Mirrored => NoHalfOpenLink
  BY DEF Mirrored
<1> QED
  BY <1>1, <1>2, MirroredInit, MirroredStep, TypeCorrect, StoreInvariant, PTL DEF ShapedSpec

(***************************************************************************)
(* The root qdiscs.  Until a step fails with its commands under way,       *)
(* shaped_ifaces are the taps with a root qdisc or a queued command for    *)
(* one, of which there is no second.                                       *)
(***************************************************************************)
Distinct(cmds) == \A j, k \in DOMAIN cmds : cmds[j] = cmds[k] => j = k

RootOK(root, s) ==
  /\ Distinct(s.cmds.qdisc)
  /\ root \cap Shell!Queued(s.cmds.qdisc) = {}
  /\ root \cup Shell!Queued(s.cmds.qdisc) = s.ifaces
  /\ \A c \in Shell!Queued(s.cmds.class) : c[1] \in s.ifaces

Book == [ifaces |-> shaped_ifaces, cmds |-> tc_cmds]

RootInv ==
  ~ late => /\ queue.ordered \/ pc \in {"ipconfig", "check"}
            /\ pc \in {"ipconfig", "check"} => tc_cmds = NoTc
            /\ RootOK(tc.root, Book)

\* shape_device asks for a root qdisc once.
LEMMA RootShape ==
  ASSUME NEW root, NEW s \in Books, RootOK(root, s),
         NEW n \in Nodes, NEW p \in Pairs, NEW d \in Linked
  PROVE  RootOK(root, ShapeDevice(s, n, p, d))
<1> DEFINE r == ShapeDevice(s, n, p, d)
           C == Nodes \X Pairs \X Linked
           x == <<n, p, d>>
           qd == s.cmds.qdisc
           cl == s.cmds.class
<1>1. /\ r.ifaces = s.ifaces \cup {n}
      /\ r.cmds.qdisc = IF n \in s.ifaces THEN qd ELSE Shell!AddUnique(qd, n)
      /\ r.cmds.class = Shell!AddUnique(cl, x)
  BY ShapeDeviceLemma
<1>2. qd \in Seq(Nodes) /\ cl \in Seq(C) /\ x \in C /\ x[1] = n
  BY DEF Books, TcCommands
<1>3. /\ Distinct(qd)
      /\ root \cap Shell!Queued(qd) = {}
      /\ root \cup Shell!Queued(qd) = s.ifaces
      /\ \A c \in Shell!Queued(cl) : c[1] \in s.ifaces
  BY DEF RootOK
<1> HIDE DEF r, C, x, qd, cl
<1>4. Shell!Queued(r.cmds.class) = Shell!Queued(cl) \cup {x}
  BY <1>1, <1>2, AddUniqueLemma
<1>5. \A c \in Shell!Queued(r.cmds.class) : c[1] \in r.ifaces
  BY <1>1, <1>2, <1>3, <1>4
<1>6. CASE n \in s.ifaces
  <2>1. r.cmds.qdisc = qd /\ r.ifaces = s.ifaces
    BY <1>1, <1>6
  <2> QED
    BY <1>3, <1>5, <2>1 DEF RootOK, r
<1>7. CASE n \notin s.ifaces
  <2>1. n \notin Shell!Queued(qd) /\ n \notin root
    BY <1>3, <1>7
  <2>2. r.cmds.qdisc = Append(qd, n)
    BY <1>1, <1>7, <2>1 DEF Shell!AddUnique
  <2>3. Shell!Queued(r.cmds.qdisc) = Shell!Queued(qd) \cup {n}
    <3>1. Shell!Queued(Shell!AddUnique(qd, n)) = Shell!Queued(qd) \cup {n}
      BY <1>2, AddUniqueLemma
    <3> QED
      BY <1>1, <1>7, <3>1
  <2>4. Distinct(Append(qd, n))
    <3>1. /\ Len(qd) \in Nat /\ DOMAIN qd = 1..Len(qd)
          /\ DOMAIN Append(qd, n) = 1..(Len(qd) + 1)
          /\ \A k \in 1..Len(qd) : Append(qd, n)[k] = qd[k] /\ qd[k] # n
          /\ Append(qd, n)[Len(qd) + 1] = n
      BY <1>2, <2>1 DEF Shell!Queued
    <3> QED
      BY <1>3, <3>1 DEF Distinct
  <2> QED
    BY <1>1, <1>3, <1>5, <1>7, <2>1, <2>2, <2>3, <2>4 DEF RootOK, r
<1> QED
  BY <1>6, <1>7 DEF r

\* The root qdiscs after the first k commands of a batch.
Rooted(n, k) == n \in tc.root \/ \E j \in 1..Len(tc_cmds.qdisc) : j <= k /\ tc_cmds.qdisc[j] = n

LEMMA BatchRoots ==
  ASSUME ShapeTypeOK, queue.ordered
  PROVE  \A k \in 0..Len(ToShape) : \A n \in Nodes : n \in TcAfter[k].root <=> Rooted(n, k)
<1> DEFINE N == Len(ToShape)
           qd == tc_cmds.qdisc
           cl == tc_cmds.class
           a == TcAfter
           S == {k \in 0..N : \A n \in Nodes : n \in a[k].root <=> Rooted(n, k)}
<1>1. N \in Nat /\ a \in [0..N -> Shapes] /\ a[0] = tc
      /\ \A n \in 1..N : a[n] = TcEdit(a[n-1], ToShape[n])
  BY TcAfterSteps
<1>2. /\ qd \in Seq(Nodes) /\ cl \in Seq(Nodes \X Pairs \X Linked)
      /\ N = Len(qd) + Len(cl)
      /\ \A k \in 1..Len(qd) : ToShape[k] = <<"qdisc", qd[k]>>
      /\ \A k \in 1..Len(cl) : ToShape[Len(qd) + k] = <<"class", cl[k]>>
  BY ToShapeParts DEF ShapeTypeOK, TcCommands
<1>3. /\ Len(qd) \in Nat /\ Len(cl) \in Nat
      /\ \A n, k : Rooted(n, k) <=> n \in tc.root \/ \E j \in 1..Len(qd) : j <= k /\ qd[j] = n
  BY <1>2 DEF Rooted
<1> HIDE DEF N, qd, cl, a
<1>4. 0 \in S
  BY <1>1, <1>3
<1>5. ASSUME NEW n \in 1..N, n - 1 \in S PROVE n \in S
  <2>1. /\ a[n-1] \in Shapes /\ a[n] = TcEdit(a[n-1], ToShape[n])
        /\ \A x \in Nodes : x \in a[n-1].root <=> Rooted(x, n - 1)
    BY <1>1, <1>5
  <2>2. CASE n <= Len(qd)
    <3>1. ToShape[n] = <<"qdisc", qd[n]>> /\ n \in 1..Len(qd)
      BY <1>1, <1>2, <1>3, <2>2
    <3>2. a[n].root = a[n-1].root \cup {qd[n]}
      BY <2>1, <3>1 DEF TcEdit, Shapes
    <3>3. \A j \in 1..Len(qd) : j <= n <=> j <= n - 1 \/ j = n
      BY <1>3, <3>1
    <3>4. \A x : Rooted(x, n) <=> Rooted(x, n - 1) \/ x = qd[n]
      BY <1>3, <3>1, <3>3
    <3> QED
      BY <2>1, <3>2, <3>4
  <2>3. CASE n > Len(qd)
    <3>1. n - Len(qd) \in 1..Len(cl) /\ Len(qd) + (n - Len(qd)) = n
      BY <1>1, <1>2, <1>3, <2>3
    <3>2. ToShape[n] = <<"class", cl[n - Len(qd)]>>
      BY <1>2, <3>1
    <3>3. a[n].root = a[n-1].root
      BY <2>1, <3>2 DEF TcEdit, Shapes
    <3>4. \A j \in 1..Len(qd) : j <= n <=> j <= n - 1
      BY <1>1, <1>3, <2>3
    <3>5. \A x : Rooted(x, n) <=> Rooted(x, n - 1)
      BY <1>3, <3>4
    <3> QED
      BY <2>1, <3>3, <3>5
  <2> QED
    BY <1>3, <2>2, <2>3
<1>6. S = 0..N
  <2>1. S \in SUBSET (0..N)
    OBVIOUS
  <2> HIDE DEF S
  <2> QED
    BY <1>1, <1>4, <1>5, <2>1, UpTo
<1>7. \A k \in 0..N : \A n \in Nodes : n \in a[k].root <=> Rooted(n, k)
  BY <1>6
<1> QED
  BY <1>7 DEF N, a

\* If the book is right, then no command of the batch fails, ...
LEMMA BatchSucceeds ==
  ASSUME ShapeTypeOK, queue.ordered, RootOK(tc.root, Book)
  PROVE  TcOk
<1> DEFINE N == Len(ToShape)
           qd == tc_cmds.qdisc
           cl == tc_cmds.class
<1>1. /\ qd \in Seq(Nodes) /\ cl \in Seq(Nodes \X Pairs \X Linked)
      /\ N = Len(qd) + Len(cl) /\ N \in Nat
      /\ \A k \in 1..Len(qd) : ToShape[k] = <<"qdisc", qd[k]>>
      /\ \A k \in 1..Len(cl) : ToShape[Len(qd) + k] = <<"class", cl[k]>>
  BY ToShapeParts, TcAfterSteps DEF ShapeTypeOK, TcCommands
<1>2. /\ Distinct(qd)
      /\ tc.root \cap Shell!Queued(qd) = {}
      /\ tc.root \cup Shell!Queued(qd) = shaped_ifaces
      /\ \A c \in Shell!Queued(cl) : c[1] \in shaped_ifaces
  BY DEF RootOK, Book
<1>3. \A k \in 0..N : \A n \in Nodes : n \in TcAfter[k].root <=> Rooted(n, k)
  BY BatchRoots
<1>r. \A n, k : Rooted(n, k) <=> n \in tc.root \/ \E j \in 1..Len(qd) : j <= k /\ qd[j] = n
  BY DEF Rooted
<1>4. /\ Len(qd) \in Nat /\ Len(cl) \in Nat /\ DOMAIN qd = 1..Len(qd) /\ DOMAIN cl = 1..Len(cl)
      /\ \A k \in 1..Len(qd) : qd[k] \in Nodes
      /\ \A k \in 1..Len(cl) : cl[k][1] \in Nodes
  BY <1>1
<1> HIDE DEF N, qd, cl
<1>5. ASSUME NEW j \in 1..N PROVE ~ TcFails(TcAfter[j-1], ToShape[j])
  <2>1. j - 1 \in 0..N
    BY <1>1
  <2>2. CASE j <= Len(qd)
    <3>1. ToShape[j] = <<"qdisc", qd[j]>> /\ j \in 1..Len(qd)
      BY <1>1, <1>4, <2>2
    <3>2. qd[j] \notin tc.root /\ qd[j] \in Nodes
      BY <1>2, <1>4, <3>1 DEF Shell!Queued
    <3>3. \A i \in 1..Len(qd) : i <= j - 1 => qd[i] # qd[j]
      BY <1>2, <1>4, <3>1 DEF Distinct
    <3>4. qd[j] \notin TcAfter[j-1].root
      BY <1>3, <1>r, <2>1, <3>2, <3>3
    <3> QED
      BY <3>1, <3>4 DEF TcFails
  <2>3. CASE j > Len(qd)
    <3>0. j \in 1..N /\ N = Len(qd) + Len(cl) /\ Len(qd) \in Nat /\ Len(cl) \in Nat
      BY <1>1, <1>4
    <3>1. j - Len(qd) \in 1..Len(cl) /\ Len(qd) + (j - Len(qd)) = j
      BY <2>3, <3>0
    <3> DEFINE c == cl[j - Len(qd)]
    <3>2. ToShape[j] = <<"class", c>>
      BY <1>1, <3>1
    <3>3. c[1] \in Nodes /\ c[1] \in shaped_ifaces
      BY <1>2, <1>4, <3>1 DEF Shell!Queued
    <3>4. \A i \in 1..Len(qd) : i <= j - 1
      BY <1>1, <1>4, <2>3
    <3> HIDE DEF c
    <3>5. c[1] \in tc.root \/ \E i \in 1..Len(qd) : qd[i] = c[1]
      BY <1>2, <1>4, <3>3 DEF Shell!Queued
    <3>6. c[1] \in TcAfter[j-1].root
      <4>1. Rooted(c[1], j - 1)
        BY <1>r, <3>4, <3>5
      <4> QED
        BY <1>3, <2>1, <3>3, <4>1
    <3> QED
      BY <3>2, <3>6 DEF TcFails
  <2> QED
    BY <1>4, <2>2, <2>3
<1> QED
  BY <1>1, <1>5 DEF TcOk, TcReaches, N

\* ... and afterwards the root qdiscs are those in the book.
LEMMA BatchRootSet ==
  ASSUME ShapeTypeOK, queue.ordered, RootOK(tc.root, Book)
  PROVE  TcAfter[Len(ToShape)].root = shaped_ifaces
<1> DEFINE N == Len(ToShape)
           qd == tc_cmds.qdisc
           cl == tc_cmds.class
<1>1. qd \in Seq(Nodes) /\ cl \in Seq(Nodes \X Pairs \X Linked) /\ N = Len(qd) + Len(cl)
  BY ToShapeParts DEF ShapeTypeOK, TcCommands
<1>2. /\ \A k \in 0..N : \A n \in Nodes : n \in TcAfter[k].root <=> Rooted(n, k)
      /\ \A k \in 0..N : TcAfter[k].root \subseteq Nodes
  BY BatchRoots, TcAfterSteps DEF Shapes
<1>r. \A n, k : Rooted(n, k) <=> n \in tc.root \/ \E j \in 1..Len(qd) : j <= k /\ qd[j] = n
  BY DEF Rooted
<1>3. tc.root \cup Shell!Queued(qd) = shaped_ifaces /\ shaped_ifaces \subseteq Nodes
  BY DEF RootOK, Book, ShapeTypeOK
<1> HIDE DEF N, qd, cl
<1>4. N \in 0..N /\ \A i \in 1..Len(qd) : i <= N
  <2>1. Len(qd) \in Nat /\ Len(cl) \in Nat
    BY <1>1
  <2> QED
    BY <1>1, <2>1
<1>5. \A n : n \in Shell!Queued(qd) <=> \E j \in 1..Len(qd) : qd[j] = n
  BY <1>1 DEF Shell!Queued
<1>6. \A n \in Nodes : n \in TcAfter[N].root <=> n \in shaped_ifaces
  BY <1>2, <1>3, <1>4, <1>5, <1>r
<1> QED
  BY <1>2, <1>3, <1>4, <1>6 DEF N

LEMMA RootInit == ShapedInit => RootInv
<1> SUFFICES ASSUME ShapedInit PROVE RootInv
  OBVIOUS
<1>1. RootOK({}, [ifaces |-> {}, cmds |-> NoTc])
  BY DEF RootOK, NoTc, Distinct, Shell!Queued
<1>2. queue.ordered /\ tc.root = {} /\ Book = [ifaces |-> {}, cmds |-> NoTc]
  BY DEF ShapedInit, Init, StepInit, Shell!FreshSerializer, NoShape, Book
<1> QED
  BY <1>1, <1>2 DEF RootInv, ShapedInit, Init, StepInit

\* Resets and the group order.
LEMMA OrderedLemma ==
  /\ Shell!FreshSerializer.ordered
  /\ ~ Shell!ResetSerializer.ordered
  BY DEF Shell!FreshSerializer, Shell!ResetSerializer

LEMMA RootStep ==
  ASSUME Typed, StoreInv, RootInv, ShapedNext
  PROVE  RootInv'
<1>0. TypeOK /\ ShapeTypeOK /\ QueueTyped(queue)
  BY TypedQueue DEF Typed
<1>e. RootOK({}, [ifaces |-> {}, cmds |-> NoTc])
  BY DEF RootOK, NoTc, Distinct, Shell!Queued
<1>1. CASE AbortShaped
  <2>1. queue'.ordered /\ pc' = "idle" /\ tc'.root = {} /\ Book' = [ifaces |-> {}, cmds |-> NoTc]
    BY <1>1, OrderedLemma DEF AbortShaped, Abort, AbortStep, NoShape, Book
  <2> QED
    BY <1>e, <2>1 DEF RootInv
<1>2. CASE ShapedStep /\ late' = (late \/ (pc \in {"batch", "ipconfig", "check"} /\ pc' = "idle"))
  <2> SUFFICES ASSUME ~ late'
               PROVE  /\ queue'.ordered \/ pc' \in {"ipconfig", "check"}
                      /\ pc' \in {"ipconfig", "check"} => tc_cmds' = NoTc
                      /\ RootOK(tc.root, Book)'
    BY DEF RootInv
  <2>0. /\ ~ late
        /\ pc' = "idle" => pc \notin {"batch", "ipconfig", "check"}
        /\ queue.ordered \/ pc \in {"ipconfig", "check"}
        /\ pc \in {"ipconfig", "check"} => tc_cmds = NoTc
        /\ RootOK(tc.root, Book)
    BY <1>2 DEF RootInv, Typed, ShapeTypeOK
  <2>s. ASSUME UNCHANGED shapeVars PROVE RootOK(tc.root, Book)'
    BY <2>0, <2>s DEF shapeVars, Book
  <2>1. ASSUME NEW m \in Inputs, BeginShaped(m)
        PROVE  queue'.ordered /\ pc' \notin {"ipconfig", "check"} /\ RootOK(tc.root, Book)'
    BY <2>0, <2>1, <2>s DEF BeginShaped, Begin, BeginStep
  <2>2. ASSUME NEW p \in Pairs, ProcessPairShaped(p)
        PROVE  queue'.ordered /\ pc' \notin {"ipconfig", "check"} /\ RootOK(tc.root, Book)'
    <3>1. pc = "pairs" /\ pc' = "pairs" /\ queue.ordered
      BY <2>0, <2>2 DEF ProcessPairShaped, ProcessPair, TakePair
    <3>2. queue'.ordered
      <4>1. PairUp(p) \/ PairDown(p) \/ PairKept(p)
        BY <1>0, <2>2, PairCases
      <4>2. ASSUME NEW q, QueueTyped(q), NEW op \in {"I", "D"}
            PROVE  QueueRules(q, p, op).ordered = q.ordered
        BY <4>2, QueueRulesLemma
      <4>3. /\ QueueTyped(QueueBridge(queue, p))
            /\ QueueBridge(queue, p).ordered = queue.ordered
        BY <1>0, QueueBridgeLemma
      <4>4. CASE PairUp(p)
        BY <3>1, <4>2, <4>3, <4>4 DEF PairUp
      <4>5. CASE PairDown(p)
        BY <1>0, <3>1, <4>2, <4>5 DEF PairDown
      <4>6. CASE PairKept(p)
        BY <3>1, <4>6 DEF PairKept
      <4> QED
        BY <4>1, <4>4, <4>5, <4>6
    <3>3. RootOK(tc.root, Book)'
      <4>1. CASE Adjusts(p)
        <5> DEFINE d == distance_matrix[p]
                   s1 == ShapeDevice(Book, p[1], p, d)
                   s2 == ShapeDevice(s1, p[2], p, d)
        <5>1. d \in Linked /\ p[1] \in Nodes /\ p[2] \in Nodes /\ Book \in Books
          BY <1>0, <4>1, PairsAreDirections DEF Adjusts, Book, Books, ShapeTypeOK
        <5>2. s1 \in Books /\ RootOK(tc.root, s1)
          BY <2>0, <5>1, ShapeDeviceLemma, RootShape
        <5>3. shaped_ifaces' = s2.ifaces /\ tc_cmds' = s2.cmds /\ tc' = tc
          BY <2>2, <4>1 DEF ProcessPairShaped, Book
        <5> HIDE DEF s1
        <5>4. s2 \in Books /\ RootOK(tc.root, s2)
          BY <5>1, <5>2, ShapeDeviceLemma, RootShape
        <5> HIDE DEF s2
        <5>5. Book' = [ifaces |-> s2.ifaces, cmds |-> s2.cmds]
          BY <5>3 DEF Book
        <5> QED
          BY <5>3, <5>4, <5>5 DEF RootOK
      <4>2. CASE ~ Adjusts(p)
        BY <2>2, <2>s, <4>2 DEF ProcessPairShaped, shapeVars
      <4> QED
        BY <4>1, <4>2
    <3> QED
      BY <3>1, <3>2, <3>3
  <2>3. CASE RunBatchShaped
    <3>1. pc = "batch" /\ pc' = "ipconfig" /\ queue.ordered
      BY <2>0, <2>3 DEF RunBatchShaped, RunBatch, BatchDone
    <3>2. tc'.root = shaped_ifaces
      BY <1>0, <2>0, <2>3, <3>1, BatchRootSet DEF RunBatchShaped
    <3>3. Book' = [ifaces |-> shaped_ifaces, cmds |-> NoTc] /\ tc_cmds' = NoTc
      BY <2>3 DEF RunBatchShaped, Book
    <3>4. RootOK(shaped_ifaces, [ifaces |-> shaped_ifaces, cmds |-> NoTc])
      BY DEF RootOK, NoTc, Distinct, Shell!Queued
    <3> QED
      BY <3>1, <3>2, <3>3, <3>4
  <2>4. CASE CheckPassesShaped
    <3>1. /\ queue'.ordered /\ tc' = tc /\ tc_cmds' = NoTc /\ shaped_ifaces' = shaped_ifaces
          /\ pc = "check"
      BY <2>4, OrderedLemma DEF CheckPassesShaped, CheckPasses, CheckDone
    <3>2. Book' = Book
      BY <2>0, <3>1 DEF Book
    <3> QED
      BY <2>0, <3>1, <3>2
  <2>5. CASE EndOfPairs /\ UNCHANGED shapeVars
    BY <2>0, <2>5, <2>s DEF EndOfPairs, PairsDone
  <2>6. CASE (RunBridge \/ RunEbtables \/ IpConfig) /\ UNCHANGED shapeVars
    BY <2>0, <2>6, <2>s DEF RunBridge, RunEbtables, IpConfig, Advance, shapeVars
  <2>7. CASE End /\ UNCHANGED shapeVars
    BY <2>0, <2>7, <2>s DEF End, EndStep
  <2>8. CASE (BridgeError \/ EbtablesError) /\ UNCHANGED shapeVars
    BY <2>0, <2>8, <2>s DEF BridgeError, EbtablesError, Raise
  <2>9. ASSUME NEW point \in FailPoints, Failure(point), UNCHANGED shapeVars
        PROVE  queue'.ordered /\ pc' \notin {"ipconfig", "check"} /\ RootOK(tc.root, Book)'
    BY <2>0, <2>9, <2>s DEF Failure, EnvFailure, Raise
  <2>10. ~ TcError /\ ~ BatchFails /\ ~ CheckFails
    BY <2>0 DEF TcError, BatchFails, Failure, EnvFailure, CheckFails, Raise
  <2> QED
    BY <1>2, <2>1, <2>2, <2>3, <2>4, <2>5, <2>6, <2>7, <2>8, <2>9, <2>10 DEF ShapedStep
<1> QED
  BY <1>1, <1>2 DEF ShapedNext

LEMMA RootInvariant == ShapedSpec => []RootInv
<1>1. RootInv /\ UNCHANGED shapedVars => RootInv'
  BY DEF RootInv, RootOK, Book, shapedVars, vars, stepVars, shapeVars
<1> QED
  BY <1>1, RootInit, RootStep, TypeCorrect, StoreInvariant, PTL DEF ShapedSpec

(***************************************************************************)
(* As long as no step has failed with its commands under way, the tc batch *)
(* is never refused: shaped_ifaces agrees with the taps that have a root   *)
(* qdisc or are about to get one.                                          *)
(***************************************************************************)
THEOREM BatchesAreAccepted == ShapedSpec => []ShapingFailsForAReason
<1>1. Typed /\ RootInv => ShapingFailsForAReason
  BY BatchSucceeds DEF RootInv, Typed, ShapingFailsForAReason
<1> QED
  BY <1>1, TypeCorrect, RootInvariant, PTL
-----------------------------------------------------------------------------
(***************************************************************************)
(* The kernel after steps of which at most one failed.  A step that fails  *)
(* keeps its commands in the executor, and the next step adds its own: the *)
(* rules of a direction then alternate, and of the classes of a link the   *)
(* last one counts.  A second failed step may add a command that is in the *)
(* queue already, which add_command drops, and the order is lost; so the   *)
(* results here are for one failure.                                       *)
(*                                                                         *)
(* The rules and classes are followed from the queue to the kernel; then   *)
(* come the theorems about the shaped links, about the pairs that can      *)
(* talk, and the refinement of TopologySwitch.                             *)
(***************************************************************************)

(***************************************************************************)
(* Queues that grow: s2 is s with some commands of C at its end, and all   *)
(* commands of C are in it.                                                *)
(***************************************************************************)
Extension(s, s2, C) ==
  /\ Len(s) <= Len(s2)
  /\ \A k \in 1..Len(s) : s2[k] = s[k]
  /\ \A k \in (Len(s)+1)..Len(s2) : s2[k] \in C
  /\ \A c \in C : \E k \in 1..Len(s2) : s2[k] = c

LEMMA AddUniqueExtends ==
  ASSUME NEW T, NEW s \in Seq(T), NEW c \in T, Distinct(s)
  PROVE  LET s2 == Shell!AddUnique(s, c)
         IN  s2 \in Seq(T) /\ Extension(s, s2, {c}) /\ Distinct(s2)
<1>1. Len(s) \in Nat /\ DOMAIN s = 1..Len(s)
  OBVIOUS
<1>2. CASE c \in Shell!Queued(s)
  <2>1. Shell!AddUnique(s, c) = s
    BY <1>2 DEF Shell!AddUnique
  <2>2. \E k \in 1..Len(s) : s[k] = c
    BY <1>1, <1>2 DEF Shell!Queued
  <2>3. Extension(s, s, {c})
    BY <1>1, <2>2 DEF Extension
  <2> QED
    BY <2>1, <2>3
<1>3. CASE c \notin Shell!Queued(s)
  <2> DEFINE s2 == Append(s, c)
  <2>1. Shell!AddUnique(s, c) = s2
    BY <1>3 DEF Shell!AddUnique
  <2>2. /\ s2 \in Seq(T) /\ Len(s2) = Len(s) + 1 /\ DOMAIN s2 = 1..(Len(s) + 1)
        /\ s2[Len(s) + 1] = c /\ \A k \in 1..Len(s) : s2[k] = s[k]
    OBVIOUS
  <2>3. \A k \in 1..Len(s) : s[k] # c
    BY <1>1, <1>3 DEF Shell!Queued
  <2> HIDE DEF s2
  <2>4. \A k \in 1..(Len(s) + 1) : k \in 1..Len(s) \/ k = Len(s) + 1
    BY <1>1
  <2>5. Extension(s, s2, {c})
    <3>1. Len(s) <= Len(s2) /\ Len(s2) \in 1..Len(s2)
      BY <1>1, <2>2
    <3>2. \A k \in (Len(s)+1)..Len(s2) : k = Len(s) + 1
      BY <1>1, <2>2
    <3> QED
      BY <2>2, <3>1, <3>2 DEF Extension
  <2>6. Distinct(s2)
    BY <1>1, <2>2, <2>3, <2>4 DEF Distinct
  <2> QED
    BY <2>1, <2>2, <2>5, <2>6
<1> QED
  BY <1>2, <1>3

LEMMA ExtendTwice ==
  ASSUME NEW T, NEW s \in Seq(T), NEW s1 \in Seq(T), NEW s2 \in Seq(T), NEW a, NEW b,
         Extension(s, s1, {a}), Extension(s1, s2, {b})
  PROVE  Extension(s, s2, {a, b})
<1>1. Len(s) \in Nat /\ Len(s1) \in Nat /\ Len(s2) \in Nat /\ Len(s) <= Len(s1) /\ Len(s1) <= Len(s2)
  BY DEF Extension
<1>2. Len(s) <= Len(s2)
  BY <1>1
<1>3. ASSUME NEW k \in 1..Len(s) PROVE s2[k] = s[k]
  <2>1. k \in 1..Len(s1)
    BY <1>1
  <2> QED
    BY <2>1 DEF Extension
<1>4. ASSUME NEW k \in (Len(s)+1)..Len(s2) PROVE s2[k] \in {a, b}
  <2>1. CASE k <= Len(s1)
    <3>1. k \in 1..Len(s1) /\ k \in (Len(s)+1)..Len(s1)
      BY <1>1, <2>1
    <3> QED
      BY <3>1 DEF Extension
  <2>2. CASE k > Len(s1)
    <3>1. k \in (Len(s1)+1)..Len(s2)
      BY <1>1, <2>2
    <3> QED
      BY <3>1 DEF Extension
  <2> QED
    BY <1>1, <2>1, <2>2
<1>5. \E k \in 1..Len(s2) : s2[k] = a
  <2>1. PICK k \in 1..Len(s1) : s1[k] = a
    BY DEF Extension
  <2>2. k \in 1..Len(s2) /\ s2[k] = a
    BY <1>1, <2>1 DEF Extension
  <2> QED
    BY <2>2
<1>6. \E k \in 1..Len(s2) : s2[k] = b
  BY DEF Extension
<1> QED
  BY <1>2, <1>3, <1>4, <1>5, <1>6 DEF Extension

LEMMA AddTwoExtends ==
  ASSUME NEW T, NEW s \in Seq(T), NEW a \in T, NEW b \in T, Distinct(s),
         NEW s2, s2 = Shell!AddUnique(Shell!AddUnique(s, a), b)
  PROVE  s2 \in Seq(T) /\ Extension(s, s2, {a, b}) /\ Distinct(s2)
<1> DEFINE s1 == Shell!AddUnique(s, a)
<1>1. s1 \in Seq(T) /\ Extension(s, s1, {a}) /\ Distinct(s1)
  BY AddUniqueExtends
<1>2. s2 = Shell!AddUnique(s1, b)
  OBVIOUS
<1> HIDE DEF s1
<1>3. s2 \in Seq(T) /\ Extension(s1, s2, {b}) /\ Distinct(s2)
  BY <1>1, <1>2, AddUniqueExtends
<1> QED
  BY <1>1, <1>3, ExtendTwice

\* The commands of an extension.
LEMMA ExtensionQueued ==
  ASSUME NEW T, NEW s \in Seq(T), NEW s2 \in Seq(T), NEW C, Extension(s, s2, C)
  PROVE  Shell!Queued(s2) = Shell!Queued(s) \cup C
<1>1. Len(s) \in Nat /\ Len(s2) \in Nat /\ DOMAIN s = 1..Len(s) /\ DOMAIN s2 = 1..Len(s2)
  OBVIOUS
<1>2. \A x : x \in Shell!Queued(s) <=> \E k \in 1..Len(s) : s[k] = x
  BY <1>1 DEF Shell!Queued
<1>3. \A x : x \in Shell!Queued(s2) <=> \E k \in 1..Len(s2) : s2[k] = x
  BY <1>1 DEF Shell!Queued
<1>4. \A k \in 1..Len(s2) : k \in 1..Len(s) \/ k \in (Len(s)+1)..Len(s2)
  BY <1>1
<1>5. \A k \in 1..Len(s) : k \in 1..Len(s2)
  BY <1>1 DEF Extension
<1>6. ASSUME NEW x \in Shell!Queued(s2) PROVE x \in Shell!Queued(s) \cup C
  BY <1>2, <1>3, <1>4, <1>6 DEF Extension
<1>7. ASSUME NEW x \in Shell!Queued(s) \cup C PROVE x \in Shell!Queued(s2)
  BY <1>2, <1>3, <1>5, <1>7 DEF Extension
<1> QED
  BY <1>6, <1>7

(***************************************************************************)
(* The number of rules of one direction d.  The commands for d alternate,  *)
(* beginning with the one that changes the number c in the kernel.         *)
(***************************************************************************)
Out(c)  == IF c = 0 THEN "I" ELSE "D"
Back(c) == IF c = 0 THEN "D" ELSE "I"

\* Is a command among the first k?
Among(s, k, x) == \E j \in 1..k : s[j] = x

Count(s, k, d, c) ==
  IF Among(s, k, <<Out(c), d>>) /\ ~ Among(s, k, <<Back(c), d>>) THEN 1 - c ELSE c

Sequenced(s, d, c) ==
  \A k \in 1..Len(s) : s[k] = <<Back(c), d>> => Among(s, k - 1, <<Out(c), d>>)

\* The first n commands are the first n - 1 and the n-th.
LEMMA AmongNext ==
  ASSUME NEW s, NEW n \in Nat, n > 0, NEW x
  PROVE  Among(s, n, x) <=> Among(s, n - 1, x) \/ s[n] = x
<1>1. \A j \in 1..n : j \in 1..(n-1) \/ j = n
  OBVIOUS
<1>2. n \in 1..n /\ \A j \in 1..(n-1) : j \in 1..n
  OBVIOUS
<1> QED
  BY <1>1, <1>2 DEF Among

\* No command for d fails, and the number of rules is as counted.
LEMMA RulesCounted ==
  ASSUME NEW t \in Tables, t.chain, NEW s \in Seq(RuleCommands), Distinct(s),
         NEW d \in Directions, NEW c \in {0, 1}, t.rules[d] = c, Sequenced(s, d, c)
  PROVE  /\ \A k \in 0..Len(s) : /\ EditAll(t, s)[k].chain
                                 /\ EditAll(t, s)[k].rules[d] = Count(s, k, d, c)
         /\ \A k \in 1..Len(s) : s[k] = <<"D", d>> => EditAll(t, s)[k-1].rules[d] = 1
<1> DEFINE a == EditAll(t, s)
           N == Len(s)
           S == {k \in 0..N : a[k].chain /\ a[k].rules[d] = Count(s, k, d, c)}
<1>1. /\ N \in Nat /\ DOMAIN s = 1..N /\ \A k \in 1..N : s[k] \in RuleCommands
      /\ a \in [0..N -> Tables] /\ a[0] = t
      /\ \A n \in 1..N : a[n] = Edit(a[n-1], s[n])
  BY EditAllSteps
<1> HIDE DEF a, N
<1>n. N = Len(s)
  BY DEF N
<1>2. 0 \in S
  <2>1. \A x : ~ Among(s, 0, x)
    BY DEF Among
  <2> QED
    BY <1>1, <2>1 DEF Count
\* What precedes the commands for d.
<1>3. ASSUME NEW n \in 1..N, s[n] = <<Out(c), d>>
      PROVE  ~ Among(s, n - 1, <<Out(c), d>>) /\ ~ Among(s, n - 1, <<Back(c), d>>)
  <2>0. \A j \in 1..(n-1) : j \in 1..N /\ j # n
    BY <1>1
  <2>1. ~ Among(s, n - 1, <<Out(c), d>>)
    BY <1>1, <1>3, <2>0 DEF Among, Distinct
  <2>2. ASSUME NEW j \in 1..(n-1), s[j] = <<Back(c), d>> PROVE FALSE
    <3>1. j \in 1..N /\ Among(s, j - 1, <<Out(c), d>>)
      BY <1>n, <2>0, <2>2 DEF Sequenced
    <3>2. PICK i \in 1..(j-1) : s[i] = <<Out(c), d>>
      BY <3>1 DEF Among
    <3>3. i \in 1..(n-1)
      BY <1>1
    <3> QED
      BY <2>1, <3>2, <3>3 DEF Among
  <2> QED
    BY <2>1, <2>2 DEF Among
<1>4. ASSUME NEW n \in 1..N, s[n] = <<Back(c), d>>
      PROVE  Among(s, n - 1, <<Out(c), d>>) /\ ~ Among(s, n - 1, <<Back(c), d>>)
  <2>0. \A j \in 1..(n-1) : j \in 1..N /\ j # n
    BY <1>1
  <2>1. ~ Among(s, n - 1, <<Back(c), d>>)
    BY <1>1, <1>4, <2>0 DEF Among, Distinct
  <2> QED
    BY <1>4, <1>n, <2>1 DEF Sequenced
<1>b. Out(c) # Back(c)
  BY DEF Out, Back
<1>5. ASSUME NEW n \in 1..N, n - 1 \in S PROVE n \in S
  <2>1. /\ a[n-1] \in Tables /\ a[n] = Edit(a[n-1], s[n]) /\ s[n] \in RuleCommands
        /\ a[n-1].chain /\ a[n-1].rules[d] = Count(s, n - 1, d, c)
    BY <1>1, <1>5
  <2>2. /\ a[n].chain
        /\ a[n].rules[s[n][2]] = IF s[n][1] = "I" THEN a[n-1].rules[s[n][2]] + 1
                                 ELSE IF a[n-1].rules[s[n][2]] > 0
                                 THEN a[n-1].rules[s[n][2]] - 1 ELSE a[n-1].rules[s[n][2]]
        /\ s[n][2] # d => a[n].rules[d] = a[n-1].rules[d]
    <3> DEFINE u == a[n-1]
               x == s[n]
    <3>1. u \in Tables /\ x \in RuleCommands /\ a[n] = Edit(u, x) /\ u.chain
      BY <2>1
    <3> HIDE DEF u, x
    <3>2. /\ a[n].chain
          /\ a[n].rules[x[2]] = IF x[1] = "I" THEN u.rules[x[2]] + 1
                                ELSE IF u.rules[x[2]] > 0 THEN u.rules[x[2]] - 1
                                ELSE u.rules[x[2]]
          /\ x[2] # d => a[n].rules[d] = u.rules[d]
      BY <3>1, EditTyped
    <3> QED
      BY <3>2 DEF u, x
  <2>3. \A x : Among(s, n, x) <=> Among(s, n - 1, x) \/ s[n] = x
    <3>1. n \in Nat /\ n > 0
      BY <1>1
    <3> QED
      BY <3>1, AmongNext
  <2>4. CASE s[n] = <<Out(c), d>>
    <3>0. /\ ~ Among(s, n - 1, <<Out(c), d>>) /\ ~ Among(s, n - 1, <<Back(c), d>>)
          /\ <<Out(c), d>> # <<Back(c), d>>
      BY <1>3, <1>b, <2>4
    <3>1. Count(s, n - 1, d, c) = c /\ Count(s, n, d, c) = 1 - c
      BY <2>3, <2>4, <3>0 DEF Count
    <3>2. a[n].rules[d] = 1 - c
      BY <2>1, <2>2, <2>4, <3>1 DEF Out
    <3> QED
      BY <1>1, <2>2, <3>1, <3>2
  <2>5. CASE s[n] = <<Back(c), d>>
    <3>1. Count(s, n - 1, d, c) = 1 - c /\ Count(s, n, d, c) = c
      BY <1>4, <1>b, <2>3, <2>5 DEF Count
    <3>2. a[n].rules[d] = c
      BY <2>1, <2>2, <2>5, <3>1 DEF Back
    <3> QED
      BY <1>1, <2>2, <3>1, <3>2
  <2>6. CASE s[n] # <<Out(c), d>> /\ s[n] # <<Back(c), d>>
    <3>1. s[n][2] # d
      BY <2>1, <2>6 DEF RuleCommands, Out, Back
    <3>2. Count(s, n, d, c) = Count(s, n - 1, d, c)
      BY <2>3, <2>6 DEF Count
    <3> QED
      BY <1>1, <2>1, <2>2, <3>1, <3>2
  <2> QED
    BY <2>4, <2>5, <2>6
<1>6. S = 0..N
  <2>1. S \in SUBSET (0..N)
    OBVIOUS
  <2> HIDE DEF S
  <2> QED
    BY <1>1, <1>2, <1>5, <2>1, UpTo
<1>7. \A k \in 0..N : a[k].chain /\ a[k].rules[d] = Count(s, k, d, c)
  BY <1>6
<1>8. ASSUME NEW k \in 1..N, s[k] = <<"D", d>> PROVE a[k-1].rules[d] = 1
  <2>1. a[k-1].rules[d] = Count(s, k - 1, d, c)
    BY <1>1, <1>7
  <2>2. CASE c = 0
    <3>1. s[k] = <<Back(c), d>>
      BY <1>8, <2>2 DEF Back
    <3>2. Among(s, k - 1, <<Out(c), d>>) /\ ~ Among(s, k - 1, <<Back(c), d>>)
      BY <1>4, <3>1
    <3> QED
      BY <2>1, <2>2, <3>2 DEF Count
  <2>3. CASE c = 1
    <3>1. s[k] = <<Out(c), d>>
      BY <1>8, <2>3 DEF Out
    <3>2. ~ Among(s, k - 1, <<Out(c), d>>)
      BY <1>3, <3>1
    <3> QED
      BY <2>1, <2>3, <3>2 DEF Count
  <2> QED
    BY <2>2, <2>3
<1> QED
  BY <1>7, <1>8 DEF a, N

\* What the commands s make of the c rules for d.
Target(s, d, c, v) == c \in {0, 1} /\ Sequenced(s, d, c) /\ Count(s, Len(s), d, c) = v

\* The commands of the queue are those among all of them.
LEMMA AmongQueued ==
  ASSUME NEW T, NEW s \in Seq(T), NEW x
  PROVE  Among(s, Len(s), x) <=> x \in Shell!Queued(s)
  BY DEF Among, Shell!Queued

\* Commands for other directions change nothing.
LEMMA TargetKept ==
  ASSUME NEW s \in Seq(RuleCommands), NEW s2 \in Seq(RuleCommands), NEW C,
         Extension(s, s2, C), NEW d, \A x \in C : x[2] # d,
         NEW c, NEW v, Target(s, d, c, v)
  PROVE  Target(s2, d, c, v)
<1>1. /\ Len(s) \in Nat /\ Len(s2) \in Nat /\ Len(s) <= Len(s2)
      /\ \A k \in 1..Len(s) : s2[k] = s[k]
      /\ \A k \in (Len(s)+1)..Len(s2) : s2[k] \in C
  BY DEF Extension
<1>2. \A o : <<o, d>> \notin C
  OBVIOUS
<1>3. \A o : \A k \in 1..Len(s2) : s2[k] = <<o, d>> => k \in 1..Len(s)
  <2>1. \A k \in 1..Len(s2) : k \in 1..Len(s) \/ k \in (Len(s)+1)..Len(s2)
    BY <1>1
  <2> QED
    BY <1>1, <1>2, <2>1
<1>4. \A o : Among(s2, Len(s2), <<o, d>>) <=> Among(s, Len(s), <<o, d>>)
  <2>1. \A k \in 1..Len(s) : k \in 1..Len(s2)
    BY <1>1
  <2> QED
    BY <1>1, <1>3, <2>1 DEF Among
<1>5. Count(s2, Len(s2), d, c) = Count(s, Len(s), d, c)
  BY <1>4 DEF Count
<1>6. Sequenced(s2, d, c)
  <2> SUFFICES ASSUME NEW k \in 1..Len(s2), s2[k] = <<Back(c), d>>
               PROVE  Among(s2, k - 1, <<Out(c), d>>)
    BY DEF Sequenced
  <2>1. k \in 1..Len(s) /\ s[k] = <<Back(c), d>>
    BY <1>1, <1>3
  <2>2. PICK j \in 1..(k-1) : s[j] = <<Out(c), d>>
    BY <2>1 DEF Target, Sequenced, Among
  <2>3. j \in 1..Len(s)
    BY <1>1, <2>1
  <2> QED
    BY <1>1, <2>2, <2>3 DEF Among
<1> QED
  BY <1>5, <1>6 DEF Target

\* A command for d, if there were not two before, makes v rules 1 - v.
LEMMA TargetFlipped ==
  ASSUME NEW s \in Seq(RuleCommands), NEW s2 \in Seq(RuleCommands), NEW C,
         Extension(s, s2, C), NEW d, NEW v \in {0, 1},
         <<Out(v), d>> \in C, \A x \in C : x[1] = Out(v),
         NEW c, Target(s, d, c, v),
         ~ (<<"I", d>> \in Shell!Queued(s) /\ <<"D", d>> \in Shell!Queued(s))
  PROVE  Target(s2, d, c, 1 - v)
<1>1. /\ Len(s) \in Nat /\ Len(s2) \in Nat /\ Len(s) <= Len(s2)
      /\ \A k \in 1..Len(s) : s2[k] = s[k]
      /\ \A k \in (Len(s)+1)..Len(s2) : s2[k] \in C
      /\ c \in {0, 1} /\ Sequenced(s, d, c) /\ Count(s, Len(s), d, c) = v
  BY DEF Extension, Target
<1>2. /\ \A x : Among(s, Len(s), x) <=> x \in Shell!Queued(s)
      /\ \A x : Among(s2, Len(s2), x) <=> x \in Shell!Queued(s) \cup C
  BY AmongQueued, ExtensionQueued
<1>3. ~ (Among(s, Len(s), <<Out(c), d>>) /\ Among(s, Len(s), <<Back(c), d>>))
  BY <1>1, <1>2 DEF Out, Back
<1>4. CASE v = c
  <2>1. ~ Among(s, Len(s), <<Out(c), d>>)
    BY <1>1, <1>3, <1>4 DEF Count
  <2>2. ~ Among(s, Len(s), <<Back(c), d>>)
    <3> SUFFICES ASSUME NEW k \in 1..Len(s), s[k] = <<Back(c), d>> PROVE FALSE
      BY DEF Among
    <3>1. PICK j \in 1..(k-1) : s[j] = <<Out(c), d>>
      BY <1>1 DEF Sequenced, Among
    <3>2. j \in 1..Len(s)
      BY <1>1
    <3> QED
      BY <2>1, <3>1, <3>2 DEF Among
  <2>3. <<Back(c), d>> \notin C
    BY <1>1, <1>4 DEF Out, Back
  <2>4. Among(s2, Len(s2), <<Out(c), d>>) /\ ~ Among(s2, Len(s2), <<Back(c), d>>)
    BY <1>2, <1>4, <2>2, <2>3
  <2>5. Sequenced(s2, d, c)
    BY <2>4 DEF Sequenced, Among
  <2> QED
    BY <1>1, <1>4, <2>4, <2>5 DEF Target, Count
<1>5. CASE v # c
  <2>1. v = 1 - c /\ c = 1 - v /\ Out(v) = Back(c)
    BY <1>1, <1>5 DEF Out, Back
  <2>2. Among(s, Len(s), <<Out(c), d>>) /\ ~ Among(s, Len(s), <<Back(c), d>>)
    BY <1>1, <1>5 DEF Count
  <2>3. Among(s2, Len(s2), <<Back(c), d>>)
    BY <1>2, <2>1
  <2>4. PICK j \in 1..Len(s) : s[j] = <<Out(c), d>>
    BY <2>2 DEF Among
  <2>5. Sequenced(s2, d, c)
    <3> SUFFICES ASSUME NEW k \in 1..Len(s2), s2[k] = <<Back(c), d>>
                 PROVE  Among(s2, k - 1, <<Out(c), d>>)
      BY DEF Sequenced
    <3>1. k \notin 1..Len(s)
      BY <1>1, <2>2 DEF Among
    <3>2. j \in 1..(k-1)
      BY <1>1, <3>1
    <3> QED
      BY <1>1, <2>4, <3>2 DEF Among
  <2> QED
    BY <1>1, <2>1, <2>3, <2>5 DEF Target, Count
<1> QED
  BY <1>4, <1>5

(***************************************************************************)
(* The steps of a scenario in which no step fails late, by what they do to *)
(* the queue and the kernel.                                               *)
(***************************************************************************)
Same == UNCHANGED <<queue, tc_cmds, tc, store, distance_matrix, diff, bridge, table>>

Quiet ==
  /\ Same /\ UNCHANGED <<failures, devices, slaves>>
  /\ \/ pc = "pairs" /\ pc' = "bridge"
     \/ pc = "ipconfig" /\ pc' = "check"
     \/ pc = "post" /\ pc' = "idle"

BridgeRuns == RunBridge /\ Same /\ failures' = failures /\ pc = "bridge" /\ pc' = "ebtables"

EbtablesRuns ==
  /\ EbtablesRun.ok /\ table' = EbtablesRun.table /\ pc = "ebtables" /\ pc' = "batch"
  /\ UNCHANGED <<queue, tc_cmds, tc, store, distance_matrix, diff, bridge, failures, devices, slaves>>

BatchRuns ==
  /\ RunBatchShaped /\ pc = "batch" /\ pc' = "ipconfig"
  /\ queue' = Shell!ResetSerializer /\ tc_cmds' = NoTc /\ tc' = TcAfter[Len(ToShape)]
  /\ UNCHANGED <<store, distance_matrix, diff, bridge, table, failures, devices, slaves>>

ChecksPass ==
  /\ pc = "check" /\ pc' = "post" /\ queue' = Shell!FreshSerializer /\ tc_cmds' = NoTc
  /\ UNCHANGED <<tc, store, distance_matrix, diff, bridge, table, failures, devices, slaves>>

Errors ==
  /\ Same /\ UNCHANGED <<failures, devices, slaves>> /\ pc' = "idle"
  /\ \/ pc = "bridge" /\ ~ AddBrOk(devices, ToAddBr)
     \/ pc = "ebtables" /\ ~ EbtablesRun.ok

Fails1 ==
  /\ Same /\ pc' = "idle" /\ failures' = failures + 1
  /\ pc \in FailPoints \cap {"bridge", "ebtables", "post"}
  /\ UNCHANGED <<devices, slaves>> \/ (pc = "bridge" /\ BridgeCommandsRun)

\* Every step that does not fail late is of one of these kinds.
LEMMA StepKinds ==
  ASSUME Typed, ShapedStep, ~ late',
         late' = (late \/ (pc \in {"batch", "ipconfig", "check"} /\ pc' = "idle"))
  PROVE  /\ ~ late
         /\ \/ \E m \in Inputs : BeginShaped(m)
            \/ \E p \in Pairs : ProcessPairShaped(p)
            \/ Quiet \/ BridgeRuns \/ EbtablesRuns \/ BatchRuns \/ ChecksPass \/ Errors \/ Fails1
<1>0. /\ pc # "pairs" => diff = {}
      /\ pc \in Phases /\ FailPoints \subseteq Phases \ {"idle", "pairs"} /\ late \in BOOLEAN
  BY SingleAssumption DEF Typed, InStep, TypeOK, StepTypeOK, ShapeTypeOK
<1>1. ~ late /\ (pc' = "idle" => pc \notin {"batch", "ipconfig", "check"})
  BY <1>0
<1>2. EndOfPairs /\ UNCHANGED shapeVars => Quiet
  BY DEF EndOfPairs, PairsDone, shapeVars, kernelVars, Quiet, Same
<1>3. IpConfig /\ UNCHANGED shapeVars => Quiet
  BY DEF IpConfig, Advance, shapeVars, kernelVars, Quiet, Same
<1>4. End /\ UNCHANGED shapeVars => Quiet
  BY DEF End, EndStep, shapeVars, kernelVars, Quiet, Same
<1>5. RunBridge /\ UNCHANGED shapeVars => BridgeRuns
  BY DEF RunBridge, Advance, BridgeCommandsRun, shapeVars, BridgeRuns, Same
<1>6. RunEbtables /\ UNCHANGED shapeVars => EbtablesRuns
  BY DEF RunEbtables, Advance, shapeVars, EbtablesRuns
<1>7. RunBatchShaped => BatchRuns
  BY DEF RunBatchShaped, RunBatch, BatchDone, kernelVars, BatchRuns
<1>8. CheckPassesShaped => ChecksPass
  BY DEF CheckPassesShaped, CheckPasses, CheckDone, kernelVars, ChecksPass
<1>9. BridgeError /\ UNCHANGED shapeVars => Errors
  BY <1>0 DEF BridgeError, Raise, kernelVars, shapeVars, Errors, Same
<1>10. EbtablesError /\ UNCHANGED shapeVars => Errors
  BY <1>0 DEF EbtablesError, Raise, kernelVars, shapeVars, Errors, Same
<1>11. ~ TcError /\ ~ BatchFails /\ ~ CheckFails
  BY <1>1 DEF TcError, BatchFails, Failure, EnvFailure, CheckFails, Raise
<1>12. ASSUME NEW point \in FailPoints, Failure(point), UNCHANGED shapeVars PROVE Fails1
  <2>1. pc = point /\ pc' = "idle" /\ failures' = failures + 1 /\ Raise
    BY <1>12 DEF Failure, EnvFailure, Raise
  <2>2. point \in {"bridge", "ebtables", "post"}
    BY <1>0, <1>1, <2>1 DEF Phases
  <2>3. diff' = diff
    BY <1>0, <2>1, <2>2 DEF Raise
  <2>4. UNCHANGED <<bridge, table>> /\ (UNCHANGED <<devices, slaves>> \/ (pc = "bridge" /\ BridgeCommandsRun))
    BY <1>12, <2>1 DEF Failure, BridgeCommandsRun, kernelVars
  <2> QED
    BY <1>12, <2>1, <2>2, <2>3, <2>4 DEF Raise, shapeVars, Fails1, Same
<1> QED
  BY <1>1, <1>2, <1>3, <1>4, <1>5, <1>6, <1>7, <1>8, <1>9, <1>10, <1>11, <1>12 DEF ShapedStep

(***************************************************************************)
(* What a pair adds to the queues.                                         *)
(***************************************************************************)
Both(op, p) == {<<op, p>>, <<op, Reverse(p)>>}

\* tap_link_up for both directions.
LEMMA RulesOfPair ==
  ASSUME NEW q, QueueTyped(q), Distinct(q.cmds["rules"]), NEW p \in Pairs, NEW op \in {"I", "D"}
  PROVE  LET r == QueueRules(q, p, op)
         IN  /\ Extension(q.cmds["rules"], r.cmds["rules"], Both(op, p))
             /\ Distinct(r.cmds["rules"])
             /\ r.cmds["rules"] \in Seq(RuleCommands)
             /\ r.cmds["rules"] # <<>>
<1> DEFINE r == QueueRules(q, p, op)
           s == q.cmds["rules"]
           s2 == r.cmds["rules"]
           x == <<op, p>>
           y == <<op, Reverse(p)>>
<1>1. s2 = Shell!AddUnique(Shell!AddUnique(s, x), y)
  BY QueueRulesLemma
<1>2. s \in Seq(RuleCommands) /\ Distinct(s)
  BY FourQueues
<1>3. x \in RuleCommands /\ y \in RuleCommands
  BY PairsAreDirections DEF RuleCommands
<1>4. Both(op, p) = {x, y}
  BY DEF Both
<1> HIDE DEF s, s2, x, y
<1>5. s2 \in Seq(RuleCommands) /\ Extension(s, s2, {x, y}) /\ Distinct(s2)
  BY <1>1, <1>2, <1>3, AddTwoExtends
<1>6. s2 # <<>>
  BY <1>5 DEF Extension
<1> QED
  BY <1>4, <1>5, <1>6 DEF s, s2

Chain == queue.cmds["chain"]

\* The commands of a link that comes up.
LEMMA UpCommands ==
  ASSUME TypeOK, Distinct(Rules), NEW p \in Pairs, PairUp(p)
  PROVE  /\ Extension(Rules, Rules', Both("I", p)) /\ Distinct(Rules') /\ Rules' # <<>>
         /\ Chain' = IF bridge THEN Chain ELSE Shell!AddUnique(Chain, "new")
         /\ queue.cmds["addbr"]' = IF bridge THEN queue.cmds["addbr"]
                                   ELSE Shell!AddUnique(queue.cmds["addbr"], Wifi)
         /\ Shell!Queued(queue.cmds["addif"])'
              = Shell!Queued(queue.cmds["addif"]) \cup {<<p[1], Wifi>>, <<p[2], Wifi>>}
<1> DEFINE q == QueueBridge(queue, p)
           r == QueueRules(q, p, "I")
<1>1. QueueTyped(queue)
  BY TypedQueue
<1>2. /\ QueueTyped(q)
      /\ q.cmds["rules"] = queue.cmds["rules"]
      /\ q.cmds["addbr"] = IF bridge THEN queue.cmds["addbr"]
                           ELSE Shell!AddUnique(queue.cmds["addbr"], Wifi)
      /\ q.cmds["chain"] = IF bridge THEN queue.cmds["chain"]
                           ELSE Shell!AddUnique(queue.cmds["chain"], "new")
      /\ Shell!Queued(q.cmds["addif"])
           = Shell!Queued(queue.cmds["addif"]) \cup {<<p[1], Wifi>>, <<p[2], Wifi>>}
  BY <1>1, QueueBridgeLemma
<1> HIDE DEF q
<1>3. /\ \A e \in Events \ {"rules"} : r.cmds[e] = q.cmds[e]
      /\ Extension(q.cmds["rules"], r.cmds["rules"], Both("I", p))
      /\ Distinct(r.cmds["rules"]) /\ r.cmds["rules"] # <<>>
  BY <1>2, QueueRulesLemma, RulesOfPair DEF Rules
<1>4. queue' = r
  BY DEF PairUp, q
<1> HIDE DEF r
<1>5. {"addbr", "addif", "chain"} \subseteq Events \ {"rules"}
  BY SingleAssumption
<1> QED
  BY <1>2, <1>3, <1>4, <1>5 DEF Rules, Chain

\* The commands of a link that goes down.
LEMMA DownCommands ==
  ASSUME TypeOK, Distinct(Rules), NEW p \in Pairs, PairDown(p)
  PROVE  /\ Extension(Rules, Rules', Both("D", p)) /\ Distinct(Rules') /\ Rules' # <<>>
         /\ Chain' = Chain
         /\ UNCHANGED <<queue.cmds["addbr"], queue.cmds["addif"]>>
<1> DEFINE r == QueueRules(queue, p, "D")
<1>1. QueueTyped(queue)
  BY TypedQueue
<1>3. /\ \A e \in Events \ {"rules"} : r.cmds[e] = queue.cmds[e]
      /\ Extension(queue.cmds["rules"], r.cmds["rules"], Both("D", p))
      /\ Distinct(r.cmds["rules"]) /\ r.cmds["rules"] # <<>>
  BY <1>1, QueueRulesLemma, RulesOfPair DEF Rules
<1>4. queue' = r
  BY DEF PairDown
<1> HIDE DEF r
<1>5. {"addbr", "addif", "chain"} \subseteq Events \ {"rules"}
  BY SingleAssumption
<1> QED
  BY <1>3, <1>4, <1>5 DEF Rules, Chain

\* The class commands of both taps of a link.
LEMMA ClassesOfPair ==
  ASSUME ShapeTypeOK, Distinct(tc_cmds.class), NEW p \in Pairs, ProcessPairShaped(p)
  PROVE  LET d == distance_matrix[p]
         IN  /\ tc' = tc
             /\ ~ Adjusts(p) => tc_cmds' = tc_cmds
             /\ Adjusts(p) => /\ Extension(tc_cmds.class, tc_cmds'.class, {<<p[1], p, d>>, <<p[2], p, d>>})
                              /\ Distinct(tc_cmds'.class)
                              /\ tc_cmds'.class \in Seq(Nodes \X Pairs \X Linked)
<1> DEFINE d == distance_matrix[p]
           s1 == ShapeDevice(Book, p[1], p, d)
           s2 == ShapeDevice(s1, p[2], p, d)
           C == Nodes \X Pairs \X Linked
           x == <<p[1], p, d>>
           y == <<p[2], p, d>>
           cl == tc_cmds.class
           cl2 == tc_cmds'.class
<1>1. tc' = tc /\ (~ Adjusts(p) => tc_cmds' = tc_cmds) /\ (Adjusts(p) => tc_cmds' = s2.cmds)
  BY DEF ProcessPairShaped, Book
<1> SUFFICES ASSUME Adjusts(p)
             PROVE  Extension(cl, cl2, {x, y}) /\ Distinct(cl2) /\ cl2 \in Seq(C)
  BY <1>1
<1>2. d \in Linked /\ p[1] \in Nodes /\ p[2] \in Nodes /\ Book \in Books /\ Book.cmds.class = cl
  BY PairsAreDirections DEF Adjusts, Book, Books, ShapeTypeOK
<1>3. x \in C /\ y \in C /\ cl \in Seq(C)
  BY <1>2 DEF ShapeTypeOK, TcCommands
<1>4. s1 \in Books /\ s1.cmds.class = Shell!AddUnique(cl, x)
  BY <1>2, ShapeDeviceLemma
<1>5. tc_cmds' = s2.cmds
  BY <1>1
<1> HIDE DEF s1
<1>6. s2.cmds.class = Shell!AddUnique(s1.cmds.class, y)
  BY <1>2, <1>4, ShapeDeviceLemma
<1>7. cl2 = Shell!AddUnique(Shell!AddUnique(cl, x), y)
  BY <1>4, <1>5, <1>6
<1>8. Distinct(cl)
  OBVIOUS
<1> HIDE DEF s2, C, x, y, cl, cl2
<1> QED
  BY <1>3, <1>7, <1>8, AddTwoExtends

(***************************************************************************)
(* The ebtables run.                                                       *)
(***************************************************************************)

\* The copy of the table, once the chain was created in it.
Started == [table EXCEPT !.chain = @ \/ Chain # <<>>]

\* An ebtables run, in terms of the rules alone.
LEMMA EbtablesParts ==
  ASSUME TypeOK, queue.ordered
  PROVE  /\ Started \in Tables /\ Rules \in Seq(RuleCommands)
         /\ Started.chain = (table.chain \/ Chain # <<>>) /\ Started.rules = table.rules
         /\ EbtablesRun.table = EditAll(Started, Rules)[Len(Rules)]
         /\ EbtablesRun.ok <=>
              /\ Chain # <<>> => ~ table.chain
              /\ Rules # <<>> => ~ Fails(EditAll(Started, Rules)[Len(Rules) - 1], Rules[Len(Rules)])
<1>1. table \in Tables /\ Rules \in Seq(RuleCommands)
  BY DEF TypeOK, Rules
<1>2. /\ Started \in Tables
      /\ Started.chain = (table.chain \/ Chain # <<>>) /\ Started.rules = table.rules
  BY <1>1 DEF Started, Tables
<1>3. Shell!Runnable(queue, "chain") = Chain /\ Shell!Runnable(queue, "rules") = Rules
  BY DEF Shell!Runnable, Chain, Rules
<1>4. EbtablesRun.table = EditAll(Started, Rules)[Len(Rules)]
  BY <1>3 DEF EbtablesRun, Started
<1>5. EbtablesRun.ok <=>
        /\ Chain # <<>> => ~ table.chain
        /\ Rules # <<>> => ~ Fails(EditAll(Started, Rules)[Len(Rules) - 1], Rules[Len(Rules)])
  BY <1>3 DEF EbtablesRun, Started
<1> QED
  BY <1>1, <1>2, <1>4, <1>5

\* Rules are edited in a chain that stays.
LEMMA ChainKept ==
  ASSUME NEW t \in Tables, NEW s \in Seq(RuleCommands)
  PROVE  \A k \in 0..Len(s) : EditAll(t, s)[k].chain = t.chain
<1> DEFINE a == EditAll(t, s)
           N == Len(s)
           S == {k \in 0..N : a[k].chain = t.chain}
<1>1. /\ N \in Nat /\ \A k \in 1..N : s[k] \in RuleCommands
      /\ a \in [0..N -> Tables] /\ a[0] = t
      /\ \A n \in 1..N : a[n] = IF t.chain THEN Edit(a[n-1], s[n]) ELSE t
  BY EditAllSteps
<1> HIDE DEF a, N
<1>2. 0 \in S
  BY <1>1
<1>3. ASSUME NEW n \in 1..N, n - 1 \in S PROVE n \in S
  <2> DEFINE u == a[n-1]
             x == s[n]
  <2>1. u \in Tables /\ x \in RuleCommands /\ u.chain = t.chain
        /\ a[n] = IF t.chain THEN Edit(u, x) ELSE t
    BY <1>1, <1>3
  <2> HIDE DEF u, x
  <2>2. a[n].chain = t.chain
    BY <2>1, EditTyped
  <2> QED
    BY <2>2
<1>4. S = 0..N
  <2>1. S \in SUBSET (0..N)
    OBVIOUS
  <2> HIDE DEF S
  <2> QED
    BY <1>1, <1>2, <1>3, <2>1, UpTo
<1> QED
  BY <1>4 DEF a, N

\* Without the chain a rule fails.
LEMMA EbtablesChain ==
  ASSUME TypeOK, queue.ordered
  PROVE  /\ EbtablesRun.table.chain = (table.chain \/ Chain # <<>>)
         /\ EbtablesRun.ok /\ Rules # <<>> => table.chain \/ Chain # <<>>
         /\ Rules = <<>> => EbtablesRun.table = Started
<1>1. /\ Started \in Tables /\ Rules \in Seq(RuleCommands)
      /\ Started.chain = (table.chain \/ Chain # <<>>)
      /\ EbtablesRun.table = EditAll(Started, Rules)[Len(Rules)]
      /\ EbtablesRun.ok /\ Rules # <<>>
           => ~ Fails(EditAll(Started, Rules)[Len(Rules) - 1], Rules[Len(Rules)])
  BY EbtablesParts
<1>2. /\ \A k \in 0..Len(Rules) : EditAll(Started, Rules)[k].chain = Started.chain
      /\ EditAll(Started, Rules)[0] = Started
  BY <1>1, ChainKept, EditAllSteps
<1>3. Len(Rules) \in Nat /\ (Rules # <<>> => Len(Rules) > 0) /\ (Rules = <<>> => Len(Rules) = 0)
  BY <1>1
<1>4. Len(Rules) \in 0..Len(Rules) /\ (Rules # <<>> => Len(Rules) - 1 \in 0..Len(Rules))
  BY <1>3
<1> QED
  BY <1>1, <1>2, <1>3, <1>4 DEF Fails

(***************************************************************************)
(* The bridge and its chain.                                               *)
(***************************************************************************)

\* The commands of the current step, and of steps that failed before it, are not run yet.
Waiting == pc \in {"idle", "pairs", "bridge", "ebtables", "post"}

\* The chain is gone and no command will create it: init_ebtables has thrown it away in a
\* step 0 that is repeated after its commands were run.
Chainless == bridge /\ ~ table.chain /\ Chain = <<>>

\* Nothing was ever done.
Bare ==
  /\ devices = {} /\ slaves = {} /\ table = EmptyTable
  /\ queue.cmds = Shell!NoCommands
  /\ \A p \in Pairs : ~ Active(p)

BridgeInv ==
  ~ late => /\ ~ bridge => Bare
            /\ Waiting /\ Chain # <<>> => table = EmptyTable
            /\ ~ Waiting => ~ (Chainless /\ Rules # <<>>)
            /\ Distinct(Rules) /\ Distinct(tc_cmds.class)

LEMMA NothingQueued ==
  /\ \A e \in Events : Shell!NoCommands[e] = <<>>
  /\ Shell!FreshSerializer.cmds = Shell!NoCommands /\ Shell!ResetSerializer.cmds = Shell!NoCommands
  /\ Shell!NoCommands["rules"] = <<>> /\ Shell!NoCommands["chain"] = <<>>
  /\ Shell!NoCommands["addbr"] = <<>> /\ Shell!NoCommands["addif"] = <<>>
  BY SingleAssumption DEF Shell!NoCommands, Shell!FreshSerializer, Shell!ResetSerializer

LEMMA NothingDistinct == Distinct(<<>>) /\ Distinct(NoTc.class)
  BY DEF Distinct, NoTc

LEMMA BridgeInit == ShapedInit => BridgeInv
<1> SUFFICES ASSUME ShapedInit PROVE BridgeInv
  OBVIOUS
<1>1. queue.cmds = Shell!NoCommands /\ Rules = <<>> /\ Chain = <<>> /\ tc_cmds = NoTc
  BY NothingQueued DEF ShapedInit, Init, StepInit, Rules, Chain
<1>2. \A p \in Pairs : ~ Active(p)
  BY DEF ShapedInit, Init, StepInit, Active, Store!EmptyStore
<1> QED
  BY <1>1, <1>2, NothingDistinct DEF ShapedInit, Init, StepInit, BridgeInv, Bare, Waiting

\* Every step keeps the invariant of the bridge.
LEMMA BridgeStep ==
  ASSUME Typed, StoreInv, RootInv, BridgeInv, ShapedNext
  PROVE  BridgeInv'
<1>0. TypeOK /\ ShapeTypeOK /\ pc \in Phases /\ table \in Tables /\ bridge \in BOOLEAN
  BY DEF Typed, TypeOK, StepTypeOK
<1>1. CASE AbortShaped
  <2>1. /\ queue'.cmds = Shell!NoCommands /\ Rules' = <<>> /\ Chain' = <<>> /\ tc_cmds' = NoTc
        /\ devices' = {} /\ slaves' = {} /\ table' = EmptyTable /\ pc' = "idle"
        /\ store' = Store!EmptyStore
    BY <1>1, NothingQueued DEF AbortShaped, Abort, AbortStep, Rules, Chain
  <2>2. \A p \in Pairs : ~ Active(p)'
    BY <2>1 DEF Active, Store!EmptyStore
  <2> QED
    BY <2>1, <2>2, NothingDistinct DEF BridgeInv, Bare, Waiting
<1>2. CASE ShapedStep /\ late' = (late \/ (pc \in {"batch", "ipconfig", "check"} /\ pc' = "idle"))
  <2> SUFFICES ASSUME ~ late'
               PROVE  /\ ~ bridge' => Bare'
                      /\ Waiting' /\ Chain' # <<>> => table' = EmptyTable
                      /\ ~ Waiting' => ~ (Chainless' /\ Rules' # <<>>)
                      /\ Distinct(Rules') /\ Distinct(tc_cmds'.class)
    BY DEF BridgeInv
  <2>1. /\ ~ late
        /\ \/ \E m \in Inputs : BeginShaped(m)
           \/ \E p \in Pairs : ProcessPairShaped(p)
           \/ Quiet \/ BridgeRuns \/ EbtablesRuns \/ BatchRuns \/ ChecksPass \/ Errors \/ Fails1
    BY <1>2, StepKinds
  <2>2. /\ ~ bridge => Bare
        /\ Waiting /\ Chain # <<>> => table = EmptyTable
        /\ ~ Waiting => ~ (Chainless /\ Rules # <<>>)
        /\ Distinct(Rules) /\ Distinct(tc_cmds.class)
    BY <2>1 DEF BridgeInv
  <2>o. queue.ordered \/ pc \in {"ipconfig", "check"}
    BY <2>1 DEF RootInv
  <2>b. Bare => Rules = <<>> /\ Chain = <<>> /\ queue.cmds["addbr"] = <<>> /\ queue.cmds["addif"] = <<>>
    BY NothingQueued DEF Bare, Rules, Chain
  <2>s. ASSUME Same PROVE Rules' = Rules /\ Chain' = Chain /\ (Chainless' <=> Chainless)
                          /\ (\A p \in Pairs : Active(p)' <=> Active(p))
    BY <2>s DEF Same, Rules, Chain, Chainless, Active
  <2>r. ASSUME Bare, BridgeCommandsRun PROVE devices' = {} /\ slaves' = {}
    <3>1. ToAddBr = <<>> /\ ToAddIf = <<>>
      BY <2>b, <2>r DEF ToAddBr, ToAddIf, Shell!Runnable
    <3> QED
      BY <2>r, <3>1 DEF BridgeCommandsRun, AddBr, AddIf, Bare
  <2>3. ASSUME NEW m \in Inputs, BeginShaped(m)
        PROVE  /\ ~ bridge' => Bare'
               /\ Waiting' /\ Chain' # <<>> => table' = EmptyTable
               /\ Waiting'
               /\ Distinct(Rules') /\ Distinct(tc_cmds'.class)
    <3>1. /\ pc = "idle" /\ pc' \in {"pairs", "post"} /\ table' \in {table, EmptyTable}
          /\ UNCHANGED <<queue, store, bridge, devices, slaves, tc_cmds>>
      BY <2>3 DEF BeginShaped, Begin, BeginStep, shapeVars
    <3>2. Rules' = Rules /\ Chain' = Chain /\ Waiting /\ Waiting'
      BY <3>1 DEF Rules, Chain, Waiting
    <3> QED
      BY <2>2, <3>1, <3>2 DEF Bare, Active
  <2>4. ASSUME NEW p \in Pairs, ProcessPairShaped(p)
        PROVE  /\ ~ bridge' => Bare'
               /\ Waiting' /\ Chain' # <<>> => table' = EmptyTable
               /\ Waiting'
               /\ Distinct(Rules') /\ Distinct(tc_cmds'.class)
    <3>1. /\ TakePair(p) /\ UNCHANGED kernelVars /\ (PairUp(p) \/ PairDown(p) \/ PairKept(p))
          /\ pc = "pairs" /\ pc' = "pairs" /\ UNCHANGED <<devices, slaves, table>>
      BY <1>0, <2>4, PairCases DEF TakePair, kernelVars
    <3>2. Waiting /\ Waiting'
      BY <3>1 DEF Waiting
    <3>3. Distinct(tc_cmds'.class)
      BY <1>0, <2>2, <2>4, ClassesOfPair
    <3>4. CASE PairUp(p)
      <4>1. Distinct(Rules') /\ Chain' = IF bridge THEN Chain ELSE Shell!AddUnique(Chain, "new")
        BY <1>0, <2>2, <3>4, UpCommands
      <4>2. bridge' = TRUE
        BY <3>4 DEF PairUp
      <4>3. Chain' # <<>> => table' = EmptyTable
        BY <2>2, <3>1, <3>2, <4>1 DEF Bare
      <4> QED
        BY <3>2, <3>3, <4>1, <4>2, <4>3
    <3>5. CASE PairDown(p)
      <4>1. Distinct(Rules') /\ Chain' = Chain
        BY <1>0, <2>2, <3>5, DownCommands
      <4>2. bridge' = bridge /\ bridge
        BY <1>0, <2>2, <3>5 DEF PairDown, Bare
      <4> QED
        BY <2>2, <3>1, <3>2, <3>3, <4>1, <4>2
    <3>6. CASE PairKept(p)
      <4>1. UNCHANGED <<store, queue, bridge>>
        BY <3>6 DEF PairKept
      <4> QED
        BY <2>2, <3>1, <3>2, <3>3, <4>1 DEF Bare, Rules, Chain, Active
    <3> QED
      BY <3>1, <3>4, <3>5, <3>6
  <2>5. CASE Quiet
    BY <2>2, <2>s, <2>5 DEF Quiet, Same, Bare, Waiting
  <2>6. CASE BridgeRuns
    BY <2>2, <2>s, <2>r, <2>6 DEF BridgeRuns, RunBridge, Same, Bare, Waiting
  <2>7. CASE EbtablesRuns
    <3>1. /\ pc = "ebtables" /\ pc' = "batch" /\ EbtablesRun.ok /\ table' = EbtablesRun.table
          /\ Rules' = Rules /\ Chain' = Chain /\ UNCHANGED <<queue, bridge, devices, slaves, tc_cmds, store>>
      BY <2>7 DEF EbtablesRuns, Rules, Chain
    <3>2. /\ EbtablesRun.table.chain = (table.chain \/ Chain # <<>>)
          /\ EbtablesRun.ok /\ Rules # <<>> => table.chain \/ Chain # <<>>
          /\ Rules = <<>> => EbtablesRun.table = Started
      BY <1>0, <2>o, <3>1, EbtablesChain
    <3>3. ~ Waiting'
      BY <3>1 DEF Waiting
    <3>4. ~ (Chainless' /\ Rules' # <<>>)
      BY <3>1, <3>2 DEF Chainless
    <3>5. ASSUME Bare PROVE table' = table
      <4>1. table' = Started /\ Chain = <<>>
        BY <2>b, <3>1, <3>2, <3>5
      <4> QED
        BY <1>0, <4>1 DEF Started, Tables
    <3> QED
      BY <2>2, <3>1, <3>3, <3>4, <3>5 DEF Bare, Active
  <2>8. CASE BatchRuns \/ ChecksPass
    <3>1. /\ queue'.cmds = Shell!NoCommands /\ Rules' = <<>> /\ Chain' = <<>> /\ tc_cmds' = NoTc
          /\ UNCHANGED <<store, bridge, table, devices, slaves>>
      BY <2>8, NothingQueued DEF BatchRuns, ChecksPass, Rules, Chain
    <3> QED
      BY <2>2, <3>1, NothingDistinct DEF Bare, Active
  <2>9. CASE Errors
    BY <2>2, <2>s, <2>9 DEF Errors, Same, Bare, Waiting
  <2>10. CASE Fails1
    BY <2>2, <2>s, <2>r, <2>10 DEF Fails1, Same, Bare, Waiting
  <2> QED
    BY <2>1, <2>3, <2>4, <2>5, <2>6, <2>7, <2>8, <2>9, <2>10
<1> QED
  BY <1>1, <1>2 DEF ShapedNext

LEMMA BridgeInvariant == ShapedSpec => []BridgeInv
<1>1. BridgeInv /\ UNCHANGED shapedVars => BridgeInv'
  BY DEF BridgeInv, Bare, Waiting, Chainless, Chain, Rules, Active, shapedVars, vars, stepVars,
         kernelVars, shapeVars
<1> QED
  BY <1>1, BridgeInit, BridgeStep, TypeCorrect, StoreInvariant, RootInvariant, PTL DEF ShapedSpec

(***************************************************************************)
(* Some failed steps cannot be repeated: every step from then on fails in  *)
(* brctl, which is to create a bridge that exists, or in ebtables, for     *)
(* want of the chain.                                                      *)
(***************************************************************************)
Stuck ==
  \/ /\ pc \in {"idle", "pairs", "bridge", "post"}
     /\ queue.cmds["addbr"] # <<>> /\ Wifi \in devices
  \/ Chainless /\ Rules # <<>>

\* brctl refuses to create a bridge that exists.
LEMMA AddBrRefused ==
  ASSUME TypeOK, queue.ordered
  PROVE  ~ AddBrOk(devices, ToAddBr) <=> queue.cmds["addbr"] # <<>> /\ Wifi \in devices
<1> DEFINE s == queue.cmds["addbr"]
<1>1. s \in Seq({Wifi}) /\ ToAddBr = s
  BY DEF TypeOK, ToAddBr, Shell!Runnable
<1> HIDE DEF s
<1>2. s # <<>> => Len(s) \in 1..Len(s) /\ s[Len(s)] = Wifi
  BY <1>1
<1>3. AddBrOk(devices, s) <=> (s # <<>> => s[Len(s)] \notin devices)
  BY DEF AddBrOk
<1> QED
  BY <1>1, <1>2, <1>3 DEF s

\* Nothing but an abort helps.
LEMMA StaysStuck ==
  ASSUME Typed, StoreInv, RootInv, BridgeInv, ShapedStep, ~ late',
         late' = (late \/ (pc \in {"batch", "ipconfig", "check"} /\ pc' = "idle"))
  PROVE  (Stuck => Stuck') /\ (Chainless => Chainless')
<1>0. TypeOK /\ ShapeTypeOK /\ pc \in Phases /\ table \in Tables /\ bridge \in BOOLEAN
  BY DEF Typed, TypeOK, StepTypeOK
<1>1. /\ ~ late
      /\ \/ \E m \in Inputs : BeginShaped(m)
         \/ \E p \in Pairs : ProcessPairShaped(p)
         \/ Quiet \/ BridgeRuns \/ EbtablesRuns \/ BatchRuns \/ ChecksPass \/ Errors \/ Fails1
  BY StepKinds
<1>2. /\ ~ bridge => Bare
      /\ ~ Waiting => ~ (Chainless /\ Rules # <<>>)
      /\ Distinct(Rules) /\ Distinct(tc_cmds.class)
  BY <1>1 DEF BridgeInv
<1>o. queue.ordered \/ pc \in {"ipconfig", "check"}
  BY <1>1 DEF RootInv
<1>s. ASSUME Same PROVE Rules' = Rules /\ Chain' = Chain /\ (Chainless' <=> Chainless)
                        /\ queue.cmds["addbr"]' = queue.cmds["addbr"]
  BY <1>s DEF Same, Rules, Chain, Chainless
<1>3. ASSUME NEW m \in Inputs, BeginShaped(m) PROVE (Stuck => Stuck') /\ (Chainless => Chainless')
  <2>1. /\ pc = "idle" /\ pc' \in {"pairs", "post"} /\ table' \in {table, EmptyTable}
        /\ UNCHANGED <<queue, bridge, devices>>
    BY <1>3 DEF BeginShaped, Begin, BeginStep
  <2>2. ~ table.chain => ~ table'.chain
    BY <2>1 DEF EmptyTable
  <2> QED
    BY <2>1, <2>2 DEF Stuck, Chainless, Rules, Chain
<1>4. ASSUME NEW p \in Pairs, ProcessPairShaped(p) PROVE (Stuck => Stuck') /\ (Chainless => Chainless')
  <2>1. /\ PairUp(p) \/ PairDown(p) \/ PairKept(p)
        /\ pc = "pairs" /\ pc' = "pairs" /\ UNCHANGED <<devices, table>>
    BY <1>0, <1>4, PairCases DEF TakePair, kernelVars
  <2>2. Stuck => bridge
    BY <1>2, NothingQueued DEF Stuck, Bare, Rules
  <2>3. CASE PairUp(p)
    <3>1. /\ Rules' # <<>>
          /\ bridge => Chain' = Chain /\ queue.cmds["addbr"]' = queue.cmds["addbr"]
          /\ bridge'
      BY <1>0, <1>2, <2>3, UpCommands DEF PairUp
    <3> QED
      BY <2>1, <2>2, <3>1 DEF Stuck, Chainless
  <2>4. CASE PairDown(p)
    <3>1. /\ Rules' # <<>> /\ Chain' = Chain /\ queue.cmds["addbr"]' = queue.cmds["addbr"]
          /\ bridge' = bridge
      BY <1>0, <1>2, <2>4, DownCommands DEF PairDown
    <3> QED
      BY <2>1, <3>1 DEF Stuck, Chainless
  <2>5. CASE PairKept(p)
    BY <2>1, <2>5 DEF PairKept, Stuck, Chainless, Rules, Chain
  <2> QED
    BY <2>1, <2>3, <2>4, <2>5
<1>5. CASE Quiet
  BY <1>2, <1>s, <1>5 DEF Quiet, Stuck, Waiting
<1>6. CASE BridgeRuns
  <2>1. ~ (queue.cmds["addbr"] # <<>> /\ Wifi \in devices)
    BY <1>0, <1>o, <1>6, AddBrRefused DEF BridgeRuns, RunBridge
  <2> QED
    BY <1>s, <1>6, <2>1 DEF BridgeRuns, Stuck
<1>7. CASE EbtablesRuns
  <2>1. /\ pc = "ebtables" /\ pc' = "batch" /\ EbtablesRun.ok /\ table' = EbtablesRun.table
        /\ Rules' = Rules /\ Chain' = Chain /\ bridge' = bridge
    BY <1>7 DEF EbtablesRuns, Rules, Chain
  <2>2. /\ table'.chain = (table.chain \/ Chain # <<>>)
        /\ Rules # <<>> => table.chain \/ Chain # <<>>
    BY <1>0, <1>o, <2>1, EbtablesChain
  <2> QED
    BY <2>1, <2>2 DEF Stuck, Chainless
<1>8. CASE BatchRuns \/ ChecksPass
  <2>1. /\ Chain' = <<>> /\ pc \in {"batch", "check"} /\ UNCHANGED <<bridge, table>>
    BY <1>8, NothingQueued DEF BatchRuns, ChecksPass, Chain
  <2> QED
    BY <1>2, <2>1 DEF Stuck, Waiting, Chainless
<1>9. CASE Errors
  BY <1>s, <1>9 DEF Errors, Stuck
<1>10. CASE Fails1
  <2>1. Wifi \in devices => Wifi \in devices'
    BY <1>10 DEF Fails1, BridgeCommandsRun, AddBr
  <2> QED
    BY <1>s, <1>10, <2>1 DEF Fails1, Stuck
<1> QED
  BY <1>1, <1>3, <1>4, <1>5, <1>6, <1>7, <1>8, <1>9, <1>10

(***************************************************************************)
(* The rules and commands of a direction, as long as at most one step has  *)
(* failed, not late, and can be repeated.                                  *)
(***************************************************************************)
Calm == ~ late /\ failures <= 1 /\ ~ Stuck

PairOf(d) == IF d[1] < d[2] THEN d ELSE Reverse(d)

Up(d) == IF Active(PairOf(d)) THEN 1 ELSE 0

RuleInv(d) ==
  IF Waiting THEN Target(Rules, d, table.rules[d], Up(d)) ELSE table.rules[d] = Up(d)

Has(op, d) == <<op, d>> \in Shell!Queued(Rules)

\* At most one step has left commands in the queue.
OneLeft(d) ==
  /\ pc \in {"idle", "post"} \/ PairOf(d) \in diff => ~ (Has("I", d) /\ Has("D", d))
  /\ failures = 0 =>
       /\ ~ (Has("I", d) /\ Has("D", d))
       /\ pc \in {"idle", "post"} \/ PairOf(d) \in diff => ~ Has("I", d) /\ ~ Has("D", d)

RuleState ==
  /\ ~ Chainless => \A d \in Directions : RuleInv(d)
  /\ \A d \in Directions : OneLeft(d)

\* Every direction belongs to one pair.
LEMMA PairOfDirection ==
  /\ \A d \in Directions : PairOf(d) \in Pairs /\ d \in {PairOf(d), Reverse(PairOf(d))}
  /\ \A p \in Pairs : PairOf(p) = p /\ PairOf(Reverse(p)) = p
<1>1. Nodes \subseteq Nat
  BY StepAssumption
<1>2. ASSUME NEW d \in Directions PROVE PairOf(d) \in Pairs /\ d \in {PairOf(d), Reverse(PairOf(d))}
  <2>1. d \in Nodes \X Nodes /\ d[1] # d[2] /\ d[1] \in Nat /\ d[2] \in Nat
    BY <1>1 DEF Directions
  <2>2. CASE d[1] < d[2]
    BY <2>1, <2>2 DEF PairOf, Pairs
  <2>3. CASE ~ (d[1] < d[2])
    <3>1. Reverse(d) \in Pairs
      <4>1. d[2] < d[1]
        BY <2>1, <2>3
      <4> QED
        BY <2>1, <4>1 DEF Reverse, Pairs
    <3>2. Reverse(Reverse(d)) = d
      BY PairsAreDirections
    <3> QED
      BY <2>3, <3>1, <3>2 DEF PairOf
  <2> QED
    BY <2>2, <2>3
<1>3. ASSUME NEW p \in Pairs PROVE PairOf(p) = p /\ PairOf(Reverse(p)) = p
  <2>1. p[1] < p[2] /\ p[1] \in Nat /\ p[2] \in Nat /\ Reverse(Reverse(p)) = p
    BY <1>1, PairsAreDirections
  <2>2. ~ (p[2] < p[1])
    BY <2>1
  <2>3. Reverse(p)[1] = p[2] /\ Reverse(p)[2] = p[1]
    BY DEF Reverse
  <2> QED
    BY <2>1, <2>2, <2>3 DEF PairOf
<1> QED
  BY <1>2, <1>3

\* In a calm state ebtables succeeds, and the rules become those of the active pairs.
LEMMA EbtablesSucceeds ==
  ASSUME Typed, RootInv, BridgeInv, Calm, RuleState, pc = "ebtables"
  PROVE  /\ EbtablesRun.ok
         /\ ~ Chainless => \A d \in Directions : EbtablesRun.table.rules[d] = Up(d)
<1> DEFINE N == Len(Rules)
           a == EditAll(Started, Rules)
<1>0. /\ TypeOK /\ queue.ordered /\ Waiting
      /\ ~ bridge => Bare
      /\ Chain # <<>> => table = EmptyTable
      /\ Distinct(Rules)
      /\ ~ (Chainless /\ Rules # <<>>)
      /\ ~ Chainless => \A d \in Directions : Target(Rules, d, table.rules[d], Up(d))
  BY DEF Typed, RootInv, BridgeInv, Calm, Waiting, Stuck, RuleState, RuleInv
<1>1. /\ Started \in Tables /\ Rules \in Seq(RuleCommands)
      /\ Started.chain = (table.chain \/ Chain # <<>>) /\ Started.rules = table.rules
      /\ EbtablesRun.table = a[N]
      /\ EbtablesRun.ok <=> /\ Chain # <<>> => ~ table.chain
                            /\ Rules # <<>> => ~ Fails(a[N - 1], Rules[N])
  BY <1>0, EbtablesParts
<1>2. Chain # <<>> => ~ table.chain
  BY <1>0 DEF EmptyTable
<1>3. CASE Rules = <<>>
  <2>1. EbtablesRun.table = Started
    BY <1>0, <1>3, EbtablesChain
  <2>2. ASSUME NEW d \in Directions, ~ Chainless PROVE Up(d) = table.rules[d]
    <3>1. Count(Rules, Len(Rules), d, table.rules[d]) = Up(d)
      BY <1>0, <2>2 DEF Target
    <3>2. Len(Rules) = 0 /\ \A x : ~ Among(Rules, 0, x)
      BY <1>3 DEF Among
    <3> QED
      BY <3>1, <3>2 DEF Count
  <2> QED
    BY <1>1, <1>2, <1>3, <2>1, <2>2
<1>4. CASE Rules # <<>>
  <2>1. bridge /\ ~ Chainless /\ Started.chain
    BY <1>0, <1>1, <1>4, NothingQueued DEF Chainless, Bare, Rules
  <2>2. N \in Nat /\ N > 0 /\ N \in 1..N /\ N \in 0..N /\ N - 1 \in 0..N /\ Rules[N] \in RuleCommands
    BY <1>1, <1>4
  <2>3. ASSUME NEW d \in Directions
        PROVE  /\ a[N - 1].chain /\ a[N].rules[d] = Up(d)
               /\ Rules[N] = <<"D", d>> => a[N-1].rules[d] = 1
    <3> DEFINE c == table.rules[d]
    <3>1. c \in {0, 1} /\ Sequenced(Rules, d, c) /\ Count(Rules, N, d, c) = Up(d) /\ Started.rules[d] = c
      BY <1>0, <1>1, <2>1 DEF Target
    <3> HIDE DEF c
    <3>2. /\ \A k \in 0..Len(Rules) : a[k].chain /\ a[k].rules[d] = Count(Rules, k, d, c)
          /\ \A k \in 1..Len(Rules) : Rules[k] = <<"D", d>> => a[k-1].rules[d] = 1
      BY <1>0, <1>1, <2>1, <3>1, RulesCounted
    <3> HIDE DEF a
    <3> QED
      BY <2>2, <3>1, <3>2
  <2>4. ~ Fails(a[N - 1], Rules[N])
    <3>1. PICK op \in {"I", "D"}, d \in Directions : Rules[N] = <<op, d>>
      BY <2>2 DEF RuleCommands
    <3> HIDE DEF a, N
    <3> QED
      BY <2>3, <3>1 DEF Fails
  <2> QED
    BY <1>1, <1>2, <2>3, <2>4
<1> QED
  BY <1>3, <1>4

\* In a calm state neither brctl nor ebtables fails for the state that it finds.
LEMMA NoErrors ==
  ASSUME Typed, RootInv, BridgeInv, Calm, RuleState
  PROVE  ~ Errors
<1>1. TypeOK /\ ~ late /\ ~ Stuck /\ (queue.ordered \/ pc \in {"ipconfig", "check"})
  BY DEF Typed, Calm, RootInv
<1>2. ~ (pc = "bridge" /\ ~ AddBrOk(devices, ToAddBr))
  BY <1>1, AddBrRefused DEF Stuck
<1>3. ~ (pc = "ebtables" /\ ~ EbtablesRun.ok)
  BY EbtablesSucceeds
<1> QED
  BY <1>2, <1>3 DEF Errors

\* A calm state was reached from a calm state.
LEMMA CalmBefore ==
  ASSUME Typed, StoreInv, RootInv, BridgeInv, Calm', ShapedStep,
         late' = (late \/ (pc \in {"batch", "ipconfig", "check"} /\ pc' = "idle"))
  PROVE  Calm /\ failures \in Nat /\ ~ late' /\ (Fails1 => failures = 0) /\ (~ Fails1 => failures' = failures)
<1>0. ~ late' /\ failures' <= 1 /\ ~ Stuck'
  BY DEF Calm
<1>1. ~ late /\ ~ Stuck
  BY <1>0, StaysStuck, StepKinds
<1>2. failures \in Nat
  BY StepAssumption DEF Typed, TypeOK, StepTypeOK
<1>3. failures' = failures \/ (Fails1 /\ failures' = failures + 1)
  BY <1>0, StepKinds DEF BeginShaped, Begin, BeginStep, ProcessPairShaped, ProcessPair, TakePair,
     Quiet, BridgeRuns, EbtablesRuns, BatchRuns, ChecksPass, Errors, Fails1
<1>4. Fails1 => failures' = failures + 1
  BY DEF Fails1
<1> QED
  BY <1>0, <1>1, <1>2, <1>3, <1>4 DEF Calm

\* A pair that comes up or goes down changes the target of its two directions.
LEMMA RulesOfPairStep ==
  ASSUME TypeOK, StoreInv, BridgeInv, ~ late, NEW p \in Pairs, ProcessPairShaped(p), RuleState,
         Chainless => Chainless'
  PROVE  RuleState'
<1>1. /\ TakePair(p) /\ (PairUp(p) \/ PairDown(p) \/ PairKept(p))
      /\ pc = "pairs" /\ pc' = "pairs" /\ table' = table /\ diff' = diff \ {p} /\ p \in diff
      /\ failures' = failures
      /\ \A r \in Pairs \ {p} : Active(r)' <=> Active(r)
  BY PairCases DEF TakePair, kernelVars, Active
<1>2. Distinct(Rules) /\ Rules \in Seq(RuleCommands) /\ Waiting /\ Waiting'
  BY <1>1 DEF BridgeInv, TypeOK, Rules, Waiting
<1>3. ASSUME NEW d \in Directions, PairOf(d) # p PROVE Up(d)' = Up(d)
  BY <1>1, <1>3, PairOfDirection DEF Up, PairOf
\* A pair that comes up or goes down: v is what it was.
<1>4. ASSUME NEW v \in {0, 1}, Extension(Rules, Rules', Both(Out(v), p)), Rules' \in Seq(RuleCommands),
             Active(p) <=> v = 1, Active(p)' <=> v = 0
      PROVE  RuleState'
  <2> DEFINE C == Both(Out(v), p)
  <2>1. Shell!Queued(Rules') = Shell!Queued(Rules) \cup C
    BY <1>2, <1>4, ExtensionQueued
  <2>2. /\ \A x \in C : x[1] = Out(v) /\ x[2] \in {p, Reverse(p)}
        /\ <<Out(v), p>> \in C /\ <<Out(v), Reverse(p)>> \in C
    BY DEF Both
  <2> HIDE DEF C
  <2>3. ASSUME NEW d \in Directions, ~ Chainless PROVE RuleInv(d)'
    <3> DEFINE c == table.rules[d]
    <3>1. Target(Rules, d, c, Up(d))
      BY <1>2, <2>3 DEF RuleState, RuleInv
    <3>2. CASE PairOf(d) = p
      <4>1. d \in {p, Reverse(p)} /\ <<Out(v), d>> \in C
        BY <2>2, <3>2, PairOfDirection
      <4>2. Up(d) = v /\ Up(d)' = 1 - v
        BY <1>4, <3>2 DEF Up, PairOf
      <4>3. ~ (<<"I", d>> \in Shell!Queued(Rules) /\ <<"D", d>> \in Shell!Queued(Rules))
        BY <1>1, <3>2 DEF RuleState, OneLeft, Has
      <4> HIDE DEF c
      <4>4. Target(Rules', d, c, 1 - v)
        BY <1>2, <1>4, <2>2, <3>1, <4>1, <4>2, <4>3, TargetFlipped DEF C
      <4> QED
        BY <1>1, <1>2, <4>2, <4>4 DEF RuleInv, c
    <3>3. CASE PairOf(d) # p
      <4>1. \A x \in C : x[2] # d
        BY <2>2, <3>3, PairOfDirection
      <4> HIDE DEF c
      <4>2. Target(Rules', d, c, Up(d))
        BY <1>2, <1>4, <3>1, <4>1, TargetKept DEF C
      <4> QED
        BY <1>1, <1>2, <1>3, <3>3, <4>2 DEF RuleInv, c
    <3> QED
      BY <3>2, <3>3
  <2>4. ASSUME NEW d \in Directions PROVE OneLeft(d)'
    <3>0. OneLeft(d)
      BY DEF RuleState
    <3>1. CASE PairOf(d) = p
      <4>1. failures = 0 => ~ Has("I", d) /\ ~ Has("D", d)
        BY <1>1, <3>0, <3>1 DEF OneLeft
      <4>2. \A o : <<o, d>> \in C => o = Out(v)
        BY <2>2
      <4>3. failures = 0 => ~ (Has("I", d)' /\ Has("D", d)')
        BY <2>1, <4>1, <4>2 DEF Has
      <4>4. PairOf(d)' \notin diff'
        BY <1>1, <3>1 DEF PairOf
      <4> QED
        BY <1>1, <4>3, <4>4 DEF OneLeft
    <3>2. CASE PairOf(d) # p
      <4>1. \A o : <<o, d>> \notin C
        BY <2>2, <3>2, PairOfDirection
      <4>2. \A o : Has(o, d)' <=> Has(o, d)
        BY <2>1, <4>1 DEF Has
      <4>3. PairOf(d)' \in diff' => PairOf(d) \in diff
        BY <1>1 DEF PairOf
      <4> QED
        BY <1>1, <3>0, <4>2, <4>3 DEF OneLeft
    <3> QED
      BY <3>1, <3>2
  <2> QED
    BY <2>3, <2>4 DEF RuleState
<1>5. CASE PairUp(p)
  <2>1. Extension(Rules, Rules', Both("I", p)) /\ Out(0) = "I"
    BY <1>2, <1>5, UpCommands DEF Out
  <2>2. ~ Active(p) /\ Active(p)' /\ Rules' \in Seq(RuleCommands)
    <3>1. QueueTyped(QueueBridge(queue, p))
      BY TypedQueue, QueueBridgeLemma
    <3>2. QueueTyped(QueueRules(QueueBridge(queue, p), p, "I"))
      BY <3>1, QueueRulesLemma
    <3>3. QueueTyped(queue')
      BY <1>5, <3>2 DEF PairUp
    <3>4. queue'.cmds["rules"] \in Seq(RuleCommands)
      BY <3>3, FourQueues
    <3> QED
      BY <1>5, <3>4 DEF PairUp, Rules
  <2> QED
    BY <1>4, <2>1, <2>2
<1>6. CASE PairDown(p)
  <2>1. Extension(Rules, Rules', Both("D", p)) /\ Out(1) = "D"
    BY <1>2, <1>6, DownCommands DEF Out
  <2>2. Active(p) /\ ~ Active(p)' /\ Rules' \in Seq(RuleCommands)
    <3>2. QueueTyped(QueueRules(queue, p, "D"))
      BY TypedQueue, QueueRulesLemma
    <3>3. QueueTyped(queue')
      BY <1>6, <3>2 DEF PairDown
    <3>4. queue'.cmds["rules"] \in Seq(RuleCommands)
      BY <3>3, FourQueues
    <3> QED
      BY <1>6, <3>4 DEF PairDown, Rules
  <2> QED
    BY <1>4, <2>1, <2>2
<1>7. CASE PairKept(p)
  <2>1. Rules' = Rules /\ \A d \in Directions : Up(d)' = Up(d) /\ PairOf(d)' = PairOf(d)
    BY <1>7 DEF PairKept, Rules, Up, Active, PairOf
  <2>2. \A d \in Directions : RuleInv(d) => RuleInv(d)'
    BY <1>1, <1>2, <2>1 DEF RuleInv
  <2>3. \A d \in Directions : OneLeft(d) => OneLeft(d)'
    BY <1>1, <2>1 DEF OneLeft, Has
  <2> QED
    BY <2>2, <2>3 DEF RuleState
<1> QED
  BY <1>1, <1>5, <1>6, <1>7

\* Without commands the number of rules stays.
LEMMA EmptyTarget ==
  ASSUME NEW d, NEW c \in {0, 1}
  PROVE  Target(<<>>, d, c, c)
<1>1. Len(<<>>) = 0 /\ \A x : ~ Among(<<>>, 0, x)
  BY DEF Among
<1> QED
  BY <1>1 DEF Target, Count, Sequenced

\* Every step to a calm state keeps the rules on their way to the active pairs.
LEMMA RuleStateStep ==
  ASSUME Typed, StoreInv, RootInv, BridgeInv, Calm => RuleState, Calm', ShapedStep,
         late' = (late \/ (pc \in {"batch", "ipconfig", "check"} /\ pc' = "idle"))
  PROVE  RuleState'
<1>0. TypeOK /\ table \in Tables /\ bridge \in BOOLEAN /\ (pc # "pairs" => diff = {})
  BY DEF Typed, TypeOK, InStep
<1>1. /\ Calm /\ failures \in Nat /\ ~ late' /\ ~ late /\ RuleState
      /\ Fails1 => failures = 0
  BY CalmBefore DEF Calm
<1>2. /\ \/ \E m \in Inputs : BeginShaped(m)
         \/ \E p \in Pairs : ProcessPairShaped(p)
         \/ Quiet \/ BridgeRuns \/ EbtablesRuns \/ BatchRuns \/ ChecksPass \/ Errors \/ Fails1
  BY <1>1, StepKinds
<1>3. Chainless => Chainless'
  BY <1>1, StaysStuck
<1>p. \A d : PairOf(d)' = PairOf(d)
  BY DEF PairOf
<1>e. Shell!Queued(<<>>) = {}
  BY DEF Shell!Queued
<1>s. ASSUME Same PROVE Rules' = Rules /\ table' = table /\ diff' = diff
                        /\ \A d : Up(d)' = Up(d) /\ \A o : Has(o, d)' <=> Has(o, d)
  BY <1>s DEF Same, Rules, Active, Up, PairOf, Has
<1>4. ASSUME NEW m \in Inputs, BeginShaped(m) PROVE RuleState'
  <2>1. /\ pc = "idle" /\ pc' \in {"pairs", "post"} /\ table' \in {table, EmptyTable}
        /\ UNCHANGED <<queue, store, bridge, failures>> /\ Rules' = Rules /\ Chain' = Chain
        /\ \A d : Up(d)' = Up(d) /\ \A o : Has(o, d)' <=> Has(o, d)
    BY <1>4 DEF BeginShaped, Begin, BeginStep, Rules, Chain, Up, Active, PairOf, Has
  <2>2. Waiting /\ Waiting'
    BY <2>1 DEF Waiting
  <2>3. ~ Chainless' => table' = table
    <3>1. CASE table' = EmptyTable
      BY <1>1, <2>1, <2>2, <3>1 DEF Chainless, BridgeInv, Bare, EmptyTable
    <3> QED
      BY <2>1, <3>1
  <2>4. \A d \in Directions : ~ Chainless' => RuleInv(d)'
    BY <1>1, <1>3, <2>1, <2>2, <2>3 DEF RuleState, RuleInv
  <2>5. \A d \in Directions : OneLeft(d)'
    BY <1>1, <2>1 DEF RuleState, OneLeft
  <2> QED
    BY <2>4, <2>5 DEF RuleState
<1>5. ASSUME NEW p \in Pairs, ProcessPairShaped(p) PROVE RuleState'
  BY <1>0, <1>1, <1>3, <1>5, RulesOfPairStep
<1>6. ASSUME Same, Waiting <=> Waiting', failures' = failures,
             pc' \in {"idle", "post"} => pc \in {"idle", "post"}
      PROVE  RuleState'
  <2>1. \A d \in Directions : ~ Chainless' => RuleInv(d)'
    BY <1>1, <1>3, <1>s, <1>6 DEF RuleState, RuleInv
  <2>2. \A d \in Directions : OneLeft(d)'
    BY <1>1, <1>p, <1>s, <1>6 DEF RuleState, OneLeft
  <2> QED
    BY <2>1, <2>2 DEF RuleState
<1>7. CASE Quiet
  BY <1>6, <1>7 DEF Quiet, Waiting
<1>8. CASE BridgeRuns
  BY <1>6, <1>8 DEF BridgeRuns, Waiting
<1>9. CASE EbtablesRuns
  <2>1. /\ pc = "ebtables" /\ pc' = "batch" /\ table' = EbtablesRun.table /\ Rules' = Rules
        /\ diff' = diff /\ failures' = failures
        /\ \A d : Up(d)' = Up(d) /\ \A o : Has(o, d)' <=> Has(o, d)
    BY <1>9 DEF EbtablesRuns, Rules, Up, Active, PairOf, Has
  <2>2. ~ Chainless => \A d \in Directions : table'.rules[d] = Up(d)
    BY <1>1, <2>1, EbtablesSucceeds
  <2>3. \A d \in Directions : ~ Chainless' => RuleInv(d)'
    BY <1>3, <2>1, <2>2 DEF RuleInv, Waiting
  <2>4. \A d \in Directions : OneLeft(d)'
    BY <1>1, <1>p, <2>1 DEF RuleState, OneLeft
  <2> QED
    BY <2>3, <2>4 DEF RuleState
<1>10. CASE BatchRuns \/ ChecksPass
  <2>1. /\ Rules' = <<>> /\ UNCHANGED <<store, table>> /\ \A d : Up(d)' = Up(d)
        /\ pc \in {"batch", "check"}
        /\ pc' \in {"ipconfig", "post"}
    BY <1>10, NothingQueued DEF BatchRuns, ChecksPass, Rules, Up, Active, PairOf
  <2>2. ~ Waiting
    BY <2>1 DEF Waiting
  <2>3. ASSUME NEW d \in Directions, ~ Chainless' PROVE RuleInv(d)'
    <3>1. table'.rules[d] = Up(d)' /\ Up(d)' \in {0, 1}
      BY <1>1, <1>3, <2>1, <2>2, <2>3 DEF RuleState, RuleInv, Up
    <3>2. Target(<<>>, d, Up(d)', Up(d)')
      BY <3>1, EmptyTarget
    <3> QED
      BY <2>1, <3>1, <3>2 DEF RuleInv
  <2>4. \A d \in Directions : OneLeft(d)'
    BY <1>e, <2>1 DEF OneLeft, Has
  <2> QED
    BY <2>3, <2>4 DEF RuleState
<1>11. CASE Fails1
  <2>1. Same /\ pc' = "idle" /\ pc \in {"bridge", "ebtables", "post"} /\ failures = 0
    BY <1>1, <1>11 DEF Fails1
  <2>2. Waiting /\ Waiting' /\ failures' # 0
    BY <2>1, <1>11 DEF Waiting, Fails1
  <2>3. \A d \in Directions : ~ Chainless' => RuleInv(d)'
    BY <1>1, <1>3, <1>s, <2>1, <2>2 DEF RuleState, RuleInv
  <2>4. \A d \in Directions : OneLeft(d)'
    BY <1>1, <1>s, <2>1, <2>2 DEF RuleState, OneLeft
  <2> QED
    BY <2>3, <2>4 DEF RuleState
<1>12. ~ Errors
  BY <1>1, NoErrors
<1> QED
  BY <1>2, <1>4, <1>5, <1>7, <1>8, <1>9, <1>10, <1>11, <1>12

RulesInv == Calm => RuleState

LEMMA RulesInit == ShapedInit => RulesInv
<1> SUFFICES ASSUME ShapedInit PROVE RuleState
  BY DEF RulesInv
<1>1. /\ Rules = <<>> /\ pc = "idle" /\ \A d \in Directions : table.rules[d] = 0
      /\ \A p \in Pairs : ~ Active(p)
  BY NothingQueued DEF ShapedInit, Init, StepInit, Rules, EmptyTable, Active, Store!EmptyStore
<1>2. Shell!Queued(<<>>) = {}
  BY DEF Shell!Queued
<1>3. \A d \in Directions : Up(d) = 0
  BY <1>1, PairOfDirection DEF Up
<1>4. \A d \in Directions : RuleInv(d)
  BY <1>1, <1>3, EmptyTarget DEF RuleInv, Waiting
<1>5. \A d \in Directions : OneLeft(d)
  BY <1>1, <1>2 DEF OneLeft, Has
<1> QED
  BY <1>4, <1>5 DEF RuleState

\* After an abort there are neither rules nor active pairs.
LEMMA RulesAbort ==
  ASSUME AbortShaped
  PROVE  RuleState'
<1>1. /\ Rules' = <<>> /\ pc' = "idle" /\ \A d \in Directions : table'.rules[d] = 0
      /\ \A p \in Pairs : ~ Active(p)'
  BY NothingQueued DEF AbortShaped, Abort, AbortStep, Rules, EmptyTable, Active, Store!EmptyStore
<1>2. Shell!Queued(<<>>) = {}
  BY DEF Shell!Queued
<1>3. \A d \in Directions : Up(d)' = 0
  <2>1. \A d \in Directions : PairOf(d)' = PairOf(d) /\ PairOf(d) \in Pairs
    BY PairOfDirection DEF PairOf
  <2> QED
    BY <1>1, <2>1 DEF Up, Active
<1>4. \A d \in Directions : RuleInv(d)'
  <2> SUFFICES ASSUME NEW d \in Directions PROVE RuleInv(d)'
    OBVIOUS
  <2>1. Target(<<>>, d, 0, 0)
    BY EmptyTarget
  <2> QED
    BY <1>1, <1>3, <2>1 DEF RuleInv, Waiting
<1>5. \A d \in Directions : OneLeft(d)'
  BY <1>1, <1>2 DEF OneLeft, Has
<1> QED
  BY <1>4, <1>5 DEF RuleState

LEMMA RulesInvariant == ShapedSpec => []RulesInv
<1>1. ASSUME RulesInv, UNCHANGED shapedVars PROVE RulesInv'
  <2>1. UNCHANGED <<pc, queue, store, diff, failures, late, bridge, devices, table>>
    BY <1>1 DEF shapedVars, vars, stepVars, kernelVars
  <2>2. Rules' = Rules /\ Chain' = Chain /\ (Waiting' <=> Waiting) /\ \A d : PairOf(d)' = PairOf(d)
    BY <2>1 DEF Rules, Chain, Waiting, PairOf
  <2>3. (Chainless' <=> Chainless) /\ \A d : Up(d)' = Up(d) /\ \A o : Has(o, d)' <=> Has(o, d)
    BY <2>1, <2>2 DEF Chainless, Up, Active, Has
  <2>4. Calm' <=> Calm
    BY <2>1, <2>2, <2>3 DEF Calm, Stuck
  <2>5. \A d : RuleInv(d)' <=> RuleInv(d)
    BY <2>1, <2>2, <2>3 DEF RuleInv
  <2>6. \A d : OneLeft(d)' <=> OneLeft(d)
    BY <2>1, <2>2, <2>3 DEF OneLeft
  <2> QED
    BY <1>1, <2>3, <2>4, <2>5, <2>6 DEF RulesInv, RuleState
<1>2. Typed /\ StoreInv /\ RootInv /\ BridgeInv /\ RulesInv /\ ShapedNext => RulesInv'
  BY RuleStateStep, RulesAbort DEF RulesInv, ShapedNext
<1> QED
  BY <1>1, <1>2, RulesInit, TypeCorrect, StoreInvariant, RootInvariant, BridgeInvariant, PTL DEF ShapedSpec

(***************************************************************************)
(* The class of a link on a tap after a batch is that of the last command. *)
(***************************************************************************)
Classes == tc_cmds.class

For(c, n, p) == c[1] = n /\ c[2] = p

Latest(s, n, p, d) ==
  \E k \in 1..Len(s) : s[k] = <<n, p, d>> /\ \A j \in (k+1)..Len(s) : ~ For(s[j], n, p)

\* What a tc command does to one class.
LEMMA TcEditClass ==
  ASSUME NEW t \in Shapes, NEW c \in ShapeCommands, NEW n \in Nodes, NEW p \in Pairs
  PROVE  TcEdit(t, c).class[n][p] = IF c[1] = "class" /\ For(c[2], n, p) THEN c[2][3] ELSE t.class[n][p]
<1>1. t.class \in [Nodes -> [Pairs -> Linked \cup {NoEntry}]] /\ t = [root |-> t.root, class |-> t.class]
  BY DEF Shapes
<1>2. CASE c[1] = "qdisc"
  BY <1>1, <1>2 DEF TcEdit
<1>3. CASE c[1] = "class"
  <2>1. PICK x \in Nodes \X Pairs \X Linked : c = <<"class", x>>
    BY <1>3 DEF ShapeCommands
  <2>2. x[1] \in Nodes /\ x[2] \in Pairs
    BY <2>1
  <2>3. TcEdit(t, c) = [t EXCEPT !.class[x[1]][x[2]] = x[3]]
    BY <2>1 DEF TcEdit
  <2>4. TcEdit(t, c).class = [t.class EXCEPT ![x[1]][x[2]] = x[3]]
    BY <1>1, <2>3
  <2> QED
    BY <1>1, <2>1, <2>2, <2>4 DEF For
<1> QED
  BY <1>2, <1>3 DEF ShapeCommands

\* From the i-th command on no command is for the link.
LEMMA ClassKept ==
  ASSUME ShapeTypeOK, NEW n \in Nodes, NEW p \in Pairs, NEW i \in 0..Len(ToShape),
         \A j \in (i+1)..Len(ToShape) : ~ (ToShape[j][1] = "class" /\ For(ToShape[j][2], n, p))
  PROVE  TcAfter[Len(ToShape)].class[n][p] = TcAfter[i].class[n][p]
<1> DEFINE N == Len(ToShape)
           a == TcAfter
           S == {k \in 0..N : k >= i => a[k].class[n][p] = a[i].class[n][p]}
<1>1. /\ N \in Nat /\ a \in [0..N -> Shapes] /\ ToShape \in Seq(ShapeCommands)
      /\ \A k \in 1..N : a[k] = TcEdit(a[k-1], ToShape[k]) /\ ToShape[k] \in ShapeCommands
  BY TcAfterSteps, ToShapeParts
<1>2. i \in 0..N /\ \A j \in (i+1)..N : ~ (ToShape[j][1] = "class" /\ For(ToShape[j][2], n, p))
  OBVIOUS
<1> HIDE DEF N, a
<1>3. 0 \in S
  BY <1>1, <1>2
<1>4. ASSUME NEW k \in 1..N, k - 1 \in S PROVE k \in S
  <2>1. CASE k - 1 >= i
    <3>1. a[k-1].class[n][p] = a[i].class[n][p] /\ k \in (i+1)..N /\ k \in 0..N /\ k - 1 \in 0..N
      BY <1>1, <1>2, <1>4, <2>1
    <3>2. a[k] = TcEdit(a[k-1], ToShape[k]) /\ a[k-1] \in Shapes /\ ToShape[k] \in ShapeCommands
      BY <1>1, <3>1
    <3>3. a[k].class[n][p] = a[k-1].class[n][p]
      BY <1>2, <3>1, <3>2, TcEditClass
    <3> QED
      BY <3>1, <3>3
  <2>2. CASE ~ (k - 1 >= i)
    <3>1. k \in 0..N /\ (k >= i => k = i)
      BY <1>1, <1>2, <2>2
    <3> QED
      BY <3>1
  <2> QED
    BY <2>1, <2>2
<1>5. S = 0..N
  <2>1. S \in SUBSET (0..N)
    OBVIOUS
  <2> HIDE DEF S
  <2> QED
    BY <1>1, <1>3, <1>4, <2>1, UpTo
<1>6. N \in 0..N /\ N >= i
  BY <1>1, <1>2
<1>7. a[N].class[n][p] = a[i].class[n][p]
  BY <1>5, <1>6
<1> QED
  BY <1>7 DEF N, a

\* The class of a link after the batch: as before, or that of its last command.
LEMMA ClassAfter ==
  ASSUME ShapeTypeOK, queue.ordered, NEW n \in Nodes, NEW p \in Pairs
  PROVE  /\ (\A k \in 1..Len(Classes) : ~ For(Classes[k], n, p))
              => TcAfter[Len(ToShape)].class[n][p] = tc.class[n][p]
         /\ \A d : Latest(Classes, n, p, d) => TcAfter[Len(ToShape)].class[n][p] = d
<1> DEFINE N == Len(ToShape)
           Q == Len(tc_cmds.qdisc)
           s == Classes
           L == Len(s)
<1>1. /\ N \in Nat /\ TcAfter \in [0..N -> Shapes] /\ TcAfter[0] = tc
      /\ \A k \in 1..N : TcAfter[k] = TcEdit(TcAfter[k-1], ToShape[k])
  BY TcAfterSteps
<1>s. \A k \in 1..N : ToShape[k] \in ShapeCommands
  <2>1. ToShape \in Seq(ShapeCommands)
    BY ToShapeParts
  <2> QED
    BY <2>1
<1>2. /\ Q \in Nat /\ L \in Nat /\ N = Q + L
      /\ \A k \in 1..Q : ToShape[k] = <<"qdisc", tc_cmds.qdisc[k]>>
      /\ \A k \in 1..L : ToShape[Q + k] = <<"class", s[k]>>
  BY ToShapeParts DEF ShapeTypeOK, TcCommands, Classes
<1>3. s \in Seq(Nodes \X Pairs \X Linked)
  BY DEF ShapeTypeOK, TcCommands, Classes
<1> HIDE DEF N, Q, L, s
\* A command of the batch that is for the link is one of the class commands.
<1>4. ASSUME NEW j \in 1..N, ToShape[j][1] = "class" PROVE j - Q \in 1..L /\ ToShape[j][2] = s[j - Q]
  <2>1. j > Q
    <3> SUFFICES ASSUME j <= Q PROVE FALSE
      BY <1>2
    <3>1. j \in 1..Q
      BY <1>2
    <3> QED
      BY <1>2, <1>4, <3>1
  <2>2. j - Q \in 1..L /\ Q + (j - Q) = j
    BY <1>2, <2>1
  <2> QED
    BY <1>2, <2>2
<1>5. ASSUME \A k \in 1..L : ~ For(s[k], n, p) PROVE TcAfter[N].class[n][p] = tc.class[n][p]
  <2>1. \A j \in (0+1)..N : ~ (ToShape[j][1] = "class" /\ For(ToShape[j][2], n, p))
    BY <1>4, <1>5
  <2>2. 0 \in 0..N
    BY <1>1
  <2> QED
    BY <1>1, <2>1, <2>2, ClassKept DEF N
<1>6. ASSUME NEW d, Latest(s, n, p, d) PROVE TcAfter[N].class[n][p] = d
  <2>1. PICK k \in 1..L : s[k] = <<n, p, d>> /\ \A j \in (k+1)..L : ~ For(s[j], n, p)
    BY <1>6 DEF Latest, L
  <2> DEFINE i == Q + k
  <2>2. i \in 0..N /\ i \in 1..N /\ i - 1 \in 0..N /\ ToShape[i] = <<"class", <<n, p, d>>>>
    <3>1. Q \in Nat /\ L \in Nat /\ N = Q + L /\ k \in 1..L
      BY <1>2
    <3>2. i \in 0..N /\ i \in 1..N /\ i - 1 \in 0..N
      BY <3>1
    <3>3. ToShape[i] = <<"class", s[k]>>
      BY <1>2
    <3> QED
      BY <2>1, <3>2, <3>3
  <2>3. ASSUME NEW j \in (i+1)..N PROVE ~ (ToShape[j][1] = "class" /\ For(ToShape[j][2], n, p))
    <3>1. j \in 1..N /\ j - Q \in (k+1)..L
      BY <1>2, <2>2
    <3> QED
      BY <1>4, <2>1, <3>1
  <2> HIDE DEF i
  <2>4. TcAfter[N].class[n][p] = TcAfter[i].class[n][p]
    BY <2>2, <2>3, ClassKept DEF N
  <2>5. TcAfter[i] = TcEdit(TcAfter[i-1], ToShape[i]) /\ TcAfter[i-1] \in Shapes /\ ToShape[i] \in ShapeCommands
    BY <1>1, <1>s, <2>2
  <2>6. TcAfter[i].class[n][p] = d
    BY <2>2, <2>5, TcEditClass DEF For
  <2> QED
    BY <2>4, <2>6
<1> QED
  BY <1>5, <1>6 DEF N, L, s

\* A class command with a new distance comes last, ...
LEMMA LatestNew ==
  ASSUME NEW T, NEW s \in Seq(T), NEW s2 \in Seq(T), Distinct(s2), NEW n, NEW p, NEW d, NEW C,
         Extension(s, s2, C), <<n, p, d>> \in C, \A c \in C : For(c, n, p) => c = <<n, p, d>>,
         <<n, p, d>> \notin Shell!Queued(s)
  PROVE  Latest(s2, n, p, d)
<1>1. Len(s) \in Nat /\ Len(s2) \in Nat /\ DOMAIN s = 1..Len(s) /\ DOMAIN s2 = 1..Len(s2)
  OBVIOUS
<1>2. PICK k \in 1..Len(s2) : s2[k] = <<n, p, d>>
  BY DEF Extension
<1>3. k \notin 1..Len(s)
  <2> SUFFICES ASSUME k \in 1..Len(s) PROVE FALSE
    OBVIOUS
  <2>1. s[k] = <<n, p, d>>
    BY <1>2 DEF Extension
  <2> QED
    BY <1>1, <2>1 DEF Shell!Queued
<1>4. ASSUME NEW j \in (k+1)..Len(s2) PROVE ~ For(s2[j], n, p)
  <2>1. j \in (Len(s)+1)..Len(s2) /\ j \in 1..Len(s2) /\ j # k
    BY <1>1, <1>3
  <2>2. s2[j] \in C
    BY <2>1 DEF Extension
  <2> QED
    BY <1>1, <1>2, <2>1, <2>2 DEF Distinct
<1> QED
  BY <1>2, <1>4 DEF Latest

\* ... and commands for other links do not matter.
LEMMA LatestKept ==
  ASSUME NEW T, NEW s \in Seq(T), NEW s2 \in Seq(T), NEW n, NEW p, NEW d, NEW C,
         Extension(s, s2, C), \A c \in C : ~ For(c, n, p), Latest(s, n, p, d)
  PROVE  Latest(s2, n, p, d)
<1>1. Len(s) \in Nat /\ Len(s2) \in Nat /\ Len(s) <= Len(s2)
  BY DEF Extension
<1>2. PICK k \in 1..Len(s) : s[k] = <<n, p, d>> /\ \A j \in (k+1)..Len(s) : ~ For(s[j], n, p)
  BY DEF Latest
<1>3. k \in 1..Len(s2) /\ s2[k] = <<n, p, d>>
  BY <1>1, <1>2 DEF Extension
<1>4. ASSUME NEW j \in (k+1)..Len(s2) PROVE ~ For(s2[j], n, p)
  <2>1. CASE j <= Len(s)
    <3>1. j \in (k+1)..Len(s) /\ j \in 1..Len(s)
      BY <1>1, <2>1
    <3> QED
      BY <1>2, <3>1 DEF Extension
  <2>2. CASE j > Len(s)
    <3>1. j \in (Len(s)+1)..Len(s2)
      BY <1>1, <2>2
    <3> QED
      BY <3>1 DEF Extension
  <2> QED
    BY <1>1, <2>1, <2>2
<1> QED
  BY <1>3, <1>4 DEF Latest

(***************************************************************************)
(* The class commands in the queue.  A step leaves at most one for a link  *)
(* and a tap, with the present distance; a second one, that of the next    *)
(* step, comes after it.                                                   *)
(***************************************************************************)
QueuedClass(n, p, d) == <<n, p, d>> \in Shell!Queued(Classes)

HasClass(n, p) == \E d \in Linked : QueuedClass(n, p, d)

ClassLeft(n, p) ==
  \A d \in Linked : QueuedClass(n, p, d) =>
    /\ pc \in {"idle", "post"} => d = distance_matrix[p]
    /\ p \in diff => d # distance_matrix[p]
    /\ failures = 0 => p \notin diff /\ pc \notin {"idle", "post"} /\ d = distance_matrix[p]

LastFits(n, p) ==
  Active(p) /\ p \notin diff /\ HasClass(n, p) => Latest(Classes, n, p, distance_matrix[p])

ClassState == \A p \in Pairs : \A n \in {p[1], p[2]} : ClassLeft(n, p) /\ LastFits(n, p)

\* A link whose distance was worked off, and without a command, has its class.
ClassDone(n, p) ==
  Active(p) /\ p \notin diff /\ ~ HasClass(n, p) => tc.class[n][p] = distance_matrix[p]

Covered == \A p \in Pairs : \A n \in {p[1], p[2]} : ClassDone(n, p)

\* What a pair means for the classes of its link and of the others.
LEMMA PairClasses ==
  ASSUME Typed, StoreInv, BridgeInv, ~ late, NEW p \in Pairs, ProcessPairShaped(p)
  PROVE  /\ p \in diff /\ diff' = diff \ {p} /\ pc = "pairs" /\ pc' = "pairs"
         /\ UNCHANGED <<distance_matrix, failures, tc>>
         /\ Active(p)' <=> Adjusts(p)
         /\ Adjusts(p) => distance_matrix[p] \in Linked
         /\ \A r \in Pairs \ {p} : /\ Active(r)' <=> Active(r)
                                   /\ \A n, d : QueuedClass(n, r, d)' <=> QueuedClass(n, r, d)
                                   /\ \A n, d : Latest(Classes, n, r, d) => Latest(Classes', n, r, d)
         /\ ~ Adjusts(p) => Classes' = Classes
         /\ Adjusts(p) =>
              \A n \in {p[1], p[2]} :
                /\ \A d : QueuedClass(n, p, d)' <=> QueuedClass(n, p, d) \/ d = distance_matrix[p]
                /\ ~ QueuedClass(n, p, distance_matrix[p]) => Latest(Classes', n, p, distance_matrix[p])
<1> DEFINE e == distance_matrix[p]
           C == {<<p[1], p, e>>, <<p[2], p, e>>}
           T == Nodes \X Pairs \X Linked
           s == Classes
           s2 == Classes'
<1>0. TypeOK /\ ShapeTypeOK /\ Distinct(s)
  BY DEF Typed, BridgeInv, Classes
<1>1. /\ TakePair(p) /\ UNCHANGED kernelVars
      /\ \A r \in Pairs \ {p} : store'.active[r] = store.active[r]
      /\ PairUp(p) \/ PairDown(p) \/ PairKept(p)
  BY <1>0, PairCases
<1>2. /\ p \in diff /\ diff' = diff \ {p} /\ pc = "pairs" /\ pc' = "pairs"
      /\ UNCHANGED <<distance_matrix, failures>>
      /\ \A r \in Pairs \ {p} : Active(r)' <=> Active(r)
  BY <1>1 DEF TakePair, Active
<1>3. (Active(p)' <=> Adjusts(p)) /\ (Adjusts(p) => e \in Linked)
  BY <1>1 DEF PairUp, PairDown, PairKept, Adjusts, Active
<1>4. /\ tc' = tc
      /\ ~ Adjusts(p) => s2 = s
      /\ Adjusts(p) => Extension(s, s2, C) /\ Distinct(s2) /\ s2 \in Seq(T)
  BY <1>0, ClassesOfPair DEF Classes
<1>5. s \in Seq(T)
  BY <1>0 DEF ShapeTypeOK, TcCommands, Classes
<1>6. \A n, r, d : QueuedClass(n, r, d) <=> <<n, r, d>> \in Shell!Queued(s)
  BY DEF QueuedClass
<1>7. \A n, r, d : QueuedClass(n, r, d)' <=> <<n, r, d>> \in Shell!Queued(s2)
  BY DEF QueuedClass
<1>8. /\ \A c \in C : c[2] = p /\ c[3] = e /\ c[1] \in {p[1], p[2]} /\ c = <<c[1], p, e>>
      /\ \A n \in {p[1], p[2]} : <<n, p, e>> \in C
  OBVIOUS
<1> HIDE DEF C, T, s, s2, e
<1>9. CASE ~ Adjusts(p)
  <2>1. \A n, r, d : QueuedClass(n, r, d)' <=> QueuedClass(n, r, d)
    BY <1>4, <1>6, <1>7, <1>9
  <2>2. \A n, r, d : Latest(s, n, r, d) => Latest(s2, n, r, d)
    BY <1>4, <1>9
  <2> QED
    BY <1>2, <1>3, <1>4, <1>9, <2>1, <2>2 DEF s, s2, e
<1>10. CASE Adjusts(p)
  <2>1. Extension(s, s2, C) /\ Distinct(s2) /\ s2 \in Seq(T)
    BY <1>4, <1>10
  <2>2. Shell!Queued(s2) = Shell!Queued(s) \cup C
    BY <1>5, <2>1, ExtensionQueued
  <2>3. ASSUME NEW r \in Pairs \ {p}, NEW n, NEW d
        PROVE  /\ QueuedClass(n, r, d)' <=> QueuedClass(n, r, d)
               /\ Latest(s, n, r, d) => Latest(s2, n, r, d)
    <3>1. <<n, r, d>> \notin C /\ \A c \in C : ~ For(c, n, r)
      BY <1>8 DEF For
    <3>2. Latest(s, n, r, d) => Latest(s2, n, r, d)
      BY <1>5, <2>1, <3>1, LatestKept
    <3> QED
      BY <1>6, <1>7, <2>2, <3>1, <3>2
  <2>4. ASSUME NEW n \in {p[1], p[2]}
        PROVE  /\ \A d : QueuedClass(n, p, d)' <=> QueuedClass(n, p, d) \/ d = e
               /\ ~ QueuedClass(n, p, e) => Latest(s2, n, p, e)
    <3>1. /\ <<n, p, e>> \in C /\ \A c \in C : For(c, n, p) => c = <<n, p, e>>
          /\ \A d : <<n, p, d>> \in C => d = e
      BY <1>8 DEF For
    <3>2. ~ QueuedClass(n, p, e) => Latest(s2, n, p, e)
      BY <1>5, <1>6, <2>1, <3>1, LatestNew
    <3> QED
      BY <1>6, <1>7, <2>2, <3>1, <3>2
  <2> QED
    BY <1>2, <1>3, <1>4, <1>10, <2>3, <2>4 DEF s, s2, e
<1> QED
  BY <1>9, <1>10

\* The commands of a pair come after what an earlier step has left for it.
LEMMA ClassesOfPairStep ==
  ASSUME Typed, StoreInv, BridgeInv, ~ late, NEW p \in Pairs, ProcessPairShaped(p), ClassState
  PROVE  ClassState'
<1>1. /\ p \in diff /\ diff' = diff \ {p} /\ pc = "pairs" /\ pc' = "pairs"
      /\ UNCHANGED <<distance_matrix, failures, tc>>
      /\ Active(p)' <=> Adjusts(p)
      /\ Adjusts(p) => distance_matrix[p] \in Linked
      /\ \A r \in Pairs \ {p} : /\ Active(r)' <=> Active(r)
                                /\ \A n, d : QueuedClass(n, r, d)' <=> QueuedClass(n, r, d)
                                /\ \A n, d : Latest(Classes, n, r, d) => Latest(Classes', n, r, d)
      /\ ~ Adjusts(p) => Classes' = Classes
      /\ Adjusts(p) =>
           \A n \in {p[1], p[2]} :
             /\ \A d : QueuedClass(n, p, d)' <=> QueuedClass(n, p, d) \/ d = distance_matrix[p]
             /\ ~ QueuedClass(n, p, distance_matrix[p]) => Latest(Classes', n, p, distance_matrix[p])
  BY PairClasses
<1>2. ASSUME NEW n \in {p[1], p[2]} PROVE ClassLeft(n, p)' /\ LastFits(n, p)'
  <2>1. \A d \in Linked : QueuedClass(n, p, d) => d # distance_matrix[p] /\ failures # 0
    BY <1>1 DEF ClassState, ClassLeft
  <2>2. CASE Adjusts(p)
    <3>1. ~ QueuedClass(n, p, distance_matrix[p])
      BY <1>1, <2>1, <2>2
    <3>2. LastFits(n, p)'
      BY <1>1, <2>2, <3>1 DEF LastFits
    <3>3. ClassLeft(n, p)'
      BY <1>1, <2>1, <2>2 DEF ClassLeft
    <3> QED
      BY <3>2, <3>3
  <2>3. CASE ~ Adjusts(p)
    <3>1. \A d : QueuedClass(n, p, d)' <=> QueuedClass(n, p, d)
      BY <1>1, <2>3 DEF QueuedClass
    <3> QED
      BY <1>1, <2>1, <2>3, <3>1 DEF LastFits, ClassLeft
  <2> QED
    BY <2>2, <2>3
<1>3. ASSUME NEW r \in Pairs \ {p}, NEW n \in {r[1], r[2]} PROVE ClassLeft(n, r)' /\ LastFits(n, r)'
  <2>1. ClassLeft(n, r) /\ LastFits(n, r)
    BY DEF ClassState
  <2>2. ClassLeft(n, r)'
    BY <1>1, <2>1 DEF ClassLeft
  <2>3. HasClass(n, r)' <=> HasClass(n, r)
    BY <1>1 DEF HasClass
  <2>4. LastFits(n, r)'
    BY <1>1, <2>1, <2>3 DEF LastFits
  <2> QED
    BY <2>2, <2>4
<1> QED
  BY <1>2, <1>3 DEF ClassState

\* A step begins.
LEMMA BeginClasses ==
  ASSUME Typed, NEW m \in Inputs, BeginShaped(m)
  PROVE  /\ pc = "idle" /\ pc' \in {"pairs", "post"} /\ diff = {}
         /\ UNCHANGED <<failures, tc, tc_cmds, store>>
         /\ \A p \in Pairs : /\ p \in diff' <=> distance_matrix'[p] # distance_matrix[p]
                             /\ Active(p)' <=> Active(p)
         /\ pc' = "post" => diff' = {}
         /\ \A n, p, d : QueuedClass(n, p, d)' <=> QueuedClass(n, p, d)
<1>1. pc = "idle" /\ pc' \in {"pairs", "post"} /\ diff = {} /\ UNCHANGED <<failures, tc, tc_cmds, store>>
  BY DEF BeginShaped, Begin, BeginStep, shapeVars, Typed, InStep
<1>2. diff' = Changed(m) /\ distance_matrix' = m /\ (pc' = "post" => diff' = {})
  BY <1>1 DEF BeginShaped, Begin, BeginStep
<1> QED
  BY <1>1, <1>2 DEF Changed, Active, QueuedClass, Classes

\* The executor has no tc commands, ...
LEMMA NoClasses ==
  ASSUME tc_cmds = NoTc
  PROVE  /\ Classes = <<>> /\ \A n, p, d : ~ QueuedClass(n, p, d)
         /\ \A n, p : ~ HasClass(n, p)
         /\ ClassState
<1>1. Classes = <<>>
  BY DEF NoTc, Classes
<1>2. \A n, p, d : ~ QueuedClass(n, p, d)
  BY <1>1 DEF QueuedClass, Shell!Queued
<1>3. \A n, p : ~ HasClass(n, p)
  BY <1>2 DEF HasClass
<1> QED
  BY <1>1, <1>2, <1>3 DEF ClassState, ClassLeft, LastFits

\* ... or is emptied.
LEMMA NoClassesNext ==
  ASSUME tc_cmds' = NoTc
  PROVE  ClassState' /\ \A n, p : ~ HasClass(n, p)'
<1>1. Classes' = <<>>
  BY DEF NoTc, Classes
<1>2. \A n, p, d : ~ QueuedClass(n, p, d)'
  BY <1>1 DEF QueuedClass, Shell!Queued
<1>3. \A n, p : ~ HasClass(n, p)'
  BY <1>2 DEF HasClass
<1> QED
  BY <1>2, <1>3 DEF ClassState, ClassLeft, LastFits

\* Every step to a calm state keeps the last class command of a link fitting.
LEMMA ClassStateStep ==
  ASSUME Typed, StoreInv, RootInv, BridgeInv, RulesInv, Calm => ClassState, Calm', ShapedStep,
         late' = (late \/ (pc \in {"batch", "ipconfig", "check"} /\ pc' = "idle"))
  PROVE  ClassState'
<1>1. /\ Calm /\ failures \in Nat /\ ~ late' /\ ~ late /\ ClassState /\ RuleState
      /\ Fails1 => failures = 0
  BY CalmBefore DEF Calm, RulesInv
<1>2. /\ \/ \E m \in Inputs : BeginShaped(m)
         \/ \E p \in Pairs : ProcessPairShaped(p)
         \/ Quiet \/ BridgeRuns \/ EbtablesRuns \/ BatchRuns \/ ChecksPass \/ Errors \/ Fails1
  BY <1>1, StepKinds
<1>3. ASSUME NEW m \in Inputs, BeginShaped(m) PROVE ClassState'
  <2>1. /\ pc = "idle" /\ pc' \in {"pairs", "post"} /\ diff = {}
        /\ UNCHANGED <<failures, tc, tc_cmds, store>>
        /\ \A p \in Pairs : /\ p \in diff' <=> distance_matrix'[p] # distance_matrix[p]
                            /\ Active(p)' <=> Active(p)
        /\ pc' = "post" => diff' = {}
        /\ \A n, p, d : QueuedClass(n, p, d)' <=> QueuedClass(n, p, d)
    BY <1>3, BeginClasses
  <2>2. Classes' = Classes /\ \A n, p : HasClass(n, p)' <=> HasClass(n, p)
    BY <2>1 DEF Classes, HasClass
  <2>3. ASSUME NEW p \in Pairs, NEW n \in {p[1], p[2]} PROVE ClassLeft(n, p)' /\ LastFits(n, p)'
    <3>1. ClassLeft(n, p) /\ LastFits(n, p)
      BY <1>1 DEF ClassState
    <3>2. ClassLeft(n, p)'
      BY <2>1, <3>1 DEF ClassLeft
    <3>3. LastFits(n, p)'
      BY <2>1, <2>2, <3>1 DEF LastFits
    <3> QED
      BY <3>2, <3>3
  <2> QED
    BY <2>3 DEF ClassState
<1>4. ASSUME NEW p \in Pairs, ProcessPairShaped(p) PROVE ClassState'
  BY <1>1, <1>4, ClassesOfPairStep
<1>5. ASSUME UNCHANGED <<tc_cmds, store, distance_matrix, diff>>,
             pc' \in {"idle", "post"} => pc \in {"idle", "post"} \/ failures = 0,
             failures' = 0 => failures = 0 /\ (pc' \in {"idle", "post"} => pc \in {"idle", "post"})
      PROVE  ClassState'
  <2>1. /\ Classes' = Classes /\ \A n, p, d : QueuedClass(n, p, d)' <=> QueuedClass(n, p, d)
        /\ \A p : Active(p)' <=> Active(p)
    BY <1>5 DEF Classes, QueuedClass, Active
  <2>2. \A n, p : HasClass(n, p)' <=> HasClass(n, p)
    BY <2>1 DEF HasClass
  <2>3. ASSUME NEW p \in Pairs, NEW n \in {p[1], p[2]} PROVE ClassLeft(n, p)' /\ LastFits(n, p)'
    <3>1. ClassLeft(n, p) /\ LastFits(n, p)
      BY <1>1 DEF ClassState
    <3>2. ClassLeft(n, p)'
      BY <1>5, <2>1, <3>1 DEF ClassLeft
    <3>3. LastFits(n, p)'
      BY <1>5, <2>1, <2>2, <3>1 DEF LastFits
    <3> QED
      BY <3>2, <3>3
  <2> QED
    BY <2>3 DEF ClassState
<1>6. CASE Quiet
  BY <1>5, <1>6 DEF Quiet, Same
<1>7. CASE BridgeRuns
  BY <1>5, <1>7 DEF BridgeRuns, Same
<1>8. CASE EbtablesRuns
  BY <1>5, <1>8 DEF EbtablesRuns
<1>9. CASE BatchRuns \/ ChecksPass
  BY <1>9, NoClassesNext DEF BatchRuns, ChecksPass
<1>10. CASE Fails1
  BY <1>1, <1>5, <1>10 DEF Fails1, Same
<1>11. ~ Errors
  BY <1>1, NoErrors
<1> QED
  BY <1>2, <1>3, <1>4, <1>6, <1>7, <1>8, <1>9, <1>10, <1>11

ClassesInv == Calm => ClassState

LEMMA ClassesInvariant == ShapedSpec => []ClassesInv
<1>1. ShapedInit => ClassesInv
  BY NoClasses DEF ShapedInit, ClassesInv
<1>2. ASSUME ClassesInv, UNCHANGED shapedVars PROVE ClassesInv'
  <2>1. UNCHANGED <<pc, queue, store, distance_matrix, diff, failures, late, bridge, devices, table, tc_cmds>>
    BY <1>2 DEF shapedVars, vars, stepVars, kernelVars, shapeVars
  <2>2. Rules' = Rules /\ Chain' = Chain /\ Classes' = Classes
        /\ \A n, p, d : QueuedClass(n, p, d)' <=> QueuedClass(n, p, d)
    BY <2>1 DEF Rules, Chain, Classes, QueuedClass
  <2>3. \A n, p : HasClass(n, p)' <=> HasClass(n, p)
    BY <2>2 DEF HasClass
  <2>4. Calm' <=> Calm
    BY <2>1, <2>2 DEF Calm, Stuck, Chainless
  <2>5. \A n, p : ClassLeft(n, p)' <=> ClassLeft(n, p)
    BY <2>1, <2>2 DEF ClassLeft
  <2>6. \A n, p : LastFits(n, p)' <=> LastFits(n, p)
    BY <2>1, <2>2, <2>3 DEF LastFits, Active
  <2> QED
    BY <1>2, <2>4, <2>5, <2>6 DEF ClassesInv, ClassState
<1>3. AbortShaped => ClassState'
  BY NoClassesNext DEF AbortShaped
<1>4. Typed /\ StoreInv /\ RootInv /\ BridgeInv /\ RulesInv /\ ClassesInv /\ ShapedNext => ClassesInv'
  BY <1>3, ClassStateStep DEF ClassesInv, ShapedNext
<1> QED
  BY <1>1, <1>2, <1>4, TypeCorrect, StoreInvariant, RootInvariant, BridgeInvariant, RulesInvariant, PTL
     DEF ShapedSpec

(***************************************************************************)
(* The classes in the kernel.                                              *)
(***************************************************************************)
CoverInv == ~ late /\ failures <= 1 => Covered

\* Every step that does not fail late keeps the classes of worked off links.
LEMMA CoverStep ==
  ASSUME Typed, StoreInv, RootInv, BridgeInv, ClassesInv, CoverInv, ShapedStep, ~ late', failures' <= 1,
         late' = (late \/ (pc \in {"batch", "ipconfig", "check"} /\ pc' = "idle"))
  PROVE  Covered'
<1>0. TypeOK /\ ShapeTypeOK /\ failures \in Nat /\ (pc # "pairs" => diff = {})
  BY StepAssumption DEF Typed, InStep, TypeOK, StepTypeOK
<1>1. /\ ~ late
      /\ \/ \E m \in Inputs : BeginShaped(m)
         \/ \E p \in Pairs : ProcessPairShaped(p)
         \/ Quiet \/ BridgeRuns \/ EbtablesRuns \/ BatchRuns \/ ChecksPass \/ Errors \/ Fails1
  BY StepKinds
<1>2. failures <= 1
  <2>1. failures' = failures \/ failures' = failures + 1
    BY <1>1 DEF BeginShaped, Begin, BeginStep, ProcessPairShaped, ProcessPair, TakePair,
       Quiet, BridgeRuns, EbtablesRuns, BatchRuns, ChecksPass, Errors, Fails1
  <2> QED
    BY <1>0, <2>1
<1>3. \A p \in Pairs : \A n \in {p[1], p[2]} : ClassDone(n, p)
  BY <1>1, <1>2 DEF CoverInv, Covered
<1>4. ASSUME NEW m \in Inputs, BeginShaped(m) PROVE Covered'
  <2>1. /\ diff = {} /\ UNCHANGED tc
        /\ \A p \in Pairs : /\ p \in diff' <=> distance_matrix'[p] # distance_matrix[p]
                            /\ Active(p)' <=> Active(p)
        /\ \A n, p, d : QueuedClass(n, p, d)' <=> QueuedClass(n, p, d)
    BY <1>4, BeginClasses
  <2>2. \A n, p : HasClass(n, p)' <=> HasClass(n, p)
    BY <2>1 DEF HasClass
  <2> QED
    BY <1>3, <2>1, <2>2 DEF Covered, ClassDone
<1>5. ASSUME NEW p \in Pairs, ProcessPairShaped(p) PROVE Covered'
  <2>1. /\ diff' = diff \ {p}
        /\ UNCHANGED <<distance_matrix, failures, tc>>
        /\ Active(p)' <=> Adjusts(p)
        /\ Adjusts(p) => distance_matrix[p] \in Linked
        /\ \A r \in Pairs \ {p} : /\ Active(r)' <=> Active(r)
                                  /\ \A n, d : QueuedClass(n, r, d)' <=> QueuedClass(n, r, d)
        /\ Adjusts(p) =>
             \A n \in {p[1], p[2]} :
                \A d : QueuedClass(n, p, d)' <=> QueuedClass(n, p, d) \/ d = distance_matrix[p]
    BY <1>1, <1>5, PairClasses
  <2>2. ASSUME NEW n \in {p[1], p[2]} PROVE ClassDone(n, p)'
    BY <2>1 DEF ClassDone, HasClass
  <2>3. ASSUME NEW r \in Pairs \ {p}, NEW n \in {r[1], r[2]} PROVE ClassDone(n, r)'
    <3>1. HasClass(n, r)' <=> HasClass(n, r)
      BY <2>1 DEF HasClass
    <3>2. ClassDone(n, r)
      BY <1>3
    <3> QED
      BY <2>1, <3>1, <3>2 DEF ClassDone
  <2> QED
    BY <2>2, <2>3 DEF Covered
<1>6. ASSUME UNCHANGED <<tc_cmds, tc, store, distance_matrix, diff>> PROVE Covered'
  <2>1. \A n, p : (HasClass(n, p)' <=> HasClass(n, p)) /\ (Active(p)' <=> Active(p))
    BY <1>6 DEF HasClass, QueuedClass, Classes, Active
  <2> QED
    BY <1>3, <1>6, <2>1 DEF Covered, ClassDone
<1>7. CASE Quiet \/ BridgeRuns \/ EbtablesRuns \/ Errors \/ Fails1
  BY <1>6, <1>7 DEF Quiet, BridgeRuns, EbtablesRuns, Errors, Fails1, Same
<1>8. CASE ChecksPass
  <2>1. pc = "check" /\ tc_cmds' = NoTc /\ UNCHANGED <<tc, store, distance_matrix, diff>>
    BY <1>8 DEF ChecksPass
  <2>2. tc_cmds = NoTc
    BY <1>1, <2>1 DEF RootInv
  <2> QED
    BY <1>6, <2>1, <2>2
<1>9. CASE BatchRuns
  <2>1. /\ pc = "batch" /\ tc_cmds' = NoTc /\ tc' = TcAfter[Len(ToShape)]
        /\ UNCHANGED <<store, distance_matrix, diff>>
    BY <1>9 DEF BatchRuns
  <2>2. queue.ordered /\ diff = {}
    BY <1>0, <1>1, <2>1 DEF RootInv
  <2>3. Calm
    <3>1. ~ (Chainless /\ Rules # <<>>)
      BY <1>1, <2>1 DEF BridgeInv, Waiting
    <3> QED
      BY <1>1, <1>2, <2>1, <3>1 DEF Calm, Stuck
  <2>4. ASSUME NEW p \in Pairs, NEW n \in {p[1], p[2]}, Active(p)
        PROVE  tc'.class[n][p] = distance_matrix[p]
    <3>0. n \in Nodes
      BY DEF Pairs
    <3>1. ClassDone(n, p) /\ LastFits(n, p)
      BY <1>3, <2>3 DEF ClassesInv, ClassState
    <3>2. CASE HasClass(n, p)
      <4>1. Latest(Classes, n, p, distance_matrix[p])
        BY <2>2, <2>4, <3>1, <3>2 DEF LastFits
      <4> QED
        BY <1>0, <2>1, <2>2, <3>0, <4>1, ClassAfter
    <3>3. CASE ~ HasClass(n, p)
      <4>1. Classes \in Seq(Nodes \X Pairs \X Linked)
        BY <1>0 DEF ShapeTypeOK, TcCommands, Classes
      <4>2. ASSUME NEW k \in 1..Len(Classes), For(Classes[k], n, p) PROVE FALSE
        <5>1. Classes[k] \in Nodes \X Pairs \X Linked /\ k \in DOMAIN Classes
          BY <4>1
        <5>2. Classes[k] = <<n, p, Classes[k][3]>> /\ Classes[k][3] \in Linked
          BY <4>2, <5>1 DEF For
        <5>3. Classes[k] \in Shell!Queued(Classes)
          BY <5>1 DEF Shell!Queued
        <5> QED
          BY <3>3, <5>2, <5>3 DEF HasClass, QueuedClass
      <4>3. TcAfter[Len(ToShape)].class[n][p] = tc.class[n][p]
        BY <1>0, <2>2, <3>0, <4>2, ClassAfter
      <4> QED
        BY <2>1, <2>2, <2>4, <3>1, <3>3, <4>3 DEF ClassDone
    <3> QED
      BY <3>2, <3>3
  <2> QED
    BY <2>1, <2>4 DEF Covered, ClassDone, Active
<1> QED
  BY <1>1, <1>4, <1>5, <1>7, <1>8, <1>9

LEMMA CoverInvariant == ShapedSpec => []CoverInv
<1>1. ShapedInit => CoverInv
  BY DEF ShapedInit, Init, StepInit, CoverInv, Covered, ClassDone, Active, Store!EmptyStore
<1>2. ASSUME CoverInv, UNCHANGED shapedVars PROVE CoverInv'
  <2>1. UNCHANGED <<store, distance_matrix, diff, failures, late, tc_cmds, tc>>
    BY <1>2 DEF shapedVars, vars, stepVars, shapeVars
  <2>2. \A n, p : (HasClass(n, p)' <=> HasClass(n, p)) /\ (Active(p)' <=> Active(p))
    BY <2>1 DEF HasClass, QueuedClass, Classes, Active
  <2> QED
    BY <1>2, <2>1, <2>2 DEF CoverInv, Covered, ClassDone
<1>3. AbortShaped => Covered'
  BY DEF AbortShaped, Abort, AbortStep, Covered, ClassDone, Active, Store!EmptyStore
<1>4. Typed /\ StoreInv /\ RootInv /\ BridgeInv /\ ClassesInv /\ CoverInv /\ ShapedNext => CoverInv'
  BY <1>3, CoverStep DEF CoverInv, ShapedNext
<1> QED
  BY <1>1, <1>2, <1>4, TypeCorrect, StoreInvariant, RootInvariant, BridgeInvariant, ClassesInvariant, PTL
     DEF ShapedSpec

(***************************************************************************)
(* As long as the environment has failed at most one step, and none failed *)
(* late, adjust_link_quality has its way: after a step that left no        *)
(* command both taps of every wanted link have the class of the link's     *)
(* present distance, whatever class commands an earlier step had left in   *)
(* the executor.                                                           *)
(***************************************************************************)
THEOREM LinksAreShaped == ShapedSpec => [](failures <= 1 => LinksShaped)
<1>1. Typed /\ StoreInv /\ CoverInv => (failures <= 1 => LinksShaped)
  <2> SUFFICES ASSUME Typed, StoreInv, CoverInv, failures <= 1, Settled, ~ late, tc_cmds = NoTc,
                      NEW p \in Wanted, NEW n \in {p[1], p[2]}
               PROVE  tc.class[n][p] = distance_matrix[p]
    BY DEF LinksShaped
  <2>1. p \in Pairs /\ Active(p) /\ diff = {}
    BY DEF Typed, InStep, Settled, StoreInv, Wanted
  <2>2. ~ HasClass(n, p)
    BY NoClasses
  <2> QED
    BY <2>1, <2>2 DEF CoverInv, Covered, ClassDone
<1> QED
  BY <1>1, TypeCorrect, StoreInvariant, CoverInvariant, PTL

(***************************************************************************)
(* The kernel, as long as every failure so far can be made up for.         *)
(***************************************************************************)

\* The bridge commands of the current step are not run yet.
Unbridged == pc \in {"idle", "pairs", "bridge", "post"}

Joining == Shell!Queued(queue.cmds["addif"])

\* The tap of the node is a port of the bridge, or about to become one.
Joined(n) == <<n, Wifi>> \in slaves \/ (Unbridged /\ <<n, Wifi>> \in Joining)

KernelState ==
  /\ Intact
  /\ \A p \in Pairs : Active(p) => Joined(p[1]) /\ Joined(p[2])
  /\ bridge /\ Wifi \notin devices => Unbridged /\ queue.cmds["addbr"] # <<>>
  /\ ~ Chainless
  /\ current_step = 0 /\ bridge /\ pc \in {"idle", "pairs", "bridge", "ebtables"} => Chain # <<>>
  /\ bridge /\ pc \in {"batch", "ipconfig", "check"} => table.chain

KernelInv == failures <= 1 /\ Intact => KernelState

\* At the checks every active pair can talk.
LEMMA ActivePairsTalk ==
  ASSUME Typed, StoreInv, BridgeInv, RulesInv, KernelState, failures <= 1, pc = "check",
         NEW p \in Pairs, Active(p)
  PROVE  CanTalk(p)
<1>1. bridge /\ ~ late
  BY DEF BridgeInv, KernelState, Intact, Bare
<1>2. <<p[1], Wifi>> \in slaves /\ <<p[2], Wifi>> \in slaves
  BY DEF KernelState, Joined, Unbridged
<1>3. Calm /\ ~ Chainless /\ ~ Waiting
  BY DEF Calm, Stuck, KernelState, Intact, Waiting
<1>4. p \in Directions /\ Reverse(p) \in Directions /\ p = <<p[1], p[2]>> /\ Reverse(p) = <<p[2], p[1]>>
  BY PairsAreDirections DEF Reverse, Pairs
<1>5. Up(p) = 1 /\ Up(Reverse(p)) = 1
  BY PairOfDirection DEF Up
<1>6. table.rules[p] = 1 /\ table.rules[Reverse(p)] = 1
  BY <1>3, <1>4, <1>5 DEF RulesInv, RuleState, RuleInv
<1> QED
  BY <1>2, <1>4, <1>6 DEF CanTalk, Reaches

\* What late and redone record of a step.
Recorded ==
  /\ late' = (late \/ (pc \in {"batch", "ipconfig", "check"} /\ pc' = "idle"))
  /\ redone' = (redone \/ (pc = "post" /\ outcome' = "failed"))

\* A step after which everything is intact begins with everything intact, and moves on from step 0.
LEMMA StaysIntact ==
  ASSUME Typed, KernelInv, ShapedStep, failures' <= 1, Intact', Recorded
  PROVE  /\ failures <= 1 /\ Intact /\ KernelState /\ ~ late /\ ~ late'
         /\ current_step' = 0 => current_step = 0 /\ ~ (pc = "post" /\ pc' = "idle")
<1>0. failures \in Nat /\ current_step \in Nat /\ late \in BOOLEAN /\ redone \in BOOLEAN
  BY StepAssumption DEF Typed, TypeOK, StepTypeOK, ShapeTypeOK
<1>i. /\ ~ late /\ ~ redone /\ ~ late' /\ Intact
      /\ ~ (pc = "post" /\ outcome' = "failed")
  BY <1>0 DEF Intact, Recorded
<1> DEFINE G == /\ failures' = failures \/ failures' = failures + 1
                /\ current_step' = 0 => current_step = 0 /\ ~ (pc = "post" /\ pc' = "idle")
<1>1. ASSUME NEW m \in Inputs, BeginShaped(m) PROVE G
  BY <1>1 DEF BeginShaped, Begin, BeginStep
<1>2. ASSUME NEW p \in Pairs, ProcessPairShaped(p) PROVE G
  BY <1>2 DEF ProcessPairShaped, ProcessPair, TakePair
<1>3. ASSUME EndOfPairs \/ RunBridge \/ BridgeError \/ RunEbtables \/ EbtablesError \/ RunBatchShaped
             \/ IpConfig \/ CheckPassesShaped
      PROVE  G
  BY <1>3 DEF EndOfPairs, PairsDone, RunBridge, Advance, BridgeError, Raise, RunEbtables, EbtablesError,
              RunBatchShaped, RunBatch, BatchDone, IpConfig, CheckPassesShaped, CheckPasses, CheckDone
<1>4. ASSUME End PROVE G
  BY <1>0, <1>4 DEF End, EndStep
<1>5. ASSUME TcError \/ CheckFails PROVE G
  BY <1>5 DEF TcError, CheckFails, Raise
<1>6. ASSUME NEW point \in FailPoints, Failure(point) PROVE G
  BY <1>i, <1>6 DEF Failure, EnvFailure, Raise
<1>7. ASSUME BatchFails PROVE G
  BY <1>7 DEF BatchFails, Failure, EnvFailure, Raise
<1>9. G
  <2> HIDE DEF G
  <2> QED
    BY <1>1, <1>2, <1>3, <1>4, <1>5, <1>6, <1>7 DEF ShapedStep
<1>10. failures <= 1
  BY <1>0, <1>9
<1> QED
  BY <1>i, <1>9, <1>10 DEF KernelInv

\* Bridge commands only add to the kernel, and the taps that were to join are ports.
LEMMA BridgeRunEffect ==
  ASSUME TypeOK, queue.ordered, BridgeCommandsRun
  PROVE  /\ devices \subseteq devices' /\ slaves \subseteq slaves'
         /\ queue.cmds["addbr"] # <<>> => Wifi \in devices'
         /\ Wifi \in devices' => Joining \subseteq slaves'
<1> DEFINE b == queue.cmds["addbr"]
           f == queue.cmds["addif"]
<1>1. /\ b \in Seq({Wifi}) /\ f \in Seq(Nodes \X {Wifi}) /\ slaves \subseteq Nodes \X {Wifi}
      /\ ToAddBr = b /\ ToAddIf = f
  BY DEF TypeOK, ToAddBr, ToAddIf, Shell!Runnable
<1>2. Joining = {f[k] : k \in DOMAIN f}
  BY DEF Joining, Shell!Queued
<1> HIDE DEF b, f
<1>3. devices' = devices \cup {b[k] : k \in DOMAIN b}
  BY <1>1 DEF BridgeCommandsRun, AddBr
<1>4. slaves' = slaves \cup {c \in Joining : c[2] \in devices' /\ \A s \in slaves : s[1] # c[1]}
  BY <1>1, <1>2 DEF BridgeCommandsRun, AddIf
<1>5. b # <<>> => Wifi \in devices'
  <2> SUFFICES ASSUME b # <<>> PROVE Wifi \in devices'
    OBVIOUS
  <2>1. 1 \in DOMAIN b /\ b[1] = Wifi
    BY <1>1
  <2> QED
    BY <1>3, <2>1
<1>6. Joining \subseteq Nodes \X {Wifi}
  <2>1. \A k \in DOMAIN f : f[k] \in Nodes \X {Wifi}
    BY <1>1
  <2> QED
    BY <1>2, <2>1
<1>7. ASSUME Wifi \in devices', NEW c \in Joining PROVE c \in slaves'
  <2>1. c[2] = Wifi /\ \A s \in slaves : s[1] = c[1] => s = c
    BY <1>1, <1>6
  <2> QED
    BY <1>4, <1>7, <2>1
<1> QED
  BY <1>3, <1>4, <1>5, <1>7 DEF b

\* Every step keeps the ports, the bridge and its chain.
LEMMA KernelStep ==
  ASSUME Typed, StoreInv, RootInv, BridgeInv, RulesInv, KernelInv, ShapedStep, failures' <= 1,
         Intact', Recorded
  PROVE  KernelState'
<1>0. TypeOK /\ bridge \in BOOLEAN /\ table \in Tables
  BY DEF Typed, TypeOK
<1>1. /\ failures <= 1 /\ KernelState /\ ~ late /\ ~ late' /\ Intact'
      /\ current_step' = 0 => current_step = 0 /\ ~ (pc = "post" /\ pc' = "idle")
  BY StaysIntact
<1>2. \/ \E m \in Inputs : BeginShaped(m)
      \/ \E p \in Pairs : ProcessPairShaped(p)
      \/ Quiet \/ BridgeRuns \/ EbtablesRuns \/ BatchRuns \/ ChecksPass \/ Errors \/ Fails1
  BY <1>1, StepKinds DEF Recorded
<1>3. /\ ~ bridge => Bare
      /\ Distinct(Rules)
      /\ queue.ordered \/ pc \in {"ipconfig", "check"}
  BY <1>1 DEF BridgeInv, RootInv
<1>k. /\ \A p \in Pairs : Active(p) => Joined(p[1]) /\ Joined(p[2])
      /\ bridge /\ Wifi \notin devices => Unbridged /\ queue.cmds["addbr"] # <<>>
      /\ ~ Chainless
      /\ current_step = 0 /\ bridge /\ pc \in {"idle", "pairs", "bridge", "ebtables"} => Chain # <<>>
      /\ bridge /\ pc \in {"batch", "ipconfig", "check"} => table.chain
  BY <1>1 DEF KernelState
<1>4. ASSUME NEW m \in Inputs, BeginShaped(m) PROVE KernelState'
  <2>1. /\ pc = "idle" /\ pc' \in {"pairs", "post"}
        /\ table' = IF current_step = 0 THEN EmptyTable ELSE table
        /\ UNCHANGED <<queue, store, bridge, devices, slaves, current_step>>
    BY <1>4 DEF BeginShaped, Begin, BeginStep
  <2>2. Chain' = Chain /\ Joining' = Joining /\ Unbridged /\ Unbridged'
    BY <2>1 DEF Chain, Joining, Unbridged
  <2>3. \A p \in Pairs : Active(p)' => Joined(p[1])' /\ Joined(p[2])'
    BY <1>k, <2>1, <2>2 DEF Active, Joined
  <2>4. ~ Chainless'
    BY <1>k, <2>1, <2>2 DEF Chainless
  <2> QED
    BY <1>1, <1>k, <2>1, <2>2, <2>3, <2>4 DEF KernelState
<1>5. ASSUME NEW p \in Pairs, ProcessPairShaped(p) PROVE KernelState'
  <2>1. /\ pc = "pairs" /\ pc' = "pairs" /\ UNCHANGED <<devices, slaves, table, current_step>>
        /\ PairUp(p) \/ PairDown(p) \/ PairKept(p)
        /\ \A r \in Pairs \ {p} : Active(r)' <=> Active(r)
    BY <1>0, <1>5, PairCases DEF TakePair, kernelVars, Active
  <2>2. Unbridged /\ Unbridged'
    BY <2>1 DEF Unbridged
  <2>3. CASE PairUp(p)
    <3>1. /\ bridge' = TRUE
          /\ Chain' = IF bridge THEN Chain ELSE Shell!AddUnique(Chain, "new")
          /\ queue.cmds["addbr"]' = IF bridge THEN queue.cmds["addbr"]
                                    ELSE Shell!AddUnique(queue.cmds["addbr"], Wifi)
          /\ Joining' = Joining \cup {<<p[1], Wifi>>, <<p[2], Wifi>>}
      BY <1>0, <1>3, <2>3, UpCommands DEF PairUp, Joining
    <3>2. \A r \in Pairs : Active(r)' => Joined(r[1])' /\ Joined(r[2])'
      BY <1>k, <2>1, <2>2, <3>1 DEF Joined
    <3>3. ~ bridge => Chain' # <<>> /\ queue.cmds["addbr"]' # <<>>
      <4> SUFFICES ASSUME ~ bridge PROVE Chain' # <<>> /\ queue.cmds["addbr"]' # <<>>
        OBVIOUS
      <4>1. Chain = <<>> /\ queue.cmds["addbr"] = <<>>
        BY <1>3, NothingQueued DEF Bare, Chain
      <4>2. \A x : Shell!AddUnique(<<>>, x) # <<>>
        <5>1. Shell!Queued(<<>>) = {}
          BY DEF Shell!Queued
        <5>2. \A x : Append(<<>>, x) # <<>>
          OBVIOUS
        <5> QED
          BY <5>1, <5>2 DEF Shell!AddUnique
      <4> QED
        BY <3>1, <4>1, <4>2
    <3>4. ~ Chainless'
      BY <1>k, <2>1, <3>1, <3>3 DEF Chainless
    <3> QED
      BY <1>1, <1>k, <2>1, <2>2, <3>1, <3>2, <3>3, <3>4 DEF KernelState
  <2>4. CASE PairDown(p)
    <3>1. /\ bridge' = bridge /\ Chain' = Chain /\ queue.cmds["addbr"]' = queue.cmds["addbr"]
          /\ Joining' = Joining /\ ~ Active(p)'
      BY <1>0, <1>3, <2>4, DownCommands DEF PairDown, Joining
    <3>2. \A r \in Pairs : Active(r)' => Joined(r[1])' /\ Joined(r[2])'
      BY <1>k, <2>1, <2>2, <3>1 DEF Joined
    <3>3. ~ Chainless'
      BY <1>k, <2>1, <3>1 DEF Chainless
    <3> QED
      BY <1>1, <1>k, <2>1, <2>2, <3>1, <3>2, <3>3 DEF KernelState
  <2>5. CASE PairKept(p)
    <3>1. UNCHANGED <<store, queue, bridge>> /\ Chain' = Chain /\ Joining' = Joining
      BY <2>5 DEF PairKept, Chain, Joining
    <3>2. \A r \in Pairs : Active(r)' => Joined(r[1])' /\ Joined(r[2])'
      BY <1>k, <2>1, <2>2, <3>1 DEF Joined, Active
    <3>3. ~ Chainless'
      BY <1>k, <2>1, <3>1 DEF Chainless
    <3> QED
      BY <1>1, <1>k, <2>1, <2>2, <3>1, <3>2, <3>3 DEF KernelState
  <2> QED
    BY <2>1, <2>3, <2>4, <2>5
\* Steps that leave the queue and the table alone, and go on or back.
<1>6. ASSUME Same, UNCHANGED <<devices, slaves>>,
             Unbridged => Unbridged',
             pc' \in {"batch", "ipconfig", "check"} => pc \in {"batch", "ipconfig", "check"},
             current_step' = 0 /\ pc' \in {"idle", "pairs", "bridge", "ebtables"}
               => pc \in {"idle", "pairs", "bridge", "ebtables"}
      PROVE  KernelState'
  <2>1. /\ UNCHANGED <<queue, bridge, table>> /\ Chain' = Chain /\ Joining' = Joining
        /\ \A p : Active(p)' <=> Active(p)
    BY <1>6 DEF Same, Chain, Joining, Active
  <2>2. \A r \in Pairs : Active(r)' => Joined(r[1])' /\ Joined(r[2])'
    BY <1>k, <1>6, <2>1 DEF Joined
  <2>3. ~ Chainless'
    BY <1>k, <2>1 DEF Chainless
  <2> QED
    BY <1>1, <1>k, <1>6, <2>1, <2>2, <2>3 DEF KernelState
<1>7. CASE Quiet
  <2>1. pc = "post" /\ pc' = "idle" => current_step' # 0
    BY <1>1
  <2> QED
    BY <1>6, <1>7, <2>1 DEF Quiet, Unbridged
<1>8. CASE Errors
  BY <1>6, <1>8 DEF Errors, Unbridged
<1>9. CASE BridgeRuns
  <2>1. /\ pc = "bridge" /\ pc' = "ebtables" /\ Same /\ BridgeCommandsRun
        /\ Chain' = Chain /\ Joining' = Joining /\ UNCHANGED <<bridge, table, queue>>
        /\ \A p : Active(p)' <=> Active(p)
    BY <1>9 DEF BridgeRuns, RunBridge, Same, Chain, Joining, Active
  <2>2. /\ devices \subseteq devices' /\ slaves \subseteq slaves'
        /\ queue.cmds["addbr"] # <<>> => Wifi \in devices'
        /\ Wifi \in devices' => Joining \subseteq slaves'
    BY <1>0, <1>3, <2>1, BridgeRunEffect
  <2>3. bridge => Wifi \in devices'
    BY <1>k, <2>2
  <2>4. \A r \in Pairs : Active(r)' => Joined(r[1])' /\ Joined(r[2])'
    BY <1>3, <1>k, <2>1, <2>2, <2>3 DEF Joined, Bare
  <2>5. ~ Chainless'
    BY <1>k, <2>1 DEF Chainless
  <2> QED
    BY <1>1, <1>k, <2>1, <2>3, <2>4, <2>5 DEF KernelState
<1>10. CASE EbtablesRuns
  <2>1. /\ pc = "ebtables" /\ pc' = "batch" /\ table' = EbtablesRun.table
        /\ Chain' = Chain /\ Joining' = Joining /\ UNCHANGED <<bridge, queue, devices, slaves>>
        /\ \A p : Active(p)' <=> Active(p)
    BY <1>10 DEF EbtablesRuns, Chain, Joining, Active
  <2>2. table'.chain = (table.chain \/ Chain # <<>>)
    BY <1>0, <1>3, <2>1, EbtablesChain
  <2>3. bridge => table'.chain
    BY <1>k, <2>2 DEF Chainless
  <2>4. \A r \in Pairs : Active(r)' => Joined(r[1])' /\ Joined(r[2])'
    BY <1>k, <2>1 DEF Joined, Unbridged
  <2>5. bridge => Wifi \in devices
    BY <1>k, <2>1 DEF Unbridged
  <2> QED
    BY <1>1, <2>1, <2>3, <2>4, <2>5 DEF KernelState, Chainless
<1>11. CASE BatchRuns \/ ChecksPass
  <2>1. /\ pc \in {"batch", "check"} /\ pc' \in {"ipconfig", "post"}
        /\ UNCHANGED <<store, bridge, table, devices, slaves>>
    BY <1>11 DEF BatchRuns, ChecksPass
  <2>2. \A r \in Pairs : Active(r)' => Joined(r[1])' /\ Joined(r[2])'
    BY <1>k, <2>1 DEF Joined, Unbridged, Active
  <2>3. bridge => Wifi \in devices /\ table.chain
    BY <1>k, <2>1 DEF Unbridged
  <2> QED
    BY <1>1, <2>1, <2>2, <2>3 DEF KernelState, Chainless
<1>12. CASE Fails1
  <2>0. pc = "post" /\ pc' = "idle" => current_step' # 0
    BY <1>1
  <2>1. /\ Same /\ pc' = "idle" /\ pc \in {"bridge", "ebtables", "post"}
        /\ UNCHANGED <<devices, slaves>> \/ (pc = "bridge" /\ BridgeCommandsRun)
    BY <1>12 DEF Fails1
  <2>2. CASE UNCHANGED <<devices, slaves>>
    BY <1>6, <2>0, <2>1, <2>2 DEF Unbridged
  <2>3. CASE pc = "bridge" /\ BridgeCommandsRun
    <3>1. /\ UNCHANGED <<queue, bridge, table>> /\ Chain' = Chain /\ Joining' = Joining
          /\ \A p : Active(p)' <=> Active(p)
      BY <2>1 DEF Same, Chain, Joining, Active
    <3>2. /\ devices \subseteq devices' /\ slaves \subseteq slaves'
          /\ Unbridged /\ Unbridged'
      BY <1>0, <1>3, <2>1, <2>3, BridgeRunEffect DEF Unbridged
    <3>3. \A r \in Pairs : Active(r)' => Joined(r[1])' /\ Joined(r[2])'
      BY <1>k, <3>1, <3>2 DEF Joined
    <3>4. ~ Chainless'
      BY <1>k, <3>1 DEF Chainless
    <3> QED
      BY <1>1, <1>k, <2>1, <2>3, <3>1, <3>2, <3>3, <3>4 DEF KernelState
  <2> QED
    BY <2>1, <2>2, <2>3
<1> QED
  BY <1>2, <1>4, <1>5, <1>7, <1>8, <1>9, <1>10, <1>11, <1>12

LEMMA KernelInvariant == ShapedSpec => []KernelInv
<1>1. ShapedInit => KernelInv
  BY DEF ShapedInit, Init, StepInit, KernelInv, KernelState, Intact, Chainless, Active, Store!EmptyStore
<1>2. ASSUME KernelInv, UNCHANGED shapedVars PROVE KernelInv'
  <2>1. UNCHANGED <<pc, queue, store, failures, late, redone, current_step, bridge, devices, slaves, table>>
    BY <1>2 DEF shapedVars, vars, stepVars, kernelVars
  <2>2. /\ Chain' = Chain /\ \A n : Joined(n)' <=> Joined(n)
        /\ \A p : Active(p)' <=> Active(p)
        /\ Unbridged' <=> Unbridged
    BY <2>1 DEF Chain, Joined, Joining, Unbridged, Active
  <2> QED
    BY <1>2, <2>1, <2>2 DEF KernelInv, KernelState, Intact, Chainless
<1>3. AbortShaped => KernelState'
  BY DEF AbortShaped, Abort, AbortStep, KernelState, Intact, Chainless, Active, Store!EmptyStore
<1>4. Typed /\ StoreInv /\ RootInv /\ BridgeInv /\ RulesInv /\ KernelInv /\ ShapedNext => KernelInv'
  BY <1>3, KernelStep DEF KernelInv, ShapedNext, Recorded
<1> QED
  BY <1>1, <1>2, <1>4, TypeCorrect, StoreInvariant, RootInvariant, BridgeInvariant, RulesInvariant, PTL
     DEF ShapedSpec

(***************************************************************************)
(* With at most one failed step, and as long as it can be made up for,     *)
(* exactly the wanted pairs can exchange frames after a step that left no  *)
(* command: the commands of the failed step are run with those of the next *)
(* one, and together they have the effect that they would have had one     *)
(* after the other.  The checks of every step find its links working.      *)
(***************************************************************************)
THEOREM KernelFollows == ShapedSpec => [](failures <= 1 => KernelFollowsMatrix)
<1>1. ASSUME Typed, StoreInv, BridgeInv, RulesInv, KernelInv, failures <= 1, Intact, Settled,
             queue.cmds = Shell!NoCommands, NEW p \in Pairs
      PROVE  IF p \in Wanted THEN CanTalk(p) ELSE ~ Reaches(p[1], p[2]) /\ ~ Reaches(p[2], p[1])
  <2>1. /\ Rules = <<>> /\ Chain = <<>> /\ queue.cmds["addbr"] = <<>> /\ Joining = {}
        /\ pc = "idle" /\ diff = {} /\ KernelState /\ ~ late
    BY <1>1, NothingQueued DEF Rules, Chain, Joining, Shell!Queued, Settled, Typed, InStep, KernelInv,
       KernelState, Intact
  <2>2. Calm /\ ~ Chainless /\ Waiting
    BY <1>1, <2>1 DEF Calm, Stuck, KernelState, Waiting
  <2>3. p \in Wanted <=> Active(p)
    BY <1>1, <2>1 DEF StoreInv, Wanted
  <2>4. p \in Directions /\ Reverse(p) \in Directions /\ p = <<p[1], p[2]>> /\ Reverse(p) = <<p[2], p[1]>>
    BY PairsAreDirections DEF Reverse, Pairs
  <2>5. ASSUME NEW d \in Directions PROVE table.rules[d] = Up(d)
    <3>1. Target(Rules, d, table.rules[d], Up(d))
      BY <1>1, <2>2 DEF RulesInv, RuleState, RuleInv
    <3>2. Len(<<>>) = 0 /\ \A x : ~ Among(<<>>, 0, x)
      BY DEF Among
    <3> QED
      BY <2>1, <3>1, <3>2 DEF Target, Count
  <2>6. Up(p) = (IF Active(p) THEN 1 ELSE 0) /\ Up(Reverse(p)) = (IF Active(p) THEN 1 ELSE 0)
    BY PairOfDirection DEF Up
  <2>7. CASE Active(p)
    <3>1. <<p[1], Wifi>> \in slaves /\ <<p[2], Wifi>> \in slaves
      BY <2>1, <2>7 DEF KernelState, Joined
    <3>2. table.rules[<<p[1], p[2]>>] = 1 /\ table.rules[<<p[2], p[1]>>] = 1
      BY <2>4, <2>5, <2>6, <2>7
    <3> QED
      BY <2>3, <2>7, <3>1, <3>2 DEF CanTalk, Reaches
  <2>8. CASE ~ Active(p)
    <3>1. table.rules[<<p[1], p[2]>>] = 0 /\ table.rules[<<p[2], p[1]>>] = 0
      BY <2>4, <2>5, <2>6, <2>8
    <3>2. slaves = {} \/ table.chain
      BY <1>1, <2>1, <2>2 DEF BridgeInv, Bare, Chainless
    <3> QED
      BY <2>3, <2>8, <3>1, <3>2 DEF Reaches
  <2> QED
    BY <2>7, <2>8
<1>2. ASSUME Typed, StoreInv, BridgeInv, RulesInv, KernelInv, failures <= 1, Intact, pc = "check",
             NEW p \in NewPairs
      PROVE  CanTalk(p)
  <2>1. p \in Pairs /\ Active(p) /\ KernelState
    BY <1>2 DEF NewPairs, Store!ActivePairs, Active, KernelInv
  <2> QED
    BY <1>2, <2>1, ActivePairsTalk
<1>3. Typed /\ StoreInv /\ BridgeInv /\ RulesInv /\ KernelInv => (failures <= 1 => KernelFollowsMatrix)
  BY <1>1, <1>2 DEF KernelFollowsMatrix
<1> QED
  BY <1>3, KernelInvariant, TypeCorrect, StoreInvariant, BridgeInvariant, RulesInvariant, PTL

(***************************************************************************)
(* The refinement.                                                         *)
(***************************************************************************)
Busy == pc \in {"pairs", "bridge", "ebtables"}

\* Before the first commands are run, no link is visible.
LEMMA NothingVisible ==
  ASSUME BridgeInv, KernelState, pc = "idle", current_step = 0
  PROVE  table = EmptyTable
  BY DEF BridgeInv, KernelState, Intact, Bare, Waiting

\* Every step that keeps everything intact is a step of the topology switch, or does not
\* change what it shows.
LEMMA SwitchStep ==
  ASSUME Typed, StoreInv, RootInv, BridgeInv, RulesInv, KernelInv, failures' <= 1,
         Intact', ShapedStep, Recorded
  PROVE  \/ Topology!Next
         \/ Wanted' = Wanted /\ Visible' = Visible /\ Busy' = Busy
<1>0. /\ TypeOK /\ KernelState /\ Intact /\ Intact' /\ ~ late /\ ~ late' /\ failures <= 1
      /\ pc # "pairs" => diff = {}
      /\ current_step' = 0 => current_step = 0 /\ ~ (pc = "post" /\ pc' = "idle")
  BY StaysIntact DEF Typed, InStep
<1>1. \/ \E m \in Inputs : BeginShaped(m)
      \/ \E p \in Pairs : ProcessPairShaped(p)
      \/ Quiet \/ BridgeRuns \/ EbtablesRuns \/ BatchRuns \/ ChecksPass \/ Errors \/ Fails1
  BY <1>0, StepKinds DEF Recorded
<1>2. Topology!Next <=>
        \/ ~ Busy /\ Wanted' \in SUBSET Pairs /\ Busy' = TRUE /\ Visible' = Visible
        \/ Busy /\ Visible' = Wanted /\ Busy' = FALSE /\ Wanted' = Wanted
        \/ Busy /\ Busy' = FALSE /\ Wanted' = Wanted /\ Visible' = Visible
        \/ ~ Busy /\ Wanted' = {} /\ Visible' = {} /\ Busy' = Busy
  BY <1>0 DEF Topology!Next, Topology!Move, Topology!Switch, Topology!Fail, Topology!Stop, Busy
<1>3. ASSUME NEW m \in Inputs, BeginShaped(m)
      PROVE  \/ Topology!Next
             \/ Wanted' = Wanted /\ Visible' = Visible /\ Busy' = Busy
  <2>1. /\ pc = "idle" /\ distance_matrix' = m
        /\ \/ pc' = "pairs"
           \/ pc' = "post" /\ current_step # 0 /\ Changed(m) = {}
        /\ table' = IF current_step = 0 THEN EmptyTable ELSE table
    BY <1>3 DEF BeginShaped, Begin, BeginStep
  <2>2. table' = table
    BY <1>0, <2>1, NothingVisible
  <2>3. Visible' = Visible /\ Busy = FALSE /\ Wanted' \in SUBSET Pairs
    BY <2>1, <2>2 DEF Visible, Busy, Wanted
  <2>4. CASE pc' = "pairs"
    BY <1>2, <2>3, <2>4 DEF Busy
  <2>5. CASE pc' = "post" /\ Changed(m) = {}
    <3>1. Wanted' = Wanted
      BY <2>1, <2>5 DEF Wanted, Changed
    <3> QED
      BY <2>3, <2>5, <3>1 DEF Busy
  <2> QED
    BY <2>1, <2>4, <2>5
<1>4. ASSUME NEW p \in Pairs, ProcessPairShaped(p)
      PROVE  Wanted' = Wanted /\ Visible' = Visible /\ Busy' = Busy
  BY <1>4 DEF ProcessPairShaped, ProcessPair, TakePair, kernelVars, Wanted, Visible, Busy
<1>5. CASE Quiet \/ BridgeRuns \/ BatchRuns \/ ChecksPass
  <2>1. /\ UNCHANGED <<distance_matrix, table>>
        /\ \/ pc = "pairs" /\ pc' = "bridge"
           \/ pc = "ipconfig" /\ pc' = "check"
           \/ pc = "post" /\ pc' = "idle"
           \/ pc = "bridge" /\ pc' = "ebtables"
           \/ pc = "batch" /\ pc' = "ipconfig"
           \/ pc = "check" /\ pc' = "post"
    BY <1>5 DEF Quiet, BridgeRuns, BatchRuns, ChecksPass, Same
  <2>2. Wanted' = Wanted /\ Visible' = Visible
    BY <2>1 DEF Wanted, Visible
  <2>3. Busy' = Busy
    BY <2>1 DEF Busy
  <2> QED
    BY <2>2, <2>3
<1>6. CASE Errors \/ Fails1
  <2>1. /\ UNCHANGED <<distance_matrix, table>>
        /\ pc \in {"bridge", "ebtables", "post"} /\ pc' = "idle"
    BY <1>6 DEF Errors, Fails1, Same
  <2>2. Wanted' = Wanted /\ Visible' = Visible /\ Busy' = FALSE /\ Busy \in BOOLEAN
    BY <2>1 DEF Wanted, Visible, Busy
  <2> QED
    BY <1>2, <2>2
<1>7. CASE EbtablesRuns
  <2>1. pc = "ebtables" /\ pc' = "batch" /\ table' = EbtablesRun.table /\ distance_matrix' = distance_matrix
    BY <1>7 DEF EbtablesRuns
  <2>2. Calm /\ ~ Chainless /\ RuleState
    BY <1>0, <2>1 DEF Calm, Stuck, KernelState, RulesInv
  <2>3. \A d \in Directions : table'.rules[d] = Up(d)
    BY <2>1, <2>2, EbtablesSucceeds
  <2>4. ASSUME NEW p \in Pairs
        PROVE  (table'.rules[p] > 0 /\ table'.rules[Reverse(p)] > 0) <=> distance_matrix[p] \in Linked
    <3>1. p \in Directions /\ Reverse(p) \in Directions /\ PairOf(p) = p /\ PairOf(Reverse(p)) = p
      BY PairsAreDirections, PairOfDirection
    <3>2. Active(p) <=> distance_matrix[p] \in Linked
      BY <1>0, <2>1 DEF StoreInv
    <3>3. Up(p) = (IF Active(p) THEN 1 ELSE 0) /\ Up(Reverse(p)) = (IF Active(p) THEN 1 ELSE 0)
      BY <3>1 DEF Up
    <3> QED
      BY <2>3, <3>1, <3>2, <3>3
  <2>5. Visible' = Wanted /\ Wanted' = Wanted /\ Busy /\ Busy' = FALSE
    BY <2>1, <2>4 DEF Visible, Wanted, Busy
  <2> QED
    BY <1>2, <2>5
<1> QED
  BY <1>1, <1>3, <1>4, <1>5, <1>6, <1>7

(***************************************************************************)
(* The safety part of ImplementsTopologySwitch, for one failed step in any *)
(* phase: the atomic commit of the ebtables takes the nodes from the links *)
(* of one distance matrix to those of the next, and nothing else that a    *)
(* step or an abort does changes what they see.                            *)
(***************************************************************************)
THEOREM ImplementsTopologySwitchSafely ==
  MaxFailures <= 1 /\ ShapedSpec => Topology!SafeSpec
<1> SUFFICES ASSUME MaxFailures <= 1 PROVE ShapedSpec => Topology!SafeSpec
  OBVIOUS
<1>1. ShapedInit => Topology!Init
  <2> SUFFICES ASSUME ShapedInit PROVE Topology!Init
    OBVIOUS
  <2>1. pc = "idle" /\ Wanted = {} /\ Visible = {}
    <3>1. \A d \in Pairs : table.rules[d] = 0
      BY PairsAreDirections DEF ShapedInit, Init, EmptyTable
    <3> QED
      BY <3>1, StepAssumption DEF ShapedInit, Init, StepInit, Wanted, Visible
  <2> QED
    BY <2>1 DEF Topology!Init
<1>3. ASSUME Typed, StoreInv, RootInv, BridgeInv, RulesInv, KernelInv, Typed', ShapedNext
      PROVE  [Topology!Next]_Topology!vars
  <2>1. failures' <= 1
    <3>1. failures' \in 0..MaxFailures
      BY <1>3 DEF Typed, TypeOK, StepTypeOK
    <3> QED
      BY <3>1, StepAssumption
  <2>2. CASE AbortShaped
    <3>1. /\ pc = "idle" /\ pc' = "idle" /\ distance_matrix' = [p \in Pairs |-> NoEntry]
          /\ table' = EmptyTable
      BY <2>2 DEF AbortShaped, Abort, AbortStep
    <3>2. \A d \in Pairs : table'.rules[d] = 0
      BY <3>1, PairsAreDirections DEF EmptyTable
    <3>3. Wanted' = {} /\ Visible' = {}
      BY <3>1, <3>2, StepAssumption DEF Wanted, Visible
    <3> QED
      BY <3>1, <3>3 DEF Topology!Next, Topology!Stop
  <2>3. ASSUME ShapedStep, Recorded
        PROVE  [Topology!Next]_Topology!vars
    <3>1. CASE Intact'
      <4>1. \/ Topology!Next
            \/ Wanted' = Wanted /\ Visible' = Visible /\ Busy' = Busy
        BY <1>3, <2>1, <2>3, <3>1, SwitchStep
      <4>2. Intact
        BY <1>3, <2>1, <2>3, <3>1, StaysIntact
      <4> QED
        BY <3>1, <4>1, <4>2 DEF Topology!vars, Busy
    <3>2. CASE Intact /\ ~ Intact'
      <4>1. pc \in {"batch", "ipconfig", "check", "post"}
        BY <2>3, <3>2 DEF Recorded, Intact
      <4> QED
        BY <3>2, <4>1 DEF Topology!Next, Topology!Stop
    <3>3. CASE ~ Intact /\ ~ Intact'
      BY <3>3 DEF Topology!vars
    <3> QED
      BY <3>1, <3>2, <3>3
  <2> QED
    BY <1>3, <2>2, <2>3 DEF ShapedNext, Recorded
<1>4. UNCHANGED shapedVars => UNCHANGED Topology!vars
  BY DEF shapedVars, vars, stepVars, kernelVars, Topology!vars, Wanted, Visible, Intact
<1>6. Typed /\ StoreInv /\ RootInv /\ BridgeInv /\ RulesInv /\ KernelInv /\ Typed'
        /\ [ShapedNext]_shapedVars => [Topology!Next]_Topology!vars
  BY <1>3, <1>4
<1> QED
  BY <1>1, <1>6, KernelInvariant, TypeCorrect, StoreInvariant, RootInvariant, BridgeInvariant,
     RulesInvariant, PTL DEF ShapedSpec, Topology!SafeSpec
=============================================================================

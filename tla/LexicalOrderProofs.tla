------------------------- MODULE LexicalOrderProofs -------------------------
(***************************************************************************)
(* What Loop::setLexicalOrder promises, for every number of statements and *)
(* levels and every program: its graphs never have a cycle, each call      *)
(* numbers the statements of one loop and no others, and the order it ends *)
(* with respects the dependences, whichever loops typed_fusion has fused.  *)
(*                                                                         *)
(* The invariant speaks of pairs of statements.  As long as two are in the *)
(* same call, no dependence between them runs backwards in the loops       *)
(* outside; the call that parts them does it at its level, the later call  *)
(* for the target of an edge; and no call made after changes a component   *)
(* of the order up to that level.                                          *)
(***************************************************************************)
EXTENDS LexicalOrder, OperatorProofs, SequenceTheorems, FiniteSetTheorems, TLAPS

LEMMA SetToSeqOnto ==
  ASSUME NEW S, IsFiniteSet(S)
  PROVE  /\ SetToSeq(S) \in [1 .. Cardinality(S) -> S]
         /\ \A i, j \in 1 .. Cardinality(S) : SetToSeq(S)[i] = SetToSeq(S)[j] => i = j
         /\ \A x \in S : \E i \in 1 .. Cardinality(S) : SetToSeq(S)[i] = x
<1> DEFINE D == 1 .. Cardinality(S)
           q == SetToSeq(S)
<1>1. PICK f \in Bijection(D, S) : TRUE
  BY FS_CardinalityType DEF ExistsBijection
<1>2. f \in [D -> S] /\ IsInjective(f)
  BY <1>1 DEF Bijection, Injection
<1>3. q \in [D -> S] /\ IsInjective(q)
  BY <1>2 DEF SetToSeq
<1> HIDE DEF q
<1>4. q \in Injection(D, S)
  BY <1>3 DEF Injection
<1>5. Cardinality(D) = Cardinality(S)
  <2>1. Cardinality(S) \in Nat
    BY FS_CardinalityType
  <2> QED
    BY <2>1, FS_Interval
<1>6. q \in Surjection(D, S)
  BY <1>4, <1>5, FS_Injection
<1> QED
  BY <1>3, <1>6 DEF Surjection, IsInjective, q

-----------------------------------------------------------------------------
(* The plan that loops are fused by.                                       *)

\* The group numbers that a loop m may not be numbered below.
After(num, edges, bad, m) ==
  {1} \union {num[p[1]] : p \in {e \in edges : e[2] = m}}
      \union {num[p[1]]+1 : p \in {e \in bad : e[2] = m}}

\* A plan for the loops S, which are closed under the edges into them.
PartialPlan(S, num, k, edges, bad) ==
  /\ \A p \in edges : p[2] \in S => p[1] \in S
  /\ num \in [S -> 1 .. k]
  /\ \A m \in S : num[m] = Max(After(num, edges, bad, m))

\* Loops can be added to a plan one after the other, each after the loops that
\* lead to it: an acyclic graph has a plan.
LEMMA PlanGrows ==
  ASSUME NEW n \in Nat, NEW E, E \subseteq (0 .. n-1) \X (0 .. n-1), NEW B, B \subseteq E,
         Acyclic(n, E), \A p \in E : p[1] # p[2],
         NEW k \in 1 .. n, NEW S \in SUBSET (0 .. n-1), Cardinality(S) = k-1,
         NEW f, PartialPlan(S, f, k-1, E, B)
  PROVE  \E T \in SUBSET (0 .. n-1) : Cardinality(T) = k /\ \E g : PartialPlan(T, g, k, E, B)
<1> DEFINE V == 0 .. n-1
           U == V \ S
<1>1. IsFiniteSet(V) /\ Cardinality(V) = n
  BY VerticesCount
<1>2. U # {} /\ U \in SUBSET V
  <2>1. S # V
    BY <1>1
  <2> QED
    BY <2>1
<1>3. PICK m \in U : \A a \in U \ {m} : <<a, m>> \notin E
  <2> HIDE DEF U
  <2> QED
    BY <1>2, AcyclicHasFirst
<1> DEFINE T == S \union {m}
           top == Max(After(f, E, B, m))
           g == [x \in T |-> IF x = m THEN top ELSE f[x]]
<1>4. T \in SUBSET V /\ Cardinality(T) = k
  <2>1. IsFiniteSet(S)
    BY <1>1, FS_Subset
  <2> QED
    BY <2>1, FS_AddElement
<1>5. \A p \in E : p = <<p[1], p[2]>> /\ p[1] \in V /\ p[2] \in V
  OBVIOUS
<1>6. /\ \A p \in E : p[2] \in T => p[1] \in S
      /\ \A p \in B : p \in E
  <2>1. ASSUME NEW p \in E, p[2] = m
        PROVE  p[1] \in S
    <3>1. p[1] # m /\ <<p[1], m>> \in E /\ p[1] \in V
      BY <1>5, <2>1
    <3> QED
      BY <1>3, <3>1
  <2> QED
    BY <2>1 DEF PartialPlan
<1>7. f \in [S -> 1 .. k-1] /\ \A x \in S : f[x] = Max(After(f, E, B, x))
  BY DEF PartialPlan
<1>8. top \in 1 .. k
  <2> DEFINE A == After(f, E, B, m)
  <2>1. A \subseteq 1 .. k /\ 1 \in A
    <3>1. \A p \in E : p[2] = m => f[p[1]] \in 1 .. k-1
      BY <1>6, <1>7
    <3> QED
      BY <1>6, <3>1 DEF After
  <2> HIDE DEF A
  <2>2. A \in SUBSET Int /\ A # {} /\ \A x \in A : x <= k
    BY <2>1
  <2>3. Max(A) \in A
    BY <2>2, MaxBounded
  <2> QED
    BY <2>1, <2>3 DEF A
<1> HIDE DEF top
<1>9. g \in [T -> 1 .. k] /\ \A x \in S : x # m /\ g[x] = f[x]
  BY <1>7, <1>8
<1>10. g[m] = top
  OBVIOUS
<1> HIDE DEF g
<1>11. \A x \in T : After(g, E, B, x) = After(f, E, B, x)
  <2> SUFFICES ASSUME NEW x \in T PROVE After(g, E, B, x) = After(f, E, B, x)
    OBVIOUS
  <2>1. \A p \in E : p[2] = x => g[p[1]] = f[p[1]]
    BY <1>6, <1>9
  <2>2. {g[p[1]] : p \in {e \in E : e[2] = x}} = {f[p[1]] : p \in {e \in E : e[2] = x}}
    BY <2>1
  <2>3. {g[p[1]]+1 : p \in {e \in B : e[2] = x}} = {f[p[1]]+1 : p \in {e \in B : e[2] = x}}
    BY <1>6, <2>1
  <2> QED
    BY <2>2, <2>3 DEF After
<1>12. \A x \in T : g[x] = Max(After(g, E, B, x))
  BY <1>7, <1>9, <1>10, <1>11 DEF top
<1>13. PartialPlan(T, g, k, E, B)
  BY <1>6, <1>9, <1>12 DEF PartialPlan
<1> HIDE DEF T
<1> QED
  BY <1>4, <1>13

LEMMA PlanExists ==
  ASSUME NEW n \in Nat, NEW E, E \subseteq (0 .. n-1) \X (0 .. n-1), NEW B, B \subseteq E,
         Acyclic(n, E), \A p \in E : p[1] # p[2]
  PROVE  \E f \in [0 .. n-1 -> 1 .. n] : IsPlan(f, E, B)
<1> DEFINE V == 0 .. n-1
           Good(k) == \E S \in SUBSET V : Cardinality(S) = k /\ \E f : PartialPlan(S, f, k, E, B)
           T == {k \in 0 .. n : ~Good(k)}
<1>1. T = {}
  <2> SUFFICES ASSUME T # {} PROVE FALSE
    OBVIOUS
  <2>1. PICK k \in T : \A y \in T : k <= y
    <3>1. T \in SUBSET Nat
      OBVIOUS
    <3> HIDE DEF T
    <3> QED
      BY <3>1, LeastElement
  <2>2. CASE k = 0
    <3> DEFINE f == [x \in {} |-> 0]
    <3>1. PartialPlan({}, f, 0, E, B)
      BY DEF PartialPlan
    <3>2. Cardinality({}) = 0 /\ {} \in SUBSET V
      BY FS_EmptySet
    <3>3. Good(0)
      BY <3>1, <3>2
    <3> HIDE DEF Good
    <3> QED
      BY <2>2, <3>3
  <2>3. CASE k # 0
    <3>1. k-1 \in 0 .. n /\ k-1 \notin T /\ k \in 1 .. n
      BY <2>1, <2>3
    <3>2. Good(k-1)
      <4> HIDE DEF Good
      <4> QED
        BY <3>1
    <3>3. Good(k)
      BY <3>1, <3>2, PlanGrows
    <3> HIDE DEF Good
    <3> QED
      BY <3>3
  <2> QED
    BY <2>2, <2>3
<1>2. Good(n)
  <2> HIDE DEF Good
  <2> QED
    BY <1>1
<1>3. PICK S \in SUBSET V : \E f : Cardinality(S) = n /\ PartialPlan(S, f, n, E, B)
  BY <1>2
<1>4. PICK f : Cardinality(S) = n /\ PartialPlan(S, f, n, E, B)
  BY <1>3
<1>5. S = V
  <2>1. IsFiniteSet(V) /\ Cardinality(V) = Cardinality(S)
    BY <1>4, VerticesCount
  <2> QED
    BY <2>1, FS_Subset
<1>6. f \in [V -> 1 .. n] /\ \A m \in V : f[m] = Max(After(f, E, B, m))
  BY <1>4, <1>5 DEF PartialPlan
<1>7. IsPlan(f, E, B)
  BY <1>6 DEF IsPlan, After
<1> QED
  BY <1>6, <1>7

\* A plan turns no edge round, parts the ends of a bad one, and leaves no group
\* empty.
LEMMA PlanFacts ==
  ASSUME NEW n \in Nat \ {0}, NEW E, E \subseteq (0 .. n-1) \X (0 .. n-1), NEW B, B \subseteq E,
         Acyclic(n, E), \A p \in E : p[1] # p[2],
         NEW K \in Nat, NEW f \in [0 .. n-1 -> 1 .. K], IsPlan(f, E, B)
  PROVE  /\ \A p \in E : f[p[1]] <= f[p[2]]
         /\ \A p \in B : f[p[1]] < f[p[2]]
         /\ Max(Range(f)) \in 1 .. K
         /\ \A k \in 1 .. Max(Range(f)) : \E m \in 0 .. n-1 : f[m] = k
         /\ \A m \in 0 .. n-1 : f[m] \in 1 .. Max(Range(f))
<1> DEFINE V == 0 .. n-1
           top == Max(Range(f))
<1>1. \A p \in E : p = <<p[1], p[2]>> /\ p[1] \in V /\ p[2] \in V
  OBVIOUS
<1>2. \A m \in V : f[m] = Max(After(f, E, B, m))
  BY DEF IsPlan, After
<1>3. \A m \in V : /\ f[m] \in After(f, E, B, m)
                   /\ \A x \in After(f, E, B, m) : x <= f[m]
  <2> SUFFICES ASSUME NEW m \in V
               PROVE  f[m] \in After(f, E, B, m) /\ \A x \in After(f, E, B, m) : x <= f[m]
    OBVIOUS
  <2> DEFINE A == After(f, E, B, m)
  <2>1. A \in SUBSET Int /\ A # {} /\ \A x \in A : x <= K+1
    <3>1. \A p \in E : f[p[1]] \in 1 .. K
      BY <1>1
    <3>2. 1 .. K \subseteq Int /\ \A x \in 1 .. K : x+1 \in Int /\ x+1 <= K+1 /\ x <= K+1
      OBVIOUS
    <3>3. 1 <= K+1
      OBVIOUS
    <3> QED
      BY <3>1, <3>2, <3>3 DEF After
  <2> HIDE DEF A
  <2>2. Max(A) \in A /\ \A x \in A : x <= Max(A)
    <3>1. K+1 \in Int
      OBVIOUS
    <3> QED
      BY <2>1, <3>1, MaxBounded
  <2> QED
    BY <1>2, <2>2 DEF A
<1>4. \A p \in E : f[p[1]] <= f[p[2]]
  BY <1>1, <1>3 DEF After
<1>5. \A p \in B : f[p[1]] < f[p[2]]
  <2> SUFFICES ASSUME NEW p \in B PROVE f[p[1]] < f[p[2]]
    OBVIOUS
  <2>1. p \in E /\ p[1] \in V /\ p[2] \in V
    BY <1>1
  <2>2. f[p[1]]+1 \in After(f, E, B, p[2])
    BY DEF After
  <2>3. f[p[1]]+1 <= f[p[2]] /\ f[p[1]] \in Int /\ f[p[2]] \in Int
    BY <1>3, <2>1, <2>2
  <2> QED
    BY <2>3
<1>6. Range(f) = {f[m] : m \in V}
  BY DEF Range
<1>7. top \in Range(f) /\ \A x \in Range(f) : x <= top
  <2>1. Range(f) \in SUBSET Int /\ Range(f) # {} /\ \A x \in Range(f) : x <= K
    <3>1. 0 \in V
      OBVIOUS
    <3> QED
      BY <1>6, <3>1
  <2>2. K \in Int
    OBVIOUS
  <2> QED
    BY <2>1, <2>2, MaxBounded
<1> HIDE DEF top
<1>8. top \in 1 .. K /\ \A m \in V : f[m] \in 1 .. top
  BY <1>6, <1>7
<1>9. ASSUME NEW k \in 1 .. top, \A m \in V : f[m] # k
      PROVE  FALSE
  <2> DEFINE U == {m \in V : f[m] > k}
  <2>1. U \in SUBSET V /\ U # {}
    <3>1. PICK m \in V : f[m] = top
      BY <1>6, <1>7
    <3>2. f[m] > k
      BY <1>8, <1>9, <3>1
    <3> QED
      BY <3>2
  <2>2. PICK m \in U : \A a \in U \ {m} : <<a, m>> \notin E
    <3> HIDE DEF U
    <3> QED
      BY <2>1, AcyclicHasFirst
  <2>3. f[m] \in Int /\ f[m] > k /\ k >= 1 /\ f[m] \in After(f, E, B, m)
    BY <1>3
  <2>4. \/ \E p \in E : p[2] = m /\ f[m] = f[p[1]]
        \/ \E p \in B : p[2] = m /\ f[m] = f[p[1]]+1
    BY <2>3 DEF After
  <2>5. \A p \in E : p[2] = m => p[1] \in V /\ p[1] \notin U
    BY <1>1, <2>2
  <2>6. ASSUME NEW p \in E, p[2] = m, f[m] = f[p[1]] PROVE FALSE
    BY <2>3, <2>5, <2>6
  <2>7. ASSUME NEW p \in B, p[2] = m, f[m] = f[p[1]]+1 PROVE FALSE
    <3>1. p[1] \in V /\ ~(f[p[1]] > k) /\ f[p[1]] \in Int
      BY <2>5, <2>7
    <3>2. f[p[1]] = k
      BY <2>3, <2>7, <3>1
    <3> QED
      BY <1>9, <3>1, <3>2
  <2> QED
    BY <2>4, <2>6, <2>7
<1> QED
  BY <1>4, <1>5, <1>8, <1>9 DEF top

-----------------------------------------------------------------------------
(* The loops of the source program in a call, and the groups of them.      *)

\* The statements of a call in the loop of the source program around a.
Own(c, a) == {b \in c.active : loop[b][c.level] = loop[a][c.level]}

LEMMA SourceFacts ==
  ASSUME NEW c, c.active \in SUBSET Stmts, c.active # {}
  PROVE  /\ Cardinality(SameLoops(c)) \in Nat \ {0} /\ Cardinality(SameLoops(c)) <= N
         /\ \A m \in Nodes(c) : \E a \in c.active : Source(c, m) = Own(c, a)
         /\ \A m, n \in Nodes(c) : Source(c, m) = Source(c, n) => m = n
         /\ \A a \in c.active : \E m \in Nodes(c) : Source(c, m) = Own(c, a)
<1> DEFINE S == SameLoops(c)
           f == [a \in c.active |-> Own(c, a)]
           n0 == Cardinality(S)
<1>1. S = {Own(c, a) : a \in c.active}
  BY DEF SameLoops, Own
<1>2. IsFiniteSet(c.active) /\ Cardinality(c.active) <= N
  <2>1. IsFiniteSet(Stmts) /\ Cardinality(Stmts) = N
    BY ShapeAssumption, VerticesCount DEF Stmts
  <2> QED
    BY <2>1, FS_Subset
<1>3. f \in Surjection(c.active, S)
  BY <1>1 DEF Surjection
<1>4. IsFiniteSet(S) /\ n0 <= Cardinality(c.active)
  <2> HIDE DEF S, f
  <2> QED
    BY <1>2, <1>3, FS_Surjection DEF n0
<1>5. Cardinality(c.active) \in Nat /\ n0 \in Nat /\ N \in Nat
  BY <1>2, <1>4, FS_CardinalityType, ShapeAssumption
<1>6. n0 # 0
  <2>1. S # {}
    BY <1>1
  <2> QED
    BY <1>4, <2>1, FS_EmptySet
<1>7. /\ SetToSeq(S) \in [1 .. n0 -> S]
      /\ \A i, j \in 1 .. n0 : SetToSeq(S)[i] = SetToSeq(S)[j] => i = j
      /\ \A x \in S : \E i \in 1 .. n0 : SetToSeq(S)[i] = x
  BY <1>4, SetToSeqOnto
<1> HIDE DEF n0, f
<1>8. Nodes(c) = 0 .. n0-1 /\ \A m \in Nodes(c) : Source(c, m) = SetToSeq(S)[m+1] /\ m+1 \in 1 .. n0
  BY <1>5 DEF Nodes, Source, n0
<1> HIDE DEF S
<1>9. \A m \in Nodes(c) : \E a \in c.active : Source(c, m) = Own(c, a)
  <2> SUFFICES ASSUME NEW m \in Nodes(c) PROVE \E a \in c.active : Source(c, m) = Own(c, a)
    OBVIOUS
  <2>1. Source(c, m) \in S
    BY <1>7, <1>8
  <2> QED
    BY <1>1, <2>1
<1>10. \A m, n \in Nodes(c) : Source(c, m) = Source(c, n) => m = n
  <2> SUFFICES ASSUME NEW m \in Nodes(c), NEW n \in Nodes(c), Source(c, m) = Source(c, n) PROVE m = n
    OBVIOUS
  <2>1. m+1 = n+1 /\ m \in Int /\ n \in Int
    BY <1>7, <1>8
  <2> QED
    BY <2>1
<1>11. \A a \in c.active : \E m \in Nodes(c) : Source(c, m) = Own(c, a)
  <2> SUFFICES ASSUME NEW a \in c.active PROVE \E m \in Nodes(c) : Source(c, m) = Own(c, a)
    OBVIOUS
  <2>1. PICK i \in 1 .. n0 : SetToSeq(S)[i] = Own(c, a)
    BY <1>1, <1>7
  <2>2. i-1 \in Nodes(c) /\ (i-1)+1 = i
    BY <1>5, <1>8
  <2> QED
    BY <1>8, <2>1, <2>2
<1> QED
  BY <1>2, <1>4, <1>5, <1>6, <1>9, <1>10, <1>11 DEF n0, S

\* What fusing the loops of a call without a cycle gives: groups 1 .. K that
\* are parts of the call, where statements of one loop stay together, an edge
\* that is carried is not turned round, and one that may be negative is parted.
IsGrouping(c, group, K) ==
  /\ K \in Nat \ {0} /\ DOMAIN group = 1 .. K
  /\ \A k \in 1 .. K : group[k] \subseteq c.active /\ group[k] # {}
  /\ \A a \in c.active : \E k \in 1 .. K : a \in group[k]
  /\ \A k, j \in 1 .. K : group[k] \intersect group[j] # {} => k = j
  /\ \A k, j \in 1 .. K : \A a \in group[k], b \in group[j] :
       /\ Own(c, a) = Own(c, b) => k = j
       /\ Own(c, a) # Own(c, b) /\ Carried(c, Own(c, a), Own(c, b)) => k <= j
       /\ Own(c, a) # Own(c, b) /\ Carried(c, Own(c, a), Own(c, b))
            /\ Negative(c, Own(c, a), Own(c, b)) => k < j

LEMMA GroupsFacts ==
  ASSUME NEW c, c.active \in SUBSET Stmts, c.active # {}, Dag(c)
  PROVE  \E K : IsGrouping(c, Groups(c), K) /\ Groups(c) = [k \in 1 .. K |-> Groups(c)[k]]
<1> DEFINE n0 == Cardinality(SameLoops(c))
           E == Edges(c)
           B == Bad(c)
           V == 0 .. n0-1
           num == CHOOSE f \in [Nodes(c) -> 1 .. N] : IsPlan(f, Edges(c), Bad(c))
           K == Max(Range(num))
           g == [k \in 1 .. K |-> UNION {Source(c, m) : m \in {n \in Nodes(c) : num[n] = k}}]
<1>1. /\ n0 \in Nat \ {0} /\ n0 <= N /\ N \in Nat
      /\ \A m \in V : \E a \in c.active : Source(c, m) = Own(c, a)
      /\ \A m, n \in V : Source(c, m) = Source(c, n) => m = n
      /\ \A a \in c.active : \E m \in V : Source(c, m) = Own(c, a)
      /\ Nodes(c) = V
  BY SourceFacts, ShapeAssumption DEF Nodes
<1>2. /\ E \subseteq V \X V /\ B \subseteq E
      /\ \A p \in E : p[1] # p[2]
      /\ Acyclic(n0, E)
  BY <1>1 DEF Edges, Bad, Dag
<1>3. \A m, n \in V : /\ <<m, n>> \in E <=> m # n /\ Carried(c, Source(c, m), Source(c, n))
                      /\ <<m, n>> \in B <=> <<m, n>> \in E /\ Negative(c, Source(c, m), Source(c, n))
  BY <1>1 DEF Edges, Bad
<1>4. Groups(c) = g
  BY DEF Groups
<1> HIDE DEF n0, E, B
<1>5. num \in [V -> 1 .. N] /\ IsPlan(num, E, B)
  <2>1. PICK f \in [V -> 1 .. n0] : IsPlan(f, E, B)
    BY <1>1, <1>2, PlanExists
  <2>2. f \in [V -> 1 .. N]
    BY <1>1
  <2>3. \E h \in [Nodes(c) -> 1 .. N] : IsPlan(h, Edges(c), Bad(c))
    BY <1>1, <2>1, <2>2 DEF E, B
  <2>4. num \in [Nodes(c) -> 1 .. N] /\ IsPlan(num, Edges(c), Bad(c))
    BY <2>3, Zenon
  <2> QED
    BY <1>1, <2>4 DEF E, B
<1> HIDE DEF num
<1>6. /\ \A p \in E : num[p[1]] <= num[p[2]]
      /\ \A p \in B : num[p[1]] < num[p[2]]
      /\ K \in 1 .. N
      /\ \A k \in 1 .. K : \E m \in V : num[m] = k
      /\ \A m \in V : num[m] \in 1 .. K
  BY <1>1, <1>2, <1>5, PlanFacts
<1> HIDE DEF K
<1>7. \A a : a \in c.active => a \in Own(c, a) /\ Own(c, a) \subseteq c.active
  BY DEF Own
<1>8. \A m \in V : \A a : a \in Source(c, m) <=> a \in c.active /\ Source(c, m) = Own(c, a)
  BY <1>1 DEF Own
<1>9. \A k \in 1 .. K : \A a : a \in g[k] <=> \E m \in V : num[m] = k /\ a \in Source(c, m)
  BY <1>1
<1>10. DOMAIN g = 1 .. K
  OBVIOUS
<1>11. g = [k \in 1 .. K |-> g[k]]
  OBVIOUS
<1> HIDE DEF g, V
<1>12. \A k \in 1 .. K : g[k] \subseteq c.active /\ g[k] # {}
  <2> SUFFICES ASSUME NEW k \in 1 .. K PROVE g[k] \subseteq c.active /\ g[k] # {}
    OBVIOUS
  <2>1. PICK m \in V : num[m] = k
    BY <1>6
  <2>2. PICK a \in c.active : Source(c, m) = Own(c, a)
    BY <1>1
  <2>3. a \in g[k]
    BY <1>7, <1>9, <2>1, <2>2
  <2> QED
    BY <1>8, <1>9, <2>3
<1>13. \A a \in c.active : \E k \in 1 .. K : a \in g[k]
  BY <1>1, <1>6, <1>7, <1>9
<1>14. ASSUME NEW k \in 1 .. K, NEW j \in 1 .. K, NEW a \in g[k], NEW b \in g[j]
       PROVE  \E m, n \in V : /\ num[m] = k /\ Source(c, m) = Own(c, a)
                              /\ num[n] = j /\ Source(c, n) = Own(c, b)
  BY <1>8, <1>9
<1>15. \A k, j \in 1 .. K : g[k] \intersect g[j] # {} => k = j
  <2> SUFFICES ASSUME NEW k \in 1 .. K, NEW j \in 1 .. K, NEW a \in g[k], a \in g[j] PROVE k = j
    OBVIOUS
  <2>1. PICK m, n \in V : /\ num[m] = k /\ Source(c, m) = Own(c, a)
                          /\ num[n] = j /\ Source(c, n) = Own(c, a)
    BY <1>14
  <2> QED
    BY <1>1, <2>1
<1>16. ASSUME NEW k \in 1 .. K, NEW j \in 1 .. K, NEW a \in g[k], NEW b \in g[j]
       PROVE  /\ Own(c, a) = Own(c, b) => k = j
              /\ Own(c, a) # Own(c, b) /\ Carried(c, Own(c, a), Own(c, b)) => k <= j
              /\ Own(c, a) # Own(c, b) /\ Carried(c, Own(c, a), Own(c, b))
                   /\ Negative(c, Own(c, a), Own(c, b)) => k < j
  <2>1. PICK m, n \in V : /\ num[m] = k /\ Source(c, m) = Own(c, a)
                          /\ num[n] = j /\ Source(c, n) = Own(c, b)
    BY <1>14
  <2>2. Own(c, a) = Own(c, b) => k = j
    BY <1>1, <2>1
  <2>3. ASSUME Own(c, a) # Own(c, b), Carried(c, Own(c, a), Own(c, b))
        PROVE  k <= j
    <3>1. <<m, n>> \in E
      BY <1>3, <2>1, <2>3
    <3>2. num[<<m, n>>[1]] <= num[<<m, n>>[2]]
      BY <1>6, <3>1
    <3> QED
      BY <2>1, <3>2
  <2>4. ASSUME Own(c, a) # Own(c, b), Carried(c, Own(c, a), Own(c, b)), Negative(c, Own(c, a), Own(c, b))
        PROVE  k < j
    <3>1. <<m, n>> \in B
      BY <1>3, <2>1, <2>4
    <3>2. num[<<m, n>>[1]] < num[<<m, n>>[2]]
      BY <1>6, <3>1
    <3> QED
      BY <2>1, <3>2
  <2> QED
    BY <2>2, <2>3, <2>4
<1>17. K \in Nat \ {0}
  BY <1>6
<1>18. IsGrouping(c, g, K)
  BY <1>10, <1>12, <1>13, <1>15, <1>16, <1>17, Zenon DEF IsGrouping
<1> QED
  BY <1>4, <1>11, <1>18, Zenon

-----------------------------------------------------------------------------
(* The order of the source program has no cycle.                           *)

\* What a run keeps of the program.
InputOK == loop \in Nests /\ dep \in Dependences /\ \A e \in dep : Forward(e)

LEMMA EdgeTypes ==
  ASSUME InputOK, NEW e \in dep
  PROVE  /\ e.from \in Stmts /\ e.to \in Stmts
         /\ e.dv.lb \in [0 .. Depth-1 -> Int] /\ e.dv.ub \in [0 .. Depth-1 -> Int]
         /\ \A k \in 0 .. Depth-1 : e.dv.lb[k] <= e.dv.ub[k]
  BY DependencesAssumption DEF InputOK

\* Statements in one loop are in one loop of every level outside it.
LEMMA LoopsNest ==
  ASSUME InputOK, NEW a \in Stmts, NEW b \in Stmts, NEW l \in Levels, loop[a][l] = loop[b][l],
         NEW k \in 1 .. l
  PROVE  loop[a][k] = loop[b][k]
<1>1. a \in Int /\ b \in Int
  BY DEF Stmts
<1>2. CASE a < b
  BY <1>2, NestsAssumption DEF InputOK
<1>3. CASE b < a
  BY <1>3, NestsAssumption DEF InputOK
<1> QED
  BY <1>1, <1>2, <1>3

\* A loop of the source program stands before another as a whole.
LEMMA LoopsContiguous ==
  ASSUME InputOK, NEW l \in Levels, NEW a \in Stmts, NEW b \in Stmts, a < b, loop[a][l] # loop[b][l],
         NEW x \in Stmts, loop[x][l] = loop[a][l], NEW y \in Stmts, loop[y][l] = loop[b][l]
  PROVE  x < y
<1>1. a \in Int /\ b \in Int /\ x \in Int /\ y \in Int
  BY DEF Stmts
<1>2. \A p, q \in Stmts : p < q /\ loop[p][l] = loop[q][l] => \A m \in p .. q : loop[m][l] = loop[p][l]
  BY NestsAssumption DEF InputOK
<1>3. x # y
  OBVIOUS
<1>4. ASSUME y < x, a < y PROVE FALSE
  <2>1. y \in a .. x /\ a < x
    BY <1>1, <1>4
  <2> QED
    BY <1>2, <2>1
<1>5. ASSUME y < x, y < a PROVE FALSE
  <2>1. a \in y .. b /\ y < b
    BY <1>1, <1>5
  <2> QED
    BY <1>2, <2>1
<1>6. a # y
  OBVIOUS
<1> QED
  BY <1>1, <1>3, <1>4, <1>5, <1>6

\* A vector carried at a level where the loops differ points forward in the text.
LEMMA CarriedForward ==
  ASSUME InputOK, NEW e \in dep, NEW l \in Levels, HasBeenCarriedAt(e.dv, l-1),
         loop[e.from][l] # loop[e.to][l]
  PROVE  e.from < e.to
<1>1. e.from \in Stmts /\ e.to \in Stmts /\ DOMAIN e.dv.lb = 0 .. Depth-1
  BY EdgeTypes
<1>2. l \in 1 .. Depth /\ Depth \in Nat
  BY ShapeAssumption DEF Levels
<1>3. ASSUME NEW k \in 0 .. Depth-1, loop[e.from][k+1] = loop[e.to][k+1], e.dv.lb[k] > 0
      PROVE  FALSE
  <2>1. k+1 \in Levels
    BY <1>2 DEF Levels
  <2>2. ~(l \in 1 .. k+1)
    BY <1>1, <1>3, <2>1, LoopsNest
  <2>3. k \in Before(l-1) \intersect DOMAIN e.dv.lb
    BY <1>1, <1>2, <2>2 DEF Before
  <2>4. HasBeenCarriedBefore(e.dv, l-1)
    BY <1>3, <2>3 DEF HasBeenCarriedBefore
  <2> QED
    BY <2>4 DEF HasBeenCarriedAt
<1>4. Forward(e)
  BY DEF InputOK
<1> QED
  BY <1>3, <1>4 DEF Forward

\* The loops of a call can be fused: no cycle is among the edges between them.
LEMMA NeverCyclic ==
  ASSUME InputOK, NEW c, c.active \in SUBSET Stmts, c.active # {}, c.level \in Levels
  PROVE  Dag(c)
<1> DEFINE n0 == Cardinality(SameLoops(c))
           V == 0 .. n0-1
           E == Edges(c)
           All(m, n) == \A x \in Source(c, m), y \in Source(c, n) : x < y
           R == {p \in V \X V : p[1] = p[2] \/ All(p[1], p[2])}
<1>1. /\ n0 \in Nat \ {0}
      /\ \A m \in V : \E a \in c.active : Source(c, m) = Own(c, a)
      /\ \A m, n \in V : Source(c, m) = Source(c, n) => m = n
      /\ Nodes(c) = V
  BY SourceFacts DEF Nodes
<1>2. \A m \in V : Source(c, m) \subseteq Stmts /\ Source(c, m) # {}
  BY <1>1 DEF Own
<1>3. ASSUME NEW m \in V, NEW n \in V, <<m, n>> \in E
      PROVE  All(m, n)
  <2>1. m # n /\ Carried(c, Source(c, m), Source(c, n))
    BY <1>1, <1>3 DEF Edges
  <2>2. PICK e \in dep : /\ e.from \in Source(c, m) /\ e.to \in Source(c, n)
                         /\ HasBeenCarriedAt(e.dv, c.level-1)
    BY <2>1 DEF Carried, Vectors, DepDim
  <2>3. PICK a \in c.active, b \in c.active : Source(c, m) = Own(c, a) /\ Source(c, n) = Own(c, b)
    BY <1>1
  <2>4. /\ \A x \in Source(c, m) : x \in Stmts /\ loop[x][c.level] = loop[e.from][c.level]
        /\ \A y \in Source(c, n) : y \in Stmts /\ loop[y][c.level] = loop[e.to][c.level]
    BY <2>2, <2>3 DEF Own
  <2>5. loop[e.from][c.level] # loop[e.to][c.level]
    <3>1. Source(c, m) # Source(c, n)
      BY <1>1, <2>1
    <3> QED
      BY <2>2, <2>3, <3>1 DEF Own
  <2>6. e.from < e.to /\ e.from \in Stmts /\ e.to \in Stmts
    BY <2>2, <2>4, <2>5, CarriedForward
  <2> QED
    BY <2>4, <2>5, <2>6, LoopsContiguous
<1>4. E \subseteq V \X V
  BY <1>1 DEF Edges
<1> HIDE DEF E, n0, V
<1>5. ASSUME NEW m \in V, NEW n \in V, NEW k \in V, All(m, n), All(n, k)
      PROVE  All(m, k)
  <2> SUFFICES ASSUME NEW x \in Source(c, m), NEW z \in Source(c, k) PROVE x < z
    OBVIOUS
  <2>1. PICK y \in Source(c, n) : y \in Stmts
    BY <1>2
  <2>2. x < y /\ y < z /\ x \in Int /\ y \in Int /\ z \in Int
    BY <1>2, <1>5, <2>1 DEF Stmts
  <2> QED
    BY <2>2
<1>6. ASSUME NEW m \in V, NEW n \in V, All(m, n), All(n, m)
      PROVE  FALSE
  <2>1. PICK x \in Source(c, m), y \in Source(c, n) : x \in Stmts /\ y \in Stmts
    BY <1>2
  <2>2. x < y /\ y < x /\ x \in Int /\ y \in Int
    BY <1>6, <2>1 DEF Stmts
  <2> QED
    BY <2>2
<1> HIDE DEF All
<1>7. E \subseteq R
  <2> SUFFICES ASSUME NEW p \in E PROVE p \in R
    OBVIOUS
  <2>1. p = <<p[1], p[2]>> /\ p[1] \in V /\ p[2] \in V
    BY <1>4
  <2>2. All(p[1], p[2])
    BY <1>3, <2>1
  <2> QED
    BY <2>1, <2>2
<1>8. \A m, n \in V : <<m, n>> \in R <=> m = n \/ All(m, n)
  OBVIOUS
<1> HIDE DEF R
<1>9. Paths(n0, E) \subseteq R
  <2>1. \A a \in 0 .. n0-1 : <<a, a>> \in R
    BY <1>8 DEF V
  <2>2. \A a, b, k \in 0 .. n0-1 : <<a, b>> \in R /\ <<b, k>> \in R => <<a, k>> \in R
    BY <1>5, <1>8 DEF V
  <2>3. n0 \in Nat
    BY <1>1
  <2> QED
    BY <1>7, <2>1, <2>2, <2>3, PathsLeast
<1>10. \A a, b \in V : <<a, b>> \in Paths(n0, E) /\ <<b, a>> \in Paths(n0, E) => a = b
  BY <1>6, <1>8, <1>9
<1> QED
  BY <1>10 DEF Dag, Acyclic, n0, E, V

-----------------------------------------------------------------------------
(* The orders of the statements of a call below the innermost loop.        *)

\* A set of statements has an enumeration in the order of the text.
LEMMA Ascending ==
  ASSUME NEW n \in Nat, NEW A \in SUBSET (0 .. n-1)
  PROVE  \E q \in SetToSeqs(A) : \A i, j \in DOMAIN q : i < j => q[i] < q[j]
<1> DEFINE Sorted(S) == \E q \in SetToSeqs(S) : \A i, j \in DOMAIN q : i < j => q[i] < q[j]
           Good(k) == \A S \in SUBSET (0 .. k-1) : Sorted(S)
           T == {k \in Nat : ~Good(k)}
<1>1. T = {}
  <2> SUFFICES ASSUME T # {} PROVE FALSE
    OBVIOUS
  <2>1. PICK k \in T : \A y \in T : k <= y
    <3>1. T \in SUBSET Nat
      OBVIOUS
    <3> HIDE DEF T
    <3> QED
      BY <3>1, LeastElement
  <2>2. PICK S \in SUBSET (0 .. k-1) : ~Sorted(S)
    BY <2>1
  <2>3. Sorted({})
    <3> DEFINE q == [i \in 1 .. 0 |-> 0]
    <3>1. Cardinality({}) = 0
      BY FS_EmptySet
    <3>2. q \in SetToSeqs({})
      BY <3>1 DEF SetToSeqs
    <3> QED
      BY <3>2
  <2>4. k # 0 /\ k \in Nat
    <3>1. S # {}
      <4> HIDE DEF Sorted
      <4> QED
        BY <2>2, <2>3
    <3>2. k \in Nat /\ \E x : x \in 0 .. k-1
      BY <3>1
    <3> QED
      BY <3>2
  <2>5. Good(k-1)
    <3>1. k-1 \in Nat /\ ~(k <= k-1)
      BY <2>4
    <3> HIDE DEF Good
    <3> QED
      BY <2>1, <3>1
  <2> DEFINE z == k-1
             R == S \ {z}
             m == Cardinality(R)
  <2>6. R \in SUBSET (0 .. (k-1)-1)
    BY <2>4
  <2>7. z \in S
    <3> SUFFICES ASSUME z \notin S PROVE FALSE
      OBVIOUS
    <3>1. R = S
      OBVIOUS
    <3> HIDE DEF Sorted
    <3> QED
      BY <2>2, <2>5, <2>6, <3>1
  <2>8. PICK q \in SetToSeqs(R) : \A i, j \in DOMAIN q : i < j => q[i] < q[j]
    BY <2>5, <2>6
  <2>9. m \in Nat /\ Cardinality(S) = m+1
    <3>1. IsFiniteSet(R)
      <4>1. IsFiniteSet(0 .. k-1)
        BY <2>4, VerticesCount
      <4> QED
        BY <4>1, FS_Subset
    <3>2. S = R \union {z}
      BY <2>7
    <3>3. z \notin R
      OBVIOUS
    <3> HIDE DEF R
    <3> QED
      BY <3>1, <3>2, <3>3, FS_AddElement, FS_CardinalityType
  <2>10. q \in [1 .. m -> R] /\ \A i, j \in 1 .. m : i # j => q[i] # q[j]
    BY <2>8 DEF SetToSeqs
  <2> DEFINE p == [i \in 1 .. m+1 |-> IF i = m+1 THEN z ELSE q[i]]
  <2> HIDE DEF m
  <2>11. z \in Int /\ \A x \in R : x \in S /\ x \in Int /\ x < z
    BY <2>4, <2>6
  <2> HIDE DEF R, z
  <2>12. /\ p \in [1 .. m+1 -> S]
         /\ p[m+1] = z
         /\ \A i \in 1 .. m+1 : i # m+1 => i \in 1 .. m /\ p[i] = q[i] /\ q[i] \in R
    BY <2>7, <2>9, <2>10, <2>11
  <2> HIDE DEF p
  <2>13. \A i, j \in 1 .. m+1 : i < j => p[i] < p[j]
    <3> SUFFICES ASSUME NEW i \in 1 .. m+1, NEW j \in 1 .. m+1, i < j PROVE p[i] < p[j]
      OBVIOUS
    <3>1. i # m+1 /\ i \in 1 .. m /\ p[i] = q[i] /\ q[i] \in R
      BY <2>9, <2>12
    <3>2. CASE j = m+1
      BY <2>11, <2>12, <3>1, <3>2
    <3>3. CASE j # m+1
      <4>1. j \in 1 .. m /\ p[j] = q[j]
        BY <2>12, <3>3
      <4> QED
        BY <2>8, <2>10, <3>1, <4>1
    <3> QED
      BY <3>2, <3>3
  <2>14. \A i, j \in 1 .. m+1 : i # j => p[i] # p[j]
    <3>1. \A i \in 1 .. m+1 : p[i] \in Int
      BY <2>11, <2>12
    <3>2. \A i, j \in 1 .. m+1 : i # j => i < j \/ j < i
      BY <2>9
    <3> QED
      BY <2>13, <3>1, <3>2
  <2>15. p \in SetToSeqs(S) /\ DOMAIN p = 1 .. m+1
    BY <2>9, <2>12, <2>14 DEF SetToSeqs
  <2> QED
    BY <2>2, <2>13, <2>15
<1>2. Good(n)
  <2> HIDE DEF Good
  <2> QED
    BY <1>1
<1> QED
  BY <1>2

\* An enumeration of a finite set meets every element, once.
LEMMA Enumerates ==
  ASSUME NEW A, IsFiniteSet(A), NEW q \in SetToSeqs(A)
  PROVE  /\ q \in [1 .. Cardinality(A) -> A]
         /\ \A i, j \in DOMAIN q : q[i] = q[j] => i = j
         /\ \A x \in A : \E i \in DOMAIN q : q[i] = x
<1> DEFINE D == 1 .. Cardinality(A)
<1>1. q \in [D -> A] /\ \A i, j \in D : i # j => q[i] # q[j]
  BY DEF SetToSeqs
<1>2. Cardinality(D) = Cardinality(A)
  <2>1. Cardinality(A) \in Nat
    BY FS_CardinalityType
  <2> QED
    BY <2>1, FS_Interval
<1>3. q \in Injection(D, A)
  BY <1>1 DEF Injection, IsInjective
<1>4. q \in Surjection(D, A)
  <2> HIDE DEF D
  <2> QED
    BY <1>2, <1>3, FS_Injection
<1> QED
  BY <1>1, <1>4 DEF Surjection

\* A vector that no loop has to carry points forward in the text.
LEMMA UncarriedForward ==
  ASSUME InputOK, NEW e \in dep, ~HasBeenCarriedBefore(e.dv, Depth)
  PROVE  e.from < e.to
<1>1. DOMAIN e.dv.lb = 0 .. Depth-1
  BY EdgeTypes
<1>2. \A k \in 0 .. Depth-1 : ~(e.dv.lb[k] > 0)
  BY <1>1 DEF HasBeenCarriedBefore, Before
<1> QED
  BY <1>2 DEF InputOK, Forward

\* The statements of a call can be ordered.
LEMMA TextOrderExists ==
  ASSUME InputOK, NEW A \in SUBSET Stmts
  PROVE  TextOrders(A) # {}
<1>1. N \in Nat
  BY ShapeAssumption
<1>2. PICK q \in SetToSeqs(A) : \A i, j \in DOMAIN q : i < j => q[i] < q[j]
  BY <1>1, Ascending DEF Stmts
<1>3. DOMAIN q \subseteq Int /\ \A i \in DOMAIN q : q[i] \in Int
  <2>1. IsFiniteSet(A)
    BY <1>1, VerticesCount, FS_Subset DEF Stmts
  <2>2. q \in [1 .. Cardinality(A) -> A] /\ Cardinality(A) \in Nat
    BY <2>1, Enumerates, FS_CardinalityType
  <2>3. DOMAIN q = 1 .. Cardinality(A) /\ \A i \in DOMAIN q : q[i] \in Stmts
    BY <2>2
  <2>4. 1 .. Cardinality(A) \subseteq Int
    BY <2>2
  <2>5. \A x \in Stmts : x \in Int
    BY <1>1 DEF Stmts
  <2> QED
    BY <2>3, <2>4, <2>5
<1>4. ASSUME NEW m \in DOMAIN q, NEW n \in DOMAIN q, m # n, Uncarried(q[m], q[n])
      PROVE  m < n
  <2>1. PICK e \in dep : e.from = q[m] /\ e.to = q[n] /\ ~HasBeenCarriedBefore(e.dv, Depth)
    BY <1>4 DEF Uncarried, Vectors
  <2>2. q[m] < q[n]
    BY <2>1, UncarriedForward
  <2>3. ~(n < m)
    BY <1>2, <1>3, <2>2
  <2> QED
    BY <1>3, <1>4, <2>3
<1> QED
  BY <1>4 DEF TextOrders

-----------------------------------------------------------------------------
(* The invariant.  Two statements are in one call still to be made, or     *)
(* they have been parted: at a level that no later call sets, and so that  *)
(* every dependence between them that made an edge there is respected.     *)

AllCalls == [level : 1 .. Depth+1, active : (SUBSET Stmts) \ {{}}, order : Int]
AllDistances == [0 .. Depth-1 -> Int]

Types == /\ lex \in [Stmts -> [1 .. Depth+1 -> Int]]
         /\ calls \in Seq(AllCalls)
         /\ pc = "order"

Disjoint == \A k, j \in DOMAIN calls : k # j => calls[k].active \intersect calls[j].active = {}

\* The statements of a call share the loops outside its level, and no
\* dependence between two of them runs backwards in these loops.
Shared ==
  \A k \in DOMAIN calls : \A a, b \in calls[k].active :
     \A l \in 1 .. calls[k].level-1 : lex[a][l] = lex[b][l]
OutsideForward ==
  \A k \in DOMAIN calls, e \in dep :
     e.from \in calls[k].active /\ e.to \in calls[k].active /\ e.from # e.to =>
        \A d \in AllDistances : HasDistance(e.dv, d) => LexSign(d, calls[k].level-1) >= 0

\* The dependences from a to b are respected if level l parts these.
Respected(a, b, l) ==
  \A e \in dep : e.from = a /\ e.to = b =>
     \/ l <= Depth /\ e.dv.lb[l-1] = 0 /\ e.dv.ub[l-1] = 0
     \/ \A d \in AllDistances : HasDistance(e.dv, d) =>
          LexSign(d, l-1) = 1 \/ (LexSign(d, l-1) = 0 /\ lex[a][l] < lex[b][l])

PartedAt(a, b, l) ==
  /\ \A m \in 1 .. l-1 : lex[a][m] = lex[b][m]
  /\ lex[a][l] # lex[b][l]
  /\ \A k \in DOMAIN calls : a \in calls[k].active \/ b \in calls[k].active => l < calls[k].level
  /\ Respected(a, b, l)
Together(a, b) == \E k \in DOMAIN calls : a \in calls[k].active /\ b \in calls[k].active
Parted == \A a, b \in Stmts : a # b => Together(a, b) \/ \E l \in 1 .. Depth+1 : PartedAt(a, b, l)

IInv == InputOK /\ Types /\ Disjoint /\ Shared /\ OutsideForward /\ Parted

\* The calls after one has been made: those it makes itself and the others.
LEMMA CallsAfter ==
  ASSUME NEW S, NEW q \in Seq(S), q # <<>>, NEW new \in Seq(S)
  PROVE  LET r == new \o Tail(q)
         IN  /\ r \in Seq(S)
             /\ \A k \in DOMAIN r : \/ k \in DOMAIN new /\ r[k] = new[k]
                                    \/ /\ k \notin DOMAIN new
                                       /\ k-Len(new)+1 \in DOMAIN q \ {1}
                                       /\ r[k] = q[k-Len(new)+1]
             /\ \A k \in DOMAIN new : k \in DOMAIN r /\ r[k] = new[k]
             /\ \A i \in DOMAIN q \ {1} : i-1+Len(new) \in DOMAIN r /\ r[i-1+Len(new)] = q[i]
             /\ 1 \in DOMAIN q /\ Head(q) = q[1]
             /\ DOMAIN r \subseteq Int /\ Len(new) \in Int
<1> DEFINE t == Tail(q)
           r == new \o t
<1>1. /\ t \in Seq(S) /\ Len(t) = Len(q)-1 /\ \A i \in 1 .. Len(t) : t[i] = q[i+1]
      /\ Head(q) = q[1]
  BY HeadTailProperties
<1>2. /\ Len(q) \in Nat /\ DOMAIN q = 1 .. Len(q)
      /\ Len(new) \in Nat /\ DOMAIN new = 1 .. Len(new)
  BY LenProperties
<1>3. Len(q) # 0
  BY EmptySeq, <1>2
<1> HIDE DEF t
<1>4. /\ r \in Seq(S) /\ Len(r) = Len(new) + Len(t)
      /\ \A i \in 1 .. Len(new) + Len(t) : r[i] = IF i <= Len(new) THEN new[i] ELSE t[i-Len(new)]
  BY <1>1, ConcatProperties
<1>5. DOMAIN r = 1 .. Len(new)+Len(t)
  BY <1>4, LenProperties
<1> HIDE DEF r
<1>6. ASSUME NEW k \in DOMAIN r
      PROVE  \/ k \in DOMAIN new /\ r[k] = new[k]
             \/ /\ k \notin DOMAIN new
                /\ k-Len(new)+1 \in DOMAIN q \ {1}
                /\ r[k] = q[k-Len(new)+1]
  <2>1. CASE k <= Len(new)
    BY <1>2, <1>4, <1>5, <2>1
  <2>2. CASE ~(k <= Len(new))
    <3>1. k-Len(new) \in 1 .. Len(t) /\ k \in 1 .. Len(new)+Len(t)
      BY <1>1, <1>2, <1>5, <2>2
    <3>2. r[k] = t[k-Len(new)]
      BY <1>4, <2>2, <3>1
    <3>3. r[k] = q[k-Len(new)+1]
      BY <1>1, <3>1, <3>2
    <3>4. k-Len(new)+1 \in DOMAIN q /\ k-Len(new)+1 # 1
      BY <1>1, <1>2, <3>1
    <3>5. k \notin DOMAIN new
      BY <1>2, <2>2
    <3> QED
      BY <3>3, <3>4, <3>5
  <2> QED
    BY <2>1, <2>2
<1>7. \A k \in DOMAIN new : k \in DOMAIN r /\ r[k] = new[k]
  BY <1>1, <1>2, <1>3, <1>4, <1>5
<1>8. ASSUME NEW i \in DOMAIN q \ {1}
      PROVE  i-1+Len(new) \in DOMAIN r /\ r[i-1+Len(new)] = q[i]
  <2>1. i-1 \in 1 .. Len(t) /\ i \in Int /\ i-1+Len(new) \in 1 .. Len(new)+Len(t)
    BY <1>1, <1>2
  <2>2. ~(i-1+Len(new) <= Len(new)) /\ (i-1+Len(new))-Len(new) = i-1 /\ (i-1)+1 = i
    BY <1>2, <2>1
  <2> QED
    BY <1>1, <1>4, <1>5, <2>1, <2>2
<1> QED
  BY <1>1, <1>2, <1>3, <1>4, <1>5, <1>6, <1>7, <1>8 DEF r, t

\* What a call c that is replaced by the calls new may do to the order: the
\* statements of c get a place at its level, the same if one of the new calls
\* goes on with both, and one that respects the dependences if not.
Makes(c, new) ==
  /\ \A k \in DOMAIN new : new[k].active \subseteq c.active /\ new[k].level = c.level+1
  /\ \A k, j \in DOMAIN new : k # j => new[k].active \intersect new[j].active = {}
  /\ lex' \in [Stmts -> [1 .. Depth+1 -> Int]]
  /\ \A a \in Stmts, l \in 1 .. Depth+1 : a \notin c.active \/ l # c.level => lex'[a][l] = lex[a][l]
  /\ \A k \in DOMAIN new : \A a, b \in new[k].active : lex'[a][c.level] = lex'[b][c.level]
  /\ \A a, b \in c.active : \/ a = b
                            \/ \E k \in DOMAIN new : a \in new[k].active /\ b \in new[k].active
                            \/ lex'[a][c.level] # lex'[b][c.level] /\ Respected(a, b, c.level)'
  /\ \A k \in DOMAIN new, e \in dep :
       e.from \in new[k].active /\ e.to \in new[k].active /\ e.from # e.to =>
          \A d \in AllDistances : HasDistance(e.dv, d) => LexSign(d, new[k].level-1) >= 0

LEMMA StepKeeps ==
  ASSUME IInv, calls # <<>>, NEW c, c = Head(calls), NEW new \in Seq(AllCalls),
         Makes(c, new), calls' = new \o Tail(calls), UNCHANGED <<loop, dep, pc>>
  PROVE  IInv'
<1> DEFINE old(k) == k-Len(new)+1
           late(i) == i-1+Len(new)
<1>1. /\ calls' \in Seq(AllCalls)
      /\ \A k \in DOMAIN calls' : \/ k \in DOMAIN new /\ calls'[k] = new[k]
                                  \/ /\ k \notin DOMAIN new
                                     /\ old(k) \in DOMAIN calls \ {1}
                                     /\ calls'[k] = calls[old(k)]
      /\ \A k \in DOMAIN new : k \in DOMAIN calls' /\ calls'[k] = new[k]
      /\ \A i \in DOMAIN calls \ {1} : late(i) \in DOMAIN calls' /\ calls'[late(i)] = calls[i]
      /\ 1 \in DOMAIN calls /\ c = calls[1]
      /\ DOMAIN calls' \subseteq Int /\ Len(new) \in Int
  <2> DEFINE r == new \o Tail(calls)
  <2>1. calls \in Seq(AllCalls)
    BY DEF IInv, Types
  <2>2. /\ r \in Seq(AllCalls)
        /\ \A k \in DOMAIN r : \/ k \in DOMAIN new /\ r[k] = new[k]
                               \/ /\ k \notin DOMAIN new
                                  /\ k-Len(new)+1 \in DOMAIN calls \ {1}
                                  /\ r[k] = calls[k-Len(new)+1]
        /\ \A k \in DOMAIN new : k \in DOMAIN r /\ r[k] = new[k]
        /\ \A i \in DOMAIN calls \ {1} : i-1+Len(new) \in DOMAIN r /\ r[i-1+Len(new)] = calls[i]
        /\ 1 \in DOMAIN calls /\ Head(calls) = calls[1]
        /\ DOMAIN r \subseteq Int /\ Len(new) \in Int
    BY <2>1, CallsAfter, Zenon
  <2>3. calls' = r
    OBVIOUS
  <2> HIDE DEF r
  <2> QED
    BY <2>2, <2>3, Zenon
<1>2. \A k, j \in DOMAIN calls' : old(k) = old(j) => k = j
  BY <1>1
<1> HIDE DEF old, late
<1>3. /\ \A k \in DOMAIN calls : calls[k] \in AllCalls
      /\ \A k \in DOMAIN new : new[k] \in AllCalls
  BY ElementOfSeq, LenProperties DEF IInv, Types
<1>4. /\ \A k \in DOMAIN calls : calls[k].level \in 1 .. Depth+1 /\ calls[k].active \subseteq Stmts
      /\ c.level \in 1 .. Depth+1 /\ c.active \subseteq Stmts
  BY <1>1, <1>3 DEF AllCalls
<1>5. \A i \in DOMAIN calls \ {1} : calls[i].active \intersect c.active = {}
  BY <1>1 DEF IInv, Disjoint
<1>6. \A a \in Stmts, l \in 1 .. Depth+1 : a \notin c.active \/ l # c.level => lex'[a][l] = lex[a][l]
  BY DEF Makes
<1>7. Depth \in Nat
  BY ShapeAssumption
<1>8. InputOK'
  BY DEF IInv, InputOK, Forward
<1>9. Types'
  BY <1>1 DEF IInv, Types, Makes
<1>10. Disjoint'
  <2> SUFFICES ASSUME NEW k \in DOMAIN calls', NEW j \in DOMAIN calls', k # j
               PROVE  calls'[k].active \intersect calls'[j].active = {}
    BY DEF Disjoint
  <2>1. CASE k \in DOMAIN new /\ j \in DOMAIN new
    BY <1>1, <2>1 DEF Makes
  <2>2. CASE k \in DOMAIN new /\ j \notin DOMAIN new
    BY <1>1, <1>5, <2>2 DEF Makes
  <2>3. CASE k \notin DOMAIN new /\ j \in DOMAIN new
    BY <1>1, <1>5, <2>3 DEF Makes
  <2>4. CASE k \notin DOMAIN new /\ j \notin DOMAIN new
    <3>1. /\ old(k) \in DOMAIN calls /\ calls'[k] = calls[old(k)]
          /\ old(j) \in DOMAIN calls /\ calls'[j] = calls[old(j)]
      BY <1>1, <2>4
    <3>2. old(k) # old(j)
      BY <1>2
    <3>3. \A i, h \in DOMAIN calls : i # h => calls[i].active \intersect calls[h].active = {}
      BY DEF IInv, Disjoint
    <3>4. calls[old(k)].active \intersect calls[old(j)].active = {}
      BY <3>1, <3>2, <3>3
    <3> QED
      BY <3>1, <3>4, Zenon
  <2> QED
    BY <2>1, <2>2, <2>3, <2>4
<1>11. Shared'
  <2> SUFFICES ASSUME NEW k \in DOMAIN calls', NEW a \in calls'[k].active, NEW b \in calls'[k].active,
                      NEW l \in 1 .. calls'[k].level-1
               PROVE  lex'[a][l] = lex'[b][l]
    BY DEF Shared
  <2>1. CASE k \in DOMAIN new
    <3>1. a \in new[k].active /\ b \in new[k].active /\ l \in 1 .. c.level /\ a \in c.active /\ b \in c.active
      BY <1>1, <1>4, <2>1 DEF Makes
    <3>2. CASE l = c.level
      BY <2>1, <3>1, <3>2 DEF Makes
    <3>3. CASE l # c.level
      <4>1. l \in 1 .. c.level-1 /\ l \in 1 .. Depth+1
        BY <1>4, <1>7, <3>1, <3>3
      <4>2. lex[a][l] = lex[b][l]
        BY <1>1, <3>1, <4>1 DEF IInv, Shared
      <4> QED
        BY <1>4, <1>6, <3>1, <3>3, <4>1, <4>2
    <3> QED
      BY <3>2, <3>3
  <2>2. CASE k \notin DOMAIN new
    <3>1. old(k) \in DOMAIN calls \ {1} /\ calls'[k] = calls[old(k)]
      BY <1>1, <2>2
    <3>2. a \notin c.active /\ b \notin c.active /\ a \in Stmts /\ b \in Stmts /\ l \in 1 .. Depth+1
      <4>1. a \in calls[old(k)].active /\ b \in calls[old(k)].active /\ l \in 1 .. calls[old(k)].level-1
        BY <3>1
      <4>2. calls[old(k)].level \in 1 .. Depth+1 /\ calls[old(k)].active \subseteq Stmts
        BY <1>4, <3>1
      <4>3. l \in 1 .. Depth+1
        <5> HIDE DEF old
        <5> QED
          BY <1>7, <4>1, <4>2
      <4>4. calls[old(k)].active \intersect c.active = {}
        BY <1>5, <3>1
      <4> QED
        BY <4>1, <4>2, <4>3, <4>4
    <3>3. lex[a][l] = lex[b][l]
      BY <3>1 DEF IInv, Shared
    <3> QED
      BY <1>6, <3>2, <3>3
  <2> QED
    BY <2>1, <2>2
<1>12. OutsideForward'
  <2> SUFFICES ASSUME NEW k \in DOMAIN calls', NEW e \in dep, e.from \in calls'[k].active,
                      e.to \in calls'[k].active, e.from # e.to, NEW d \in AllDistances,
                      HasDistance(e.dv, d)
               PROVE  LexSign(d, calls'[k].level-1) >= 0
    BY DEF OutsideForward
  <2>1. CASE k \in DOMAIN new
    BY <1>1, <2>1 DEF Makes
  <2>2. CASE k \notin DOMAIN new
    BY <1>1, <2>2 DEF IInv, OutsideForward
  <2> QED
    BY <2>1, <2>2
<1>13. ASSUME NEW a \in Stmts, NEW b \in Stmts, a # b, ~Together(a, b)'
       PROVE  \E l \in 1 .. Depth+1 : PartedAt(a, b, l)'
  <2>1. \A k \in DOMAIN new : ~(a \in new[k].active /\ b \in new[k].active)
    BY <1>1, <1>13 DEF Together
  <2>2. CASE a \in c.active /\ b \in c.active
    <3>1. lex'[a][c.level] # lex'[b][c.level] /\ Respected(a, b, c.level)'
      BY <1>13, <2>1, <2>2 DEF Makes
    <3>2. \A m \in 1 .. c.level-1 : lex'[a][m] = lex'[b][m]
      <4> SUFFICES ASSUME NEW m \in 1 .. c.level-1 PROVE lex'[a][m] = lex'[b][m]
        OBVIOUS
      <4>1. m \in 1 .. Depth+1 /\ m # c.level
        BY <1>4, <1>7
      <4>2. lex[a][m] = lex[b][m]
        BY <1>1, <2>2 DEF IInv, Shared
      <4> QED
        BY <1>6, <4>1, <4>2
    <3>3. \A k \in DOMAIN calls' : a \in calls'[k].active \/ b \in calls'[k].active => c.level < calls'[k].level
      <4> SUFFICES ASSUME NEW k \in DOMAIN calls', a \in calls'[k].active \/ b \in calls'[k].active
                   PROVE  c.level < calls'[k].level
        OBVIOUS
      <4>1. k \in DOMAIN new /\ calls'[k] = new[k]
        BY <1>1, <1>5, <2>2
      <4>2. calls'[k].level = c.level+1
        BY <4>1 DEF Makes
      <4> QED
        BY <1>4, <4>2
    <3>4. PartedAt(a, b, c.level)'
      BY <3>1, <3>2, <3>3 DEF PartedAt
    <3> QED
      BY <1>4, <3>4
  <2>3. CASE ~(a \in c.active /\ b \in c.active)
    <3>1. ~Together(a, b)
      <4> SUFFICES ASSUME NEW i \in DOMAIN calls, a \in calls[i].active, b \in calls[i].active
                   PROVE  FALSE
        BY DEF Together
      <4>1. i \in DOMAIN calls \ {1}
        BY <1>1, <2>3
      <4> QED
        BY <1>1, <1>13, <4>1 DEF Together
    <3>2. PICK l \in 1 .. Depth+1 : PartedAt(a, b, l)
      BY <1>13, <3>1 DEF IInv, Parted
    <3>3. a \in c.active \/ b \in c.active => l < c.level
      BY <1>1, <3>2 DEF PartedAt
    <3>4. \A m \in 1 .. l : lex'[a][m] = lex[a][m] /\ lex'[b][m] = lex[b][m]
      <4> SUFFICES ASSUME NEW m \in 1 .. l PROVE lex'[a][m] = lex[a][m] /\ lex'[b][m] = lex[b][m]
        OBVIOUS
      <4>1. m \in 1 .. Depth+1 /\ (a \in c.active \/ b \in c.active => m # c.level)
        BY <1>4, <1>7, <3>3
      <4> QED
        BY <1>6, <4>1
    <3>5. /\ \A m \in 1 .. l-1 : lex'[a][m] = lex'[b][m]
          /\ lex'[a][l] # lex'[b][l]
      <4>1. \A m \in 1 .. l-1 : m \in 1 .. l
        OBVIOUS
      <4>2. l \in 1 .. l
        OBVIOUS
      <4> QED
        BY <3>2, <3>4, <4>1, <4>2 DEF PartedAt
    <3>6. \A k \in DOMAIN calls' : a \in calls'[k].active \/ b \in calls'[k].active => l < calls'[k].level
      <4> SUFFICES ASSUME NEW k \in DOMAIN calls', a \in calls'[k].active \/ b \in calls'[k].active
                   PROVE  l < calls'[k].level
        OBVIOUS
      <4>1. CASE k \in DOMAIN new
        <5>1. calls'[k].level = c.level+1 /\ (a \in c.active \/ b \in c.active)
          BY <1>1, <4>1 DEF Makes
        <5>2. c.level \in Int /\ l \in Int /\ l < c.level
          BY <1>4, <3>3, <5>1
        <5> QED
          BY <5>1, <5>2
      <4>2. CASE k \notin DOMAIN new
        <5>1. old(k) \in DOMAIN calls /\ calls'[k] = calls[old(k)]
          BY <1>1, <4>2
        <5>2. a \in calls[old(k)].active \/ b \in calls[old(k)].active
          BY <5>1
        <5>3. l < calls[old(k)].level
          BY <3>2, <5>1, <5>2, Zenon DEF PartedAt
        <5> QED
          BY <5>1, <5>3
      <4> QED
        BY <4>1, <4>2
    <3>7. Respected(a, b, l)'
      <4>1. Respected(a, b, l) /\ lex'[a][l] = lex[a][l] /\ lex'[b][l] = lex[b][l]
        BY <3>2, <3>4 DEF PartedAt
      <4> QED
        BY <4>1 DEF Respected
    <3> QED
      BY <3>5, <3>6, <3>7 DEF PartedAt
  <2> QED
    BY <2>2, <2>3
<1>14. Parted'
  BY <1>13 DEF Parted
<1> QED
  BY <1>8, <1>9, <1>10, <1>11, <1>12, <1>14 DEF IInv

-----------------------------------------------------------------------------
(* The steps.                                                              *)

LEMMA SignGoesOn ==
  ASSUME NEW n \in Nat, NEW d, d[n] \in Int, LexSign(d, n) >= 0, LexSign(d, n) = 0 => d[n] >= 0
  PROVE  LexSign(d, n+1) >= 0
<1>1. 0 .. (n+1)-1 = (0 .. n-1) \union {n}
  OBVIOUS
<1>2. CASE \A i \in 0 .. n-1 : d[i] = 0
  <2>1. d[n] >= 0
    BY <1>2 DEF LexSign
  <2>2. CASE d[n] = 0
    BY <1>1, <1>2, <2>2 DEF LexSign
  <2>3. CASE d[n] > 0
    BY <1>1, <1>2, <2>3 DEF LexSign, Before
  <2> QED
    BY <2>1, <2>2, <2>3
<1>3. CASE ~ \A i \in 0 .. n-1 : d[i] = 0
  <2>1. \E i \in 0 .. n-1 : d[i] > 0 /\ \A k \in Before(i) : d[k] = 0
    BY <1>3 DEF LexSign
  <2> QED
    BY <1>1, <2>1 DEF LexSign
<1> QED
  BY <1>2, <1>3

\* What a dependence with a distance that no loop outside has run first means
\* for the loops of a level: it makes an edge between them, unless its
\* distances are zero there, and a negative one if this distance is negative.
LEMMA LevelEdge ==
  ASSUME InputOK, NEW c, c.level \in Levels, NEW e \in dep, e.from \in c.active, e.to \in c.active,
         NEW d \in AllDistances, HasDistance(e.dv, d), LexSign(d, c.level-1) = 0
  PROVE  LET own == Own(c, e.from)
             next == Own(c, e.to)
         IN  /\ ~(e.dv.lb[c.level-1] = 0 /\ e.dv.ub[c.level-1] = 0) => Carried(c, own, next)
             /\ d[c.level-1] < 0 => /\ own # next
                                    /\ Carried(c, own, next)
                                    /\ Negative(c, own, next)
<1> DEFINE i == c.level-1
<1>1. /\ i \in 0 .. Depth-1 /\ i+1 = c.level /\ Depth \in Nat
      /\ DOMAIN e.dv.lb = 0 .. Depth-1
      /\ \A k \in 0 .. Depth-1 : e.dv.lb[k] \in Int /\ e.dv.ub[k] \in Int /\ d[k] \in Int
      /\ e.from \in Stmts /\ e.to \in Stmts
  BY EdgeTypes, ShapeAssumption DEF Levels, AllDistances
<1> HIDE DEF i
<1>2. \A k \in 0 .. Depth-1 : e.dv.lb[k] <= d[k] /\ d[k] <= e.dv.ub[k]
  BY <1>1 DEF HasDistance
<1>3. \A k \in 0 .. i-1 : d[k] = 0
  BY DEF LexSign, i
<1>4. ~HasBeenCarriedBefore(e.dv, i)
  <2> SUFFICES ASSUME NEW k \in Before(i), k \in DOMAIN e.dv.lb PROVE ~(e.dv.lb[k] > 0 \/ e.dv.ub[k] < 0)
    BY DEF HasBeenCarriedBefore
  <2>1. k \in 0 .. i-1 /\ k \in 0 .. Depth-1
    BY <1>1 DEF Before
  <2>2. e.dv.lb[k] <= 0 /\ 0 <= e.dv.ub[k]
    BY <1>2, <1>3, <2>1
  <2> QED
    BY <1>1, <2>1, <2>2
<1>5. e.from \in Own(c, e.from) /\ e.to \in Own(c, e.to)
  BY DEF Own
<1>6. e.dv \in Vectors(Own(c, e.from), Own(c, e.to))
  BY <1>5 DEF Vectors
<1>7. ASSUME ~(e.dv.lb[i] = 0 /\ e.dv.ub[i] = 0)
      PROVE  Carried(c, Own(c, e.from), Own(c, e.to))
  <2>1. HasBeenCarriedAt(e.dv, i)
    BY <1>1, <1>4, <1>7 DEF HasBeenCarriedAt
  <2> QED
    BY <1>6, <2>1 DEF Carried, DepDim, i
<1>8. ASSUME d[i] < 0
      PROVE  /\ Carried(c, Own(c, e.from), Own(c, e.to))
             /\ Negative(c, Own(c, e.from), Own(c, e.to))
             /\ Own(c, e.from) # Own(c, e.to)
  <2>1. e.dv.lb[i] < 0
    BY <1>1, <1>2, <1>8
  <2>2. Carried(c, Own(c, e.from), Own(c, e.to))
    BY <1>1, <1>7, <2>1
  <2>3. HasNegativeBeenCarriedAt(e.dv, i)
    BY <1>1, <1>4, <2>1 DEF HasNegativeBeenCarriedAt
  <2>4. Negative(c, Own(c, e.from), Own(c, e.to))
    BY <1>6, <2>3 DEF Negative, DepDim, i
  <2>5. ASSUME loop[e.from][c.level] = loop[e.to][c.level]
        PROVE  FALSE
    <3>1. \A k \in 0 .. i : loop[e.from][k+1] = loop[e.to][k+1]
      <4> SUFFICES ASSUME NEW k \in 0 .. i PROVE loop[e.from][k+1] = loop[e.to][k+1]
        OBVIOUS
      <4>1. k+1 \in 1 .. c.level
        BY <1>1
      <4> QED
        BY <1>1, <2>5, <4>1, LoopsNest
    <3>2. i \in 0 .. i /\ i \in 0 .. Depth-1
      BY <1>1
    <3>3. loop[e.from][i+1] = loop[e.to][i+1] /\ e.dv.lb[i] # 0
      BY <1>1, <2>1, <3>1, <3>2
    <3>4. ASSUME NEW k \in 0 .. Depth-1, e.dv.lb[k] > 0,
                 \A h \in Before(k) : e.dv.lb[h] = 0 /\ e.dv.ub[h] = 0
          PROVE  FALSE
      <4>1. d[k] > 0 /\ d[k] \in Int
        BY <1>1, <1>2, <3>4
      <4>2. ~(k < i) /\ k # i
        BY <1>1, <1>3, <1>8, <4>1
      <4>3. i \in Before(k)
        BY <1>1, <4>2 DEF Before
      <4> QED
        BY <3>3, <3>4, <4>3
    <3>5. Forward(e)
      BY DEF InputOK
    <3> QED
      BY <3>2, <3>3, <3>4, <3>5 DEF Forward
  <2>6. Own(c, e.from) # Own(c, e.to)
    BY <1>5, <2>5 DEF Own
  <2> QED
    BY <2>2, <2>4, <2>6
<1> QED
  BY <1>7, <1>8 DEF i

\* The loops of a level are fused into groups that keep the dependences.
LEMMA OrderLevelMakes ==
  ASSUME IInv, calls # <<>>, NEW c, OrderLevel(c)
  PROVE  /\ c = Head(calls)
         /\ \E new \in Seq(AllCalls) : Makes(c, new) /\ calls' = new \o Tail(calls)
         /\ UNCHANGED <<loop, dep, pc>>
<1>1. /\ c = Head(calls) /\ c.level \in Levels /\ c.level \in 1 .. Depth+1
      /\ c \in AllCalls /\ c.active \in SUBSET Stmts /\ c.active # {}
      /\ c.order \in Int /\ Depth \in Nat
  <2>1. c = Head(calls) /\ c.level <= Depth
    BY DEF OrderLevel, Calls
  <2>2. c \in AllCalls
    BY <2>1, HeadTailProperties DEF IInv, Types
  <2> QED
    BY <2>1, <2>2, ShapeAssumption DEF AllCalls, Levels
<1>2. InputOK /\ Shared /\ OutsideForward /\ lex \in [Stmts -> [1 .. Depth+1 -> Int]]
  BY DEF IInv, Types
<1>3. Dag(c)
  BY <1>1, <1>2, NeverCyclic
<1>4. SetOrder(c, Groups(c)) /\ UNCHANGED <<loop, dep, pc>>
  BY <1>3 DEF OrderLevel, SetOrder
<1>5. PICK K : IsGrouping(c, Groups(c), K)
  BY <1>1, <1>3, GroupsFacts
<1> DEFINE group == Groups(c)
           D == 1 .. K
           new == [k \in D |-> Call(c.level+1, group[k], c.order + k-1)]
           place(a) == CHOOSE k \in DOMAIN group : a \in group[k]
<1>6. /\ K \in Nat \ {0} /\ DOMAIN group = D
      /\ \A k \in D : group[k] \subseteq c.active /\ group[k] # {}
      /\ \A a \in c.active : \E k \in D : a \in group[k]
      /\ \A k, j \in D : group[k] \intersect group[j] # {} => k = j
  BY <1>5 DEF IsGrouping
<1>7. ASSUME NEW k \in D, NEW j \in D, NEW a \in group[k], NEW b \in group[j]
      PROVE  /\ Own(c, a) = Own(c, b) => k = j
             /\ Own(c, a) # Own(c, b) /\ Carried(c, Own(c, a), Own(c, b)) => k <= j
             /\ Own(c, a) # Own(c, b) /\ Carried(c, Own(c, a), Own(c, b))
                  /\ Negative(c, Own(c, a), Own(c, b)) => k < j
  BY <1>5 DEF IsGrouping
<1>8. calls' = new \o Tail(calls)
  BY <1>4, <1>6 DEF SetOrder
<1>9. lex' = [a \in Stmts |-> IF a \in c.active THEN [lex[a] EXCEPT ![c.level] = c.order + place(a)-1]
                                                ELSE lex[a]]
  BY <1>4 DEF SetOrder, StartingOrder
<1> HIDE DEF group
<1>10. \A k \in D : \A a : a \in group[k] => place(a) = k
  <2> SUFFICES ASSUME NEW k \in D, NEW a, a \in group[k] PROVE place(a) = k
    OBVIOUS
  <2>1. place(a) \in DOMAIN group /\ a \in group[place(a)]
    BY <1>6
  <2> QED
    BY <1>6, <2>1
<1> HIDE DEF place
<1>11. \A k \in D : new[k].level = c.level+1 /\ new[k].active = group[k] /\ new[k] \in AllCalls
  <2> SUFFICES ASSUME NEW k \in D PROVE new[k].level = c.level+1 /\ new[k].active = group[k] /\ new[k] \in AllCalls
    OBVIOUS
  <2>1. group[k] \in (SUBSET Stmts) \ {{}}
    BY <1>1, <1>6
  <2>2. c.level+1 \in 1 .. Depth+1 /\ c.order + k-1 \in Int
    BY <1>1, <1>6 DEF Levels
  <2> QED
    BY <2>1, <2>2 DEF Call, AllCalls
<1>12. new \in Seq(AllCalls) /\ DOMAIN new = D
  <2>1. new \in [1 .. K -> AllCalls] /\ K \in Nat
    BY <1>6, <1>11
  <2> HIDE DEF new
  <2> QED
    BY <2>1, SeqDef
<1> HIDE DEF new
<1>13. \A a \in c.active : place(a) \in D
  BY <1>6, <1>10
<1>14. lex' \in [Stmts -> [1 .. Depth+1 -> Int]]
  <2> SUFFICES ASSUME NEW a \in Stmts PROVE lex'[a] \in [1 .. Depth+1 -> Int]
    BY <1>9
  <2>1. lex[a] \in [1 .. Depth+1 -> Int]
    BY <1>2
  <2>2. CASE a \in c.active
    <3>1. PICK k \in D : place(a) = k
      BY <1>13, <2>2
    <3>2. c.order + k-1 \in Int
      BY <1>1, <1>6
    <3> QED
      BY <1>9, <2>1, <2>2, <3>1, <3>2
  <2>3. CASE a \notin c.active
    BY <1>9, <2>1, <2>3
  <2> QED
    BY <2>2, <2>3
<1>15. \A k \in D : \A a : a \in group[k] => lex'[a][c.level] = c.order + k-1
  <2> SUFFICES ASSUME NEW k \in D, NEW a, a \in group[k] PROVE lex'[a][c.level] = c.order + k-1
    OBVIOUS
  <2>1. a \in Stmts /\ a \in c.active /\ place(a) = k
    BY <1>1, <1>6, <1>10
  <2>2. lex[a] \in [1 .. Depth+1 -> Int]
    BY <1>2, <2>1
  <2> QED
    BY <1>1, <1>9, <2>1, <2>2
<1>16. \A a \in Stmts, l \in 1 .. Depth+1 : a \notin c.active \/ l # c.level => lex'[a][l] = lex[a][l]
  BY <1>1, <1>2, <1>9
<1>17. 1 \in DOMAIN calls /\ c = calls[1]
  <2>1. calls \in Seq(AllCalls)
    BY DEF IInv, Types
  <2> QED
    BY <1>1, <1>12, <2>1, CallsAfter
<1>18. ASSUME NEW e \in dep, e.from \in c.active, e.to \in c.active, e.from # e.to,
              NEW d \in AllDistances, HasDistance(e.dv, d)
       PROVE  LexSign(d, c.level-1) >= 0
  BY <1>2, <1>17, <1>18 DEF OutsideForward
<1>19. ASSUME NEW a \in c.active, NEW b \in c.active,
              \A k \in D : ~(a \in group[k] /\ b \in group[k])
       PROVE  lex'[a][c.level] # lex'[b][c.level] /\ Respected(a, b, c.level)'
  <2>1. PICK k \in D, j \in D : a \in group[k] /\ b \in group[j]
    BY <1>6
  <2>2. k # j /\ k \in Int /\ j \in Int /\ c.order \in Int
    BY <1>1, <1>6, <1>19, <2>1
  <2>3. lex'[a][c.level] = c.order + k-1 /\ lex'[b][c.level] = c.order + j-1
    BY <1>15, <2>1
  <2>4. a # b /\ Own(c, a) # Own(c, b)
    <3>1. Own(c, a) # Own(c, b)
      BY <1>7, <2>1, <2>2
    <3> QED
      BY <3>1
  <2>5. ASSUME NEW e \in dep, e.from = a, e.to = b,
               ~(e.dv.lb[c.level-1] = 0 /\ e.dv.ub[c.level-1] = 0),
               NEW d \in AllDistances, HasDistance(e.dv, d), LexSign(d, c.level-1) # 1
        PROVE  LexSign(d, c.level-1) = 0 /\ lex'[a][c.level] < lex'[b][c.level]
    <3>1. LexSign(d, c.level-1) >= 0
      BY <1>18, <2>4, <2>5
    <3>2. LexSign(d, c.level-1) = 0
      BY <2>5, <3>1 DEF LexSign
    <3>3. Carried(c, Own(c, a), Own(c, b))
      BY <1>1, <1>2, <2>5, <3>2, LevelEdge
    <3>4. k <= j
      BY <1>7, <2>1, <2>4, <3>3
    <3> QED
      BY <2>2, <2>3, <3>2, <3>4
  <2>6. Respected(a, b, c.level)'
    BY <1>1, <1>4, <2>5 DEF Respected, Levels
  <2> QED
    BY <2>2, <2>3, <2>6
<1>20. ASSUME NEW k \in D, NEW e \in dep, e.from \in group[k], e.to \in group[k], e.from # e.to,
              NEW d \in AllDistances, HasDistance(e.dv, d)
       PROVE  LexSign(d, (c.level+1)-1) >= 0
  <2>1. e.from \in c.active /\ e.to \in c.active
    BY <1>6, <1>20
  <2>2. LexSign(d, c.level-1) >= 0
    BY <1>18, <1>20, <2>1
  <2>3. ASSUME LexSign(d, c.level-1) = 0, d[c.level-1] < 0
        PROVE  FALSE
    <3>1. /\ Own(c, e.from) # Own(c, e.to)
          /\ Carried(c, Own(c, e.from), Own(c, e.to))
          /\ Negative(c, Own(c, e.from), Own(c, e.to))
      BY <1>1, <1>2, <1>20, <2>1, <2>3, LevelEdge
    <3>2. k < k
      BY <1>7, <1>20, <3>1
    <3> QED
      BY <1>6, <3>2
  <2>4. c.level-1 \in Nat /\ c.level-1 \in 0 .. Depth-1 /\ (c.level-1)+1 = (c.level+1)-1
    BY <1>1 DEF Levels
  <2>5. d[c.level-1] \in Int
    BY <2>4 DEF AllDistances
  <2> QED
    BY <2>2, <2>3, <2>4, <2>5, SignGoesOn
<1>21. Makes(c, new)
  <2>1. \A k \in DOMAIN new : new[k].active \subseteq c.active /\ new[k].level = c.level+1
    BY <1>6, <1>11, <1>12
  <2>2. \A k, j \in DOMAIN new : k # j => new[k].active \intersect new[j].active = {}
    BY <1>6, <1>11, <1>12
  <2>3. \A k \in DOMAIN new : \A a, b \in new[k].active : lex'[a][c.level] = lex'[b][c.level]
    BY <1>11, <1>12, <1>15
  <2>4. \A a, b \in c.active : \/ a = b
                               \/ \E k \in DOMAIN new : a \in new[k].active /\ b \in new[k].active
                               \/ lex'[a][c.level] # lex'[b][c.level] /\ Respected(a, b, c.level)'
    BY <1>11, <1>12, <1>19
  <2>5. \A k \in DOMAIN new, e \in dep :
          e.from \in new[k].active /\ e.to \in new[k].active /\ e.from # e.to =>
             \A d \in AllDistances : HasDistance(e.dv, d) => LexSign(d, new[k].level-1) >= 0
    BY <1>11, <1>12, <1>20
  <2> QED
    BY <1>14, <1>16, <2>1, <2>2, <2>3, <2>4, <2>5 DEF Makes
<1> QED
  BY <1>1, <1>4, <1>8, <1>12, <1>21

LEMMA NoMoreCalls ==
  ASSUME calls \in Seq(AllCalls), calls # <<>>
  PROVE  /\ <<>> \in Seq(AllCalls) /\ DOMAIN <<>> = {}
         /\ <<>> \o Tail(calls) = Tail(calls)
         /\ 1 \in DOMAIN calls /\ Head(calls) = calls[1]
<1>1. <<>> \in Seq(AllCalls)
  BY EmptySeq
<1>2. Tail(calls) \in Seq(AllCalls) /\ <<>> \o Tail(calls) = Tail(calls)
  BY HeadTailProperties, ConcatEmptySeq
<1>3. 1 \in DOMAIN calls /\ Head(calls) = calls[1]
  BY <1>1, CallsAfter
<1> QED
  BY <1>1, <1>2, <1>3

\* The statements below the innermost loop are put in an order that the
\* dependences between them allow.
LEMMA OrderStatementsMakes ==
  ASSUME IInv, calls # <<>>, NEW c, OrderStatements(c)
  PROVE  /\ c = Head(calls)
         /\ Makes(c, <<>>) /\ calls' = <<>> \o Tail(calls)
         /\ UNCHANGED <<loop, dep, pc>>
<1>1. /\ c = Head(calls) /\ c.level = Depth+1
      /\ c.active \in SUBSET Stmts /\ c.order \in Int /\ Depth \in Nat /\ N \in Nat
  <2>1. c = Head(calls) /\ c.level = Depth+1
    BY DEF OrderStatements, Calls
  <2>2. c \in AllCalls
    BY <2>1, HeadTailProperties DEF IInv, Types
  <2> QED
    BY <2>1, <2>2, ShapeAssumption DEF AllCalls
<1>2. InputOK /\ Shared /\ OutsideForward /\ lex \in [Stmts -> [1 .. Depth+1 -> Int]]
      /\ calls \in Seq(AllCalls)
  BY DEF IInv, Types
<1>3. TextOrders(c.active) # {}
  BY <1>1, <1>2, TextOrderExists
<1>4. PICK q \in TextOrders(c.active) :
        /\ lex' = [a \in Stmts |-> IF a \in c.active
                                   THEN [lex[a] EXCEPT ![c.level] =
                                           c.order - 1 + CHOOSE k \in DOMAIN q : q[k] = a]
                                   ELSE lex[a]]
        /\ calls' = Tail(calls)
        /\ UNCHANGED <<loop, dep, pc>>
  BY <1>3 DEF OrderStatements
<1> DEFINE place(a) == CHOOSE k \in DOMAIN q : q[k] = a
<1>5. /\ q \in [1 .. Cardinality(c.active) -> c.active]
      /\ \A i, j \in DOMAIN q : q[i] = q[j] => i = j
      /\ \A x \in c.active : \E i \in DOMAIN q : q[i] = x
      /\ DOMAIN q \subseteq Int
  <2>1. IsFiniteSet(c.active)
    BY <1>1, VerticesCount, FS_Subset DEF Stmts
  <2>2. q \in SetToSeqs(c.active)
    BY DEF TextOrders
  <2>3. /\ q \in [1 .. Cardinality(c.active) -> c.active]
        /\ \A i, j \in DOMAIN q : q[i] = q[j] => i = j
        /\ \A x \in c.active : \E i \in DOMAIN q : q[i] = x
    BY <2>1, <2>2, Enumerates
  <2>4. Cardinality(c.active) \in Nat
    BY <2>1, FS_CardinalityType
  <2>5. DOMAIN q = 1 .. Cardinality(c.active)
    BY <2>3
  <2> QED
    BY <2>3, <2>4, <2>5
<1>6. \A a \in c.active : place(a) \in DOMAIN q /\ q[place(a)] = a
  BY <1>5
<1>7. lex' = [a \in Stmts |-> IF a \in c.active THEN [lex[a] EXCEPT ![c.level] = c.order - 1 + place(a)]
                                                ELSE lex[a]]
  BY <1>4
<1> HIDE DEF place
<1>8. \A a \in Stmts : lex[a] \in [1 .. Depth+1 -> Int]
  BY <1>2
<1>9. \A a \in c.active : place(a) \in Int
  BY <1>5, <1>6
<1>10. ASSUME NEW a \in Stmts
       PROVE  lex'[a] \in [1 .. Depth+1 -> Int]
  <2>1. CASE a \in c.active
    <3>1. PICK k \in Int : place(a) = k
      BY <1>9, <2>1
    <3>2. c.order-1 + k \in Int
      BY <1>1
    <3> QED
      BY <1>7, <1>8, <2>1, <3>1, <3>2
  <2>2. CASE a \notin c.active
    BY <1>7, <1>8, <2>2
  <2> QED
    BY <2>1, <2>2
<1>11. \A a \in c.active : lex'[a][c.level] = c.order - 1 + place(a)
  <2> SUFFICES ASSUME NEW a \in c.active PROVE lex'[a][c.level] = c.order - 1 + place(a)
    OBVIOUS
  <2>1. c.level \in 1 .. Depth+1 /\ a \in Stmts
    BY <1>1
  <2> QED
    BY <1>7, <1>8, <2>1
<1>12. \A a \in Stmts, l \in 1 .. Depth+1 : a \notin c.active \/ l # c.level => lex'[a][l] = lex[a][l]
  BY <1>7, <1>8
<1>13. 1 \in DOMAIN calls /\ c = calls[1] /\ DOMAIN <<>> = {} /\ <<>> \o Tail(calls) = Tail(calls)
  BY <1>1, <1>2, NoMoreCalls
<1>14. ASSUME NEW a \in c.active, NEW b \in c.active, a # b
       PROVE  lex'[a][c.level] # lex'[b][c.level] /\ Respected(a, b, c.level)'
  <2>1. PICK i \in Int, j \in Int : /\ place(a) = i /\ place(b) = j
                                    /\ i \in DOMAIN q /\ j \in DOMAIN q /\ q[i] = a /\ q[j] = b
    BY <1>6, <1>9
  <2>2. i # j /\ lex'[a][c.level] = c.order-1 + i /\ lex'[b][c.level] = c.order-1 + j
    BY <1>11, <1>14, <2>1
  <2>3. ASSUME NEW e \in dep, e.from = a, e.to = b, NEW d \in AllDistances, HasDistance(e.dv, d),
               LexSign(d, c.level-1) # 1
        PROVE  LexSign(d, c.level-1) = 0 /\ lex'[a][c.level] < lex'[b][c.level]
    <3>1. LexSign(d, c.level-1) >= 0
      BY <1>2, <1>13, <1>14, <2>3 DEF OutsideForward
    <3>2. LexSign(d, c.level-1) = 0
      BY <2>3, <3>1 DEF LexSign
    <3>3. c.level-1 = Depth
      BY <1>1
    <3>4. \A k \in 0 .. Depth-1 : d[k] = 0
      BY <3>2, <3>3 DEF LexSign
    <3>5. /\ DOMAIN e.dv.lb = 0 .. Depth-1
          /\ \A k \in 0 .. Depth-1 : e.dv.lb[k] \in Int /\ e.dv.ub[k] \in Int
      BY <1>2, EdgeTypes
    <3>6. ~HasBeenCarriedBefore(e.dv, Depth)
      <4> SUFFICES ASSUME NEW k \in DOMAIN e.dv.lb PROVE ~(e.dv.lb[k] > 0 \/ e.dv.ub[k] < 0)
        BY DEF HasBeenCarriedBefore
      <4>1. e.dv.lb[k] <= 0 /\ 0 <= e.dv.ub[k]
        BY <2>3, <3>4, <3>5 DEF HasDistance
      <4> QED
        BY <3>5, <4>1
    <3>7. Uncarried(a, b)
      BY <2>3, <3>6 DEF Uncarried, Vectors
    <3>8. i < j
      BY <2>1, <2>2, <3>7 DEF TextOrders
    <3> QED
      BY <1>1, <2>2, <3>2, <3>8
  <2>4. Respected(a, b, c.level)'
    BY <1>4, <2>3 DEF Respected
  <2> QED
    BY <1>1, <2>2, <2>4
<1>15. lex' \in [Stmts -> [1 .. Depth+1 -> Int]]
  <2>1. lex' = [a \in Stmts |-> lex'[a]]
    BY <1>7
  <2> QED
    BY <1>10, <2>1
<1>16. Makes(c, <<>>)
  BY <1>12, <1>13, <1>14, <1>15 DEF Makes
<1> QED
  BY <1>1, <1>4, <1>13, <1>16

\* A statement alone in its call gets a place of its own.
LEMMA OrderAloneMakes ==
  ASSUME IInv, calls # <<>>, NEW c, OrderAlone(c)
  PROVE  /\ c = Head(calls)
         /\ Makes(c, <<>>) /\ calls' = <<>> \o Tail(calls)
         /\ UNCHANGED <<loop, dep, pc>>
<1>1. /\ c = Head(calls) /\ c.level = Depth+1 /\ Cardinality(c.active) = 1
      /\ calls' = Tail(calls) /\ UNCHANGED <<loop, dep, pc>>
      /\ lex' = [a \in Stmts |-> IF a \in c.active THEN [lex[a] EXCEPT ![c.level] = 0] ELSE lex[a]]
  BY DEF OrderAlone, Calls
<1>2. /\ calls \in Seq(AllCalls) /\ c.active \in SUBSET Stmts /\ Depth \in Nat /\ N \in Nat
      /\ \A a \in Stmts : lex[a] \in [1 .. Depth+1 -> Int]
  <2>1. calls \in Seq(AllCalls) /\ lex \in [Stmts -> [1 .. Depth+1 -> Int]]
    BY DEF IInv, Types
  <2>2. c \in AllCalls
    BY <1>1, <2>1, HeadTailProperties
  <2> QED
    BY <2>1, <2>2, ShapeAssumption DEF AllCalls
<1>3. DOMAIN <<>> = {} /\ <<>> \o Tail(calls) = Tail(calls)
  BY <1>2, NoMoreCalls
<1>4. \A a, b \in c.active : a = b
  <2>1. IsFiniteSet(c.active)
    BY <1>2, VerticesCount, FS_Subset DEF Stmts
  <2>2. PICK x : c.active = {x}
    BY <1>1, <2>1, FS_Singleton
  <2> QED
    BY <2>2
<1>5. lex' \in [Stmts -> [1 .. Depth+1 -> Int]]
  BY <1>1, <1>2
<1>6. \A a \in Stmts, l \in 1 .. Depth+1 : a \notin c.active \/ l # c.level => lex'[a][l] = lex[a][l]
  BY <1>1, <1>2
<1>7. Makes(c, <<>>)
  BY <1>3, <1>4, <1>5, <1>6 DEF Makes
<1> QED
  BY <1>1, <1>3, <1>7

\* The distances of a vector are integers.
LEMMA DistancesTyped ==
  ASSUME InputOK, NEW e \in dep
  PROVE  Distances(e.dv) \subseteq AllDistances
<1> DEFINE lo == Min(Range(e.dv.lb))
           hi == Max(Range(e.dv.ub))
<1>1. /\ e.dv.lb \in [0 .. Depth-1 -> Int] /\ e.dv.ub \in [0 .. Depth-1 -> Int]
      /\ Depth \in Nat
  BY EdgeTypes, ShapeAssumption
<1>2. CASE Depth = 0
  <2>1. 0 .. Depth-1 = {}
    BY <1>2
  <2> QED
    BY <2>1 DEF Distances, AllDistances
<1>3. CASE Depth # 0
  <2>1. 0 \in 0 .. Depth-1
    BY <1>1, <1>3
  <2>2. lo \in Int
    <3> DEFINE T == Range(e.dv.lb)
    <3>1. T = {e.dv.lb[i] : i \in 0 .. Depth-1}
      BY <1>1 DEF Range
    <3>2. PICK b \in Int : \A i \in 0 .. Depth-1 : b <= e.dv.lb[i]
      BY <1>1, BoundsExist
    <3>3. T \in SUBSET Int /\ T # {} /\ \A x \in T : b <= x
      BY <1>1, <2>1, <3>1, <3>2
    <3> HIDE DEF T
    <3>4. Min(T) \in T
      BY <3>3, MinBounded
    <3> QED
      BY <3>3, <3>4 DEF T
  <2>3. hi \in Int
    <3> DEFINE T == Range(e.dv.ub)
    <3>1. T = {e.dv.ub[i] : i \in 0 .. Depth-1}
      BY <1>1 DEF Range
    <3>2. PICK b \in Int : \A i \in 0 .. Depth-1 : e.dv.ub[i] <= b
      BY <1>1, BoundsExist
    <3>3. T \in SUBSET Int /\ T # {} /\ \A x \in T : x <= b
      BY <1>1, <2>1, <3>1, <3>2
    <3> HIDE DEF T
    <3>4. Max(T) \in T
      BY <3>3, MaxBounded
    <3> QED
      BY <3>3, <3>4 DEF T
  <2> HIDE DEF lo, hi
  <2>4. lo .. hi \subseteq Int
    BY <2>2, <2>3
  <2>5. Distances(e.dv) = {d \in [0 .. Depth-1 -> lo .. hi] : HasDistance(e.dv, d)}
    BY DEF Distances, lo, hi
  <2> QED
    BY <2>4, <2>5 DEF AllDistances
<1> QED
  BY <1>2, <1>3

-----------------------------------------------------------------------------
(* The theorems.                                                           *)

LEMMA InitKeeps ==
  ASSUME Init
  PROVE  IInv
<1>1. /\ loop \in Nests /\ dep \in Dependences /\ \A e \in dep : Forward(e)
      /\ lex = [a \in Stmts |-> [l \in 1 .. Depth+1 |-> 0]]
      /\ calls = <<Call(1, Stmts, 0)>> /\ pc = "order"
      /\ N \in Nat \ {0} /\ Depth \in Nat
  BY ShapeAssumption DEF Init
<1>2. Call(1, Stmts, 0) \in AllCalls
  <2>1. 0 \in Stmts /\ 1 \in 1 .. Depth+1
    BY <1>1 DEF Stmts
  <2> QED
    BY <2>1 DEF Call, AllCalls
<1>3. calls \in Seq(AllCalls) /\ DOMAIN calls = {1} /\ calls[1].active = Stmts /\ calls[1].level = 1
  BY <1>1, <1>2 DEF Call
<1>4. InputOK /\ Types
  BY <1>1, <1>3 DEF InputOK, Types
<1>5. Disjoint
  BY <1>3 DEF Disjoint
<1>6. Shared
  BY <1>3 DEF Shared
<1>7. OutsideForward
  BY <1>3 DEF OutsideForward, LexSign
<1>8. Parted
  BY <1>3 DEF Parted, Together
<1> QED
  BY <1>4, <1>5, <1>6, <1>7, <1>8 DEF IInv

\* The invariant holds in every reachable state.
THEOREM Inductive == Spec => []IInv
<1>1. Init => IInv
  BY InitKeeps
<1>2. IInv /\ [Next]_vars => IInv'
  <2> SUFFICES ASSUME IInv, [Next]_vars PROVE IInv'
    OBVIOUS
  <2>1. CASE UNCHANGED vars
    BY <2>1 DEF vars, IInv, InputOK, Forward, Types, Disjoint, Shared, OutsideForward, Parted, Together,
                PartedAt, Respected
  <2>2. ASSUME NEW k \in DOMAIN calls, OrderLevel(calls[k]) PROVE IInv'
    <3>1. calls # <<>>
      OBVIOUS
    <3>2. PICK new \in Seq(AllCalls) : /\ calls[k] = Head(calls)
                                       /\ Makes(calls[k], new) /\ calls' = new \o Tail(calls)
                                       /\ UNCHANGED <<loop, dep, pc>>
      BY <2>2, <3>1, OrderLevelMakes
    <3> QED
      BY <3>1, <3>2, StepKeeps
  <2>3. ASSUME NEW k \in DOMAIN calls, OrderStatements(calls[k]) \/ OrderAlone(calls[k]) PROVE IInv'
    <3>1. calls # <<>>
      OBVIOUS
    <3>2. /\ calls[k] = Head(calls)
          /\ Makes(calls[k], <<>>) /\ calls' = <<>> \o Tail(calls)
          /\ UNCHANGED <<loop, dep, pc>>
      BY <2>3, <3>1, OrderStatementsMakes, OrderAloneMakes
    <3>3. <<>> \in Seq(AllCalls)
      BY EmptySeq
    <3> QED
      BY <3>1, <3>2, <3>3, StepKeeps
  <2> QED
    BY <2>1, <2>2, <2>3 DEF Next, Step, Ended
<1> QED
  BY <1>1, <1>2, PTL DEF Spec

\* A call orders exactly the statements that share the loops outside its level
\* (the order as it is then): no other call numbers statements of the same loop.
THEOREM OwnCorrect == Spec => []CallsOwnTheirLoop
<1>1. IInv => CallsOwnTheirLoop
  <2> SUFFICES ASSUME IInv, NEW k \in DOMAIN calls, NEW a \in calls[k].active, NEW b \in Stmts
               PROVE  b \in calls[k].active <=> \A l \in 1 .. calls[k].level-1 : lex[a][l] = lex[b][l]
    BY DEF CallsOwnTheirLoop
  <2>1. CASE b \in calls[k].active
    BY <2>1 DEF IInv, Shared
  <2>2. CASE b \notin calls[k].active
    <3>1. a \in Stmts /\ a # b /\ calls[k].level \in 1 .. Depth+1 /\ Depth \in Nat
      <4>1. calls[k] \in AllCalls
        BY ElementOfSeq, LenProperties DEF IInv, Types
      <4> QED
        BY <2>2, <4>1, ShapeAssumption DEF AllCalls
    <3>2. ~Together(a, b)
      BY <2>2 DEF Together, IInv, Disjoint
    <3>3. PICK l \in 1 .. Depth+1 : PartedAt(a, b, l)
      BY <3>1, <3>2 DEF IInv, Parted
    <3>4. lex[a][l] # lex[b][l] /\ l < calls[k].level
      BY <3>3 DEF PartedAt
    <3>5. l \in 1 .. calls[k].level-1
      BY <3>1, <3>4
    <3> QED
      BY <2>2, <3>4, <3>5
  <2> QED
    BY <2>1, <2>2
<1> QED
  BY <1>1, Inductive, PTL

\* With no call left all statements are parted.
LEMMA AllParted ==
  ASSUME IInv, calls = <<>>, NEW a \in Stmts, NEW b \in Stmts, a # b
  PROVE  \E l \in 1 .. Depth+1 : PartedAt(a, b, l)
  BY DEF IInv, Parted, Together

\* The order that setLexicalOrder ends with runs every instance of every
\* dependence in its direction, whichever loops it fused; all that it gives up
\* is a vector that is zero at the level where two loops part, which
\* construct_induced_graph_at_level makes no edge for.
THEOREM PreservedCorrect == Spec => []DependencesPreserved
<1>1. IInv => DependencesPreserved
  <2> SUFFICES ASSUME IInv, calls = <<>>, NEW e \in dep, e.from # e.to, ~Unprotected(e),
                      NEW d \in Distances(e.dv)
               PROVE  RunsBefore(e.from, e.to, d)
    BY DEF DependencesPreserved
  <2> DEFINE a == e.from
             b == e.to
  <2>1. InputOK /\ a \in Stmts /\ b \in Stmts /\ Depth \in Nat
    BY EdgeTypes, ShapeAssumption DEF IInv
  <2>2. d \in AllDistances /\ HasDistance(e.dv, d)
    BY <2>1, DistancesTyped DEF Distances
  <2>3. PICK l \in 1 .. Depth+1 : PartedAt(a, b, l)
    BY <2>1, AllParted
  <2> HIDE DEF a, b
  <2>4. /\ lex[a][l] # lex[b][l] /\ \A k \in 1 .. l-1 : lex[a][k] = lex[b][k]
        /\ Respected(a, b, l)
    BY <2>3 DEF PartedAt
  <2>5. \A m \in 1 .. Depth+1 :
          lex[a][m] # lex[b][m] /\ (\A k \in 1 .. m-1 : lex[a][k] = lex[b][k]) => m = l
    <3> SUFFICES ASSUME NEW m \in 1 .. Depth+1, lex[a][m] # lex[b][m],
                        \A k \in 1 .. m-1 : lex[a][k] = lex[b][k]
                 PROVE  m = l
      OBVIOUS
    <3>1. m \notin 1 .. l-1 /\ l \notin 1 .. m-1
      BY <2>4
    <3> QED
      BY <2>1, <3>1
  <2>6. Parts(a, b) = l
    BY <2>4, <2>5, Zenon DEF Parts
  <2>7. ~(l <= Depth /\ e.dv.lb[l-1] = 0 /\ e.dv.ub[l-1] = 0)
    BY <2>6 DEF Unprotected, a, b
  <2>8. LexSign(d, l-1) = 1 \/ (LexSign(d, l-1) = 0 /\ lex[a][l] < lex[b][l])
    BY <2>2, <2>4, <2>7 DEF Respected, a, b
  <2> QED
    BY <2>6, <2>8 DEF RunsBefore, a, b
<1> QED
  BY <1>1, Inductive, PTL

\* No two statements end at the same place of the text.
THEOREM DistinctCorrect == Spec => []PlacesDistinct
<1>1. IInv => PlacesDistinct
  <2> SUFFICES ASSUME IInv, calls = <<>>, NEW a \in Stmts, NEW b \in Stmts, a # b, lex[a] = lex[b]
               PROVE  FALSE
    BY DEF PlacesDistinct
  <2> QED
    BY AllParted DEF PartedAt
<1> QED
  BY <1>1, Inductive, PTL

\* The graph of the loops of a program is never refused as a cycle, and neither
\* is the graph of the statements in the innermost loop.
THEOREM NeverRefusedCorrect == Spec => []NeverRefused
<1>1. IInv => NeverRefused
  BY DEF IInv, Types, NeverRefused
<1> QED
  BY <1>1, Inductive, PTL

=============================================================================

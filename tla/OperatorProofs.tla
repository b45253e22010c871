--------------------------- MODULE OperatorProofs ---------------------------
(***************************************************************************)
(* The facts about operators that the proofs about the components rest on. *)
(*                                                                         *)
(* Reachability: Warshall's recursion yields the least reflexive and       *)
(* transitive relation with the edges, so that the strongly connected      *)
(* components share no vertex and every part of an acyclic graph has a     *)
(* first vertex, for every number of vertices and every set of edges.  The *)
(* proofs by induction look at the least number for which the claim fails. *)
(*                                                                         *)
(* DepVector: what the operations on dependence vectors do to the          *)
(* distances within their bounds, for every number of dimensions and every *)
(* bound.  The one that matters is PermuteExact: DependenceVector::permute *)
(* refuses a permutation exactly when one of these distances would run     *)
(* backwards.                                                              *)
(*                                                                         *)
(* And what recursions over 0 .. n, the ranks of the elements of an        *)
(* ordered set, listings and flattened sequences, quotients and            *)
(* progressions are.                                                       *)
(***************************************************************************)
EXTENDS Reachability, DepVector, SequencesExt, FiniteSetsExt, TLAPS, WellFoundedInduction,
        FiniteSetTheorems, SequenceTheorems

-----------------------------------------------------------------------------
(* Numbers.                                                                *)

\* A set of naturals that is not empty has a least element.
LEMMA LeastElement ==
  ASSUME NEW T \in SUBSET Nat, T # {}
  PROVE  \E x \in T : \A y \in T : x <= y
<1>1. PICK x \in T : \A y \in T : ~(<<y, x>> \in OpToRel(<, Nat))
  BY NatLessThanWellFounded, WFMin, Zenon
<1>2. \A y \in T : ~(y < x)
  BY <1>1 DEF OpToRel
<1> QED
  BY <1>2

LEMMA VerticesCount ==
  ASSUME NEW n \in Nat
  PROVE  IsFiniteSet(0 .. n-1) /\ Cardinality(0 .. n-1) = n
<1>1. 0 \in Int /\ n-1 \in Int
  OBVIOUS
<1>2. IsFiniteSet(0 .. n-1) /\ Cardinality(0 .. n-1) = IF 0 > n-1 THEN 0 ELSE (n-1)-0+1
  BY <1>1, FS_Interval
<1> QED
  BY <1>2

LEMMA BoundsGrow ==
  ASSUME NEW n \in Nat, NEW f \in [0 .. n-1 -> Int], NEW k \in 1 .. n, NEW lo \in Int, NEW hi \in Int,
         \A i \in 0 .. (k-1)-1 : lo <= f[i] /\ f[i] <= hi
  PROVE  \E less, more \in Int : \A i \in 0 .. k-1 : less <= f[i] /\ f[i] <= more
<1>1. f[k-1] \in Int
  OBVIOUS
<1>2. PICK less \in Int : less <= lo /\ less <= f[k-1]
  BY <1>1
<1>3. PICK more \in Int : hi <= more /\ f[k-1] <= more
  BY <1>1
<1>4. ASSUME NEW i \in 0 .. k-1
      PROVE  less <= f[i] /\ f[i] <= more
  <2>1. f[i] \in Int /\ (i = k-1 \/ i \in 0 .. (k-1)-1)
    OBVIOUS
  <2>2. CASE i = k-1
    BY <1>2, <1>3, <2>2
  <2>3. CASE i \in 0 .. (k-1)-1
    <3>1. lo <= f[i] /\ f[i] <= hi
      BY <2>3
    <3> QED
      BY <1>2, <1>3, <2>1, <3>1
  <2> QED
    BY <2>1, <2>2, <2>3
<1> QED
  BY <1>4

LEMMA BoundsExist ==
  ASSUME NEW n \in Nat, NEW f \in [0 .. n-1 -> Int]
  PROVE  \E lo, hi \in Int : \A i \in 0 .. n-1 : lo <= f[i] /\ f[i] <= hi
<1> DEFINE Good(k) == \E lo, hi \in Int : \A i \in 0 .. k-1 : lo <= f[i] /\ f[i] <= hi
           T == {k \in 0 .. n : ~Good(k)}
<1>1. T = {}
  <2> SUFFICES ASSUME T # {} PROVE FALSE
    OBVIOUS
  <2>1. PICK k \in T : \A y \in T : k <= y
    <3>1. T \in SUBSET Nat
      OBVIOUS
    <3> HIDE DEF T
    <3> QED
      BY <3>1, LeastElement
  <2>2. CASE k = 0
    <3>1. 0 \in Int /\ \A i \in 0 .. 0-1 : 0 <= f[i] /\ f[i] <= 0
      OBVIOUS
    <3>2. Good(0)
      BY <3>1
    <3> HIDE DEF Good
    <3> QED
      BY <2>2, <3>2
  <2>3. CASE k # 0
    <3>1. k \in 1 .. n /\ k-1 \in 0 .. n /\ ~(k <= k-1)
      BY <2>3
    <3>2. Good(k-1)
      <4> HIDE DEF Good
      <4> QED
        BY <2>1, <3>1
    <3>3. PICK lo \in Int, hi \in Int : \A i \in 0 .. (k-1)-1 : lo <= f[i] /\ f[i] <= hi
      BY <3>2
    <3>4. Good(k)
      BY <3>1, <3>3, BoundsGrow
    <3> HIDE DEF Good
    <3> QED
      BY <3>4
  <2> QED
    BY <2>2, <2>3
<1>2. Good(n)
  <2> HIDE DEF Good
  <2> QED
    BY <1>1
<1> QED
  BY <1>2

\* A set of integers with an upper bound has a greatest element, and Max is it.
LEMMA MaxBounded ==
  ASSUME NEW T \in SUBSET Int, T # {}, NEW b \in Int, \A x \in T : x <= b
  PROVE  Max(T) \in T /\ \A x \in T : x <= Max(T)
<1> DEFINE U == {b-x : x \in T}
<1>1. U \in SUBSET Nat /\ U # {}
  <2>1. \A x \in T : b-x \in Nat
    OBVIOUS
  <2> QED
    BY <2>1
<1>2. PICK u \in U : \A y \in U : u <= y
  <2> HIDE DEF U
  <2> QED
    BY <1>1, LeastElement
<1>3. PICK m \in T : u = b-m
  OBVIOUS
<1>4. \A x \in T : b-x \in U
  OBVIOUS
<1> HIDE DEF U
<1>5. \A x \in T : m >= x
  BY <1>2, <1>3, <1>4
<1>6. Max(T) \in T /\ \A x \in T : Max(T) >= x
  BY <1>5, Zenon DEF Max
<1> QED
  BY <1>6

LEMMA MinBounded ==
  ASSUME NEW T \in SUBSET Int, T # {}, NEW b \in Int, \A x \in T : b <= x
  PROVE  Min(T) \in T
<1> DEFINE U == {x-b : x \in T}
<1>1. U \in SUBSET Nat /\ U # {}
  <2>1. \A x \in T : x-b \in Nat
    OBVIOUS
  <2> QED
    BY <2>1
<1>2. PICK u \in U : \A y \in U : u <= y
  <2> HIDE DEF U
  <2> QED
    BY <1>1, LeastElement
<1>3. PICK m \in T : u = m-b
  OBVIOUS
<1>4. \A x \in T : x-b \in U
  OBVIOUS
<1> HIDE DEF U
<1>5. \A x \in T : m <= x
  BY <1>2, <1>3, <1>4
<1> QED
  BY <1>5, Zenon DEF Min

-----------------------------------------------------------------------------
(* Reachability.                                                           *)

\* The pairs joined by a path that may also lead through vertex w.
Through(V, joined, w) ==
  joined \union {p \in V \X V : <<p[1], w>> \in joined /\ <<w, p[2]>> \in joined}

Start(n, E) == E \union {<<a, a>> : a \in 0 .. n-1}

\* The first m steps of the recursion.
Steps(g, n, E, m) ==
  g = [k \in 0 .. m |-> IF k = 0 THEN Start(n, E) ELSE Through(0 .. n-1, g[k-1], k-1)]

LEMMA StepsExist ==
  ASSUME NEW n \in Nat, NEW E
  PROVE  \A m \in 0 .. n : \E g : Steps(g, n, E, m)
<1> DEFINE T == {m \in 0 .. n : ~\E g : Steps(g, n, E, m)}
<1>1. SUFFICES ASSUME T # {} PROVE FALSE
  OBVIOUS
<1>2. PICK m \in T : \A y \in T : m <= y
  <2>1. T \in SUBSET Nat
    OBVIOUS
  <2> HIDE DEF T
  <2> QED
    BY <1>1, <2>1, LeastElement
<1>3. CASE m = 0
  <2> DEFINE g == [k \in 0 .. 0 |-> Start(n, E)]
  <2>1. Steps(g, n, E, 0)
    BY DEF Steps
  <2> QED
    BY <1>3, <2>1
<1>4. CASE m # 0
  <2>1. m-1 \in 0 .. n /\ m-1 \notin T
    BY <1>2, <1>4
  <2>2. PICK f : Steps(f, n, E, m-1)
    BY <2>1
  <2> DEFINE g == [k \in 0 .. m |-> IF k = m THEN Through(0 .. n-1, f[m-1], m-1) ELSE f[k]]
  <2>3. \A k \in 0 .. m-1 : g[k] = f[k]
    BY <1>4
  <2>4. \A k \in 0 .. m : g[k] = IF k = 0 THEN Start(n, E) ELSE Through(0 .. n-1, g[k-1], k-1)
    <3> SUFFICES ASSUME NEW k \in 0 .. m
                 PROVE  g[k] = IF k = 0 THEN Start(n, E) ELSE Through(0 .. n-1, g[k-1], k-1)
      OBVIOUS
    <3>1. CASE k = m
      BY <1>4, <2>3, <3>1
    <3>2. CASE k # m
      <4>1. k \in 0 .. m-1 /\ (k # 0 => k-1 \in 0 .. m-1)
        BY <3>2
      <4>2. f[k] = IF k = 0 THEN Start(n, E) ELSE Through(0 .. n-1, f[k-1], k-1)
        BY <2>2, <4>1, Zenon DEF Steps
      <4> HIDE DEF g
      <4> QED
        BY <4>1, <4>2, <2>3, Zenon
    <3> QED
      BY <3>1, <3>2
  <2>5. Steps(g, n, E, m)
    BY <2>4, Zenon DEF Steps
  <2> QED
    BY <2>5
<1> QED
  BY <1>3, <1>4

\* Paths is the last of n steps.
LEMMA PathsAreSteps ==
  ASSUME NEW n \in Nat, NEW E
  PROVE  \E g : Steps(g, n, E, n) /\ Paths(n, E) = g[n]
<1> DEFINE g == CHOOSE f : Steps(f, n, E, n)
<1>1. Steps(g, n, E, n)
  <2>1. \E f : Steps(f, n, E, n)
    BY StepsExist
  <2> QED
    BY <2>1, Zenon
<1>2. Paths(n, E) = g[n]
  BY DEF Paths, Steps, Start, Through
<1> QED
  BY <1>1, <1>2, Zenon

\* What a step preserves: a reflexive relation on the vertices that joins all
\* pairs joined through one vertex below k.
Closed(V, joined, k) ==
  /\ joined \subseteq V \X V
  /\ \A a \in V : <<a, a>> \in joined
  /\ \A w \in 0 .. k-1, a, b \in V :
       <<a, w>> \in joined /\ <<w, b>> \in joined => <<a, b>> \in joined

LEMMA ThroughClosed ==
  ASSUME NEW V, NEW k \in V, V \subseteq Nat, 0 .. k-1 \subseteq V, NEW joined, Closed(V, joined, k)
  PROVE  Closed(V, Through(V, joined, k), k+1)
<1> DEFINE more == Through(V, joined, k)
<1>1. \A a, b \in V : <<a, b>> \in more
        <=> <<a, b>> \in joined \/ (<<a, k>> \in joined /\ <<k, b>> \in joined)
  BY DEF Through
<1>2. more \subseteq V \X V /\ \A a \in V : <<a, a>> \in more
  BY DEF Through, Closed
<1>3. ASSUME NEW w \in 0 .. k, NEW a \in V, NEW b \in V, <<a, w>> \in more, <<w, b>> \in more
      PROVE  <<a, b>> \in more
  <2>1. w \in V /\ <<k, k>> \in joined
    BY DEF Closed
  <2>2. CASE w = k
    BY <1>1, <1>3, <2>1, <2>2
  <2>3. CASE w # k
    <3>1. \A x, y \in V : <<x, w>> \in joined /\ <<w, y>> \in joined => <<x, y>> \in joined
      BY <2>3 DEF Closed
    <3> HIDE DEF more
    <3> QED
      BY <1>1, <1>3, <2>1, <3>1
  <2> QED
    BY <2>2, <2>3
<1> HIDE DEF more
<1>4. Closed(V, more, k+1)
  <2>1. (k+1)-1 = k
    OBVIOUS
  <2> QED
    BY <1>2, <1>3, <2>1 DEF Closed
<1> QED
  BY <1>4 DEF more

LEMMA StepsClosed ==
  ASSUME NEW n \in Nat, NEW E, E \subseteq (0 .. n-1) \X (0 .. n-1), NEW g, Steps(g, n, E, n)
  PROVE  \A k \in 0 .. n : Closed(0 .. n-1, g[k], k) /\ E \subseteq g[k]
<1> DEFINE V == 0 .. n-1
           Good(k) == Closed(V, g[k], k) /\ E \subseteq g[k]
           T == {k \in 0 .. n : ~Good(k)}
<1>1. SUFFICES ASSUME T # {} PROVE FALSE
  OBVIOUS
<1>2. PICK k \in T : \A y \in T : k <= y
  <2>1. T \in SUBSET Nat
    OBVIOUS
  <2> HIDE DEF T
  <2> QED
    BY <1>1, <2>1, LeastElement
<1>3. k \in 0 .. n /\ ~Good(k)
  OBVIOUS
<1>4. g[k] = IF k = 0 THEN Start(n, E) ELSE Through(V, g[k-1], k-1)
  BY <1>3, Zenon DEF Steps
<1>5. CASE k = 0
  BY <1>3, <1>4, <1>5 DEF Start, Closed
<1>6. CASE k # 0
  <2>1. k-1 \in 0 .. n /\ k-1 \in V /\ 0 .. (k-1)-1 \subseteq V /\ k-1 \notin T
    BY <1>2, <1>6
  <2>2. Closed(V, g[k-1], k-1) /\ E \subseteq g[k-1]
    BY <2>1
  <2>3. Closed(V, g[k], (k-1)+1)
    <3>1. V \subseteq Nat
      OBVIOUS
    <3>2. Closed(V, Through(V, g[k-1], k-1), (k-1)+1)
      <4> HIDE DEF V, T
      <4> QED
        BY <2>1, <2>2, <3>1, ThroughClosed
    <3> QED
      BY <1>4, <1>6, <3>2
  <2>4. (k-1)+1 = k
    OBVIOUS
  <2>5. E \subseteq g[k]
    BY <1>4, <1>6, <2>2 DEF Through
  <2> QED
    BY <1>3, <2>3, <2>4, <2>5
<1> QED
  BY <1>5, <1>6

\* The relation Paths computes, which topoSort's components and the cycles its
\* callers refuse are defined by, is reflexive and transitive and joins the
\* ends of every edge.
THEOREM PathsTransitive ==
  ASSUME NEW n \in Nat, NEW E, E \subseteq (0 .. n-1) \X (0 .. n-1)
  PROVE  /\ E \subseteq Paths(n, E)
         /\ \A a \in 0 .. n-1 : <<a, a>> \in Paths(n, E)
         /\ \A a, b, c \in 0 .. n-1 :
              <<a, b>> \in Paths(n, E) /\ <<b, c>> \in Paths(n, E) => <<a, c>> \in Paths(n, E)
<1>1. PICK g : Steps(g, n, E, n) /\ Paths(n, E) = g[n]
  BY PathsAreSteps
<1>2. Closed(0 .. n-1, Paths(n, E), n) /\ E \subseteq Paths(n, E)
  <2>1. \A k \in 0 .. n : Closed(0 .. n-1, g[k], k) /\ E \subseteq g[k]
    BY <1>1, StepsClosed
  <2>2. n \in 0 .. n
    OBVIOUS
  <2> QED
    BY <1>1, <2>1, <2>2, Zenon
<1> QED
  BY <1>2, Zenon DEF Closed

\* The strongly connected components that SccOrder has topoSort return are not
\* empty, cover the vertices and share none.
THEOREM ComponentsPartition ==
  ASSUME NEW n \in Nat, NEW E, E \subseteq (0 .. n-1) \X (0 .. n-1)
  PROVE  /\ UNION Components(n, E) = 0 .. n-1
         /\ {} \notin Components(n, E)
         /\ \A C, D \in Components(n, E) : C \intersect D # {} => C = D
<1> DEFINE V == 0 .. n-1
           P == Paths(n, E)
           Of(a) == {b \in V : <<a, b>> \in P /\ <<b, a>> \in P}
<1>1. Components(n, E) = {Of(a) : a \in V}
  BY DEF Components
<1>2. /\ \A a \in V : <<a, a>> \in P
      /\ \A a, b, c \in V : <<a, b>> \in P /\ <<b, c>> \in P => <<a, c>> \in P
  BY PathsTransitive
<1> HIDE DEF V, P
<1>3. \A a \in V : a \in Of(a) /\ Of(a) \subseteq V
  BY <1>2
<1>4. \A a, b \in V : Of(a) \intersect Of(b) # {} => Of(a) = Of(b)
  <2>1. \A a, b \in V : b \in Of(a) => Of(b) = Of(a)
    BY <1>2
  <2>2. \A a, b, c \in V : c \in Of(a) /\ c \in Of(b) => Of(a) = Of(b)
    BY <2>1, Zenon
  <2> QED
    BY <2>2, <1>3
<1> HIDE DEF Of
<1> QED
  BY <1>1, <1>3, <1>4 DEF V

\* Paths joins no more than every reflexive and transitive relation with the
\* edges does: together with PathsTransitive, it is their least.
THEOREM PathsLeast ==
  ASSUME NEW n \in Nat, NEW E, NEW R, E \subseteq R,
         \A a \in 0 .. n-1 : <<a, a>> \in R,
         \A a, b, c \in 0 .. n-1 : <<a, b>> \in R /\ <<b, c>> \in R => <<a, c>> \in R
  PROVE  Paths(n, E) \subseteq R
<1> DEFINE V == 0 .. n-1
<1>1. PICK g : Steps(g, n, E, n) /\ Paths(n, E) = g[n]
  BY PathsAreSteps
<1> DEFINE T == {k \in 0 .. n : ~(g[k] \subseteq R)}
<1>2. T = {}
  <2> SUFFICES ASSUME T # {} PROVE FALSE
    OBVIOUS
  <2>1. PICK k \in T : \A y \in T : k <= y
    <3>1. T \in SUBSET Nat
      OBVIOUS
    <3> HIDE DEF T
    <3> QED
      BY <3>1, LeastElement
  <2>2. g[k] = IF k = 0 THEN Start(n, E) ELSE Through(V, g[k-1], k-1)
    BY <1>1, Zenon DEF Steps
  <2>3. CASE k = 0
    BY <2>2, <2>3 DEF Start
  <2>4. CASE k # 0
    <3>1. k-1 \in 0 .. n /\ k-1 \in V /\ k-1 \notin T
      BY <2>1, <2>4
    <3>2. g[k-1] \subseteq R
      BY <3>1
    <3>3. Through(V, g[k-1], k-1) \subseteq R
      BY <3>1, <3>2 DEF Through
    <3> QED
      BY <2>2, <2>4, <3>3
  <2> QED
    BY <2>3, <2>4
<1>3. n \in 0 .. n /\ n \notin T
  BY <1>2
<1> QED
  BY <1>1, <1>3

\* A part of an acyclic graph is acyclic.
LEMMA AcyclicPart ==
  ASSUME NEW n \in Nat, NEW F, F \subseteq (0 .. n-1) \X (0 .. n-1), NEW E, E \subseteq F,
         Acyclic(n, F)
  PROVE  Acyclic(n, E)
<1>1. Paths(n, E) \subseteq Paths(n, F)
  <2>1. /\ F \subseteq Paths(n, F)
        /\ \A a \in 0 .. n-1 : <<a, a>> \in Paths(n, F)
        /\ \A a, b, c \in 0 .. n-1 :
             <<a, b>> \in Paths(n, F) /\ <<b, c>> \in Paths(n, F) => <<a, c>> \in Paths(n, F)
    BY PathsTransitive
  <2> DEFINE R == Paths(n, F)
  <2>2. E \subseteq R
    BY <2>1
  <2> HIDE DEF R
  <2>3. Paths(n, E) \subseteq R
    BY <2>1, <2>2, PathsLeast DEF R
  <2> QED
    BY <2>3 DEF R
<1> QED
  BY <1>1 DEF Acyclic

\* A set of vertices of an acyclic graph has one that no other of the set leads
\* to: the one that the fewest of the set reach.
LEMMA AcyclicHasFirst ==
  ASSUME NEW n \in Nat, NEW E, E \subseteq (0 .. n-1) \X (0 .. n-1), Acyclic(n, E),
         NEW U \in SUBSET (0 .. n-1), U # {}
  PROVE  \E u \in U : \A a \in U \ {u} : <<a, u>> \notin E
<1> DEFINE V == 0 .. n-1
           P == Paths(n, E)
           Reach(u) == {a \in U : <<a, u>> \in P}
           T == {Cardinality(Reach(u)) : u \in U}
<1>1. /\ E \subseteq P
      /\ \A a \in V : <<a, a>> \in P
      /\ \A a, b, c \in V : <<a, b>> \in P /\ <<b, c>> \in P => <<a, c>> \in P
  BY PathsTransitive
<1>2. \A a, b \in V : <<a, b>> \in P /\ <<b, a>> \in P => a = b
  BY DEF Acyclic
<1> HIDE DEF P
<1>3. IsFiniteSet(V)
  BY FS_Interval
<1>4. \A u \in U : IsFiniteSet(Reach(u)) /\ Cardinality(Reach(u)) \in Nat
  <2> SUFFICES ASSUME NEW u \in U PROVE IsFiniteSet(Reach(u)) /\ Cardinality(Reach(u)) \in Nat
    OBVIOUS
  <2>1. Reach(u) \in SUBSET V
    OBVIOUS
  <2>2. IsFiniteSet(Reach(u))
    BY <1>3, <2>1, FS_Subset
  <2> QED
    BY <2>2, FS_CardinalityType
<1>5. PICK u \in U : \A a \in U : Cardinality(Reach(u)) <= Cardinality(Reach(a))
  <2>1. T \in SUBSET Nat /\ T # {}
    BY <1>4
  <2>2. PICK x \in T : \A y \in T : x <= y
    <3> HIDE DEF T
    <3> QED
      BY <2>1, LeastElement
  <2>3. PICK u \in U : x = Cardinality(Reach(u))
    OBVIOUS
  <2>4. \A a \in U : Cardinality(Reach(a)) \in T
    OBVIOUS
  <2> HIDE DEF T, Reach
  <2> QED
    BY <2>2, <2>3, <2>4, Zenon
<1>6. ASSUME NEW a \in U \ {u}, <<a, u>> \in E PROVE FALSE
  <2>1. <<a, u>> \in P /\ a \in V /\ u \in V
    BY <1>1, <1>6
  <2>2. Reach(a) \in SUBSET Reach(u)
    BY <1>1, <2>1
  <2>3. u \in Reach(u) /\ u \notin Reach(a)
    BY <1>1, <1>2, <2>1
  <2>4. Cardinality(Reach(a)) <= Cardinality(Reach(u))
        /\ (Cardinality(Reach(u)) = Cardinality(Reach(a)) => Reach(u) = Reach(a))
    BY <1>4, <2>2, FS_Subset
  <2>5. /\ Cardinality(Reach(u)) \in Nat /\ Cardinality(Reach(a)) \in Nat
        /\ Cardinality(Reach(u)) <= Cardinality(Reach(a))
    BY <1>4, <1>5
  <2> HIDE DEF Reach
  <2> QED
    BY <2>3, <2>4, <2>5
<1> QED
  BY <1>6

-----------------------------------------------------------------------------
(* Dependence vectors.                                                     *)

\* A vector of n dimensions, and a distance.
Bounds(n) == [0 .. n-1 -> Int]
WellFormed(dv, n) ==
  /\ dv \in [type : STRING, quasi : BOOLEAN, lb : Bounds(n), ub : Bounds(n)]
  /\ \A i \in 0 .. n-1 : dv.lb[i] <= dv.ub[i]

\* The distance in the order of the loops after they are permuted.
Reordered(d, pi) == [i \in DOMAIN d |-> d[pi[i]]]

\* A distance that is not zero in all dimensions has a first dimension where
\* it is not.
LEMMA FirstNonZero ==
  ASSUME NEW n \in Nat, NEW d \in Bounds(n), \E i \in 0 .. n-1 : d[i] # 0
  PROVE  \E i \in 0 .. n-1 : d[i] # 0 /\ \A k \in 0 .. i-1 : d[k] = 0
PROOF
<1> DEFINE T == {i \in 0 .. n-1 : d[i] # 0}
<1>1. T \subseteq Nat /\ T # {}
  OBVIOUS
<1>2. PICK x \in T : \A y \in T : ~(<<y, x>> \in OpToRel(<, Nat))
  BY <1>1, NatLessThanWellFounded, WFMin, Zenon
<1>3. \A y \in T : ~(y < x)
  BY <1>1, <1>2 DEF OpToRel
<1>4. x \in 0 .. n-1 /\ d[x] # 0
  OBVIOUS
<1>5. ASSUME NEW k \in 0 .. x-1
      PROVE  d[k] = 0
  <2>1. k \in 0 .. n-1 /\ k < x
    BY <1>4
  <2> QED
    BY <1>3, <2>1
<1> QED
  BY <1>4, <1>5

\* The sign of a distance is the sign of its first dimension that is not zero.
LEMMA SignOfFirst ==
  ASSUME NEW n \in Nat, NEW d, NEW i \in 0 .. n-1, d[i] \in Int,
         d[i] # 0, \A k \in 0 .. i-1 : d[k] = 0
  PROVE  LexSign(d, n) = IF d[i] > 0 THEN 1 ELSE -1
PROOF
<1>1. ASSUME NEW j \in 0 .. n-1, d[j] > 0, \A k \in Before(j) : d[k] = 0
      PROVE  j = i
  <2>1. ~(j < i)
    BY <1>1
  <2>2. ~(i < j)
    BY <1>1 DEF Before
  <2> QED
    BY <2>1, <2>2
<1>2. \A k \in Before(i) : d[k] = 0
  BY DEF Before
<1> QED
  BY <1>1, <1>2 DEF LexSign

\* The sign of a distance is negative exactly when its first dimension that is
\* not zero is.
LEMMA NegativeFirst ==
  ASSUME NEW n \in Nat, NEW d \in Bounds(n), LexSign(d, n) = -1
  PROVE  \E i \in 0 .. n-1 : d[i] < 0 /\ \A k \in 0 .. i-1 : d[k] = 0
PROOF
<1>1. ~ \A i \in 0 .. n-1 : d[i] = 0
  BY DEF LexSign
<1>2. PICK i \in 0 .. n-1 : d[i] # 0 /\ \A k \in 0 .. i-1 : d[k] = 0
  BY <1>1, FirstNonZero
<1>3. d[i] \in Int
  BY DEF Bounds
<1>4. ~(d[i] > 0)
  BY <1>2, <1>3, SignOfFirst
<1> QED
  BY <1>2, <1>3, <1>4

LEMMA NegativeBound ==
  ASSUME NEW n \in Nat, NEW d \in Bounds(n), NEW i \in 0 .. n-1,
         d[i] < 0, \A k \in 0 .. i-1 : d[k] <= 0
  PROVE  LexSign(d, n) = -1
PROOF
<1>1. \A k \in 0 .. n-1 : d[k] \in Int
  BY DEF Bounds
<1>2. PICK j \in 0 .. n-1 : d[j] # 0 /\ \A k \in 0 .. j-1 : d[k] = 0
  BY <1>1, FirstNonZero
<1>3. ~(i < j)
  BY <1>1, <1>2
<1>4. ~(d[j] > 0)
  BY <1>1, <1>3
<1> QED
  BY <1>1, <1>2, <1>4, SignOfFirst

LEMMA BelowNegative ==
  ASSUME NEW n \in Nat, NEW d \in Bounds(n), NEW e \in Bounds(n), LexSign(e, n) = -1,
         \A j \in 0 .. n-1 : d[j] <= e[j]
  PROVE  \E i \in 0 .. n-1 : d[i] < 0 /\ \A k \in 0 .. i-1 : d[k] <= 0
PROOF
<1>1. PICK i \in 0 .. n-1 : e[i] < 0 /\ \A k \in 0 .. i-1 : e[k] = 0
  BY NegativeFirst
<1>2. \A j \in 0 .. n-1 : d[j] \in Int /\ e[j] \in Int
  BY DEF Bounds
<1>3. d[i] < 0
  BY <1>1, <1>2
<1>4. \A k \in 0 .. i-1 : d[k] <= 0
  BY <1>1, <1>2
<1> QED
  BY <1>3, <1>4

\* The bounds of the permuted vector.
LEMMA PermutedBounds ==
  ASSUME NEW n \in Nat, NEW dv, WellFormed(dv, n), NEW pi \in [0 .. n-1 -> 0 .. n-1]
  PROVE  /\ Permuted(dv, pi).lb = Reordered(dv.lb, pi)
         /\ Permuted(dv, pi).ub = Reordered(dv.ub, pi)
PROOF
  BY DEF Permuted, Reordered, WellFormed

LEMMA ReorderedType ==
  ASSUME NEW n \in Nat, NEW d \in Bounds(n), NEW pi \in [0 .. n-1 -> 0 .. n-1]
  PROVE  Reordered(d, pi) \in Bounds(n) /\ \A i \in 0 .. n-1 : Reordered(d, pi)[i] = d[pi[i]]
PROOF
<1>1. DOMAIN d = 0 .. n-1 /\ \A i \in 0 .. n-1 : d[i] \in Int
  BY DEF Bounds
<1> QED
  BY <1>1 DEF Reordered, Bounds

\* A distance lies within the bounds of the permuted vector exactly when it
\* is a permuted distance of the vector: nothing is lost and nothing added.
THEOREM PermuteKeepsDistances ==
  ASSUME NEW n \in Nat, NEW dv, WellFormed(dv, n), NEW d \in Bounds(n),
         NEW pi \in [0 .. n-1 -> 0 .. n-1], \A j \in 0 .. n-1 : \E i \in 0 .. n-1 : pi[i] = j
  PROVE  HasDistance(Permuted(dv, pi), Reordered(d, pi)) <=> HasDistance(dv, d)
PROOF
<1>1. dv.lb \in Bounds(n) /\ dv.ub \in Bounds(n)
  BY DEF WellFormed
<1>2. DOMAIN dv.lb = 0 .. n-1 /\ DOMAIN Reordered(dv.lb, pi) = 0 .. n-1
  BY <1>1 DEF Bounds, Reordered
<1>3. HasDistance(Permuted(dv, pi), Reordered(d, pi))
        <=> \A i \in 0 .. n-1 : dv.lb[pi[i]] <= d[pi[i]] /\ d[pi[i]] <= dv.ub[pi[i]]
  <2>1. \A i \in 0 .. n-1 : Reordered(dv.lb, pi)[i] = dv.lb[pi[i]]
    BY <1>1, ReorderedType
  <2>2. \A i \in 0 .. n-1 : Reordered(dv.ub, pi)[i] = dv.ub[pi[i]]
    BY <1>1, ReorderedType
  <2>3. \A i \in 0 .. n-1 : Reordered(d, pi)[i] = d[pi[i]]
    BY ReorderedType
  <2>4. Permuted(dv, pi).lb = Reordered(dv.lb, pi) /\ Permuted(dv, pi).ub = Reordered(dv.ub, pi)
    BY PermutedBounds
  <2>5. HasDistance(Permuted(dv, pi), Reordered(d, pi))
          <=> \A i \in 0 .. n-1 : /\ Reordered(dv.lb, pi)[i] <= Reordered(d, pi)[i]
                                  /\ Reordered(d, pi)[i] <= Reordered(dv.ub, pi)[i]
    BY <1>2, <2>4, Zenon DEF HasDistance
  <2> QED
    BY <2>1, <2>2, <2>3, <2>5, Zenon
<1>4. HasDistance(dv, d) <=> \A j \in 0 .. n-1 : dv.lb[j] <= d[j] /\ d[j] <= dv.ub[j]
  BY <1>2 DEF HasDistance
<1>5. (\A i \in 0 .. n-1 : dv.lb[pi[i]] <= d[pi[i]] /\ d[pi[i]] <= dv.ub[pi[i]])
        <=> \A j \in 0 .. n-1 : dv.lb[j] <= d[j] /\ d[j] <= dv.ub[j]
  OBVIOUS
<1> QED
  BY <1>3, <1>4, <1>5

\* The lower bounds, in the new order, start with a negative one exactly when
\* some distance within the bounds does.
LEMMA BoundsReverse ==
  ASSUME NEW n \in Nat, NEW dv, WellFormed(dv, n),
         NEW pi \in [0 .. n-1 -> 0 .. n-1], NEW m, m = Reordered(dv.lb, pi)
  PROVE  (\E i \in 0 .. n-1 : m[i] < 0 /\ \A k \in 0 .. i-1 : m[k] <= 0)
           <=> \E d \in Bounds(n) : HasDistance(dv, d) /\ LexSign(Reordered(d, pi), n) = -1
PROOF
<1>1. dv.lb \in Bounds(n) /\ m \in Bounds(n)
  BY ReorderedType DEF WellFormed
<1>2. HasDistance(dv, dv.lb)
  BY DEF HasDistance, WellFormed, Bounds
<1>3. ASSUME NEW d \in Bounds(n), HasDistance(dv, d), NEW e, e = Reordered(d, pi), LexSign(e, n) = -1
      PROVE  \E i \in 0 .. n-1 : m[i] < 0 /\ \A k \in 0 .. i-1 : m[k] <= 0
  <2>1. e \in Bounds(n)
    BY <1>3, ReorderedType
  <2>2. \A j \in 0 .. n-1 : m[j] <= e[j]
    <3>1. \A j \in 0 .. n-1 : dv.lb[j] <= d[j]
      BY <1>1, <1>3 DEF HasDistance, Bounds
    <3>2. \A j \in 0 .. n-1 : m[j] = dv.lb[pi[j]]
      BY <1>1, ReorderedType
    <3>3. \A j \in 0 .. n-1 : e[j] = d[pi[j]]
      BY <1>3, ReorderedType
    <3> QED
      BY <3>1, <3>2, <3>3
  <2> QED
    BY <1>1, <1>3, <2>1, <2>2, BelowNegative
<1>4. ASSUME NEW i \in 0 .. n-1, m[i] < 0, \A k \in 0 .. i-1 : m[k] <= 0
      PROVE  \E d \in Bounds(n) : HasDistance(dv, d) /\ LexSign(Reordered(d, pi), n) = -1
  <2>1. LexSign(m, n) = -1
    BY <1>1, <1>4, NegativeBound
  <2> QED
    BY <1>1, <1>2, <2>1
<1> QED
  BY <1>3, <1>4

\* permute throws "dependence violation" for a vector that is not quasi
\* exactly when some distance within its bounds is lexicographically negative
\* in the new order: every accepted permutation is legal, and none is refused
\* without such a distance.
THEOREM PermuteExact ==
  ASSUME NEW n \in Nat, NEW dv, WellFormed(dv, n), NEW pi \in [0 .. n-1 -> 0 .. n-1]
  PROVE  Violated(dv, pi)
           <=> /\ ~dv.quasi
               /\ \E d \in Bounds(n) : HasDistance(dv, d) /\ LexSign(Reordered(d, pi), n) = -1
PROOF
<1> DEFINE m == Reordered(dv.lb, pi)
<1>1. DOMAIN m = 0 .. n-1
  BY DEF Reordered, WellFormed, Bounds
<1>2. Permuted(dv, pi).lb = m
  BY PermutedBounds
<1>3. Violated(dv, pi)
        <=> ~dv.quasi /\ \E i \in 0 .. n-1 : m[i] < 0 /\ \A k \in 0 .. i-1 : m[k] <= 0
  BY <1>1, <1>2, Zenon DEF Violated, Before
<1>4. (\E i \in 0 .. n-1 : m[i] < 0 /\ \A k \in 0 .. i-1 : m[k] <= 0)
        <=> \E d \in Bounds(n) : HasDistance(dv, d) /\ LexSign(Reordered(d, pi), n) = -1
  BY BoundsReverse
<1> QED
  BY <1>3, <1>4, Zenon

\* reverse turns the distances within the bounds round, so that a dependence
\* found in the wrong direction is connected with the opposite distances.
THEOREM ReverseNegatesDistances ==
  ASSUME NEW n \in Nat, NEW dv, WellFormed(dv, n), NEW d \in Bounds(n)
  PROVE  HasDistance(Reversed(dv), Negated(d)) <=> HasDistance(dv, d)
PROOF
<1>1. DOMAIN dv.lb = 0 .. n-1 /\ DOMAIN dv.ub = 0 .. n-1 /\ DOMAIN d = 0 .. n-1
  BY DEF WellFormed, Bounds
<1>2. Reversed(dv).lb = Negated(dv.ub) /\ Reversed(dv).ub = Negated(dv.lb)
  BY DEF Reversed, WellFormed
<1>3. \A i \in 0 .. n-1 : dv.lb[i] \in Int /\ dv.ub[i] \in Int /\ d[i] \in Int
  BY DEF WellFormed, Bounds
<1>4. HasDistance(Reversed(dv), Negated(d))
        <=> \A i \in 0 .. n-1 : -dv.ub[i] <= -d[i] /\ -d[i] <= -dv.lb[i]
  BY <1>1, <1>2 DEF HasDistance, Negated
<1>5. HasDistance(dv, d) <=> \A i \in 0 .. n-1 : dv.lb[i] <= d[i] /\ d[i] <= dv.ub[i]
  BY <1>1, Zenon DEF HasDistance
<1>6. \A i \in 0 .. n-1 : /\ -dv.ub[i] <= -d[i] <=> d[i] <= dv.ub[i]
                          /\ -d[i] <= -dv.lb[i] <=> dv.lb[i] <= d[i]
  BY <1>3
<1> QED
  BY <1>4, <1>5, <1>6, Zenon
-----------------------------------------------------------------------------
(* Recursions, ranks, quotients and finite sets                            *)

\* What holds at 0 and passes from one number to the next holds up to n.
LEMMA UpTo ==
  ASSUME NEW n \in Nat, NEW S, 0 \in S, \A i \in 1 .. n : i-1 \in S => i \in S
  PROVE  \A i \in 0 .. n : i \in S
<1> DEFINE T == {i \in 0 .. n : i \notin S}
<1>1. SUFFICES ASSUME T # {} PROVE FALSE
  OBVIOUS
<1>2. T \in SUBSET Nat
  OBVIOUS
<1>3. PICK x \in T : \A y \in T : x <= y
  BY <1>1, <1>2, LeastElement
<1>4. x # 0 /\ x \in 1 .. n /\ x-1 \in 0 .. n
  BY <1>3
<1>5. x-1 \notin T
  BY <1>3, <1>4
<1> QED BY <1>3, <1>4, <1>5

\* g is defined by a recursion over 0 .. n.
IsRecursion(g, base, n, step) == g[0] = base /\ \A i \in 1 .. n : g[i] = step[i][g[i-1]]

\* The function a recursion over 0 .. n defines exists, step by step.
LEMMA RecursionExists ==
  ASSUME NEW V, NEW base \in V, NEW n \in Nat, NEW step \in [1 .. n -> [V -> V]]
  PROVE  \E g \in [0 .. n -> V] : IsRecursion(g, base, n, step)
<1> DEFINE Upto(k, g) == g = [i \in 0 .. k |-> IF i = 0 THEN base ELSE step[i][g[i-1]]]
           S == {k \in 0 .. n : \E g \in [0 .. k -> V] : Upto(k, g)}
<1>1. 0 \in S
  <2>1. [i \in 0 .. 0 |-> base] \in [0 .. 0 -> V]
    OBVIOUS
  <2>2. Upto(0, [i \in 0 .. 0 |-> base])
    OBVIOUS
  <2>3. 0 \in 0 .. n
    OBVIOUS
  <2> QED BY <2>1, <2>2, <2>3
<1>2. ASSUME NEW k \in 1 .. n, k-1 \in S
      PROVE  k \in S
  <2>1. k \in Nat /\ k-1 \in Nat
    OBVIOUS
  <2>2. PICK g \in [0 .. k-1 -> V] : Upto(k-1, g)
    BY <1>2
  <2> DEFINE h == [i \in 0 .. k |-> IF i = k THEN step[k][g[k-1]] ELSE g[i]]
  <2>3. g[k-1] \in V /\ step[k][g[k-1]] \in V
    BY <2>1, <2>2
  <2>4. h \in [0 .. k -> V]
    BY <2>1, <2>2, <2>3
  <2>5. ASSUME NEW i \in 0 .. k
        PROVE  h[i] = IF i = 0 THEN base ELSE step[i][h[i-1]]
    <3>1. CASE i = k
      <4>1. k-1 \in 0 .. k /\ k-1 # k /\ k # 0
        BY <2>1
      <4>2. h[k-1] = g[k-1] /\ h[k] = step[k][g[k-1]]
        BY <2>1, <4>1
      <4> QED BY <3>1, <4>1, <4>2
    <3>2. CASE i # k
      <4>1. i \in 0 .. k-1 /\ (i # 0 => i-1 \in 0 .. k-1 /\ i-1 # k)
        BY <2>1, <3>2
      <4>2. g[i] = IF i = 0 THEN base ELSE step[i][g[i-1]]
        BY <2>2, <4>1
      <4> QED BY <3>2, <4>1, <4>2
    <3> QED BY <3>1, <3>2
  <2>6. Upto(k, h)
    BY <2>4, <2>5
  <2> HIDE DEF h
  <2>7. k \in 0 .. n
    OBVIOUS
  <2> QED BY <2>4, <2>6, <2>7
<1> HIDE DEF S
<1>3. \A i \in 0 .. n : i \in S
  BY <1>1, <1>2, UpTo
<1>4. n \in S
  BY <1>3
<1>5. PICK g \in [0 .. n -> V] : Upto(n, g)
  BY <1>4 DEF S
<1>6. g[0] = base
  BY <1>5
<1>7. ASSUME NEW i \in 1 .. n PROVE g[i] = step[i][g[i-1]]
  <2>1. i \in 0 .. n /\ i # 0
    OBVIOUS
  <2> QED BY <1>5, <2>1
<1> QED BY <1>6, <1>7 DEF IsRecursion

-----------------------------------------------------------------------------

\* The values of a function of a finite set are finitely many.
LEMMA ImageFinite ==
  ASSUME NEW S, IsFiniteSet(S), NEW f, NEW T, f \in [S -> T], \A t \in T : \E x \in S : f[x] = t
  PROVE  IsFiniteSet(T)
<1>1. f \in Surjection(S, T)
  BY DEF Surjection
<1> QED BY <1>1, FS_Surjection

\* R orders the elements of S strictly.
StrictOrder(S, R) ==
  /\ \A x \in S : <<x, x>> \notin R
  /\ \A x, y \in S : x # y => <<x, y>> \in R \/ <<y, x>> \in R
  /\ \A x, y, z \in S : <<x, y>> \in R /\ <<y, z>> \in R => <<x, z>> \in R

\* How many elements of S come before x
Rank(S, R, x) == Cardinality({y \in S : <<y, x>> \in R})

\* What comes later has more elements before it.
LEMMA RankGrows ==
  ASSUME NEW S, IsFiniteSet(S), NEW R, StrictOrder(S, R), NEW x \in S, NEW y \in S, <<x, y>> \in R
  PROVE  Rank(S, R, x) < Rank(S, R, y)
<1> DEFINE A == {z \in S : <<z, x>> \in R}
           B == {z \in S : <<z, y>> \in R}
<1>1. IsFiniteSet(A) /\ IsFiniteSet(B) /\ A \subseteq B /\ x \in B /\ x \notin A
  BY FS_Subset DEF StrictOrder
<1> HIDE DEF A, B
<1>2. Cardinality(A \union {x}) = Cardinality(A) + 1 /\ IsFiniteSet(A \union {x})
  BY <1>1, FS_AddElement
<1>3. A \union {x} \subseteq B
  BY <1>1
<1>4. Cardinality(A \union {x}) <= Cardinality(B)
  BY <1>1, <1>3, FS_Subset
<1>5. Cardinality(A) \in Nat /\ Cardinality(B) \in Nat
  BY <1>1, FS_CardinalityType
<1> QED BY <1>2, <1>4, <1>5 DEF Rank, A, B

\* Ranks count from 0.
LEMMA RankRange ==
  ASSUME NEW S, IsFiniteSet(S), NEW R, StrictOrder(S, R), NEW x \in S
  PROVE  Rank(S, R, x) \in 0 .. Cardinality(S) - 1
<1> DEFINE A == {z \in S : <<z, x>> \in R}
<1>1. IsFiniteSet(A) /\ x \notin A /\ A \union {x} \subseteq S
  BY FS_Subset DEF StrictOrder
<1> HIDE DEF A
<1>2. Cardinality(A \union {x}) = Cardinality(A) + 1 /\ IsFiniteSet(A \union {x})
  BY <1>1, FS_AddElement
<1>3. Cardinality(A \union {x}) <= Cardinality(S)
  BY <1>1, FS_Subset
<1>4. Cardinality(A) \in Nat /\ Cardinality(S) \in Nat
  BY <1>1, FS_CardinalityType
<1> QED BY <1>2, <1>3, <1>4 DEF Rank, A

\* There is one element of each rank.
LEMMA RankExists ==
  ASSUME NEW S, IsFiniteSet(S), NEW R, StrictOrder(S, R), NEW i \in 1 .. Cardinality(S)
  PROVE  \E x \in S : Rank(S, R, x) = i-1
<1> DEFINE n == Cardinality(S)
           T == 0 .. n-1
           f == [x \in S |-> Rank(S, R, x)]
<1>1. n \in Nat
  BY FS_CardinalityType
<1>2. IsFiniteSet(T) /\ Cardinality(T) = n
  BY <1>1, VerticesCount
<1>3. f \in [S -> T]
  BY RankRange
<1>4. ASSUME NEW x \in S, NEW y \in S, f[x] = f[y] PROVE x = y
  <2>1. x # y => <<x, y>> \in R \/ <<y, x>> \in R
    BY DEF StrictOrder
  <2>2. <<x, y>> \in R => f[x] < f[y]
    BY RankGrows
  <2>3. <<y, x>> \in R => f[y] < f[x]
    BY RankGrows
  <2>4. f[x] \in Int /\ f[y] \in Int
    BY <1>3
  <2> HIDE DEF f
  <2> QED BY <1>4, <2>1, <2>2, <2>3, <2>4
<1>5. f \in Injection(S, T)
  <2> HIDE DEF f, T
  <2> QED BY <1>3, <1>4 DEF Injection, IsInjective
<1>6. f \in Surjection(S, T)
  <2> HIDE DEF f, T
  <2> QED BY <1>2, <1>5, FS_Injection
<1>7. i-1 \in T
  BY <1>1
<1>8. \E x \in S : f[x] = i-1
  <2> HIDE DEF f, T
  <2> QED BY <1>6, <1>7 DEF Surjection
<1> QED BY <1>8

\* Quotient and remainder
LEMMA Division ==
  ASSUME NEW a \in Int, NEW b \in Int, b > 0
  PROVE  a = b * (a \div b) + (a % b) /\ a % b \in 0 .. b-1 /\ a \div b \in Int
OBVIOUS

\* A positive factor keeps the order.
LEMMA TimesLess ==
  ASSUME NEW a \in Int, NEW b \in Int, NEW c \in Int, c >= 1, a < b
  PROVE  a * c < b * c
OBVIOUS

\* There is one quotient and one remainder.
LEMMA Divided ==
  ASSUME NEW b \in Int, b > 0, NEW q \in Int, NEW r \in Int, 0 <= r, r < b, NEW x \in Int, x = b * q + r
  PROVE  x % b = r /\ x \div b = q
<1>1. x = b * (x \div b) + (x % b) /\ x % b \in 0 .. b-1 /\ x \div b \in Int
  BY Division
<1> DEFINE d == q - (x \div b)
<1>2. b * d = (x % b) - r
  BY <1>1
<1>3. d \in Int /\ b * d < b * 1 /\ b * d > b * (-1)
  BY <1>1, <1>2
<1> HIDE DEF d
<1>4. d = 0
  BY <1>3
<1> QED BY <1>1, <1>2, <1>4 DEF d

\* A multiple i of the stride lies i % times strides behind one of times strides.
LEMMA StrideRest ==
  ASSUME NEW i \in Nat, NEW times \in Nat, times >= 1, NEW st \in Nat, st >= 1
  PROVE  (i * st) % (times * st) = (i % times) * st
<1>1. i = times * (i \div times) + (i % times) /\ i % times \in 0 .. times-1 /\ i \div times \in Int
  BY Division
<1> DEFINE a == i \div times
           b == i % times
<1>2. a \in Int /\ b \in Int /\ 0 <= b /\ b < times /\ i = times * a + b
  BY <1>1
<1> HIDE DEF a, b
<1>3. i * st = times * a * st + b * st
  BY <1>2
<1>4. times * a * st = (times * st) * a
  BY <1>2
<1>5. times * st \in Int /\ b * st \in Int /\ i * st \in Int
  BY <1>2
<1>6. b * st < times * st
  BY <1>2, TimesLess
<1>7. 0 <= b * st
  <2>1. CASE b = 0
    BY <2>1
  <2>2. CASE b # 0
    <3>1. 0 * st < b * st /\ 0 * st = 0
      BY <1>2, <2>2, TimesLess
    <3> QED BY <1>5, <3>1
  <2> QED BY <2>1, <2>2
<1> DEFINE m == times * st
           r == b * st
           x == i * st
<1>8. m \in Int /\ r \in Int /\ x \in Int /\ 0 <= r /\ r < m /\ m > 0
  BY <1>5, <1>6, <1>7
<1>9. x = m * a + r
  BY <1>3, <1>4
<1> HIDE DEF m, r, x
<1>10. x % m = r
  BY <1>2, <1>8, <1>9, Divided
<1> QED BY <1>10 DEF m, r, x, b

\* Sets that a function pairs off are of the same size.
LEMMA SameSize ==
  ASSUME NEW S, IsFiniteSet(S), NEW f, NEW T, f \in [S -> T],
         \A x, y \in S : f[x] = f[y] => x = y, \A t \in T : \E x \in S : f[x] = t
  PROVE  IsFiniteSet(T) /\ Cardinality(T) = Cardinality(S)
<1>1. f \in Bijection(S, T)
  BY DEF Bijection, Injection, Surjection, IsInjective
<1>2. ExistsBijection(S, T)
  BY <1>1 DEF ExistsBijection
<1> QED BY <1>2, FS_Bijection

\* A finite set of numbers has a least and a greatest one.
LEMMA Extremes ==
  ASSUME NEW S \in SUBSET Int, IsFiniteSet(S), S # {}
  PROVE  /\ Min(S) \in S /\ \A y \in S : Min(S) <= y
         /\ Max(S) \in S /\ \A y \in S : Max(S) >= y
<1> DEFINE R == {p \in S \X S : p[1] < p[2]}
           n == Cardinality(S)
<1>1. StrictOrder(S, R) /\ \A x, y \in S : <<y, x>> \in R <=> y < x
  BY DEF StrictOrder
<1>2. n \in Nat /\ n # 0
  BY FS_CardinalityType, FS_EmptySet
<1> HIDE DEF n, R
<1>3. PICK lo \in S : Rank(S, R, lo) = 0
  <2>1. 1 \in 1 .. n /\ 1-1 = 0
    BY <1>2
  <2> QED BY <1>1, <2>1, RankExists DEF n
<1>4. \A y \in S : lo <= y
  <2>1. \A y \in S : <<y, lo>> \notin R
    <3>1. ASSUME NEW y \in S, <<y, lo>> \in R PROVE FALSE
      <4>1. Rank(S, R, y) < 0 /\ Rank(S, R, y) \in 0 .. n-1
        BY <1>1, <1>3, <3>1, RankGrows, RankRange DEF n
      <4> QED BY <1>2, <4>1
    <3> QED BY <3>1
  <2>2. ASSUME NEW y \in S PROVE lo <= y
    <3>1. y \in Int /\ lo \in Int /\ ~(y < lo)
      BY <1>1, <2>1
    <3> QED BY <3>1
  <2> QED BY <2>2
<1>5. PICK hi \in S : Rank(S, R, hi) = n-1
  <2>1. n \in 1 .. n
    BY <1>2
  <2> QED BY <1>1, <2>1, RankExists DEF n
<1>6. \A y \in S : hi >= y
  <2>1. \A y \in S : <<hi, y>> \notin R
    <3>1. ASSUME NEW y \in S, <<hi, y>> \in R PROVE FALSE
      <4>1. n-1 < Rank(S, R, y) /\ Rank(S, R, y) \in 0 .. n-1
        BY <1>1, <1>5, <3>1, RankGrows, RankRange DEF n
      <4> QED BY <1>2, <4>1
    <3> QED BY <3>1
  <2>2. ASSUME NEW y \in S PROVE hi >= y
    <3>1. y \in Int /\ hi \in Int /\ ~(hi < y)
      BY <1>1, <2>1
    <3> QED BY <3>1
  <2> QED BY <2>2
<1>7. Min(S) \in S /\ \A y \in S : Min(S) <= y
  <2>1. Min(S) = CHOOSE x \in S : \A y \in S : x <= y
    BY DEF Min
  <2> QED BY <1>4, <2>1
<1>8. Max(S) \in S /\ \A y \in S : Max(S) >= y
  <2>1. Max(S) = CHOOSE x \in S : \A y \in S : x >= y
    BY DEF Max
  <2> QED BY <1>6, <2>1
<1> QED BY <1>7, <1>8
-----------------------------------------------------------------------------
(* Sequences.                                                              *)

\* f has the elements 1 .. Len(f) and no other.
SeqLike(f) == Len(f) \in Nat /\ f = [i \in 1 .. Len(f) |-> f[i]]

\* What is like a sequence is one.
LEMMA SeqLikeSeq ==
  ASSUME NEW a, SeqLike(a), NEW S, \A i \in 1 .. Len(a) : a[i] \in S
  PROVE  a \in Seq(S) /\ DOMAIN a = 1 .. Len(a) /\ Len(a) \in Nat
<1>1. Len(a) \in Nat /\ a = [i \in 1 .. Len(a) |-> a[i]]
  BY DEF SeqLike
<1>2. a \in [1 .. Len(a) -> S]
  BY <1>1
<1> QED BY <1>1, <1>2

\* The elements of one sequence behind those of the other
LEMMA ConcatIs ==
  ASSUME NEW a, NEW b, SeqLike(a), SeqLike(b)
  PROVE  /\ SeqLike(a \o b) /\ Len(a \o b) = Len(a) + Len(b) /\ DOMAIN (a \o b) = 1 .. (Len(a) + Len(b))
         /\ \A i \in 1 .. Len(a) : (a \o b)[i] = a[i]
         /\ \A i \in 1 .. Len(b) : (a \o b)[Len(a) + i] = b[i]
<1> DEFINE S == {a[i] : i \in 1 .. Len(a)} \union {b[i] : i \in 1 .. Len(b)}
<1>1. a \in Seq(S) /\ b \in Seq(S) /\ Len(a) \in Nat /\ Len(b) \in Nat
  <2>1. (\A i \in 1 .. Len(a) : a[i] \in S) /\ (\A i \in 1 .. Len(b) : b[i] \in S)
    OBVIOUS
  <2> HIDE DEF S
  <2> QED BY <2>1, SeqLikeSeq
<1> HIDE DEF S
<1>2. a \o b \in Seq(S) /\ Len(a \o b) = Len(a) + Len(b)
  BY <1>1
<1>3. /\ \A i \in 1 .. Len(a) : (a \o b)[i] = a[i]
      /\ \A i \in 1 .. Len(b) : (a \o b)[Len(a) + i] = b[i]
  BY <1>1
<1>4. a \o b = [i \in 1 .. Len(a \o b) |-> (a \o b)[i]]
  <2>1. a \o b \in [1 .. Len(a \o b) -> S]
    BY <1>2, LenProperties
  <2> QED BY <2>1
<1> QED BY <1>1, <1>2, <1>3, <1>4 DEF SeqLike

\* q lists S in the order R.
Listing(q, S, R) ==
  /\ SeqLike(q) /\ Len(q) = Cardinality(S) /\ DOMAIN q = 1 .. Len(q)
  /\ \A i \in DOMAIN q : q[i] \in S
  /\ \A x \in S : \E i \in DOMAIN q : q[i] = x
  /\ \A i, j \in DOMAIN q : q[i] = q[j] => i = j
  /\ \A i, j \in DOMAIN q : i < j => <<q[i], q[j]>> \in R

\* A sequence whose elements have their places as ranks lists the set.
LEMMA RankedSequence ==
  ASSUME NEW S, IsFiniteSet(S), NEW R, StrictOrder(S, R), NEW q,
         q = [i \in 1 .. Cardinality(S) |-> q[i]],
         \A i \in 1 .. Cardinality(S) : q[i] \in S /\ Rank(S, R, q[i]) = i-1
  PROVE  Listing(q, S, R)
<1> DEFINE n == Cardinality(S)
<1>1. n \in Nat
  BY FS_CardinalityType
<1> HIDE DEF n
<1>2. DOMAIN q = 1 .. n /\ Len(q) = n
  BY <1>1 DEF n
<1>3. SeqLike(q)
  BY <1>1, <1>2 DEF SeqLike, n
<1>4. ASSUME NEW i \in DOMAIN q, NEW j \in DOMAIN q
      PROVE  /\ q[i] = q[j] => i = j
             /\ i < j => <<q[i], q[j]>> \in R
  <2>1. i \in Int /\ j \in Int /\ q[i] \in S /\ q[j] \in S /\ Rank(S, R, q[i]) = i-1 /\ Rank(S, R, q[j]) = j-1
    BY <1>2 DEF n
  <2>2. q[i] = q[j] => i = j
    BY <2>1
  <2>3. <<q[j], q[i]>> \in R => j-1 < i-1
    BY <2>1, RankGrows
  <2>4. q[i] # q[j] => <<q[i], q[j]>> \in R \/ <<q[j], q[i]>> \in R
    BY <2>1 DEF StrictOrder
  <2>5. i < j => q[i] # q[j]
    BY <2>1, <2>2
  <2>6. i < j => ~(j-1 < i-1)
    BY <2>1
  <2> QED BY <2>2, <2>3, <2>4, <2>5, <2>6
<1>5. ASSUME NEW x \in S PROVE \E i \in DOMAIN q : q[i] = x
  <2>1. Rank(S, R, x) \in 0 .. n-1
    BY RankRange DEF n
  <2> DEFINE i == Rank(S, R, x) + 1
  <2>2. i \in 1 .. n
    BY <1>1, <2>1
  <2>3. q[i] \in S /\ Rank(S, R, q[i]) = i-1 /\ Rank(S, R, x) = i-1
    BY <2>1, <2>2 DEF n
  <2> HIDE DEF i
  <2>4. i \in Int
    BY <2>2
  <2>5. ~(<<q[i], x>> \in R) /\ ~(<<x, q[i]>> \in R)
    BY <2>3, <2>4, RankGrows
  <2>6. q[i] = x
    BY <2>3, <2>5 DEF StrictOrder
  <2> QED BY <1>2, <2>2, <2>6
<1>6. \A i \in DOMAIN q : q[i] \in S
  BY <1>2 DEF n
<1> QED BY <1>2, <1>3, <1>4, <1>5, <1>6 DEF n, Listing

\* The places in the sequences of a sequence, and idx, where they go
PlacesIn(seqs, n) == {u \in Nat \X Nat : u[1] \in 1 .. n /\ u[2] \in DOMAIN seqs[u[1]]}

\* Sequences in a sequence that is not empty
Lists(seqs) == SeqLike(seqs) /\ Len(seqs) >= 1 /\ \A i \in DOMAIN seqs : SeqLike(seqs[i])

\* f has the elements of the first n sequences at the places idx.
Flat(seqs, n, f, idx) ==
  /\ SeqLike(f)
  /\ \A u \in PlacesIn(seqs, n) : idx[u] \in DOMAIN f /\ f[idx[u]] = seqs[u[1]][u[2]]
  /\ \A k \in DOMAIN f : \E u \in PlacesIn(seqs, n) : idx[u] = k
  /\ \A u, w \in PlacesIn(seqs, n) : idx[u] = idx[w] => u = w

\* The sequences appended one by one
FlattenSteps(g, seqs, n) == g[1] = seqs[1] /\ \A i \in 2 .. n : g[i] = g[i-1] \o seqs[i]

\* FlattenSeq appends one sequence after the other.
LEMMA FlattenSeqSteps ==
  ASSUME NEW seqs, Lists(seqs)
  PROVE  \E g : FlattenSteps(g, seqs, Len(seqs)) /\ FlattenSeq(seqs) = g[Len(seqs)]
<1> DEFINE N == Len(seqs)
           Is(k, g) == g = [i \in 1 .. k |-> IF i = 1 THEN seqs[i] ELSE g[i-1] \o seqs[i]]
           T == {k \in 0 .. N : \E g : Is(k, g)}
           flatten == CHOOSE g : Is(N, g)
<1>0. N \in Nat /\ N >= 1
  BY DEF Lists, SeqLike
<1>1. FlattenSeq(seqs) = flatten[N]
  <2>1. Len(seqs) # 0
    BY <1>0
  <2> QED BY <2>1 DEF FlattenSeq
<1> HIDE DEF N
<1>3. 0 \in T
  <2> DEFINE e == [i \in 1 .. 0 |-> 0]
  <2>1. Is(0, e)
    <3>1. \A i \in 1 .. 0 : FALSE
      OBVIOUS
    <3>2. e = [i \in 1 .. 0 |-> IF i = 1 THEN seqs[i] ELSE e[i-1] \o seqs[i]]
      BY <3>1
    <3> QED BY <3>2
  <2> HIDE DEF e
  <2>2. \E g : Is(0, g)
    BY <2>1
  <2>3. 0 \in 0 .. N
    BY <1>0
  <2> HIDE DEF Is
  <2> QED BY <2>2, <2>3
<1>4. ASSUME NEW k \in 1 .. N, k-1 \in T PROVE k \in T
  <2>1. k \in Nat /\ k-1 \in Nat /\ k \in 0 .. N
    BY <1>0
  <2>2. PICK g : Is(k-1, g)
    BY <1>4
  <2> DEFINE last == IF k = 1 THEN seqs[k] ELSE g[k-1] \o seqs[k]
             h == [i \in 1 .. k |-> IF i = k THEN last ELSE g[i]]
  <2> HIDE DEF last
  <2>3. ASSUME NEW i \in 1 .. k PROVE h[i] = IF i = 1 THEN seqs[i] ELSE h[i-1] \o seqs[i]
    <3>1. CASE i = k
      <4>1. k # 1 => k-1 \in 1 .. k /\ k-1 # k
        BY <2>1
      <4>2. h[k] = last /\ (k # 1 => h[k-1] = g[k-1])
        BY <2>1, <4>1
      <4> HIDE DEF h
      <4> QED BY <3>1, <4>2 DEF last
    <3>2. CASE i # k
      <4>1. i \in 1 .. k-1 /\ (i # 1 => i-1 \in 1 .. k-1 /\ i-1 \in 1 .. k /\ i-1 # k)
        BY <2>1, <3>2
      <4>2. g[i] = IF i = 1 THEN seqs[i] ELSE g[i-1] \o seqs[i]
        BY <2>2, <4>1
      <4>3. h[i] = g[i] /\ (i # 1 => h[i-1] = g[i-1])
        BY <3>2, <4>1
      <4> HIDE DEF h
      <4> QED BY <4>2, <4>3
    <3> QED BY <3>1, <3>2
  <2>4. h = [i \in 1 .. k |-> h[i]]
    OBVIOUS
  <2> HIDE DEF h
  <2>5. Is(k, h)
    BY <2>3, <2>4
  <2> QED BY <2>1, <2>5
<1>5. N \in T
  <2>1. N \in 0 .. N
    BY <1>0
  <2> HIDE DEF T
  <2>2. \A i \in 0 .. N : i \in T
    BY <1>0, <1>3, <1>4, UpTo
  <2> QED BY <2>1, <2>2
<1>6. PICK g : Is(N, g)
  BY <1>5
<1>7. Is(N, flatten)
  BY <1>6
<1> HIDE DEF flatten
<1>8. flatten[1] = seqs[1]
  BY <1>0, <1>7
<1>9. ASSUME NEW i \in 2 .. N PROVE flatten[i] = flatten[i-1] \o seqs[i]
  <2>1. i \in 1 .. N /\ i # 1
    OBVIOUS
  <2> QED BY <1>7, <2>1
<1> QED BY <1>1, <1>8, <1>9 DEF FlattenSteps, N

\* The first sequence
LEMMA FlattenOne ==
  ASSUME NEW seqs, Lists(seqs)
  PROVE  \E idx : Flat(seqs, 1, seqs[1], idx)
<1> DEFINE U == PlacesIn(seqs, 1)
           idx == [u \in U |-> u[2]]
<1>1. 1 \in DOMAIN seqs /\ SeqLike(seqs[1])
  BY DEF Lists, SeqLike
<1>2. ASSUME NEW u \in U
      PROVE  u = <<1, u[2]>> /\ u[2] \in DOMAIN seqs[1] /\ idx[u] = u[2]
  <2>1. u \in Nat \X Nat /\ u[1] \in 1 .. 1 /\ u[2] \in DOMAIN seqs[u[1]]
    BY DEF PlacesIn
  <2>2. u[1] = 1 /\ u = <<u[1], u[2]>>
    BY <1>1, <2>1
  <2> QED BY <2>1, <2>2
<1>3. ASSUME NEW k \in DOMAIN seqs[1] PROVE <<1, k>> \in U /\ idx[<<1, k>>] = k
  <2>1. k \in Nat
    BY <1>1 DEF SeqLike
  <2>2. <<1, k>> \in U
    BY <1>1, <2>1 DEF PlacesIn
  <2> QED BY <2>2
<1> HIDE DEF idx
<1>4. \A u \in U : idx[u] \in DOMAIN seqs[1] /\ seqs[1][idx[u]] = seqs[u[1]][u[2]]
  BY <1>2
<1>5. \A u, w \in U : idx[u] = idx[w] => u = w
  BY <1>2
<1>6. Flat(seqs, 1, seqs[1], idx)
  BY <1>1, <1>3, <1>4, <1>5 DEF Flat
<1> QED BY <1>6

\* One more sequence
LEMMA FlattenNext ==
  ASSUME NEW seqs, Lists(seqs), NEW n \in 2 .. Len(seqs), NEW f, NEW old, Flat(seqs, n-1, f, old)
  PROVE  \E idx : Flat(seqs, n, f \o seqs[n], idx)
<1> DEFINE U == PlacesIn(seqs, n)
           W == PlacesIn(seqs, n-1)
           idx == [u \in U |-> IF u[1] = n THEN Len(f) + u[2] ELSE old[u]]
           h == f \o seqs[n]
<1>1. SeqLike(seqs[n]) /\ n \in Nat /\ n >= 2 /\ SeqLike(f)
  <2>1. n \in DOMAIN seqs
    BY DEF Lists, SeqLike
  <2> QED BY <2>1 DEF Lists, Flat
<1>2. /\ SeqLike(h) /\ DOMAIN h = 1 .. (Len(f) + Len(seqs[n]))
      /\ \A i \in 1 .. Len(f) : h[i] = f[i]
      /\ \A i \in 1 .. Len(seqs[n]) : h[Len(f) + i] = seqs[n][i]
  BY <1>1, ConcatIs
<1>3. DOMAIN f = 1 .. Len(f) /\ Len(f) \in Nat /\ DOMAIN seqs[n] = 1 .. Len(seqs[n]) /\ Len(seqs[n]) \in Nat
  BY <1>1 DEF SeqLike
<1> HIDE DEF h
<1>4. ASSUME NEW u \in U
      PROVE  \/ u = <<n, u[2]>> /\ u[1] = n /\ u[2] \in 1 .. Len(seqs[n]) /\ idx[u] = Len(f) + u[2]
             \/ u \in W /\ u[1] # n /\ idx[u] = old[u] /\ old[u] \in 1 .. Len(f)
  <2>1. u \in Nat \X Nat /\ u[1] \in 1 .. n /\ u[2] \in DOMAIN seqs[u[1]]
    BY DEF PlacesIn
  <2>2. u = <<u[1], u[2]>> /\ u[1] \in Nat
    BY <1>1, <2>1
  <2>3. CASE u[1] = n
    BY <1>3, <2>1, <2>2, <2>3
  <2>4. CASE u[1] # n
    <3>1. u[1] \in 1 .. n-1
      BY <1>1, <2>1, <2>2, <2>4
    <3>2. u \in W
      BY <2>1, <3>1 DEF PlacesIn
    <3>3. old[u] \in 1 .. Len(f)
      BY <1>3, <3>2 DEF Flat
    <3> QED BY <2>4, <3>2, <3>3
  <2> QED BY <2>3, <2>4
<1>5. ASSUME NEW u \in W PROVE u \in U /\ u[1] # n /\ idx[u] = old[u]
  <2>1. u \in Nat \X Nat /\ u[1] \in 1 .. n-1 /\ u[2] \in DOMAIN seqs[u[1]]
    BY DEF PlacesIn
  <2>2. u[1] \in Nat
    BY <1>1, <2>1
  <2>3. u[1] \in 1 .. n /\ u[1] # n
    BY <1>1, <2>1, <2>2
  <2>4. u \in U
    BY <2>1, <2>3 DEF PlacesIn
  <2> QED BY <2>3, <2>4
<1>6. ASSUME NEW k \in 1 .. Len(seqs[n]) PROVE <<n, k>> \in U /\ idx[<<n, k>>] = Len(f) + k
  <2>1. k \in Nat /\ k \in DOMAIN seqs[n] /\ n \in 1 .. n
    BY <1>1, <1>3
  <2>2. <<n, k>> \in U
    BY <1>1, <2>1 DEF PlacesIn
  <2> QED BY <2>2
<1> HIDE DEF idx
<1>7. ASSUME NEW u \in U PROVE idx[u] \in DOMAIN h /\ h[idx[u]] = seqs[u[1]][u[2]]
  <2>1. CASE u = <<n, u[2]>> /\ u[1] = n /\ u[2] \in 1 .. Len(seqs[n]) /\ idx[u] = Len(f) + u[2]
    <3>1. idx[u] \in DOMAIN h
      BY <1>2, <1>3, <2>1
    <3> QED BY <1>2, <2>1, <3>1
  <2>2. CASE u \in W /\ idx[u] = old[u] /\ old[u] \in 1 .. Len(f)
    <3>1. idx[u] \in DOMAIN h
      BY <1>2, <1>3, <2>2
    <3>2. f[old[u]] = seqs[u[1]][u[2]]
      BY <2>2 DEF Flat
    <3> QED BY <1>2, <2>2, <3>1, <3>2
  <2> QED BY <1>4, <2>1, <2>2
<1>8. ASSUME NEW k \in DOMAIN h PROVE \E u \in U : idx[u] = k
  <2>1. CASE k \in 1 .. Len(f)
    <3>1. PICK u \in W : old[u] = k
      BY <1>3, <2>1 DEF Flat
    <3> QED BY <1>5, <3>1
  <2>2. CASE k \notin 1 .. Len(f)
    <3>1. k - Len(f) \in 1 .. Len(seqs[n]) /\ Len(f) + (k - Len(f)) = k
      BY <1>2, <1>3, <2>2
    <3> QED BY <1>6, <3>1
  <2> QED BY <2>1, <2>2
<1>9. ASSUME NEW u \in U, NEW w \in U, idx[u] = idx[w] PROVE u = w
  <2>1. CASE u[1] = n /\ w[1] = n
    <3>1. u = <<n, u[2]>> /\ w = <<n, w[2]>> /\ Len(f) + u[2] = Len(f) + w[2] /\ u[2] \in Int /\ w[2] \in Int
      BY <1>4, <1>9, <2>1
    <3>2. u[2] = w[2]
      BY <1>3, <3>1
    <3> QED BY <3>1, <3>2
  <2>2. CASE u[1] # n /\ w[1] # n
    <3>1. u \in W /\ w \in W /\ old[u] = old[w]
      BY <1>4, <1>9, <2>2
    <3> QED BY <3>1 DEF Flat
  <2>3. CASE u[1] = n /\ w[1] # n
    <3>1. u[2] \in 1 .. Len(seqs[n]) /\ idx[u] = Len(f) + u[2] /\ idx[w] \in 1 .. Len(f)
      BY <1>4, <2>3
    <3> QED BY <1>3, <1>9, <3>1
  <2>4. CASE u[1] # n /\ w[1] = n
    <3>1. w[2] \in 1 .. Len(seqs[n]) /\ idx[w] = Len(f) + w[2] /\ idx[u] \in 1 .. Len(f)
      BY <1>4, <2>4
    <3> QED BY <1>3, <1>9, <3>1
  <2> QED BY <2>1, <2>2, <2>3, <2>4
<1>10. Flat(seqs, n, h, idx)
  BY <1>2, <1>7, <1>8, <1>9 DEF Flat
<1> QED BY <1>10 DEF h

\* FlattenSeq has every element of every sequence at a place of its own.
LEMMA FlattenSeqIs ==
  ASSUME NEW seqs, Lists(seqs)
  PROVE  \E idx : Flat(seqs, Len(seqs), FlattenSeq(seqs), idx)
<1>1. PICK g : FlattenSteps(g, seqs, Len(seqs)) /\ FlattenSeq(seqs) = g[Len(seqs)]
  BY FlattenSeqSteps
<1> DEFINE N == Len(seqs)
           T == {k \in 0 .. N : k = 0 \/ \E idx : Flat(seqs, k, g[k], idx)}
<1>2. N \in Nat /\ N >= 1 /\ DOMAIN seqs = 1 .. N
  BY DEF Lists, SeqLike
<1> HIDE DEF N
<1>3. 0 \in T
  BY <1>2
<1>4. ASSUME NEW k \in 1 .. N, k-1 \in T PROVE k \in T
  <2>1. k \in 0 .. N /\ k \in DOMAIN seqs
    BY <1>2
  <2>2. CASE k = 1
    <3>1. g[1] = seqs[1]
      BY <1>1 DEF FlattenSteps
    <3>2. \E idx : Flat(seqs, 1, seqs[1], idx)
      BY FlattenOne
    <3> QED BY <2>1, <2>2, <3>1, <3>2
  <2>3. CASE k # 1
    <3>1. k \in 2 .. N /\ k-1 # 0
      BY <2>3
    <3>2. g[k] = g[k-1] \o seqs[k]
      BY <1>1, <3>1 DEF FlattenSteps, N
    <3>3. PICK old : Flat(seqs, k-1, g[k-1], old)
      BY <1>4, <3>1
    <3>4. \E idx : Flat(seqs, k, g[k-1] \o seqs[k], idx)
      BY <3>1, <3>3, FlattenNext DEF N
    <3> QED BY <2>1, <3>2, <3>4
  <2> QED BY <2>2, <2>3
<1>5. N \in T
  <2>1. N \in 0 .. N
    BY <1>2
  <2> HIDE DEF T
  <2>2. \A i \in 0 .. N : i \in T
    BY <1>2, <1>3, <1>4, UpTo
  <2> QED BY <2>1, <2>2
<1> QED BY <1>1, <1>2, <1>5 DEF N
-----------------------------------------------------------------------------
(* Progressions.                                                           *)

\* n numbers, the first lo, at a distance of st
Progression(V, lo, st, n) ==
  /\ lo \in Int /\ st \in Nat /\ st >= 1 /\ n \in Nat /\ n >= 1
  /\ V = {lo + i * st : i \in 0 .. n-1}

\* What unroll reads off the values of a loop: their number, first, last and
\* distance
LEMMA ProgressionIs ==
  ASSUME NEW V, NEW lo, NEW st, NEW n, Progression(V, lo, st, n)
  PROVE  /\ V \in SUBSET Int /\ IsFiniteSet(V) /\ V # {} /\ Cardinality(V) = n
         /\ Min(V) = lo /\ Max(V) = lo + (n-1) * st
         /\ n > 1 => (Max(V) - Min(V)) \div (n-1) = st
<1>1. lo \in Int /\ st \in Nat /\ st >= 1 /\ n \in Nat /\ n >= 1 /\ V = {lo + i * st : i \in 0 .. n-1}
  BY DEF Progression
<1> DEFINE D == 0 .. n-1
           f == [i \in D |-> lo + i * st]
<1>2. IsFiniteSet(D) /\ Cardinality(D) = n
  BY <1>1, VerticesCount
<1>3. f \in [D -> V]
  BY <1>1
<1>4. ASSUME NEW i \in D, NEW j \in D, i < j PROVE i * st \in Int /\ j * st \in Int /\ i * st < j * st
  BY <1>1, <1>4, TimesLess
<1>5. ASSUME NEW i \in D, NEW j \in D, f[i] = f[j] PROVE i = j
  <2>1. i * st \in Int /\ j * st \in Int /\ lo + i * st = lo + j * st
    BY <1>1, <1>5
  <2>2. i * st = j * st
    BY <1>1, <2>1
  <2>3. ~(i < j) /\ ~(j < i)
    BY <1>4, <2>1, <2>2
  <2> QED BY <1>1, <2>3
<1>6. \A y \in V : \E i \in D : f[i] = y
  BY <1>1
<1>8. IsFiniteSet(V) /\ Cardinality(V) = n
  <2> HIDE DEF f, D
  <2> QED BY <1>2, <1>3, <1>5, <1>6, SameSize
<1>9. V \in SUBSET Int
  BY <1>1
<1> DEFINE hi == lo + (n-1) * st
<1>10. lo \in V /\ \A y \in V : lo <= y
  <2>1. 0 \in D /\ lo + 0 * st = lo
    BY <1>1
  <2>2. ASSUME NEW i \in D PROVE lo <= lo + i * st
    <3>1. CASE i = 0
      BY <1>1, <3>1
    <3>2. CASE i # 0
      <4>1. 0 * st < i * st /\ i * st \in Int
        BY <1>1, <2>1, <3>2, <1>4
      <4> QED BY <1>1, <4>1
    <3> QED BY <3>1, <3>2
  <2> QED BY <1>1, <2>1, <2>2
<1>11. hi \in V /\ \A y \in V : hi >= y
  <2>1. n-1 \in D
    BY <1>1
  <2>2. ASSUME NEW i \in D PROVE lo + (n-1) * st >= lo + i * st
    <3>1. CASE i = n-1
      BY <1>1, <3>1
    <3>2. CASE i # n-1
      <4>1. i * st < (n-1) * st /\ i * st \in Int /\ (n-1) * st \in Int
        BY <1>1, <2>1, <3>2, <1>4
      <4> QED BY <1>1, <4>1
    <3> QED BY <3>1, <3>2
  <2> QED BY <1>1, <2>1, <2>2
<1>12. V # {}
  BY <1>10
<1>13. Min(V) \in V /\ (\A y \in V : Min(V) <= y) /\ Max(V) \in V /\ (\A y \in V : Max(V) >= y)
  BY <1>8, <1>9, <1>12, Extremes
<1>14. hi \in Int /\ lo \in Int
  BY <1>1
<1> HIDE DEF hi
<1>15. Min(V) = lo /\ Max(V) = hi
  <2>1. Min(V) \in Int /\ Max(V) \in Int /\ Min(V) <= lo /\ lo <= Min(V) /\ Max(V) >= hi /\ hi >= Max(V)
    BY <1>9, <1>10, <1>11, <1>13
  <2> QED BY <1>14, <2>1
<1>16. ASSUME n > 1 PROVE (Max(V) - Min(V)) \div (n-1) = st
  <2> DEFINE x == Max(V) - Min(V)
  <2>1. x = (n-1) * st + 0 /\ x \in Int
    BY <1>1, <1>14, <1>15 DEF hi
  <2>2. n-1 \in Int /\ n-1 > 0 /\ st \in Int /\ 0 < n-1
    BY <1>1, <1>16
  <2> HIDE DEF x
  <2>3. x \div (n-1) = st
    BY <2>1, <2>2, Divided
  <2> QED BY <2>3 DEF x
<1> QED BY <1>8, <1>9, <1>12, <1>15, <1>16 DEF hi
=============================================================================

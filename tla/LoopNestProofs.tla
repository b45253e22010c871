--------------------------- MODULE LoopNestProofs ---------------------------
(***************************************************************************)
(* A script of permutations and tilings, for every nest, every dependence  *)
(* vector and scripts of any length: loop_level and the vectors describe   *)
(* the nest that xform makes, and no dependence is reversed.               *)
(*                                                                         *)
(* The inductive invariant says of the loops that the original ones are    *)
(* numbered in their order, that a tile loop refers to a loop further in   *)
(* over the same iterations, and that the vectors have the bounds of the   *)
(* original nest at these numbers.  Order is kept because every loop that  *)
(* may run against a dependence lies inside an original loop that carries  *)
(* it: Violated says so of a permutation, and the check of tile never lets *)
(* a loop out past the first of the loops that carry it.                   *)
(***************************************************************************)
EXTENDS LoopNest, OperatorProofs, SequenceTheorems

Kinds == {"original", "tile"}
Loops == [kind : Kinds, dim : Dims, size : Nat]
LoopLevels == [type : Kinds, payload : Int]
IsVector(dv) == /\ dv \in [type : STRING, quasi : {FALSE}, lb : [Dims -> Int], ub : [Dims -> Int]]
                /\ \A k \in Dims : dv.lb[k] <= dv.ub[k]

\* The n loops xf under the names ll.  Tile loops are made of the dimensions tiled.
Describes(n, ll, xf, tiled) ==
  /\ ll \in [1 .. n -> LoopLevels] /\ xf \in [1 .. n -> Loops]
  /\ \A l \in 1 .. n :
       /\ ll[l].type = xf[l].kind
       /\ xf[l].kind = "original" => xf[l].size = 1
       /\ xf[l].kind = "tile" => /\ ll[l].payload \in l+1 .. n
                                 /\ xf[ll[l].payload].dim = xf[l].dim
                                 /\ xf[l].dim \in tiled

\* The original loops are numbered by all dependence dimensions in their
\* order, and run through all dimensions of the program.
Numbered(n, ll, xf) ==
  /\ \A l \in 1 .. n : xf[l].kind = "original" => ll[l].payload \in Dims
  /\ \A l \in 1 .. n, m \in 1 .. n :
       xf[l].kind = "original" /\ xf[m].kind = "original" /\ l < m => ll[l].payload < ll[m].payload
  /\ \A k \in Dims : \E l \in 1 .. n : xf[l].kind = "original" /\ ll[l].payload = k
  /\ \A k \in Dims : \E l \in 1 .. n : xf[l].kind = "original" /\ xf[l].dim = k

\* The vector dv has the bounds of v in the order of the loops.
Follows(n, ll, xf, dv, v) ==
  \A l \in 1 .. n : xf[l].kind = "original" =>
    dv.lb[ll[l].payload] = v.lb[xf[l].dim] /\ dv.ub[ll[l].payload] = v.ub[xf[l].dim]

\* A loop that may run against a dependence lies inside one that carries it.
Guarded(n, xf, v) ==
  \A l \in 1 .. n : v.lb[xf[l].dim] < 0 =>
    \E o \in 1 .. l-1 : xf[o].kind = "original" /\ v.lb[xf[o].dim] > 0

Nest(n, ll, xf, ds, v, tiled) ==
  /\ Describes(n, ll, xf, tiled)
  /\ Numbered(n, ll, xf)
  /\ ds # {} /\ \A dv \in ds : IsVector(dv) /\ Follows(n, ll, xf, dv, v)

GivenOK == script \in DOMAIN Scripts /\ vector \in Scripts[script].vectors

IInv == /\ GivenOK /\ alive \in BOOLEAN
        /\ alive => /\ loop_level \in Seq(LoopLevels) /\ xform \in Seq(Loops)
                    /\ Len(loop_level) = Len(xform)
                    /\ Nest(Len(xform), loop_level, xform, dep, vector, Scripts[script].tiled)

GInv == IInv /\ (alive => Guarded(Len(xform), xform, vector))

-----------------------------------------------------------------------------
(* Sequences.                                                              *)

LEMMA FunctionSeq ==
  ASSUME NEW S, NEW n \in Nat, NEW f \in [1 .. n -> S]
  PROVE  f \in Seq(S) /\ Len(f) = n
<1>1. f \in Seq(S)
  BY SeqDef
<1> QED
  BY <1>1, LenProperties

LEMMA SeqFunction ==
  ASSUME NEW S, NEW s \in Seq(S)
  PROVE  Len(s) \in Nat /\ s \in [1 .. Len(s) -> S]
BY LenProperties

\* r is s with e put in at i.
IsInserted(r, s, i, e, S) ==
  /\ r \in Seq(S)
  /\ Len(r) = Len(s)+1
  /\ \A j \in 1 .. i-1 : r[j] = s[j]
  /\ r[i] = e
  /\ \A j \in i .. Len(s) : r[j+1] = s[j]

LEMMA InsertFacts ==
  ASSUME NEW S, NEW s \in Seq(S), NEW i \in 1 .. Len(s), NEW e \in S
  PROVE  IsInserted(InsertAt(s, i, e), s, i, e, S)
<1> DEFINE f == SubSeq(s, 1, i-1)
           g == <<e>>
           h == SubSeq(s, i, Len(s))
<1>1. Len(s) \in Nat /\ i \in Int /\ 1 <= i /\ i <= Len(s)
  BY LenProperties
<1>2. f \in Seq(S) /\ Len(f) = i-1 /\ \A j \in 1 .. i-1 : f[j] = s[j]
  <2>1. \A j \in 1 .. i-1 : s[j] \in S
    BY <1>1, ElementOfSeq
  <2>2. 1 \in 1 .. Len(s)+1 /\ i-1 \in 1-1 .. Len(s)
    BY <1>1
  <2>3. f \in Seq(S) /\ Len(f) = IF 1 <= i-1 THEN (i-1)-1+1 ELSE 0
    BY <2>2, <1>1, SubSeqProperties
  <2>4. \A j \in 1 .. (i-1)-1+1 : f[j] = s[1+j-1]
    BY <2>2, <1>1, SubSeqProperties
  <2> QED
    BY <1>1, <2>3, <2>4
<1>3. h \in Seq(S) /\ Len(h) = Len(s)-i+1 /\ \A j \in i .. Len(s) : h[j-i+1] = s[j]
  <2>2. i \in 1 .. Len(s)+1 /\ Len(s) \in i-1 .. Len(s)
    BY <1>1
  <2>3. h \in Seq(S) /\ Len(h) = IF i <= Len(s) THEN Len(s)-i+1 ELSE 0
    BY <2>2, <1>1, SubSeqProperties
  <2>4. \A j \in 1 .. Len(s)-i+1 : h[j] = s[i+j-1]
    BY <2>2, <1>1, SubSeqProperties
  <2>5. \A j \in i .. Len(s) : j-i+1 \in 1 .. Len(s)-i+1 /\ i+(j-i+1)-1 = j
    BY <1>1
  <2> QED
    BY <1>1, <2>3, <2>4, <2>5
<1>4. g \in Seq(S) /\ Len(g) = 1 /\ g[1] = e
  OBVIOUS
<1> HIDE DEF f, g, h
<1> DEFINE a == f \o g
<1>5. /\ a \in Seq(S) /\ Len(a) = i
      /\ \A j \in 1 .. i-1 : a[j] = s[j]
      /\ a[i] = e
  <2>1. a \in Seq(S) /\ Len(a) = Len(f)+Len(g)
    BY <1>2, <1>4, ConcatProperties
  <2>2. \A j \in 1 .. Len(f)+Len(g) : a[j] = IF j <= Len(f) THEN f[j] ELSE g[j-Len(f)]
    BY <1>2, <1>4, ConcatProperties
  <2>3. Len(f)+Len(g) = i /\ \A j \in 1 .. i-1 : j \in 1 .. i /\ j <= Len(f)
    BY <1>1, <1>2, <1>4
  <2>4. i \in 1 .. i /\ ~(i <= Len(f)) /\ i-Len(f) = 1
    BY <1>1, <1>2
  <2> HIDE DEF a
  <2> QED
    BY <1>2, <1>4, <2>1, <2>2, <2>3, <2>4
<1> HIDE DEF a
<1> DEFINE b == a \o h
<1>6. /\ b \in Seq(S) /\ Len(b) = Len(s)+1
      /\ \A j \in 1 .. i : b[j] = a[j]
      /\ \A j \in i .. Len(s) : b[j+1] = h[j-i+1]
  <2>1. b \in Seq(S) /\ Len(b) = Len(a)+Len(h)
    BY <1>3, <1>5, ConcatProperties
  <2>2. \A j \in 1 .. Len(a)+Len(h) : b[j] = IF j <= Len(a) THEN a[j] ELSE h[j-Len(a)]
    BY <1>3, <1>5, ConcatProperties
  <2>3. \A j \in i .. Len(s) : /\ j+1 \in 1 .. Len(a)+Len(h) /\ ~(j+1 <= Len(a))
                               /\ j+1-Len(a) = j-i+1
    BY <1>1, <1>3, <1>5
  <2>4. \A j \in 1 .. i : j \in 1 .. Len(a)+Len(h) /\ j <= Len(a)
    BY <1>1, <1>3, <1>5
  <2>5. Len(a)+Len(h) = Len(s)+1
    BY <1>1, <1>3, <1>5
  <2> HIDE DEF b
  <2>6. b \in Seq(S) /\ Len(b) = Len(s)+1
    BY <2>1, <2>5
  <2>7. \A j \in 1 .. i : b[j] = a[j]
    BY <2>2, <2>4
  <2>8. \A j \in i .. Len(s) : b[j+1] = h[j-i+1]
    <3> SUFFICES ASSUME NEW j \in i .. Len(s) PROVE b[j+1] = h[j-i+1]
      OBVIOUS
    <3>1. b[j+1] = h[j+1-Len(a)] /\ j+1-Len(a) = j-i+1
      BY <2>2, <2>3
    <3> QED
      BY <3>1
  <2> QED
    BY <2>6, <2>7, <2>8
<1>7. InsertAt(s, i, e) = b
  BY DEF InsertAt, a, b, f, g, h
<1> HIDE DEF b
<1>8. IsInserted(b, s, i, e, S)
  BY <1>1, <1>3, <1>5, <1>6 DEF IsInserted
<1> QED
  BY <1>7, <1>8

-----------------------------------------------------------------------------
(* The original loops in their order.                                      *)

\* Original loops that lie one after the other have consecutive numbers.
LEMMA Consecutive ==
  ASSUME NEW n \in Nat, NEW ll, NEW xf, NEW tiled, Describes(n, ll, xf, tiled), Numbered(n, ll, xf),
         NEW a \in 1 .. n, NEW b \in 1 .. n, \A l \in a .. b : xf[l].kind = "original"
  PROVE  \A l \in a .. b : ll[l].payload = ll[a].payload + (l-a)
<1> DEFINE q(l) == ll[l].payload
           T == {l \in a .. b : q(l) # q(a) + (l-a)}
<1>1. SUFFICES ASSUME T # {} PROVE FALSE
  OBVIOUS
<1>2. \A l \in a .. b : l \in 1 .. n /\ q(l) \in 0 .. NDim-1
  BY DEF Numbered, Dims
<1>3. PICK l \in T : \A y \in T : l <= y
  <2>1. T \in SUBSET Nat
    OBVIOUS
  <2> HIDE DEF T
  <2> QED
    BY <1>1, <2>1, LeastElement
<1>4. l \in a .. b /\ l # a
  <2>1. q(a) \in Int
    BY <1>2
  <2> QED
    BY <2>1
<1>5. l-1 \in a .. b /\ ~(l <= l-1)
  BY <1>4
<1>6. q(l-1) = q(a) + ((l-1)-a)
  BY <1>3, <1>5
<1>7. q(l-1) < q(l)
  <2>1. l-1 \in 1 .. n /\ l \in 1 .. n /\ l-1 < l /\ xf[l-1].kind = "original" /\ xf[l].kind = "original"
    BY <1>2, <1>4, <1>5
  <2> QED
    BY <2>1 DEF Numbered
<1> DEFINE k == q(l-1)+1
<1>8. k \in Dims
  BY <1>2, <1>4, <1>5, <1>7, NDimAssumption DEF Dims
<1>9. PICK o \in 1 .. n : xf[o].kind = "original" /\ q(o) = k
  BY <1>8 DEF Numbered
<1>10. ~(o < l-1) /\ o # l-1
  <2>1. ASSUME o < l-1 PROVE q(o) < q(l-1)
    BY <1>2, <1>5, <1>9, <2>1 DEF Numbered
  <2>2. q(l-1) \in Int
    BY <1>2, <1>5
  <2> QED
    BY <1>9, <2>1, <2>2
<1>11. ~(l < o)
  <2>1. ASSUME l < o PROVE q(l) < q(o)
    BY <1>2, <1>4, <1>9, <2>1 DEF Numbered
  <2>2. q(l-1) \in Int /\ q(l) \in Int
    BY <1>2, <1>4, <1>5
  <2> HIDE DEF q
  <2> QED
    BY <1>7, <1>9, <2>1, <2>2
<1>12. o = l
  BY <1>4, <1>10, <1>11
<1>13. q(l) = q(a) + (l-a)
  <2>1. q(a) \in Int /\ l \in Int /\ a \in Int
    BY <1>2, <1>4
  <2> HIDE DEF q
  <2> QED
    BY <1>6, <1>9, <1>12, <2>1
<1> QED
  BY <1>3, <1>13

\* The number of an original loop is the number of original loops before it.
LEMMA NumberCounts ==
  ASSUME NEW n \in Nat, NEW ll, NEW xf, NEW tiled, Describes(n, ll, xf, tiled), Numbered(n, ll, xf),
         NEW l \in 1 .. n, xf[l].kind = "original"
  PROVE  ll[l].payload = Cardinality({m \in 1 .. l-1 : xf[m].kind = "original"})
<1> DEFINE S == {m \in 1 .. l-1 : xf[m].kind = "original"}
           q == ll[l].payload
           U == 0 .. q-1
           f == [m \in S |-> ll[m].payload]
<1>1. q \in Dims /\ q \in Nat
  BY DEF Numbered, Dims
<1>2. IsFiniteSet(S)
  <2>1. IsFiniteSet(1 .. l-1)
    BY FS_Interval
  <2> QED
    BY <2>1, FS_Subset
<1>3. \A m \in S : m \in 1 .. n /\ ll[m].payload \in U
  BY <1>1 DEF Numbered, Dims
<1>4. f \in [S -> U]
  BY <1>3
<1>5. \A m \in S, o \in S : f[m] = f[o] => m = o
  <2> SUFFICES ASSUME NEW m \in S, NEW o \in S, m # o PROVE f[m] # f[o]
    OBVIOUS
  <2>1. m \in 1 .. n /\ o \in 1 .. n /\ f[m] \in Int /\ f[o] \in Int
    BY <1>3, <1>4
  <2>2. m < o => f[m] < f[o]
    BY <2>1 DEF Numbered
  <2>3. o < m => f[o] < f[m]
    BY <2>1 DEF Numbered
  <2> HIDE DEF f
  <2> QED
    BY <2>1, <2>2, <2>3
<1>6. \A k \in U : \E m \in S : f[m] = k
  <2> SUFFICES ASSUME NEW k \in U PROVE \E m \in S : f[m] = k
    OBVIOUS
  <2>1. k \in Dims
    BY <1>1, NDimAssumption DEF Dims
  <2>2. PICK m \in 1 .. n : xf[m].kind = "original" /\ ll[m].payload = k
    BY <2>1 DEF Numbered
  <2>3. m # l /\ ~(l < m)
    BY <2>2, <1>1 DEF Numbered
  <2>4. m \in S
    BY <2>2, <2>3
  <2> QED
    BY <2>2, <2>4
<1>7. f \in Bijection(S, U)
  BY <1>4, <1>5, <1>6 DEF Bijection, Injection, Surjection, IsInjective
<1>8. Cardinality(S) = Cardinality(U)
  <2>1. ExistsBijection(S, U)
    BY <1>7 DEF ExistsBijection
  <2> HIDE DEF S, U
  <2> QED
    BY <1>2, <2>1, FS_Bijection
<1>9. Cardinality(U) = q
  BY <1>1, VerticesCount
<1> QED
  BY <1>8, <1>9

-----------------------------------------------------------------------------
(* permute of original loops.                                              *)

\* The loops a .. b of a nest change places: new loop l is old loop pi[l], and
\* dimension i of the new vectors is dimension dp[i] of the old.
Reorders(n, ll, a, b, pi, inv, dp) ==
  /\ pi \in [1 .. n -> 1 .. n] /\ inv \in [1 .. n -> 1 .. n] /\ dp \in [Dims -> Dims]
  /\ \A l \in a .. b : pi[l] \in a .. b /\ inv[l] \in a .. b
  /\ \A l \in (1 .. n) \ (a .. b) : pi[l] = l /\ inv[l] = l
  /\ \A l \in 1 .. n : pi[inv[l]] = l
  /\ \A l \in a .. b : dp[ll[l].payload] = ll[pi[l]].payload
  /\ \A i \in Dims : (\A l \in a .. b : ll[l].payload # i) => dp[i] = i

LevelsReordered(n, ll, inv) ==
  [l \in 1 .. n |-> IF ll[l].type = "tile" THEN TileLoop(inv[ll[l].payload]) ELSE ll[l]]
LoopsReordered(n, xf, pi) == [l \in 1 .. n |-> xf[pi[l]]]

\* A loop keeps its kind, as only original loops move.
LEMMA ReorderedKinds ==
  ASSUME NEW n \in Nat, NEW ll, NEW xf, NEW tiled, Describes(n, ll, xf, tiled),
         NEW a \in 1 .. n, NEW b \in 1 .. n, \A l \in a .. b : xf[l].kind = "original",
         NEW pi, NEW inv, NEW dp, Reorders(n, ll, a, b, pi, inv, dp)
  PROVE  \A l \in 1 .. n : xf[pi[l]].kind = xf[l].kind
<1> SUFFICES ASSUME NEW l \in 1 .. n PROVE xf[pi[l]].kind = xf[l].kind
  OBVIOUS
<1>1. CASE l \in a .. b
  BY <1>1 DEF Reorders
<1>2. CASE l \notin a .. b
  BY <1>2 DEF Reorders
<1> QED
  BY <1>1, <1>2

LEMMA ReorderedDescribes ==
  ASSUME NEW n \in Nat, NEW ll, NEW xf, NEW tiled, Describes(n, ll, xf, tiled),
         NEW a \in 1 .. n, NEW b \in 1 .. n, \A l \in a .. b : xf[l].kind = "original",
         NEW pi, NEW inv, NEW dp, Reorders(n, ll, a, b, pi, inv, dp)
  PROVE  Describes(n, LevelsReordered(n, ll, inv), LoopsReordered(n, xf, pi), tiled)
<1> DEFINE ll2 == LevelsReordered(n, ll, inv)
           xf2 == LoopsReordered(n, xf, pi)
<1>1. pi \in [1 .. n -> 1 .. n] /\ inv \in [1 .. n -> 1 .. n]
  BY DEF Reorders
<1>2. xf2 \in [1 .. n -> Loops] /\ \A l \in 1 .. n : xf2[l] = xf[pi[l]]
  BY <1>1 DEF LoopsReordered, Describes
<1>3. /\ DOMAIN ll2 = 1 .. n
      /\ ll2 = [l \in 1 .. n |-> ll2[l]]
      /\ \A l \in 1 .. n : ll2[l] = IF ll[l].type = "tile" THEN TileLoop(inv[ll[l].payload]) ELSE ll[l]
  BY DEF LevelsReordered
<1>4. \A l \in 1 .. n : xf[pi[l]].kind = xf[l].kind
  BY ReorderedKinds
<1> HIDE DEF ll2, xf2
<1>5. ASSUME NEW l \in 1 .. n, xf[l].kind = "tile"
      PROVE  /\ ll2[l] \in LoopLevels /\ ll2[l].type = xf2[l].kind
             /\ ll2[l].payload \in l+1 .. n /\ xf2[ll2[l].payload].dim = xf2[l].dim
             /\ xf2[l].dim \in tiled
  <2> DEFINE ref == ll[l].payload
  <2>1. ll[l].type = "tile" /\ ref \in l+1 .. n /\ xf[ref].dim = xf[l].dim /\ xf[l].dim \in tiled
    BY <1>5 DEF Describes
  <2>2. ref \in 1 .. n /\ inv[ref] \in 1 .. n
    <3>1. ref \in 1 .. n
      BY <2>1
    <3> HIDE DEF ref
    <3> QED
      BY <1>1, <3>1
  <2>3. ll2[l] = TileLoop(inv[ref])
    BY <1>3, <2>1
  <2>4. l \notin a .. b
    BY <1>5
  <2>5. pi[l] = l
    BY <2>4 DEF Reorders
  <2>6. inv[ref] \in l+1 .. n
    <3>1. CASE ref \in a .. b
      <4>1. inv[ref] \in a .. b
        BY <3>1 DEF Reorders
      <4>2. l < a
        BY <2>1, <2>4, <3>1
      <4> QED
        BY <2>2, <4>1, <4>2
    <3>2. CASE ref \notin a .. b
      BY <2>1, <2>2, <3>2 DEF Reorders
    <3> QED
      BY <3>1, <3>2
  <2>7. ll2[l].type = "tile" /\ ll2[l].payload = inv[ref] /\ ll2[l] \in LoopLevels
    BY <2>2, <2>3 DEF TileLoop, LoopLevels, Kinds
  <2>8. xf2[inv[ref]] = xf[ref] /\ xf2[l] = xf[l]
    <3>1. pi[inv[ref]] = ref
      BY <2>2 DEF Reorders
    <3> QED
      BY <1>2, <2>2, <2>5, <3>1
  <2> QED
    BY <1>5, <2>1, <2>6, <2>7, <2>8
<1>6. ASSUME NEW l \in 1 .. n, xf[l].kind = "original"
      PROVE  ll2[l] \in LoopLevels /\ ll2[l].type = xf2[l].kind /\ xf2[l].size = 1
  <2>1. ll[l].type = "original" /\ ll[l] \in LoopLevels
    BY <1>6 DEF Describes
  <2>2. ll2[l] = ll[l]
    BY <1>3, <2>1
  <2>3. pi[l] \in 1 .. n /\ xf[pi[l]].kind = "original"
    BY <1>1, <1>4, <1>6
  <2>4. xf[pi[l]].size = 1
    BY <2>3 DEF Describes
  <2> QED
    BY <1>2, <2>1, <2>2, <2>3, <2>4
<1>7. \A l \in 1 .. n : xf[l].kind \in {"original", "tile"} /\ xf2[l].kind = xf[l].kind
  BY <1>1, <1>2, <1>4 DEF Describes, Loops, Kinds
<1>8. ll2 \in [1 .. n -> LoopLevels]
  BY <1>3, <1>5, <1>6, <1>7
<1> QED
  BY <1>2, <1>5, <1>6, <1>7, <1>8 DEF Describes, ll2, xf2

LEMMA ReorderedNumbered ==
  ASSUME NEW n \in Nat, NEW ll, NEW xf, NEW tiled, Describes(n, ll, xf, tiled), Numbered(n, ll, xf),
         NEW a \in 1 .. n, NEW b \in 1 .. n, \A l \in a .. b : xf[l].kind = "original",
         NEW pi, NEW inv, NEW dp, Reorders(n, ll, a, b, pi, inv, dp)
  PROVE  Numbered(n, LevelsReordered(n, ll, inv), LoopsReordered(n, xf, pi))
<1> DEFINE ll2 == LevelsReordered(n, ll, inv)
           xf2 == LoopsReordered(n, xf, pi)
<1>1. pi \in [1 .. n -> 1 .. n] /\ inv \in [1 .. n -> 1 .. n] /\ \A l \in 1 .. n : pi[inv[l]] = l
  BY DEF Reorders
<1>2. \A l \in 1 .. n : xf2[l] = xf[pi[l]] /\ xf2[l].kind = xf[l].kind
  BY ReorderedKinds DEF LoopsReordered
<1>3. \A l \in 1 .. n : xf[l].kind = "original" => ll2[l] = ll[l]
  BY DEF LevelsReordered, Describes
<1> HIDE DEF ll2, xf2
<1>4. \A l \in 1 .. n : xf2[l].kind = "original" => ll2[l].payload \in Dims
  BY <1>2, <1>3 DEF Numbered
<1>5. \A l \in 1 .. n, m \in 1 .. n :
        xf2[l].kind = "original" /\ xf2[m].kind = "original" /\ l < m => ll2[l].payload < ll2[m].payload
  BY <1>2, <1>3 DEF Numbered
<1>6. \A k \in Dims : \E l \in 1 .. n : xf2[l].kind = "original" /\ ll2[l].payload = k
  BY <1>2, <1>3 DEF Numbered
<1>7. ASSUME NEW k \in Dims
      PROVE  \E l \in 1 .. n : xf2[l].kind = "original" /\ xf2[l].dim = k
  <2>1. PICK l \in 1 .. n : xf[l].kind = "original" /\ xf[l].dim = k
    BY DEF Numbered
  <2>2. inv[l] \in 1 .. n /\ xf2[inv[l]] = xf[l]
    BY <1>1, <1>2
  <2> QED
    BY <2>1, <2>2
<1> QED
  BY <1>4, <1>5, <1>6, <1>7, Zenon DEF Numbered, ll2, xf2

LEMMA ReorderedFollows ==
  ASSUME NEW n \in Nat, NEW ll, NEW xf, NEW tiled, Describes(n, ll, xf, tiled), Numbered(n, ll, xf),
         NEW a \in 1 .. n, NEW b \in 1 .. n, \A l \in a .. b : xf[l].kind = "original",
         NEW pi, NEW inv, NEW dp, Reorders(n, ll, a, b, pi, inv, dp),
         NEW dv, IsVector(dv), NEW v, Follows(n, ll, xf, dv, v)
  PROVE  /\ IsVector(Permuted(dv, dp))
         /\ Follows(n, LevelsReordered(n, ll, inv), LoopsReordered(n, xf, pi), Permuted(dv, dp), v)
<1> DEFINE ll2 == LevelsReordered(n, ll, inv)
           xf2 == LoopsReordered(n, xf, pi)
           pv == Permuted(dv, dp)
<1>1. /\ dp \in [Dims -> Dims] /\ pi \in [1 .. n -> 1 .. n]
      /\ dv.lb \in [Dims -> Int] /\ dv.ub \in [Dims -> Int]
  BY DEF Reorders, IsVector
<1>2. \A k \in Dims : pv.lb[k] = dv.lb[dp[k]] /\ pv.ub[k] = dv.ub[dp[k]]
  BY <1>1 DEF Permuted, IsVector
<1>3. IsVector(pv)
  <2>1. pv \in [type : STRING, quasi : {FALSE}, lb : [Dims -> Int], ub : [Dims -> Int]]
    BY <1>1 DEF Permuted, IsVector
  <2>2. \A k \in Dims : pv.lb[k] <= pv.ub[k]
    BY <1>1, <1>2 DEF IsVector
  <2> QED
    BY <2>1, <2>2 DEF IsVector
<1>4. \A l \in 1 .. n : xf2[l] = xf[pi[l]] /\ xf2[l].kind = xf[l].kind
  BY ReorderedKinds DEF LoopsReordered
<1>5. \A l \in 1 .. n : xf[l].kind = "original" => ll2[l] = ll[l]
  BY DEF LevelsReordered, Describes
<1> HIDE DEF ll2, xf2, pv
<1>6. ASSUME NEW l \in 1 .. n, xf2[l].kind = "original"
      PROVE  pv.lb[ll2[l].payload] = v.lb[xf2[l].dim] /\ pv.ub[ll2[l].payload] = v.ub[xf2[l].dim]
  <2> DEFINE k == ll[l].payload
             m == pi[l]
  <2>1. ll2[l].payload = k /\ xf[l].kind = "original" /\ k \in Dims
    BY <1>4, <1>5, <1>6 DEF Numbered
  <2>2. m \in 1 .. n /\ xf2[l] = xf[m] /\ xf[m].kind = "original"
    BY <1>1, <1>4, <1>6
  <2>3. dp[k] = ll[m].payload
    <3>1. CASE l \in a .. b
      BY <3>1 DEF Reorders
    <3>2. CASE l \notin a .. b
      <4>1. m = l
        BY <3>2 DEF Reorders
      <4>2. ASSUME NEW o \in a .. b PROVE ll[o].payload # k
        <5>1. o \in 1 .. n /\ xf[o].kind = "original" /\ o # l
          BY <3>2
        <5>2. (o < l \/ l < o) /\ ll[o].payload \in Int /\ k \in Int
          BY <2>1, <5>1 DEF Numbered, Dims
        <5> QED
          BY <2>1, <5>1, <5>2 DEF Numbered
      <4> QED
        BY <2>1, <4>1, <4>2 DEF Reorders
    <3> QED
      BY <3>1, <3>2
  <2>4. dv.lb[ll[m].payload] = v.lb[xf[m].dim] /\ dv.ub[ll[m].payload] = v.ub[xf[m].dim]
    BY <2>2 DEF Follows
  <2> QED
    BY <1>2, <2>1, <2>2, <2>3, <2>4
<1> QED
  BY <1>3, <1>6, Zenon DEF Follows, ll2, xf2, pv

\* The check of permute guards the original loops; the others lie where they
\* lay, and the loops they are guarded by move within the same range.
LEMMA ReorderedGuarded ==
  ASSUME NEW n \in Nat, NEW ll, NEW xf, NEW tiled, Describes(n, ll, xf, tiled), Numbered(n, ll, xf),
         NEW a \in 1 .. n, NEW b \in 1 .. n, \A l \in a .. b : xf[l].kind = "original",
         NEW pi, NEW inv, NEW dp, Reorders(n, ll, a, b, pi, inv, dp),
         NEW dv, IsVector(dv), NEW v, Follows(n, ll, xf, dv, v),
         ~Violated(dv, dp), Guarded(n, xf, v), v.lb \in [Dims -> Int]
  PROVE  Guarded(n, LoopsReordered(n, xf, pi), v)
<1> DEFINE ll2 == LevelsReordered(n, ll, inv)
           xf2 == LoopsReordered(n, xf, pi)
           pv == Permuted(dv, dp)
<1>1. /\ pi \in [1 .. n -> 1 .. n] /\ inv \in [1 .. n -> 1 .. n]
      /\ \A l \in 1 .. n : pi[inv[l]] = l
  BY DEF Reorders
<1>2. \A l \in 1 .. n : xf2[l] = xf[pi[l]] /\ xf2[l].kind = xf[l].kind
  BY ReorderedKinds DEF LoopsReordered
<1>3. \A l \in 1 .. n : xf[l].kind \in {"original", "tile"}
  BY DEF Describes, Loops, Kinds
<1>4. IsVector(pv) /\ Follows(n, ll2, xf2, pv, v) /\ Numbered(n, ll2, xf2)
  BY ReorderedFollows, ReorderedNumbered
<1>5. \A i \in Dims : pv.lb[i] < 0 => \E k \in Before(i) : pv.lb[k] > 0
  <2>1. DOMAIN pv.lb = Dims /\ \A k \in Dims : pv.lb[k] \in Int
    BY <1>4 DEF IsVector
  <2>2. ~dv.quasi
    BY DEF IsVector
  <2>3. ASSUME NEW i \in Dims, pv.lb[i] < 0, ~ \E k \in Before(i) : pv.lb[k] > 0
        PROVE  FALSE
    <3>1. \A k \in Before(i) : k \in Dims
      BY NDimAssumption DEF Before, Dims
    <3>2. ASSUME NEW k \in Before(i) PROVE pv.lb[k] <= 0
      <4>1. pv.lb[k] \in Int
        BY <2>1, <3>1
      <4>2. ~(pv.lb[k] > 0)
        BY <2>3, Zenon
      <4> QED
        BY <4>1, <4>2
    <3> QED
      BY <2>1, <2>2, <2>3, <3>2 DEF Violated
  <2> QED
    BY <2>3, Zenon
<1> HIDE DEF ll2, xf2, pv
<1>6. ASSUME NEW l \in 1 .. n, xf[l].kind = "original", v.lb[xf2[l].dim] < 0
      PROVE  \E o \in 1 .. l-1 : xf2[o].kind = "original" /\ v.lb[xf2[o].dim] > 0
  <2> DEFINE i == ll2[l].payload
  <2>1. xf2[l].kind = "original" /\ i \in Dims /\ pv.lb[i] = v.lb[xf2[l].dim]
    BY <1>2, <1>4, <1>6 DEF Follows, Numbered
  <2>2. PICK k \in Before(i) : pv.lb[k] > 0
    BY <1>5, <1>6, <2>1
  <2>3. k \in Dims /\ k < i
    BY <2>1, NDimAssumption DEF Before, Dims
  <2>4. PICK o \in 1 .. n : xf2[o].kind = "original" /\ ll2[o].payload = k
    BY <1>4, <2>3 DEF Numbered
  <2>5. ~(l < o) /\ o # l
    <3>1. ASSUME l < o PROVE i < k
      BY <1>4, <2>1, <2>4, <3>1 DEF Numbered
    <3>2. i \in Int /\ k \in Int
      BY <2>1, <2>3 DEF Dims
    <3> HIDE DEF i
    <3> QED
      BY <2>3, <2>4, <3>1, <3>2 DEF i
  <2>6. o \in 1 .. l-1
    BY <2>5
  <2>7. pv.lb[k] = v.lb[xf2[o].dim]
    BY <1>4, <2>4 DEF Follows
  <2> QED
    BY <2>2, <2>4, <2>6, <2>7
<1>7. ASSUME NEW l \in 1 .. n, xf[l].kind = "tile", v.lb[xf2[l].dim] < 0
      PROVE  \E o \in 1 .. l-1 : xf2[o].kind = "original" /\ v.lb[xf2[o].dim] > 0
  <2>1. l \notin a .. b
    BY <1>7
  <2>2. xf2[l] = xf[l]
    BY <1>2, <2>1 DEF Reorders
  <2>3. PICK o \in 1 .. l-1 : xf[o].kind = "original" /\ v.lb[xf[o].dim] > 0
    BY <1>7, <2>2 DEF Guarded
  <2>4. o \in 1 .. n /\ inv[o] \in 1 .. n /\ xf2[inv[o]] = xf[o]
    <3>1. o \in 1 .. n
      OBVIOUS
    <3>2. inv[o] \in 1 .. n /\ pi[inv[o]] = o
      BY <1>1, <3>1
    <3> QED
      BY <1>2, <3>1, <3>2
  <2>5. inv[o] \in 1 .. l-1
    <3>1. CASE o \in a .. b
      <4>0. b < l
        BY <2>1, <3>1
      <4>1. inv[o] \in a .. b
        BY <3>1 DEF Reorders
      <4> QED
        BY <2>4, <4>0, <4>1
    <3>2. CASE o \notin a .. b
      BY <2>4, <3>2 DEF Reorders
    <3> QED
      BY <3>1, <3>2
  <2> QED
    BY <2>3, <2>4, <2>5
<1> QED
  BY <1>3, <1>6, <1>7 DEF Guarded, xf2

LEMMA ShiftedInterval ==
  ASSUME NEW i \in Int, NEW m \in Nat, NEW j \in 1 .. m
  PROVE  i + j-1 \in i .. i+m-1
OBVIOUS

LEMMA IndexInterval ==
  ASSUME NEW i \in Int, NEW m \in Nat, NEW b, b = i+m-1
  PROVE  \A k \in 1 .. m : i+k-1 \in i .. b /\ (i+k-1)-i+1 = k
OBVIOUS

LEMMA LowerInterval ==
  ASSUME NEW m \in Nat, NEW k \in 1 .. m
  PROVE  {j \in 1 .. m : j < k} = 1 .. k-1
OBVIOUS

LEMMA EndsOfInterval ==
  ASSUME NEW i \in Int, NEW j \in Int, i <= j
  PROVE  Min(i .. j) = i /\ Max(i .. j) = j
<1>1. \A x \in i .. j : (\A y \in i .. j : x <= y) <=> x = i
  OBVIOUS
<1>2. \A x \in i .. j : (\A y \in i .. j : x >= y) <=> x = j
  OBVIOUS
<1>3. i \in i .. j /\ j \in i .. j
  OBVIOUS
<1>4. Min(i .. j) = i
  BY <1>1, <1>3 DEF Min
<1>5. Max(i .. j) = j
  BY <1>2, <1>3 DEF Max
<1> QED
  BY <1>4, <1>5

\* A permutation of 1 .. m.
LEMMA OrderFacts ==
  ASSUME GivenOK, NEW p \in Scripts[script].orders
  PROVE  /\ Len(p) \in Nat /\ p \in [1 .. Len(p) -> 1 .. Len(p)]
         /\ \A j \in 1 .. Len(p) : \E i \in 1 .. Len(p) : p[i] = j
         /\ p # <<>> => Len(p) # 0
<1>1. p \in Seq(Nat) /\ ToSet(p) = 1 .. Len(p)
  BY ScriptsAssumption DEF GivenOK
<1>2. Len(p) \in Nat /\ p \in [1 .. Len(p) -> Nat] /\ (p # <<>> => Len(p) # 0)
  BY <1>1, SeqFunction, EmptySeq
<1>3. {p[i] : i \in 1 .. Len(p)} = 1 .. Len(p)
  BY <1>1, <1>2 DEF ToSet
<1> QED
  BY <1>2, <1>3

\* pi moves the loops a .. b by p, and inv moves them back.
MovesBy(n, a, b, p, pi, inv) ==
  /\ pi \in [1 .. n -> 1 .. n] /\ inv \in [1 .. n -> 1 .. n]
  /\ \A l \in a .. b : pi[l] = a-1 + p[l-a+1]
  /\ \A l \in a .. b : pi[l] \in a .. b /\ inv[l] \in a .. b
  /\ \A l \in (1 .. n) \ (a .. b) : pi[l] = l /\ inv[l] = l
  /\ \A l \in 1 .. n : pi[inv[l]] = l

LEMMA MovedFacts ==
  ASSUME NEW n \in Nat, Levels = 1 .. n, NEW p, NEW m \in Nat \ {0}, Len(p) = m,
         p \in [1 .. m -> 1 .. m], \A j \in 1 .. m : \E i \in 1 .. m : p[i] = j,
         NEW a \in 1 .. n, NEW b \in 1 .. n, b = a+m-1
  PROVE  MovesBy(n, a, b, p, Moved(a, p), MovedTo(Moved(a, p)))
<1> DEFINE pi == Moved(a, p)
           inv == MovedTo(pi)
<1>1. /\ a \in Int /\ b \in Int /\ m \in Int /\ n \in Int
      /\ 1 <= a /\ a <= b /\ b <= n
  OBVIOUS
<1>2. \A l \in a .. b : l \in 1 .. n /\ l-a+1 \in 1 .. m /\ p[l-a+1] \in 1 .. m
  <2>1. \A l \in a .. b : l \in 1 .. n /\ l-a+1 \in 1 .. m
    BY <1>1
  <2> QED
    BY <2>1
<1>3. pi = [l \in 1 .. n |-> IF l \in a .. b THEN a-1 + p[l-a+1] ELSE l]
  BY DEF Moved
<1> HIDE DEF pi
<1>4. \A l \in a .. b : pi[l] = a-1 + p[l-a+1] /\ pi[l] \in a .. b
  <2> SUFFICES ASSUME NEW l \in a .. b
               PROVE  pi[l] = a-1 + p[l-a+1] /\ pi[l] \in a .. b
    OBVIOUS
  <2> DEFINE j == p[l-a+1]
  <2>1. l \in 1 .. n /\ j \in 1 .. m
    BY <1>2
  <2>2. pi[l] = a-1 + j
    BY <1>3, <2>1
  <2> HIDE DEF j
  <2>3. a-1 + j \in a .. b
    BY <1>1, <2>1
  <2> QED
    BY <2>2, <2>3 DEF j
<1>5. \A l \in (1 .. n) \ (a .. b) : pi[l] = l
  BY <1>3
<1>6. pi \in [1 .. n -> 1 .. n]
  <2>1. ASSUME NEW l \in 1 .. n PROVE pi[l] \in 1 .. n
    <3>1. CASE l \in a .. b
      BY <1>2, <1>4, <3>1
    <3>2. CASE l \notin a .. b
      BY <1>5, <3>2
    <3> QED
      BY <3>1, <3>2
  <2> QED
    BY <1>3, <2>1
<1>7. \A l \in 1 .. n : \E k \in 1 .. n : pi[k] = l
  <2>1. ASSUME NEW l \in a .. b
        PROVE  \E k \in 1 .. n : pi[k] = l
    <3>1. l-a+1 \in 1 .. m
      BY <1>2
    <3>2. PICK i \in 1 .. m : p[i] = l-a+1
      BY <3>1
    <3>3. a+i-1 \in a .. b /\ a+i-1 \in 1 .. n /\ (a+i-1)-a+1 = i
      BY <1>1
    <3>4. pi[a+i-1] = a-1 + p[i]
      BY <1>4, <3>3
    <3>5. a-1 + (l-a+1) = l
      BY <1>1
    <3> QED
      BY <3>2, <3>3, <3>4, <3>5
  <2> QED
    BY <1>5, <2>1
<1>8. inv = [l \in 1 .. n |-> CHOOSE k \in 1 .. n : pi[k] = l]
  BY DEF MovedTo
<1> HIDE DEF inv
<1>9. \A l \in 1 .. n : inv[l] \in 1 .. n /\ pi[inv[l]] = l
  <2> SUFFICES ASSUME NEW l \in 1 .. n PROVE inv[l] \in 1 .. n /\ pi[inv[l]] = l
    OBVIOUS
  <2>1. inv[l] = CHOOSE k \in 1 .. n : pi[k] = l
    BY <1>8
  <2> QED
    BY <1>7, <2>1
<1>10. \A l \in a .. b : inv[l] \in a .. b
  <2> SUFFICES ASSUME NEW l \in a .. b, inv[l] \notin a .. b PROVE FALSE
    OBVIOUS
  <2>1. inv[l] \in (1 .. n) \ (a .. b) /\ pi[inv[l]] = l
    BY <1>2, <1>9
  <2> QED
    BY <1>5, <2>1
<1>11. \A l \in (1 .. n) \ (a .. b) : inv[l] = l
  <2> SUFFICES ASSUME NEW l \in (1 .. n) \ (a .. b) PROVE inv[l] = l
    OBVIOUS
  <2>1. inv[l] \in 1 .. n /\ pi[inv[l]] = l
    BY <1>9
  <2>2. inv[l] \notin a .. b
    BY <1>4, <2>1
  <2> QED
    BY <1>5, <2>1, <2>2
<1>12. inv \in [1 .. n -> 1 .. n]
  BY <1>8, <1>9
<1> QED
  BY <1>4, <1>5, <1>6, <1>9, <1>10, <1>11, <1>12 DEF pi, inv, MovesBy

\* t, the numbers of the permuted loops in their new order.
NumbersInOrder(t, p, m, base) ==
  /\ t = [k \in 1 .. m |-> base + p[k]-1]
  /\ ToSet(t) = base .. base+m-1 /\ Len(t) = m /\ t # <<>>

LEMMA PermutedDimsFacts ==
  ASSUME NEW n \in Nat, Levels = 1 .. n, NEW p, NEW m \in Nat \ {0}, Len(p) = m,
         p \in [1 .. m -> 1 .. m], \A j \in 1 .. m : \E i \in 1 .. m : p[i] = j,
         NEW a \in 1 .. n, NEW b \in 1 .. n, b = a+m-1,
         \A l \in a .. b : loop_level[l].type = "original",
         NEW base \in Int, \A l \in a .. b : loop_level[l].payload = base + (l-a)
  PROVE  NumbersInOrder(PermutedDims(a, p), p, m, base)
<1> DEFINE pi == Moved(a, p)
           old == [k \in 1 .. m |-> loop_level[pi[a+k-1]]]
           originals == {k \in DOMAIN old : old[k].type = "original"}
           nth(i) == CHOOSE k \in originals : Cardinality({j \in originals : j < k}) = i-1
           t == PermutedDims(a, p)
<1>1. t = [i \in 1 .. Cardinality(originals) |-> old[nth(i)].payload]
  BY DEF PermutedDims
<1>2. \A k \in 1 .. m : /\ a+k-1 \in a .. b /\ pi[a+k-1] \in a .. b
                        /\ pi[a+k-1] = a-1 + p[k]
  <2>1. /\ \A l \in a .. b : pi[l] \in a .. b
        /\ \A l \in a .. b : pi[l] = a-1 + p[l-a+1]
    <3>1. MovesBy(n, a, b, p, pi, MovedTo(pi))
      BY MovedFacts
    <3> QED
      BY <3>1 DEF MovesBy
  <2> HIDE DEF pi
  <2>2. \A k \in 1 .. m : a+k-1 \in a .. b /\ (a+k-1)-a+1 = k
    <3>1. a \in Int /\ m \in Nat
      OBVIOUS
    <3> QED
      BY <3>1, IndexInterval
  <2> SUFFICES ASSUME NEW k \in 1 .. m
               PROVE  a+k-1 \in a .. b /\ pi[a+k-1] \in a .. b /\ pi[a+k-1] = a-1 + p[k]
    OBVIOUS
  <2> DEFINE l == a+k-1
  <2>3. l \in a .. b /\ l-a+1 = k
    BY <2>2
  <2> HIDE DEF l
  <2>4. pi[l] \in a .. b /\ pi[l] = a-1 + p[k]
    BY <2>1, <2>3
  <2> QED
    BY <2>3, <2>4 DEF l
<1> HIDE DEF pi
<1>3. \A k \in 1 .. m : old[k].type = "original" /\ old[k].payload = base + p[k]-1
  <2> SUFFICES ASSUME NEW k \in 1 .. m
               PROVE  old[k].type = "original" /\ old[k].payload = base + p[k]-1
    OBVIOUS
  <2>1. old[k] = loop_level[pi[a+k-1]] /\ pi[a+k-1] \in a .. b /\ pi[a+k-1] = a-1 + p[k]
    BY <1>2
  <2> DEFINE j == p[k]
  <2>2. j \in Int
    OBVIOUS
  <2>3. base + ((a-1 + j)-a) = base + j-1
    <3> HIDE DEF j
    <3> QED
      BY <2>2
  <2>4. loop_level[pi[a+k-1]].payload = base + (pi[a+k-1]-a)
    BY <2>1
  <2>5. loop_level[pi[a+k-1]].type = "original"
    BY <2>1
  <2>6. pi[a+k-1]-a = (a-1 + j)-a
    BY <2>1
  <2> HIDE DEF old, j
  <2>7. loop_level[pi[a+k-1]].payload = base + j-1
    BY <2>3, <2>4, <2>6
  <2> QED
    BY <2>1, <2>5, <2>7 DEF j
<1>4. originals = 1 .. m
  BY <1>3
<1> HIDE DEF old, originals
<1>5. Cardinality(originals) = m
  BY <1>4, FS_Interval
<1>6. \A i \in 1 .. m : nth(i) = i
  <2> SUFFICES ASSUME NEW i \in 1 .. m PROVE nth(i) = i
    OBVIOUS
  <2>1. ASSUME NEW k \in 1 .. m PROVE Cardinality({j \in originals : j < k}) = k-1
    <3>1. {j \in originals : j < k} = 1 .. k-1
      BY <1>4, LowerInterval
    <3>2. 1 \in Int /\ k-1 \in Int /\ (IF 1 > k-1 THEN 0 ELSE (k-1)-1+1) = k-1
      OBVIOUS
    <3> QED
      BY <3>1, <3>2, FS_Interval
  <2>2. ASSUME NEW k \in originals PROVE Cardinality({j \in originals : j < k}) = i-1 <=> k = i
    <3>1. k \in 1 .. m
      BY <1>4
    <3>2. Cardinality({j \in originals : j < k}) = k-1
      BY <2>1, <3>1
    <3> QED
      BY <3>1, <3>2
  <2>3. i \in originals
    BY <1>4
  <2>4. \A k \in originals : Cardinality({j \in originals : j < k}) = i-1 <=> k = i
    BY <2>2
  <2> QED
    BY <2>3, <2>4, Zenon
<1> HIDE DEF nth
<1>7. t = [k \in 1 .. m |-> base + p[k]-1]
  <2>1. \A k \in 1 .. m : old[nth(k)].payload = base + p[k]-1
    BY <1>3, <1>6
  <2>2. t = [k \in 1 .. m |-> old[nth(k)].payload]
    BY <1>1, <1>5, Zenon
  <2> QED
    BY <2>1, <2>2, Zenon
<1> HIDE DEF t
<1>q. \A k \in 1 .. m : p[k] \in 1 .. m
  OBVIOUS
<1>r. \A k \in 1 .. m : base + p[k]-1 \in base .. base+m-1
  BY <1>q, ShiftedInterval
<1>8. t \in [1 .. m -> Int]
  BY <1>7, <1>r
<1>9. ToSet(t) = base .. base+m-1
  <2>1. ToSet(t) = {base + p[k]-1 : k \in 1 .. m}
    BY <1>7 DEF ToSet
  <2>3. ASSUME NEW x \in base .. base+m-1
        PROVE  \E k \in 1 .. m : base + p[k]-1 = x
    <3>1. x-base+1 \in 1 .. m
      OBVIOUS
    <3>2. PICK k \in 1 .. m : p[k] = x-base+1
      BY <3>1
    <3> QED
      BY <3>2
  <2>4. ASSUME NEW x \in ToSet(t) PROVE x \in base .. base+m-1
    BY <1>r, <2>1
  <2>5. ASSUME NEW x \in base .. base+m-1 PROVE x \in ToSet(t)
    BY <2>1, <2>3
  <2> QED
    BY <2>4, <2>5, Zenon
<1>10. Len(t) = m /\ t # <<>>
  <2>1. t \in Seq(Int) /\ Len(t) = m
    BY <1>8, FunctionSeq
  <2> QED
    BY <2>1, EmptySeq
<1> QED
  BY <1>7, <1>9, <1>10 DEF t, NumbersInOrder

\* The command permutes original loops as the lemmas about them assume.
LEMMA PermuteReorders ==
  ASSUME IInv, alive, NEW level \in Levels, NEW p \in Scripts[script].orders, p # <<>>,
         RangeOf(level, p) \subseteq Levels, KindOf(RangeOf(level, p)) = "original"
  PROVE  LET n == Len(xform)
             b == level+Len(p)-1
             t == PermutedDims(level, p)
             pi == Moved(level, p)
         IN  /\ Levels = 1 .. n /\ n \in Nat /\ level \in 1 .. n /\ b \in 1 .. n
             /\ \A l \in level .. b : xform[l].kind = "original"
             /\ t # <<>> /\ Contiguous(t)
             /\ Reorders(n, loop_level, level, b, pi, MovedTo(pi), DepPi(t))
             /\ LevelsAfter(level, p, t) = LevelsReordered(n, loop_level, MovedTo(pi))
<1> DEFINE n == Len(xform)
           m == Len(p)
           b == level+m-1
           t == PermutedDims(level, p)
           pi == Moved(level, p)
           inv == MovedTo(pi)
           dp == DepPi(t)
           base == loop_level[level].payload
           tiled == Scripts[script].tiled
<1>1. n \in Nat /\ Levels = 1 .. n /\ level \in 1 .. n
  BY SeqFunction DEF IInv, Levels
<1>2. /\ m \in Nat \ {0} /\ p \in [1 .. m -> 1 .. m]
      /\ \A j \in 1 .. m : \E i \in 1 .. m : p[i] = j
  BY OrderFacts DEF IInv
<1>3. b \in 1 .. n
  <2>1. b \in RangeOf(level, p)
    BY <1>1, <1>2 DEF RangeOf
  <2> QED
    BY <1>1, <2>1
<1>4. \A l \in level .. b : xform[l].kind = "original"
  BY DEF KindOf, RangeOf
<1>5. /\ Describes(n, loop_level, xform, tiled)
      /\ Numbered(n, loop_level, xform)
  BY DEF IInv, Nest
<1>b. level \in Int /\ b = level+m-1
  BY <1>1
<1> HIDE DEF n, m, b, tiled
<1>6. \A l \in level .. b : l \in 1 .. n /\ loop_level[l].type = "original"
  <2>1. \A l \in level .. b : l \in 1 .. n
    BY <1>1, <1>3
  <2> QED
    BY <1>4, <1>5, <2>1 DEF Describes
<1>7. base \in Int /\ base \in Dims /\ loop_level[b].payload \in Dims
  <2>1. level \in level .. b /\ b \in level .. b
    BY <1>1, <1>2, <1>b
  <2> QED
    BY <1>4, <1>5, <1>1, <1>3, <2>1 DEF Numbered, Dims
<1>8. \A l \in level .. b : loop_level[l].payload = base + (l-level)
  BY <1>1, <1>3, <1>4, <1>5, Consecutive
<1> HIDE DEF base
<1>9. /\ t = [k \in 1 .. m |-> base + p[k]-1]
      /\ ToSet(t) = base .. base+m-1 /\ Len(t) = m /\ t # <<>>
  <2>1. Len(p) = m /\ \A l \in level .. b : loop_level[l].type = "original"
    BY <1>6 DEF m
  <2>2. NumbersInOrder(t, p, m, base)
    BY <1>1, <1>2, <1>3, <1>7, <1>8, <1>b, <2>1, PermutedDimsFacts
  <2> QED
    BY <2>2 DEF NumbersInOrder
<1> HIDE DEF t
<1>10. MinDim(t) = base /\ Max(ToSet(t)) = base+m-1 /\ base+m-1 \in Dims
  <2>1. base \in Int /\ base+m-1 \in Int /\ base <= base+m-1
    BY <1>2, <1>7
  <2>2. loop_level[b].payload = base+m-1
    <3>1. b \in level .. b /\ base + (b-level) = base+m-1
      BY <1>1, <1>2, <1>b, <1>7
    <3> QED
      BY <1>8, <3>1
  <2> QED
    BY <1>7, <1>9, <2>1, <2>2, EndsOfInterval DEF MinDim
<1>11. Contiguous(t)
  BY <1>2, <1>7, <1>9, <1>10 DEF Contiguous
<1>12. MovesBy(n, level, b, p, pi, inv)
  BY <1>1, <1>2, <1>3, <1>b, MovedFacts DEF m
<1> HIDE DEF pi, inv
<1>a. /\ pi \in [1 .. n -> 1 .. n] /\ inv \in [1 .. n -> 1 .. n]
      /\ \A l \in level .. b : pi[l] = level-1 + p[l-level+1]
      /\ \A l \in level .. b : pi[l] \in level .. b /\ inv[l] \in level .. b
      /\ \A l \in (1 .. n) \ (level .. b) : pi[l] = l /\ inv[l] = l
      /\ \A l \in 1 .. n : pi[inv[l]] = l
  BY <1>12 DEF MovesBy
<1>13. dp = [i \in Dims |-> IF i \in base .. base+m-1 THEN base + p[i-base+1]-1 ELSE i]
  <2>1. dp = [i \in Dims |-> IF i \in base .. base+m-1 THEN t[i-base+1] ELSE i]
    <3>1. ToSet(t) = base .. base+m-1 /\ MinDim(t) = base
      BY <1>9, <1>10
    <3> QED
      BY <3>1, Zenon DEF DepPi
  <2>2. \A i \in base .. base+m-1 : t[i-base+1] = base + p[i-base+1]-1
    <3>1. \A i \in base .. base+m-1 : i-base+1 \in 1 .. m
      BY <1>2, <1>7
    <3> QED
      BY <1>9, <3>1
  <2> QED
    BY <2>1, <2>2
<1> HIDE DEF pi, inv, dp
<1>14. dp \in [Dims -> Dims]
  <2> SUFFICES ASSUME NEW i \in base .. base+m-1 PROVE base + p[i-base+1]-1 \in Dims
    BY <1>13
  <2>1. i-base+1 \in 1 .. m
    BY <1>2, <1>7
  <2> DEFINE j == p[i-base+1]
  <2>2. j \in 1 .. m
    BY <1>2, <2>1
  <2> HIDE DEF j
  <2>3. base + j-1 \in Dims
    <3>1. base + j-1 \in base .. base+m-1
      BY <1>2, <1>7, <2>2, ShiftedInterval
    <3>2. base \in 0 .. NDim-1 /\ base+m-1 \in 0 .. NDim-1
      BY <1>7, <1>10 DEF Dims
    <3> DEFINE y == base + j-1
               z == base+m-1
    <3> HIDE DEF y, z
    <3>3. y \in base .. z
      BY <3>1 DEF y, z
    <3>4. y \in 0 .. NDim-1
      BY <3>2, <3>3, NDimAssumption DEF z
    <3> QED
      BY <3>4 DEF y, Dims
  <2> QED
    BY <2>3 DEF j
<1>15. \A l \in level .. b : dp[loop_level[l].payload] = loop_level[pi[l]].payload
  <2> SUFFICES ASSUME NEW l \in level .. b
               PROVE  dp[loop_level[l].payload] = loop_level[pi[l]].payload
    OBVIOUS
  <2> DEFINE j == p[l-level+1]
  <2>1. l-level+1 \in 1 .. m /\ level \in Int /\ l \in Int
    BY <1>1, <1>2, <1>b
  <2>2. j \in 1 .. m
    BY <1>2, <2>1
  <2>3. pi[l] = level-1 + j /\ pi[l] \in level .. b
    BY <1>a
  <2>4. loop_level[pi[l]].payload = base + (pi[l]-level)
    BY <1>8, <2>3
  <2>5. base + (l-level) \in base .. base+m-1 /\ (base + (l-level))-base+1 = l-level+1
    BY <1>7, <2>1, <1>2
  <2>6. base + (l-level) \in Dims
    BY <1>7, <1>10, <2>5, NDimAssumption DEF Dims
  <2>7. dp[base + (l-level)] = base + j-1
    BY <1>13, <2>5, <2>6
  <2> HIDE DEF j
  <2>8. base + ((level-1 + j)-level) = base + j-1
    BY <1>7, <2>1, <2>2
  <2> QED
    BY <1>8, <2>3, <2>4, <2>7, <2>8
<1>16. ASSUME NEW i \in Dims, \A l \in level .. b : loop_level[l].payload # i
       PROVE  dp[i] = i
  <2>1. ASSUME i \in base .. base+m-1
        PROVE  FALSE
    <3> DEFINE l == level + (i-base)
    <3>1. l \in level .. b /\ base + (l-level) = i
      BY <1>1, <1>2, <1>b, <1>7, <2>1
    <3> HIDE DEF l
    <3> QED
      BY <1>8, <1>16, <3>1
  <2> QED
    BY <1>13, <2>1
<1>17. Reorders(n, loop_level, level, b, pi, inv, dp)
  BY <1>a, <1>14, <1>15, <1>16 DEF Reorders
<1>18. LevelsAfter(level, p, t) = LevelsReordered(n, loop_level, inv)
  <2> DEFINE old == [l \in Levels |-> loop_level[inv[l]]]
             before(l) == {o \in level .. l-1 : old[o].type = "original"}
  <2>1. LevelsAfter(level, p, t) =
          [l \in Levels |->
             IF old[l].type = "tile" THEN TileLoop(inv[old[l].payload])
             ELSE IF l \in RangeOf(level, p) THEN Original(MinDim(t) + Cardinality(before(l)))
             ELSE old[l]]
    BY DEF LevelsAfter, inv, pi
  <2>2. \A l \in level .. b : l \in Levels /\ old[l].type = "original"
    BY <1>1, <1>6, <1>a
  <2>3. \A l \in (1 .. n) \ (level .. b) : old[l] = loop_level[l]
    BY <1>1, <1>a
  <2> HIDE DEF old
  <2>4. ASSUME NEW l \in level .. b
        PROVE  Original(MinDim(t) + Cardinality(before(l))) = loop_level[l]
    <3>1. before(l) = level .. l-1
      <4>1. \A o \in level .. l-1 : o \in level .. b
        BY <1>1, <1>2, <1>b
      <4> QED
        BY <2>2, <4>1
    <3>2. Cardinality(level .. l-1) = l-level
      <4>1. level \in Int /\ l-1 \in Int /\ (IF level > l-1 THEN 0 ELSE (l-1)-level+1) = l-level
        BY <1>1, <1>2, <1>b
      <4> QED
        BY <4>1, FS_Interval
    <3>3. loop_level[l] \in LoopLevels
      BY <1>5, <1>6 DEF Describes
    <3>4. loop_level[l] = Original(loop_level[l].payload)
      BY <1>6, <3>3 DEF LoopLevels, Original
    <3> QED
      BY <1>8, <1>10, <3>1, <3>2, <3>4
  <2> HIDE DEF before
  <2>5. \A l \in 1 .. n :
          (IF old[l].type = "tile" THEN TileLoop(inv[old[l].payload])
           ELSE IF l \in RangeOf(level, p) THEN Original(MinDim(t) + Cardinality(before(l)))
           ELSE old[l])
          = (IF loop_level[l].type = "tile" THEN TileLoop(inv[loop_level[l].payload]) ELSE loop_level[l])
    <3> SUFFICES ASSUME NEW l \in 1 .. n
                 PROVE  (IF old[l].type = "tile" THEN TileLoop(inv[old[l].payload])
           ELSE IF l \in RangeOf(level, p) THEN Original(MinDim(t) + Cardinality(before(l)))
           ELSE old[l])
          = (IF loop_level[l].type = "tile" THEN TileLoop(inv[loop_level[l].payload]) ELSE loop_level[l])
      OBVIOUS
    <3>1. RangeOf(level, p) = level .. b
      BY <1>b DEF RangeOf, m
    <3>2. CASE l \in level .. b
      BY <1>6, <2>2, <2>4, <3>1, <3>2
    <3>3. CASE l \notin level .. b
      BY <2>3, <3>1, <3>3
    <3> QED
      BY <3>2, <3>3
  <2> QED
    BY <1>1, <2>1, <2>5 DEF LevelsReordered
<1> QED
  BY <1>1, <1>3, <1>4, <1>9, <1>11, <1>17, <1>18 DEF n, m, b, t, pi, inv, dp

LEMMA ReorderedNest ==
  ASSUME NEW n \in Nat, NEW ll, NEW xf, NEW ds, NEW v, NEW tiled, Nest(n, ll, xf, ds, v, tiled),
         NEW a \in 1 .. n, NEW b \in 1 .. n, \A l \in a .. b : xf[l].kind = "original",
         NEW pi, NEW inv, NEW dp, Reorders(n, ll, a, b, pi, inv, dp)
  PROVE  Nest(n, LevelsReordered(n, ll, inv), LoopsReordered(n, xf, pi),
              {Permuted(dv, dp) : dv \in ds}, v, tiled)
<1> DEFINE ll2 == LevelsReordered(n, ll, inv)
           xf2 == LoopsReordered(n, xf, pi)
           ds2 == {Permuted(dv, dp) : dv \in ds}
<1>1. /\ Describes(n, ll, xf, tiled) /\ Numbered(n, ll, xf)
      /\ ds # {} /\ \A dv \in ds : IsVector(dv) /\ Follows(n, ll, xf, dv, v)
  BY DEF Nest
<1>2. Describes(n, ll2, xf2, tiled)
  BY <1>1, ReorderedDescribes
<1>3. Numbered(n, ll2, xf2)
  BY <1>1, ReorderedNumbered
<1>4. \A dv \in ds : IsVector(Permuted(dv, dp)) /\ Follows(n, ll2, xf2, Permuted(dv, dp), v)
  BY <1>1, ReorderedFollows
<1> HIDE DEF ll2, xf2
<1>5. ds2 # {} /\ \A dv \in ds2 : IsVector(dv) /\ Follows(n, ll2, xf2, dv, v)
  BY <1>1, <1>4
<1> QED
  BY <1>2, <1>3, <1>5, Zenon DEF Nest, ll2, xf2

-----------------------------------------------------------------------------
(* permute of tile loops.                                                  *)

\* The scripts in which original loops and tile loops are permuted apart, and
\* tile loops only where all of them are of one dimension.
PermutedApart ==
  \A k \in DOMAIN Scripts :
    /\ Scripts[k].kinds \subseteq {"original", "tile"}
    /\ "tile" \in Scripts[k].kinds => \A i \in Scripts[k].tiled, j \in Scripts[k].tiled : i = j

LEMMA NoDims ==
  ASSUME NEW level, NEW p, Len(p) \in Nat,
         \A k \in 1 .. Len(p) : loop_level[Moved(level, p)[level+k-1]].type # "original"
  PROVE  PermutedDims(level, p) = <<>>
<1> DEFINE old == [k \in 1 .. Len(p) |-> loop_level[Moved(level, p)[level+k-1]]]
           originals == {k \in DOMAIN old : old[k].type = "original"}
           nth(i) == CHOOSE k \in originals : Cardinality({j \in originals : j < k}) = i-1
           t == PermutedDims(level, p)
<1>1. t = [i \in 1 .. Cardinality(originals) |-> old[nth(i)].payload]
  BY DEF PermutedDims
<1>2. originals = {}
  OBVIOUS
<1> HIDE DEF originals, old, nth
<1>3. Cardinality(originals) = 0 /\ 1 .. 0 = {}
  BY <1>2, FS_EmptySet
<1> HIDE DEF t
<1>4. t \in [1 .. 0 -> Int]
  BY <1>1, <1>3
<1>5. t \in Seq(Int) /\ Len(t) = 0
  BY <1>4, FunctionSeq
<1> QED
  BY <1>5, EmptySeq DEF t

\* Loops of the same kinds and dimensions make the same nest.
LEMMA SameShape ==
  ASSUME NEW n \in Nat, NEW ll, NEW xf, NEW ds, NEW v, NEW tiled, Nest(n, ll, xf, ds, v, tiled),
         NEW xf2 \in [1 .. n -> Loops],
         \A l \in 1 .. n : xf2[l].kind = xf[l].kind /\ xf2[l].dim = xf[l].dim,
         \A l \in 1 .. n : xf[l].kind = "original" => xf2[l].size = 1
  PROVE  Nest(n, ll, xf2, ds, v, tiled) /\ (Guarded(n, xf, v) => Guarded(n, xf2, v))
<1>1. Describes(n, ll, xf2, tiled)
  <2>1. Describes(n, ll, xf, tiled)
    BY DEF Nest
  <2>2. ASSUME NEW l \in 1 .. n, xf2[l].kind = "tile"
        PROVE  /\ ll[l].payload \in l+1 .. n /\ xf2[ll[l].payload].dim = xf2[l].dim
               /\ xf2[l].dim \in tiled
    <3>1. /\ ll[l].payload \in l+1 .. n /\ xf[ll[l].payload].dim = xf[l].dim
          /\ xf[l].dim \in tiled
      BY <2>1, <2>2 DEF Describes
    <3>2. ll[l].payload \in 1 .. n
      BY <3>1
    <3> QED
      BY <3>1, <3>2
  <2> QED
    BY <2>1, <2>2 DEF Describes
<1>2. Numbered(n, ll, xf2)
  BY DEF Nest, Numbered
<1>3. ds # {} /\ \A dv \in ds : IsVector(dv) /\ Follows(n, ll, xf2, dv, v)
  BY DEF Nest, Follows
<1>4. ASSUME Guarded(n, xf, v) PROVE Guarded(n, xf2, v)
  <2> SUFFICES ASSUME NEW l \in 1 .. n, v.lb[xf2[l].dim] < 0
               PROVE  \E o \in 1 .. l-1 : xf2[o].kind = "original" /\ v.lb[xf2[o].dim] > 0
    BY DEF Guarded
  <2>1. PICK o \in 1 .. l-1 : xf[o].kind = "original" /\ v.lb[xf[o].dim] > 0
    BY <1>4 DEF Guarded
  <2>2. o \in 1 .. n
    OBVIOUS
  <2> QED
    BY <2>1, <2>2
<1> QED
  BY <1>1, <1>2, <1>3, <1>4 DEF Nest

LEMMA PermuteTilesStep ==
  ASSUME IInv, PermutedApart, NEW level \in Levels, NEW p \in Scripts[script].orders,
         PermuteTiles(level, p)
  PROVE  IInv' /\ (GInv => GInv')
<1> DEFINE n == Len(xform)
           m == Len(p)
           a == level
           b == level+m-1
           pi == Moved(level, p)
           tiled == Scripts[script].tiled
<1>1. /\ alive /\ UNCHANGED <<loop_level, dep, script, vector, alive>>
      /\ xform' = [l \in Levels |-> xform[pi[l]]]
      /\ RangeOf(level, p) \subseteq Levels /\ KindOf(RangeOf(level, p)) \in Scripts[script].kinds
      /\ PermutedDims(level, p) = <<>>
  BY DEF PermuteTiles, Permutes, Rearrange, given
<1>2. n \in Nat /\ Levels = 1 .. n /\ level \in 1 .. n
  BY <1>1, SeqFunction DEF IInv, Levels
<1>3. /\ m \in Nat /\ p \in [1 .. m -> 1 .. m] /\ (p # <<>> => m # 0)
      /\ \A j \in 1 .. m : \E i \in 1 .. m : p[i] = j
  BY OrderFacts DEF IInv
<1>4. Nest(n, loop_level, xform, dep, vector, tiled) /\ Describes(n, loop_level, xform, tiled)
  BY <1>1 DEF IInv, Nest
<1>5. xform \in [1 .. n -> Loops]
  BY <1>4 DEF Describes
<1>6. \A l \in 1 .. n : /\ pi[l] \in 1 .. n
                        /\ xform[pi[l]].kind = xform[l].kind /\ xform[pi[l]].dim = xform[l].dim
                        /\ xform[l].kind = "original" => xform[pi[l]].size = 1
  <2>1. CASE m = 0
    <3>1. level .. level+m-1 = {}
      BY <1>2, <2>1
    <3>2. pi = [l \in 1 .. n |-> l]
      BY <1>2, <3>1 DEF Moved
    <3> HIDE DEF pi
    <3> QED
      BY <1>4, <3>2 DEF Describes
  <2>2. CASE m # 0
    <3>0. p # <<>>
      BY <2>2, EmptySeq
    <3>1. KindOf(RangeOf(level, p)) # "original"
      <4>1. ASSUME KindOf(RangeOf(level, p)) = "original" PROVE PermutedDims(level, p) # <<>>
        BY <1>1, <3>0, <4>1, PermuteReorders
      <4> QED
        BY <1>1, <4>1
    <3>2. KindOf(RangeOf(level, p)) = "tile" /\ "tile" \in Scripts[script].kinds
      BY <1>1, <3>1 DEF PermutedApart, IInv, GivenOK
    <3>3. \A l \in a .. b : xform[l].kind = "tile"
      BY <3>2 DEF KindOf, RangeOf
    <3>4. a \in 1 .. n /\ b \in 1 .. n
      <4>1. b \in RangeOf(level, p)
        BY <1>2, <1>3, <2>2 DEF RangeOf
      <4> QED
        BY <1>1, <1>2, <4>1
    <3>5. MovesBy(n, a, b, p, pi, MovedTo(pi))
      <4>1. m \in Nat \ {0}
        BY <1>3, <2>2
      <4> HIDE DEF m
      <4> QED
        BY <1>2, <1>3, <3>4, <4>1, MovedFacts DEF m
    <3> HIDE DEF pi, b
    <3>6. ASSUME NEW l \in a .. b
          PROVE  /\ l \in 1 .. n /\ pi[l] \in 1 .. n
                 /\ xform[pi[l]].kind = xform[l].kind /\ xform[pi[l]].dim = xform[l].dim
                 /\ xform[l].kind # "original"
      <4>1. pi[l] \in a .. b
        BY <3>5 DEF MovesBy
      <4>2. l \in 1 .. n /\ pi[l] \in 1 .. n
        BY <3>4, <4>1
      <4>3. xform[l].dim \in tiled /\ xform[pi[l]].dim \in tiled
        BY <1>4, <3>3, <4>1, <4>2 DEF Describes
      <4>4. \A i \in tiled, j \in tiled : i = j
        BY <3>2 DEF PermutedApart, IInv, GivenOK
      <4> HIDE DEF tiled
      <4> QED
        BY <3>3, <4>1, <4>2, <4>3, <4>4
    <3>7. \A l \in (1 .. n) \ (a .. b) : pi[l] = l
      BY <3>5 DEF MovesBy
    <3>8. \A l \in 1 .. n : xform[l].kind = "original" => xform[l].size = 1
      BY <1>4 DEF Describes
    <3> QED
      BY <3>6, <3>7, <3>8
  <2> QED
    BY <2>1, <2>2
<1> HIDE DEF pi
<1>7. xform' \in [1 .. n -> Loops] /\ \A l \in 1 .. n : xform'[l] = xform[pi[l]]
  BY <1>1, <1>2, <1>5, <1>6
<1> DEFINE xf2 == xform'
<1>8. /\ Nest(n, loop_level, xf2, dep, vector, tiled)
      /\ Guarded(n, xform, vector) => Guarded(n, xf2, vector)
  <2>1. \A l \in 1 .. n : xf2[l].kind = xform[l].kind /\ xf2[l].dim = xform[l].dim
    BY <1>6, <1>7
  <2>2. \A l \in 1 .. n : xform[l].kind = "original" => xf2[l].size = 1
    BY <1>6, <1>7
  <2>3. xf2 \in [1 .. n -> Loops]
    BY <1>7
  <2> HIDE DEF xf2, n, tiled
  <2> QED
    BY <1>2, <1>4, <2>1, <2>2, <2>3, SameShape
<1>9. xform' \in Seq(Loops) /\ Len(xform') = n
  BY <1>2, <1>7, FunctionSeq
<1>10. IInv'
  BY <1>1, <1>8, <1>9 DEF IInv, GivenOK
<1>11. ASSUME GInv PROVE GInv'
  BY <1>1, <1>8, <1>9, <1>10, <1>11 DEF GInv
<1> QED
  BY <1>10, <1>11

-----------------------------------------------------------------------------
(* permute of original loops, as an action.                                *)

LEMMA PermuteStep ==
  ASSUME IInv, PermutedApart, NEW level \in Levels, NEW p \in Scripts[script].orders,
         Permute(level, p)
  PROVE  IInv' /\ (GInv => GInv')
<1> DEFINE n == Len(xform)
           m == Len(p)
           b == level+m-1
           t == PermutedDims(level, p)
           pi == Moved(level, p)
           inv == MovedTo(pi)
           dp == DepPi(t)
           tiled == Scripts[script].tiled
<1>1. /\ alive /\ UNCHANGED <<script, vector, alive>>
      /\ xform' = [l \in Levels |-> xform[pi[l]]]
      /\ loop_level' = LevelsAfter(level, p, t)
      /\ dep' = {Permuted(dv, dp) : dv \in dep} /\ \A dv \in dep : ~Violated(dv, dp)
      /\ RangeOf(level, p) \subseteq Levels /\ KindOf(RangeOf(level, p)) \in Scripts[script].kinds
      /\ t # <<>>
  BY DEF Permute, Permutes, Rearrange, given
<1>2. n \in Nat /\ Levels = 1 .. n /\ level \in 1 .. n
  BY <1>1, SeqFunction DEF IInv, Levels
<1>3. /\ m \in Nat /\ p \in [1 .. m -> 1 .. m] /\ (p # <<>> => m # 0)
      /\ \A j \in 1 .. m : \E i \in 1 .. m : p[i] = j
  BY OrderFacts DEF IInv
<1>4. Nest(n, loop_level, xform, dep, vector, tiled)
  BY <1>1 DEF IInv
<1>5. m # 0 /\ p # <<>>
  <2>1. ASSUME m = 0 PROVE t = <<>>
    <3>1. \A k \in 1 .. m : loop_level[pi[level+k-1]].type # "original"
      BY <2>1
    <3> QED
      BY <1>3, <3>1, NoDims
  <2> QED
    BY <1>1, <2>1, EmptySeq
<1>6. KindOf(RangeOf(level, p)) # "tile"
  <2> SUFFICES ASSUME KindOf(RangeOf(level, p)) = "tile" PROVE t = <<>>
    BY <1>1
  <2>1. \A l \in level .. b : xform[l].kind = "tile"
    BY DEF KindOf, RangeOf
  <2>2. b \in 1 .. n
    <3>1. b \in RangeOf(level, p)
      BY <1>2, <1>3, <1>5 DEF RangeOf
    <3> QED
      BY <1>1, <1>2, <3>1
  <2>3. MovesBy(n, level, b, p, pi, inv)
    <3>1. m \in Nat \ {0}
      BY <1>3, <1>5
    <3> HIDE DEF m
    <3> QED
      BY <1>2, <1>3, <2>2, <3>1, MovedFacts DEF m
  <2> HIDE DEF pi
  <2>4. ASSUME NEW k \in 1 .. m PROVE loop_level[pi[level+k-1]].type # "original"
    <3>1. level+k-1 \in level .. b
      BY <1>2, <1>3
    <3>2. pi[level+k-1] \in level .. b
      BY <2>3, <3>1 DEF MovesBy
    <3>3. pi[level+k-1] \in 1 .. n /\ xform[pi[level+k-1]].kind = "tile"
      BY <1>2, <2>1, <2>2, <3>2
    <3> QED
      BY <1>4, <3>3 DEF Nest, Describes
  <2> QED
    BY <1>3, <2>4, NoDims DEF pi
<1>7. KindOf(RangeOf(level, p)) = "original"
  BY <1>1, <1>6 DEF PermutedApart, IInv, GivenOK
<1>8. /\ b \in 1 .. n
      /\ \A l \in level .. b : xform[l].kind = "original"
      /\ Reorders(n, loop_level, level, b, pi, inv, dp)
      /\ LevelsAfter(level, p, t) = LevelsReordered(n, loop_level, inv)
  BY <1>1, <1>5, <1>7, PermuteReorders
<1> HIDE DEF pi, inv, dp, b, t, m
<1>9. /\ loop_level' = LevelsReordered(n, loop_level, inv)
      /\ xform' = LoopsReordered(n, xform, pi)
  BY <1>1, <1>2, <1>8 DEF LoopsReordered
<1>10. Nest(n, loop_level', xform', dep', vector, tiled)
  <2> HIDE DEF n, tiled
  <2>1. Nest(n, LevelsReordered(n, loop_level, inv), LoopsReordered(n, xform, pi),
             {Permuted(dv, dp) : dv \in dep}, vector, tiled)
    BY <1>2, <1>4, <1>8, ReorderedNest
  <2> QED
    BY <1>1, <1>9, <2>1
<1>11. /\ xform' \in Seq(Loops) /\ Len(xform') = n
       /\ loop_level' \in Seq(LoopLevels) /\ Len(loop_level') = n
  <2>1. xform' \in [1 .. n -> Loops] /\ loop_level' \in [1 .. n -> LoopLevels]
    BY <1>10 DEF Nest, Describes
  <2> QED
    BY <1>2, <2>1, FunctionSeq
<1>12. IInv'
  BY <1>1, <1>10, <1>11 DEF IInv, GivenOK
<1>13. ASSUME GInv PROVE GInv'
  <2>1. Guarded(n, xform, vector)
    BY <1>1, <1>13 DEF GInv
  <2>2. PICK dv \in dep : IsVector(dv) /\ Follows(n, loop_level, xform, dv, vector)
    BY <1>4 DEF Nest
  <2>3. vector.lb \in [Dims -> Int]
    BY ScriptsAssumption DEF IInv, GivenOK
  <2>4. Describes(n, loop_level, xform, tiled) /\ Numbered(n, loop_level, xform)
    BY <1>4 DEF Nest
  <2>5. ~Violated(dv, dp)
    BY <1>1
  <2>6. Guarded(n, LoopsReordered(n, xform, pi), vector)
    <3> HIDE DEF n, tiled
    <3> QED
      BY <1>2, <1>8, <2>1, <2>2, <2>3, <2>4, <2>5, ReorderedGuarded
  <2> QED
    BY <1>1, <1>9, <1>11, <1>12, <2>6 DEF GInv
<1> QED
  BY <1>12, <1>13

-----------------------------------------------------------------------------
(* The dependence dimension of a tile loop.                                *)

\* The first m turns of the search that DepDimOf makes.
Followed(g, m) ==
  g = [k \in 0 .. m |->
         [l \in Levels |-> IF k = 0 \/ loop_level[l].type = "original" THEN loop_level[l].payload
                           ELSE g[k-1][loop_level[l].payload]]]

LEMMA FollowedExists ==
  ASSUME NEW n \in Nat
  PROVE  \A m \in 0 .. n : \E g : Followed(g, m)
<1> DEFINE Turn(f, k) ==
             [l \in Levels |-> IF k = 0 \/ loop_level[l].type = "original" THEN loop_level[l].payload
                               ELSE f[k-1][loop_level[l].payload]]
           T == {m \in 0 .. n : ~\E g : Followed(g, m)}
<1>0. \A g, m : Followed(g, m) <=> g = [k \in 0 .. m |-> Turn(g, k)]
  BY DEF Followed
<1>f. \A f, g, k : f[k-1] = g[k-1] => Turn(f, k) = Turn(g, k)
  BY Zenon
<1>z. \A f, g : Turn(f, 0) = Turn(g, 0)
  OBVIOUS
<1> HIDE DEF Turn
<1>1. SUFFICES ASSUME T # {} PROVE FALSE
  OBVIOUS
<1>2. PICK m \in T : \A y \in T : m <= y
  <2>1. T \in SUBSET Nat
    OBVIOUS
  <2> HIDE DEF T
  <2> QED
    BY <1>1, <2>1, LeastElement
<1>3. CASE m = 0
  <2> DEFINE h == [k \in 0 .. 0 |-> Turn(0, 0)]
  <2>1. h = [k \in 0 .. 0 |-> Turn(h, k)]
    <3>1. \A k \in 0 .. 0 : k = 0
      OBVIOUS
    <3>2. \A k \in 0 .. 0 : Turn(0, 0) = Turn(h, k)
      BY <1>z, <3>1, Zenon
    <3> QED
      BY <3>2, Zenon
  <2>2. Followed(h, 0)
    BY <1>0, <2>1
  <2> QED
    BY <1>3, <2>2
<1>4. CASE m # 0
  <2>1. m-1 \in 0 .. n /\ m-1 \notin T
    BY <1>2, <1>4
  <2>2. PICK f : Followed(f, m-1)
    BY <2>1
  <2> DEFINE g == [k \in 0 .. m |-> IF k = m THEN Turn(f, m) ELSE f[k]]
  <2>3. \A k \in 0 .. m-1 : g[k] = f[k]
    BY <1>4
  <2>4. \A k \in 0 .. m : g[k] = Turn(g, k)
    <3> SUFFICES ASSUME NEW k \in 0 .. m PROVE g[k] = Turn(g, k)
      OBVIOUS
    <3>1. g[k] = Turn(f, k)
      <4>1. CASE k = m
        BY <4>1
      <4>2. CASE k # m
        <5>1. k \in 0 .. m-1
          BY <4>2
        <5>2. f[k] = Turn(f, k)
          BY <1>0, <2>2, <5>1, Zenon
        <5> QED
          BY <2>3, <5>1, <5>2
      <4> QED
        BY <4>1, <4>2
    <3>2. Turn(f, k) = Turn(g, k)
      <4>1. CASE k = 0
        BY <1>z, <4>1
      <4>2. CASE k # 0
        <5>1. k-1 \in 0 .. m-1
          BY <4>2
        <5>2. f[k-1] = g[k-1]
          BY <2>3, <5>1
        <5> HIDE DEF g
        <5> QED
          BY <1>f, <5>2, Zenon
      <4> QED
        BY <4>1, <4>2
    <3> QED
      BY <3>1, <3>2
  <2>5. g = [k \in 0 .. m |-> g[k]]
    OBVIOUS
  <2> HIDE DEF g
  <2>6. g = [k \in 0 .. m |-> Turn(g, k)]
    BY <2>4, <2>5, Zenon
  <2>7. Followed(g, m)
    BY <1>0, <2>6, Zenon
  <2> QED
    BY <2>7
<1> QED
  BY <1>3, <1>4

\* A chain of tile loops leads inwards to an original loop over the same
\* iterations, and the search is long enough to reach it.
LEMMA ChainEnds ==
  ASSUME NEW n \in Nat, Levels = 1 .. n, n <= MaxLevels, NEW tiled,
         Describes(n, loop_level, xform, tiled), NEW level \in 1 .. n
  PROVE  \E o \in 1 .. n : /\ xform[o].kind = "original" /\ xform[o].dim = xform[level].dim
                           /\ DepDimOf(level) = loop_level[o].payload
<1> DEFINE M == MaxLevels
           g == CHOOSE f : Followed(f, M)
           Leads(l, x) == \E o \in 1 .. n : /\ xform[o].kind = "original" /\ xform[o].dim = xform[l].dim
                                            /\ x = loop_level[o].payload
           T == {k \in 0 .. M : \E l \in 1 .. n : n-l <= k /\ ~Leads(l, g[k][l])}
<1>1. M \in Nat
  BY NDimAssumption
<1>2. Followed(g, M)
  <2>1. \E f : Followed(f, M)
    BY <1>1, FollowedExists
  <2> QED
    BY <2>1, Zenon
<1>3. DepDimOf(level) = g[M][level]
  BY DEF DepDimOf, Followed
<1> HIDE DEF g
<1>4. \A k \in 0 .. M, l \in 1 .. n :
        g[k][l] = IF k = 0 \/ loop_level[l].type = "original" THEN loop_level[l].payload
                  ELSE g[k-1][loop_level[l].payload]
  <2> DEFINE Turn(k, l) == IF k = 0 \/ loop_level[l].type = "original" THEN loop_level[l].payload
                           ELSE g[k-1][loop_level[l].payload]
  <2>1. \A k \in 0 .. M : g[k] = [l \in Levels |-> Turn(k, l)]
    BY <1>2, Zenon DEF Followed
  <2>2. \A k \in 0 .. M, l \in 1 .. n : g[k][l] = Turn(k, l)
    <3> HIDE DEF Turn
    <3> QED
      BY <2>1
  <2> QED
    BY <2>2
<1>5. \A l \in 1 .. n :
        /\ loop_level[l].type = xform[l].kind /\ xform[l].kind \in {"original", "tile"}
        /\ xform[l].kind = "tile" => /\ loop_level[l].payload \in l+1 .. n
                                     /\ xform[loop_level[l].payload].dim = xform[l].dim
  BY DEF Describes, Loops, Kinds
<1>6. \A l \in 1 .. n : xform[l].kind = "original" => Leads(l, loop_level[l].payload)
  OBVIOUS
<1> HIDE DEF M
<1>7. T = {}
  <2> SUFFICES ASSUME T # {} PROVE FALSE
    OBVIOUS
  <2>1. PICK k \in T : \A y \in T : k <= y
    <3>1. T \in SUBSET Nat
      BY <1>1
    <3> HIDE DEF T
    <3> QED
      BY <3>1, LeastElement
  <2>2. PICK l \in 1 .. n : n-l <= k /\ ~Leads(l, g[k][l])
    OBVIOUS
  <2>3. xform[l].kind = "tile" /\ loop_level[l].type = "tile"
    <3>1. ASSUME xform[l].kind = "original" PROVE FALSE
      <4>1. g[k][l] = loop_level[l].payload
        BY <1>4, <1>5, <3>1
      <4> HIDE DEF Leads
      <4> QED
        BY <1>6, <2>2, <3>1, <4>1
    <3> QED
      BY <1>5, <3>1
  <2> DEFINE r == loop_level[l].payload
  <2>4. r \in l+1 .. n /\ xform[r].dim = xform[l].dim
    BY <1>5, <2>3
  <2> HIDE DEF r
  <2>5. r \in 1 .. n /\ k # 0 /\ k-1 \in 0 .. M /\ n-r <= k-1 /\ ~(k <= k-1)
    <3>1. k \in 0 .. M /\ l \in Int
      OBVIOUS
    <3> QED
      BY <1>1, <2>2, <2>4, <3>1
  <2>6. g[k][l] = g[k-1][r]
    BY <1>4, <2>3, <2>5 DEF r
  <2>7. Leads(r, g[k-1][r])
    <3>1. k-1 \notin T
      <4> HIDE DEF T
      <4> QED
        BY <2>1, <2>5
    <3> QED
      BY <2>5, <3>1
  <2>8. Leads(l, g[k-1][r])
    BY <2>4, <2>7
  <2> QED
    BY <2>2, <2>6, <2>8
<1>8. M \in 0 .. M /\ n-level <= M
  BY <1>1 DEF M
<1>9. Leads(level, g[M][level])
  BY <1>7, <1>8
<1> QED
  BY <1>3, <1>9 DEF M

-----------------------------------------------------------------------------
(* tile.                                                                   *)

\* Where loop l lies after another was put in at outer.
Shifted(outer, l) == IF l < outer THEN l ELSE l+1

\* A tile loop for loop level is put in at outer.
Inserts(n, ll, xf, level, outer, ll2, xf2) ==
  /\ ll2 \in [1 .. n+1 -> LoopLevels] /\ xf2 \in [1 .. n+1 -> Loops]
  /\ \A l \in 1 .. n :
       /\ xf2[Shifted(outer, l)] = xf[l]
       /\ ll2[Shifted(outer, l)] = IF ll[l].type = "tile" THEN TileLoop(Shifted(outer, ll[l].payload))
                                   ELSE ll[l]
  /\ xf2[outer].kind = "tile" /\ xf2[outer].dim = xf[level].dim
  /\ ll2[outer] = TileLoop(Shifted(outer, level))

\* The other loops keep their order.
LEMMA ShiftedFacts ==
  ASSUME NEW n \in Nat, NEW outer \in 1 .. n
  PROVE  /\ \A l \in 1 .. n : Shifted(outer, l) \in 1 .. n+1 /\ Shifted(outer, l) # outer
         /\ \A j \in 1 .. n+1 : j = outer \/ \E l \in 1 .. n : j = Shifted(outer, l)
         /\ \A l \in 1 .. n, m \in 1 .. n : l < m <=> Shifted(outer, l) < Shifted(outer, m)
         /\ \A l \in 1 .. n : l < outer <=> Shifted(outer, l) < outer
         /\ \A l \in 1 .. n : outer <= l => outer < Shifted(outer, l)
<1>1. \A j \in 1 .. n+1 : j = outer \/ \E l \in 1 .. n : j = Shifted(outer, l)
  <2> SUFFICES ASSUME NEW j \in 1 .. n+1, j # outer
               PROVE  \E l \in 1 .. n : j = Shifted(outer, l)
    OBVIOUS
  <2>1. CASE j < outer
    BY <2>1 DEF Shifted
  <2>2. CASE outer < j
    <3>1. j-1 \in 1 .. n /\ j = Shifted(outer, j-1)
      BY <2>2 DEF Shifted
    <3> QED
      BY <3>1
  <2> QED
    BY <2>1, <2>2
<1>2. \A l \in 1 .. n, m \in 1 .. n : l < m <=> Shifted(outer, l) < Shifted(outer, m)
  BY DEF Shifted
<1>3. \A l \in 1 .. n : Shifted(outer, l) \in 1 .. n+1 /\ Shifted(outer, l) # outer
  BY DEF Shifted
<1>4. \A l \in 1 .. n : l < outer <=> Shifted(outer, l) < outer
  BY DEF Shifted
<1>5. \A l \in 1 .. n : outer <= l => outer < Shifted(outer, l)
  BY DEF Shifted
<1> QED
  BY <1>1, <1>2, <1>3, <1>4, <1>5

LEMMA InsertedNest ==
  ASSUME NEW n \in Nat, NEW ll, NEW xf, NEW ds, NEW v, NEW tiled, Nest(n, ll, xf, ds, v, tiled),
         NEW outer \in 1 .. n, NEW level \in outer .. n, xf[level].dim \in tiled,
         NEW ll2, NEW xf2, Inserts(n, ll, xf, level, outer, ll2, xf2)
  PROVE  Nest(n+1, ll2, xf2, ds, v, tiled)
<1> DEFINE to(l) == Shifted(outer, l)
<1>1. /\ ll2 \in [1 .. n+1 -> LoopLevels] /\ xf2 \in [1 .. n+1 -> Loops]
      /\ \A l \in 1 .. n : xf2[to(l)] = xf[l]
      /\ \A l \in 1 .. n : ll[l].type = "tile" => ll2[to(l)] = TileLoop(to(ll[l].payload))
      /\ \A l \in 1 .. n : ll[l].type # "tile" => ll2[to(l)] = ll[l]
      /\ xf2[outer].kind = "tile" /\ xf2[outer].dim = xf[level].dim
      /\ ll2[outer] = TileLoop(to(level))
  BY DEF Inserts
<1>2. /\ \A l \in 1 .. n : to(l) \in 1 .. n+1 /\ to(l) # outer
      /\ \A j \in 1 .. n+1 : j = outer \/ \E l \in 1 .. n : j = to(l)
      /\ \A l \in 1 .. n, m \in 1 .. n : l < m <=> to(l) < to(m)
      /\ \A l \in 1 .. n : outer <= l => outer < to(l)
  BY ShiftedFacts
<1>3. Describes(n, ll, xf, tiled) /\ Numbered(n, ll, xf)
  BY DEF Nest
<1>4. level \in 1 .. n /\ outer <= level
  OBVIOUS
<1> HIDE DEF to
<1>5. Describes(n+1, ll2, xf2, tiled)
  <2> DEFINE Good(j) == /\ ll2[j].type = xf2[j].kind
                        /\ xf2[j].kind = "original" => xf2[j].size = 1
                        /\ xf2[j].kind = "tile" => /\ ll2[j].payload \in j+1 .. n+1
                                                   /\ xf2[ll2[j].payload].dim = xf2[j].dim
                                                   /\ xf2[j].dim \in tiled
  <2>1. Good(outer)
    <3>1. ll2[outer].type = "tile" /\ ll2[outer].payload = to(level)
      BY <1>1 DEF TileLoop
    <3>2. to(level) \in outer+1 .. n+1
      BY <1>2, <1>4
    <3> QED
      BY <1>1, <1>4, <3>1, <3>2
  <2>2. ASSUME NEW l \in 1 .. n PROVE Good(to(l))
    <3>1. CASE xf[l].kind = "tile"
      <4> DEFINE r == ll[l].payload
      <4>1. ll[l].type = "tile" /\ r \in l+1 .. n /\ xf[r].dim = xf[l].dim /\ xf[l].dim \in tiled
        BY <1>3, <3>1 DEF Describes
      <4>2. ll2[to(l)] = TileLoop(to(r)) /\ xf2[to(l)] = xf[l]
        BY <1>1, <4>1
      <4>3. ll2[to(l)].type = "tile" /\ ll2[to(l)].payload = to(r)
        BY <4>2 DEF TileLoop
      <4> HIDE DEF r
      <4>4. r \in 1 .. n /\ l < r
        BY <4>1
      <4>5. to(l) \in 1 .. n+1 /\ to(r) \in 1 .. n+1 /\ to(l) < to(r)
        BY <1>2, <4>4
      <4>6. to(r) \in to(l)+1 .. n+1
        BY <4>5
      <4>7. xf2[to(r)] = xf[r]
        BY <1>1, <4>4
      <4> QED
        BY <3>1, <4>1, <4>2, <4>3, <4>6, <4>7
    <3>2. CASE xf[l].kind # "tile"
      BY <1>1, <1>3, <3>2 DEF Describes
    <3> QED
      BY <3>1, <3>2
  <2> HIDE DEF Good
  <2>3. \A j \in 1 .. n+1 : Good(j)
    BY <1>2, <2>1, <2>2
  <2> QED
    BY <1>1, <2>3 DEF Describes, Good
<1>6. \A l \in 1 .. n : xf[l].kind = "original" => ll2[to(l)] = ll[l]
  BY <1>1, <1>3 DEF Describes
<1>7. \A j \in 1 .. n+1 : xf2[j].kind = "original" =>
        \E l \in 1 .. n : j = to(l) /\ xf[l].kind = "original" /\ xf2[j] = xf[l] /\ ll2[j] = ll[l]
  <2> SUFFICES ASSUME NEW j \in 1 .. n+1, xf2[j].kind = "original"
               PROVE  \E l \in 1 .. n : /\ j = to(l) /\ xf[l].kind = "original"
                                        /\ xf2[j] = xf[l] /\ ll2[j] = ll[l]
    OBVIOUS
  <2>1. PICK l \in 1 .. n : j = to(l)
    BY <1>1, <1>2
  <2>2. xf2[j] = xf[l]
    BY <1>1, <2>1
  <2> QED
    BY <1>6, <2>1, <2>2
<1>8. Numbered(n+1, ll2, xf2)
  <2>1. \A j \in 1 .. n+1 : xf2[j].kind = "original" => ll2[j].payload \in Dims
    BY <1>3, <1>7 DEF Numbered
  <2>2. ASSUME NEW j \in 1 .. n+1, NEW k \in 1 .. n+1,
               xf2[j].kind = "original", xf2[k].kind = "original", j < k
        PROVE  ll2[j].payload < ll2[k].payload
    <3>1. PICK l \in 1 .. n : j = to(l) /\ xf[l].kind = "original" /\ ll2[j] = ll[l]
      BY <1>7, <2>2
    <3>2. PICK m \in 1 .. n : k = to(m) /\ xf[m].kind = "original" /\ ll2[k] = ll[m]
      BY <1>7, <2>2
    <3>3. l < m
      BY <1>2, <2>2, <3>1, <3>2
    <3> QED
      BY <1>3, <3>1, <3>2, <3>3 DEF Numbered
  <2>3. ASSUME NEW k \in Dims
        PROVE  \E j \in 1 .. n+1 : xf2[j].kind = "original" /\ ll2[j].payload = k
    <3>1. PICK l \in 1 .. n : xf[l].kind = "original" /\ ll[l].payload = k
      BY <1>3 DEF Numbered
    <3>2. to(l) \in 1 .. n+1 /\ xf2[to(l)] = xf[l] /\ ll2[to(l)] = ll[l]
      BY <1>1, <1>2, <1>6, <3>1
    <3> QED
      BY <3>1, <3>2
  <2>4. ASSUME NEW k \in Dims
        PROVE  \E j \in 1 .. n+1 : xf2[j].kind = "original" /\ xf2[j].dim = k
    <3>1. PICK l \in 1 .. n : xf[l].kind = "original" /\ xf[l].dim = k
      BY <1>3 DEF Numbered
    <3>2. to(l) \in 1 .. n+1 /\ xf2[to(l)] = xf[l]
      BY <1>1, <1>2
    <3> QED
      BY <3>1, <3>2
  <2> QED
    BY <2>1, <2>2, <2>3, <2>4, Zenon DEF Numbered
<1>9. ASSUME NEW dv \in ds PROVE Follows(n+1, ll2, xf2, dv, v)
  <2>1. Follows(n, ll, xf, dv, v)
    BY DEF Nest
  <2> QED
    BY <1>7, <2>1 DEF Follows
<1>10. ds # {} /\ \A dv \in ds : IsVector(dv)
  BY DEF Nest
<1> QED
  BY <1>5, <1>8, <1>9, <1>10 DEF Nest

\* The loops keep what they are guarded by.
LEMMA InsertedGuarded ==
  ASSUME NEW n \in Nat, NEW ll, NEW xf, NEW v, Guarded(n, xf, v),
         NEW outer \in 1 .. n, NEW level \in outer .. n,
         NEW ll2, NEW xf2, Inserts(n, ll, xf, level, outer, ll2, xf2),
         v.lb[xf[level].dim] < 0 =>
           \E o \in 1 .. outer-1 : xf[o].kind = "original" /\ v.lb[xf[o].dim] > 0
  PROVE  Guarded(n+1, xf2, v)
<1> DEFINE to(l) == Shifted(outer, l)
<1>1. /\ \A l \in 1 .. n : xf2[to(l)] = xf[l]
      /\ xf2[outer].dim = xf[level].dim
  BY DEF Inserts
<1>2. /\ \A l \in 1 .. n : to(l) \in 1 .. n+1
      /\ \A j \in 1 .. n+1 : j = outer \/ \E l \in 1 .. n : j = to(l)
      /\ \A l \in 1 .. n, m \in 1 .. n : l < m <=> to(l) < to(m)
      /\ \A l \in 1 .. n : l < outer <=> to(l) < outer
  BY ShiftedFacts
<1> HIDE DEF to
<1>3. ASSUME v.lb[xf2[outer].dim] < 0
      PROVE  \E o \in 1 .. outer-1 : xf2[o].kind = "original" /\ v.lb[xf2[o].dim] > 0
  <2>1. PICK o \in 1 .. outer-1 : xf[o].kind = "original" /\ v.lb[xf[o].dim] > 0
    BY <1>1, <1>3
  <2>2. o \in 1 .. n /\ o < outer
    OBVIOUS
  <2>3. to(o) \in 1 .. outer-1 /\ xf2[to(o)] = xf[o]
    BY <1>1, <1>2, <2>2
  <2> QED
    BY <2>1, <2>3
<1>4. ASSUME NEW l \in 1 .. n, v.lb[xf2[to(l)].dim] < 0
      PROVE  \E o \in 1 .. to(l)-1 : xf2[o].kind = "original" /\ v.lb[xf2[o].dim] > 0
  <2>1. PICK o \in 1 .. l-1 : xf[o].kind = "original" /\ v.lb[xf[o].dim] > 0
    BY <1>1, <1>4 DEF Guarded
  <2>2. o \in 1 .. n /\ o < l
    OBVIOUS
  <2>3. to(o) \in 1 .. n+1 /\ to(l) \in 1 .. n+1 /\ to(o) < to(l) /\ xf2[to(o)] = xf[o]
    BY <1>1, <1>2, <2>2
  <2>4. to(o) \in 1 .. to(l)-1
    BY <2>3
  <2> QED
    BY <2>1, <2>3, <2>4
<1> QED
  BY <1>2, <1>3, <1>4 DEF Guarded

\* The code of tile puts in a loop as the lemmas assume.
LEMMA TileInserts ==
  ASSUME IInv, NEW level \in Levels, NEW outer \in Levels, NEW size \in Scripts[script].sizes,
         Tile(level, size, outer)
  PROVE  LET n == Len(xform)
         IN  /\ n \in Nat /\ Levels = 1 .. n /\ level \in outer .. n /\ outer \in 1 .. n
             /\ Inserts(n, loop_level, xform, level, outer, loop_level', xform')
             /\ loop_level' \in Seq(LoopLevels) /\ xform' \in Seq(Loops)
             /\ Len(loop_level') = n+1 /\ Len(xform') = n+1
<1> DEFINE n == Len(xform)
           shifted == ShiftedLevels(outer)
           loop == [kind |-> "tile", dim |-> xform[level].dim, size |-> xform[level].size * size]
           to(l) == Shifted(outer, l)
<1>1. /\ alive /\ outer \in 1 .. level
      /\ loop_level' = InsertAt(shifted, outer, TileLoop(level+1))
      /\ xform' = InsertAt(xform, outer, loop)
  BY DEF Tile, Tiles
<1>2. /\ loop_level \in Seq(LoopLevels) /\ xform \in Seq(Loops) /\ Len(loop_level) = n
      /\ Describes(n, loop_level, xform, Scripts[script].tiled)
  BY <1>1 DEF IInv, Nest
<1>3. n \in Nat /\ Levels = 1 .. n /\ level \in 1 .. n /\ outer \in 1 .. n /\ level \in outer .. n
  <2>1. n \in Nat /\ Levels = 1 .. n
    BY <1>2, SeqFunction DEF Levels
  <2> HIDE DEF n
  <2> QED
    BY <1>1, <2>1
<1>4. loop \in Loops
  <2>1. size \in Nat
    BY ScriptsAssumption DEF IInv, GivenOK
  <2>2. xform[level] \in Loops
    BY <1>2, <1>3 DEF Describes
  <2>3. xform[level].size \in Nat /\ xform[level].dim \in Dims
    BY <2>2 DEF Loops
  <2>4. \A i \in Nat, j \in Nat : i * j \in Nat
    OBVIOUS
  <2>5. xform[level].size * size \in Nat
    BY <2>1, <2>3, <2>4
  <2> QED
    BY <2>3, <2>5 DEF Loops, Kinds
<1>5. /\ shifted \in [1 .. n -> LoopLevels]
      /\ \A l \in 1 .. n : shifted[l] = IF loop_level[l].type = "tile"
                                        THEN TileLoop(to(loop_level[l].payload)) ELSE loop_level[l]
  <2> DEFINE s(l) == IF loop_level[l].type = "tile" /\ loop_level[l].payload >= outer
                     THEN TileLoop(loop_level[l].payload + 1) ELSE loop_level[l]
  <2>1. shifted = [l \in 1 .. n |-> s(l)]
    BY <1>3 DEF ShiftedLevels
  <2>2. ASSUME NEW l \in 1 .. n
        PROVE  /\ s(l) \in LoopLevels
               /\ s(l) = IF loop_level[l].type = "tile"
                         THEN TileLoop(to(loop_level[l].payload)) ELSE loop_level[l]
    <3>1. loop_level[l] \in LoopLevels
      BY <1>2 DEF Describes
    <3>2. loop_level[l].type \in Kinds /\ loop_level[l].payload \in Int
      BY <3>1 DEF LoopLevels
    <3>3. loop_level[l] = [type |-> loop_level[l].type, payload |-> loop_level[l].payload]
      BY <3>1 DEF LoopLevels
    <3>4. CASE loop_level[l].type = "tile" /\ loop_level[l].payload >= outer
      <4>1. to(loop_level[l].payload) = loop_level[l].payload + 1
        BY <1>3, <3>2, <3>4 DEF Shifted
      <4>2. loop_level[l].payload + 1 \in Int
        BY <3>2
      <4> QED
        BY <3>4, <4>1, <4>2 DEF TileLoop, LoopLevels, Kinds
    <3>5. CASE loop_level[l].type = "tile" /\ ~(loop_level[l].payload >= outer)
      <4>1. to(loop_level[l].payload) = loop_level[l].payload
        BY <1>3, <3>2, <3>5 DEF Shifted
      <4> QED
        BY <3>1, <3>3, <3>5, <4>1 DEF TileLoop
    <3>6. CASE loop_level[l].type # "tile"
      BY <3>1, <3>6
    <3> QED
      BY <3>4, <3>5, <3>6
  <2> HIDE DEF s, shifted
  <2> QED
    BY <2>1, <2>2
<1>6. TileLoop(level+1) \in LoopLevels /\ to(level) = level+1
  BY <1>3 DEF TileLoop, LoopLevels, Kinds, Shifted
<1>7. shifted \in Seq(LoopLevels) /\ Len(shifted) = n
  BY <1>3, <1>5, FunctionSeq
<1> HIDE DEF n, shifted, loop
<1>8. /\ loop_level' \in Seq(LoopLevels) /\ Len(loop_level') = n+1
      /\ \A j \in 1 .. outer-1 : loop_level'[j] = shifted[j]
      /\ loop_level'[outer] = TileLoop(level+1)
      /\ \A j \in outer .. n : loop_level'[j+1] = shifted[j]
  <2> DEFINE e == TileLoop(level+1)
  <2> HIDE DEF e
  <2>1. e \in LoopLevels /\ outer \in 1 .. Len(shifted)
    BY <1>3, <1>6, <1>7 DEF e
  <2>2. loop_level' = InsertAt(shifted, outer, e)
    BY <1>1 DEF e
  <2>3. IsInserted(InsertAt(shifted, outer, e), shifted, outer, e, LoopLevels)
    BY <1>7, <2>1, InsertFacts
  <2>4. IsInserted(loop_level', shifted, outer, e, LoopLevels)
    BY <2>2, <2>3
  <2> QED
    BY <1>7, <2>4 DEF e, IsInserted
<1>9. /\ xform' \in Seq(Loops) /\ Len(xform') = n+1
      /\ \A j \in 1 .. outer-1 : xform'[j] = xform[j]
      /\ xform'[outer] = loop
      /\ \A j \in outer .. n : xform'[j+1] = xform[j]
  <2>1. Len(xform) = n
    BY DEF n
  <2>2. IsInserted(InsertAt(xform, outer, loop), xform, outer, loop, Loops)
    BY <1>2, <1>3, <1>4, <2>1, InsertFacts
  <2>3. IsInserted(xform', xform, outer, loop, Loops)
    BY <1>1, <2>2
  <2> QED
    BY <2>1, <2>3 DEF IsInserted
<1>10. \A l \in 1 .. n : xform'[to(l)] = xform[l] /\ loop_level'[to(l)] = shifted[l]
  <2> SUFFICES ASSUME NEW l \in 1 .. n
               PROVE  xform'[to(l)] = xform[l] /\ loop_level'[to(l)] = shifted[l]
    OBVIOUS
  <2>1. CASE l < outer
    <3>1. to(l) = l /\ l \in 1 .. outer-1
      BY <1>3, <2>1 DEF Shifted
    <3> QED
      BY <1>8, <1>9, <3>1
  <2>2. CASE ~(l < outer)
    <3>1. to(l) = l+1 /\ l \in outer .. n
      BY <1>3, <2>2 DEF Shifted
    <3> QED
      BY <1>8, <1>9, <3>1
  <2> QED
    BY <2>1, <2>2
<1> HIDE DEF to
<1>11. /\ loop_level' \in [1 .. n+1 -> LoopLevels] /\ xform' \in [1 .. n+1 -> Loops]
  BY <1>8, <1>9, SeqFunction
<1>12. xform'[outer].kind = "tile" /\ xform'[outer].dim = xform[level].dim
  BY <1>9 DEF loop
<1>13. Inserts(n, loop_level, xform, level, outer, loop_level', xform')
  <2>1. loop_level'[outer] = TileLoop(to(level))
    BY <1>6, <1>8
  <2>2. \A l \in 1 .. n : loop_level'[to(l)] = IF loop_level[l].type = "tile"
                             THEN TileLoop(to(loop_level[l].payload)) ELSE loop_level[l]
    BY <1>5, <1>10
  <2> QED
    BY <1>10, <1>11, <1>12, <2>1, <2>2, Zenon DEF Inserts, to
<1> QED
  BY <1>3, <1>8, <1>9, <1>13 DEF n

\* The scripts that tile a dimension only if no dependence has a distance of
\* unknown sign there.
SignsKnown ==
  \A k \in DOMAIN Scripts :
    Scripts[k].sizes # {} =>
      \A dv \in Scripts[k].vectors, i \in Scripts[k].tiled : dv.lb[i] < 0 => dv.ub[i] < 0

\* A tiling that is not refused leaves its loop inside the first of the loops
\* that carry the dependence it may run against.
LEMMA LegalGuarded ==
  ASSUME GInv, SignsKnown, NEW level \in Levels, NEW outer \in Levels,
         Tiles(level, outer), ~Illegal(level, outer), vector.lb[xform[level].dim] < 0
  PROVE  \E o \in 1 .. outer-1 : xform[o].kind = "original" /\ vector.lb[xform[o].dim] > 0
<1> DEFINE n == Len(xform)
           tiled == Scripts[script].tiled
           carries(o) == xform[o].kind = "original" /\ vector.lb[xform[o].dim] > 0
           T == {o \in 1 .. n : carries(o)}
<1>1. /\ alive /\ outer \in 1 .. level /\ xform[level].dim \in tiled
      /\ Scripts[script].sizes # {} /\ Len(loop_level) < MaxLevels
      /\ Nest(n, loop_level, xform, dep, vector, tiled) /\ Len(loop_level) = n
      /\ Guarded(n, xform, vector)
  BY DEF Tiles, GInv, IInv
<1>2. n \in Nat /\ Levels = 1 .. n /\ level \in 1 .. n /\ outer \in 1 .. n
  <2>1. n \in Nat
    BY <1>1, SeqFunction DEF GInv, IInv
  <2> HIDE DEF n
  <2> QED
    BY <1>1, <2>1 DEF Levels
<1>3. Describes(n, loop_level, xform, tiled) /\ Numbered(n, loop_level, xform)
  BY <1>1 DEF Nest
<1>4. PICK dv \in dep : IsVector(dv) /\ Follows(n, loop_level, xform, dv, vector)
  BY <1>1 DEF Nest
<1>5. /\ \A k \in Dims : vector.lb[k] \in Int /\ vector.ub[k] \in Int
      /\ vector.ub[xform[level].dim] < 0
  BY <1>1, ScriptsAssumption DEF GInv, IInv, GivenOK, SignsKnown
<1>6. \A l \in 1 .. n : xform[l].dim \in Dims
  BY <1>3 DEF Describes, Loops
<1>7. PICK z \in 1 .. level-1 : carries(z)
  BY <1>1, <1>2 DEF Guarded
<1>8. PICK o \in T : \A y \in T : o <= y
  <2>1. z \in T
    BY <1>2, <1>7
  <2>2. T \in SUBSET Nat /\ T # {}
    BY <2>1
  <2> HIDE DEF T
  <2> QED
    BY <2>2, LeastElement
<1>9. o \in 1 .. n /\ carries(o) /\ o < level
  <2>1. z \in T
    BY <1>2, <1>7
  <2>2. o <= z
    BY <1>8, <2>1
  <2> QED
    BY <1>2, <2>2
<1> DEFINE k == loop_level[o].payload
<1>10. k \in Dims /\ loop_level[o].type = "original" /\ dv.lb[k] > 0
  <2>1. k \in Dims /\ dv.lb[k] = vector.lb[xform[o].dim]
    BY <1>3, <1>4, <1>9 DEF Numbered, Follows
  <2>2. loop_level[o].type = "original"
    BY <1>3, <1>9 DEF Describes
  <2> QED
    BY <1>9, <2>1, <2>2
<1>11. ASSUME NEW i \in Before(k)
       PROVE  dv.lb[i] <= 0 /\ dv.ub[i] >= 0
  <2>1. i \in Dims /\ i < k /\ i \in Int /\ k \in Int
    BY <1>10, NDimAssumption DEF Before, Dims
  <2>2. PICK l \in 1 .. n : xform[l].kind = "original" /\ loop_level[l].payload = i
    BY <1>3, <2>1 DEF Numbered
  <2>3. l < o
    <3>1. ASSUME o < l PROVE k < i
      BY <1>3, <1>9, <2>2, <3>1 DEF Numbered
    <3>2. l # o
      BY <2>1, <2>2
    <3> HIDE DEF k
    <3> QED
      BY <1>9, <2>1, <3>1, <3>2
  <2>4. dv.lb[i] = vector.lb[xform[l].dim] /\ dv.ub[i] = vector.ub[xform[l].dim]
    BY <1>4, <2>2 DEF Follows
  <2>5. vector.lb[xform[l].dim] <= 0
    <3>1. l \notin T
      BY <1>8, <1>9, <2>3
    <3>2. vector.lb[xform[l].dim] \in Int
      BY <1>5, <1>6
    <3> QED
      BY <2>2, <3>1, <3>2
  <2>6. ~(vector.lb[xform[l].dim] < 0)
    <3> SUFFICES ASSUME vector.lb[xform[l].dim] < 0 PROVE FALSE
      OBVIOUS
    <3>1. PICK y \in 1 .. l-1 : carries(y)
      BY <1>1 DEF Guarded
    <3>2. y \in 1 .. n /\ y < o
      BY <1>9, <2>3
    <3>3. y \in T
      BY <3>1, <3>2
    <3> QED
      BY <1>8, <1>9, <3>2, <3>3
  <2>7. vector.lb[xform[l].dim] <= vector.ub[xform[l].dim]
    BY <1>6, ScriptsAssumption DEF GInv, IInv, GivenOK
  <2> QED
    BY <1>5, <1>6, <2>4, <2>5, <2>6, <2>7
<1>12. IsCarried(dv, k) /\ PositiveAt(dv, k)
  <2>1. k \in DOMAIN dv.lb
    BY <1>4, <1>10 DEF IsVector
  <2> HIDE DEF k
  <2> QED
    BY <1>10, <1>11, <2>1 DEF IsCarried, PositiveAt, HasPositive
<1>13. HasNegative(dv, DepDimOf(level))
  <2>0. MaxLevels \in Nat /\ n <= MaxLevels
    BY <1>1, <1>2, NDimAssumption
  <2>1. PICK y \in 1 .. n : /\ xform[y].kind = "original" /\ xform[y].dim = xform[level].dim
                            /\ DepDimOf(level) = loop_level[y].payload
    <3> HIDE DEF n, tiled
    <3> QED
      BY <1>2, <1>3, <2>0, ChainEnds
  <2>2. dv.ub[loop_level[y].payload] = vector.ub[xform[level].dim]
    BY <1>4, <2>1 DEF Follows
  <2> QED
    BY <1>5, <2>1, <2>2 DEF HasNegative
<1>14. ~CarriedOnTheWay(dv, level, outer)
  BY <1>13 DEF Illegal
<1>15. o \notin outer .. level-1
  <2>1. ASSUME o \in outer .. level-1 PROVE CarriedOnTheWay(dv, level, outer)
    <3> HIDE DEF T
    <3>1. loop_level[o].type # "tile"
      BY <1>10
    <3> QED
      BY <1>12, <2>1, <3>1 DEF CarriedOnTheWay
  <2> QED
    BY <1>14, <2>1
<1>16. o \in 1 .. outer-1
  BY <1>2, <1>9, <1>15
<1> QED
  BY <1>9, <1>16

LEMMA TileStep ==
  ASSUME IInv, NEW level \in Levels, NEW outer \in Levels, NEW size \in Scripts[script].sizes,
         Tile(level, size, outer)
  PROVE  IInv' /\ (GInv /\ SignsKnown => GInv')
<1> DEFINE n == Len(xform)
           tiled == Scripts[script].tiled
           ll2 == loop_level'
           xf2 == xform'
<1>1. /\ alive /\ UNCHANGED <<dep, script, vector, alive>>
      /\ Tiles(level, outer) /\ ~Illegal(level, outer) /\ xform[level].dim \in tiled
  BY DEF Tile, Tiles, given
<1>2. Nest(n, loop_level, xform, dep, vector, tiled)
  BY <1>1 DEF IInv
<1>3. /\ n \in Nat /\ level \in outer .. n /\ outer \in 1 .. n
      /\ Inserts(n, loop_level, xform, level, outer, ll2, xf2)
      /\ loop_level' \in Seq(LoopLevels) /\ xform' \in Seq(Loops)
      /\ Len(loop_level') = n+1 /\ Len(xform') = n+1
  BY TileInserts
<1>4. Nest(n+1, ll2, xf2, dep, vector, tiled)
  <2> HIDE DEF n, tiled, ll2, xf2
  <2> QED
    BY <1>1, <1>2, <1>3, InsertedNest
<1>5. IInv'
  BY <1>1, <1>3, <1>4 DEF IInv, GivenOK
<1>6. ASSUME GInv, SignsKnown PROVE GInv'
  <2>1. Guarded(n, xform, vector)
    BY <1>1, <1>6 DEF GInv
  <2>2. vector.lb[xform[level].dim] < 0 =>
          \E o \in 1 .. outer-1 : xform[o].kind = "original" /\ vector.lb[xform[o].dim] > 0
    BY <1>1, <1>6, LegalGuarded
  <2>3. Guarded(n+1, xf2, vector)
    <3> HIDE DEF n, ll2, xf2
    <3> QED
      BY <1>3, <2>1, <2>2, InsertedGuarded
  <2> QED
    BY <1>1, <1>3, <1>5, <2>3 DEF GInv
<1> QED
  BY <1>5, <1>6

-----------------------------------------------------------------------------
(* The invariant.                                                          *)

LEMMA InitInv ==
  ASSUME Init
  PROVE  GInv
<1> DEFINE n == NDim
           tiled == Scripts[script].tiled
<1>1. /\ script \in DOMAIN Scripts /\ vector \in Scripts[script].vectors /\ dep = {vector}
      /\ loop_level = [l \in 1 .. n |-> Original(l-1)]
      /\ xform = [l \in 1 .. n |-> [kind |-> "original", dim |-> l-1, size |-> 1]]
      /\ alive = TRUE
  BY DEF Init
<1>2. n \in Nat /\ \A l \in 1 .. n : l-1 \in Dims /\ l-1 \in Int
  BY NDimAssumption DEF Dims
<1>3. IsVector(vector) /\ LexSign(vector.lb, NDim) >= 0
  BY <1>1, ScriptsAssumption DEF IsVector
<1>4. GivenOK
  BY <1>1 DEF GivenOK
<1> HIDE DEF n
<1>5. /\ loop_level \in [1 .. n -> LoopLevels] /\ xform \in [1 .. n -> Loops]
      /\ \A l \in 1 .. n : /\ loop_level[l].type = "original" /\ loop_level[l].payload = l-1
                           /\ xform[l].kind = "original" /\ xform[l].dim = l-1 /\ xform[l].size = 1
  BY <1>1, <1>2 DEF Original, LoopLevels, Loops, Kinds
<1>6. /\ loop_level \in Seq(LoopLevels) /\ xform \in Seq(Loops)
      /\ Len(loop_level) = n /\ Len(xform) = n
  BY <1>2, <1>5, FunctionSeq
<1>7. Describes(n, loop_level, xform, tiled)
  BY <1>5 DEF Describes
<1>8. Numbered(n, loop_level, xform)
  <2>1. \A k \in Dims : k+1 \in 1 .. n /\ (k+1)-1 = k
    BY NDimAssumption DEF Dims, n
  <2>2. \A k \in Dims : \E l \in 1 .. n : xform[l].kind = "original" /\ loop_level[l].payload = k
    BY <1>5, <2>1
  <2>3. \A k \in Dims : \E l \in 1 .. n : xform[l].kind = "original" /\ xform[l].dim = k
    BY <1>5, <2>1
  <2>4. \A l \in 1 .. n : xform[l].kind = "original" => loop_level[l].payload \in Dims
    BY <1>2, <1>5
  <2>5. \A l \in 1 .. n, m \in 1 .. n :
          xform[l].kind = "original" /\ xform[m].kind = "original" /\ l < m
          => loop_level[l].payload < loop_level[m].payload
    BY <1>2, <1>5
  <2> QED
    BY <2>2, <2>3, <2>4, <2>5, Zenon DEF Numbered
<1>9. Follows(n, loop_level, xform, vector, vector)
  BY <1>5 DEF Follows
<1>10. Nest(n, loop_level, xform, dep, vector, tiled)
  BY <1>1, <1>3, <1>7, <1>8, <1>9 DEF Nest
<1>11. Guarded(n, xform, vector)
  <2>1. vector.lb \in Bounds(NDim) /\ NDim \in Nat
    BY <1>3, NDimAssumption DEF IsVector, Bounds, Dims
  <2> SUFFICES ASSUME NEW l \in 1 .. n, vector.lb[l-1] < 0
               PROVE  \E o \in 1 .. l-1 : vector.lb[o-1] > 0
    <3>1. ASSUME NEW l \in 1 .. n, vector.lb[xform[l].dim] < 0
          PROVE  \E o \in 1 .. l-1 : xform[o].kind = "original" /\ vector.lb[xform[o].dim] > 0
      <4>1. vector.lb[l-1] < 0
        BY <1>5, <3>1
      <4>2. PICK o \in 1 .. l-1 : vector.lb[o-1] > 0
        BY <4>1
      <4>3. o \in 1 .. n
        BY <1>2
      <4>4. xform[o].kind = "original" /\ xform[o].dim = o-1
        BY <1>5, <4>3
      <4> QED
        BY <4>2, <4>4
    <3> QED
      BY <3>1 DEF Guarded
  <2>2. l-1 \in 0 .. NDim-1
    BY <1>2 DEF Dims
  <2>3. ~ \A k \in 0 .. (l-1)-1 : vector.lb[k] <= 0
    <3> SUFFICES ASSUME \A k \in 0 .. (l-1)-1 : vector.lb[k] <= 0 PROVE FALSE
      OBVIOUS
    <3>1. LexSign(vector.lb, NDim) = -1
      BY <2>1, <2>2, NegativeBound
    <3> QED
      BY <1>3, <3>1
  <2>4. PICK k \in 0 .. (l-1)-1 : ~(vector.lb[k] <= 0)
    BY <2>3
  <2>5. k+1 \in 1 .. l-1 /\ (k+1)-1 = k /\ k \in Dims
    BY <1>2, <2>2 DEF Dims
  <2>6. vector.lb[k] \in Int
    BY <1>3, <2>5 DEF IsVector
  <2>7. vector.lb[(k+1)-1] > 0
    BY <2>4, <2>5, <2>6
  <2> QED
    BY <2>5, <2>7
<1> QED
  BY <1>1, <1>4, <1>6, <1>10, <1>11 DEF GInv, IInv

\* A command that is refused ends the script.
LEMMA RefusedStep ==
  ASSUME IInv, Interactive = FALSE, UNCHANGED given, Throw
  PROVE  IInv' /\ (GInv => GInv')
<1>1. alive' = FALSE /\ UNCHANGED <<script, vector>>
  BY DEF Throw, given
<1>2. GivenOK' /\ alive' \in BOOLEAN
  BY <1>1 DEF IInv, GivenOK
<1> QED
  BY <1>1, <1>2 DEF GInv, IInv

LEMMA NextKeeps ==
  ASSUME IInv, Interactive = FALSE, PermutedApart, [Next]_vars
  PROVE  IInv' /\ (GInv /\ SignsKnown => GInv')
<1>1. ASSUME NEW level \in Levels, NEW p \in Scripts[script].orders,
             PermuteTiles(level, p) \/ PermuteRefused(level, p) \/ Permute(level, p)
      PROVE  IInv' /\ (GInv => GInv')
  <2>1. CASE PermuteTiles(level, p)
    BY <2>1, PermuteTilesStep
  <2>2. CASE PermuteRefused(level, p)
    BY <2>2, RefusedStep DEF PermuteRefused
  <2>3. CASE Permute(level, p)
    BY <2>3, PermuteStep
  <2> QED
    BY <1>1, <2>1, <2>2, <2>3
<1>2. ASSUME NEW level \in Levels, NEW outer \in Levels, TileRefused(level, outer)
      PROVE  IInv' /\ (GInv => GInv')
  BY <1>2, RefusedStep DEF TileRefused
<1>3. ASSUME NEW level \in Levels, NEW outer \in Levels, NEW size \in Scripts[script].sizes,
             Tile(level, size, outer)
      PROVE  IInv' /\ (GInv /\ SignsKnown => GInv')
  BY <1>3, TileStep
<1>4. ASSUME UNCHANGED vars PROVE IInv' /\ (GInv => GInv')
  <2>1. UNCHANGED <<loop_level, dep, xform, script, vector, alive>>
    BY <1>4 DEF vars, given
  <2> QED
    BY <2>1 DEF IInv, GInv, GivenOK
<1> QED
  BY <1>1, <1>2, <1>3, <1>4 DEF Next, EndOfScript

LEMMA InvariantHolds ==
  ASSUME Interactive = FALSE, PermutedApart
  PROVE  Spec => []IInv
<1>1. Init => IInv
  BY InitInv DEF GInv
<1>2. IInv /\ [Next]_vars => IInv'
  BY NextKeeps
<1> QED
  BY <1>1, <1>2, PTL DEF Spec

LEMMA GuardHolds ==
  ASSUME Interactive = FALSE, PermutedApart, SignsKnown
  PROVE  Spec => []GInv
<1>1. Init => GInv
  BY InitInv
<1>2. GInv /\ [Next]_vars => GInv'
  BY NextKeeps DEF GInv
<1> QED
  BY <1>1, <1>2, PTL DEF Spec

LEMMA LevelsHold ==
  ASSUME IInv
  PROVE  LevelsDescribeNest
<1> SUFFICES ASSUME alive, NEW l \in Levels
             PROVE  /\ loop_level[l].type = xform[l].kind
                    /\ IF xform[l].kind = "original"
                       THEN loop_level[l].payload = Cardinality(OriginalsBefore(l))
                       ELSE LET ref == loop_level[l].payload
                            IN  ref \in Levels \ {l} /\ xform[ref].dim = xform[l].dim
  BY DEF LevelsDescribeNest
<1> DEFINE n == Len(xform)
           tiled == Scripts[script].tiled
<1>1. /\ Describes(n, loop_level, xform, tiled) /\ Numbered(n, loop_level, xform)
      /\ n \in Nat /\ Levels = 1 .. n
  BY SeqFunction DEF IInv, Nest, Levels
<1>2. l \in 1 .. n
  BY <1>1
<1> HIDE DEF n
<1>3. loop_level[l].type = xform[l].kind /\ xform[l].kind \in Kinds
  BY <1>1, <1>2 DEF Describes, Loops
<1>4. CASE xform[l].kind = "original"
  BY <1>1, <1>2, <1>3, <1>4, NumberCounts DEF OriginalsBefore
<1>5. CASE xform[l].kind = "tile"
  <2>1. /\ loop_level[l].payload \in l+1 .. n
        /\ xform[loop_level[l].payload].dim = xform[l].dim
    BY <1>1, <1>2, <1>5 DEF Describes
  <2>2. loop_level[l].payload \in (1 .. n) \ {l}
    BY <1>1, <1>2, <2>1
  <2> QED
    BY <1>1, <1>3, <1>5, <2>1, <2>2
<1> QED
  BY <1>3, <1>4, <1>5 DEF Kinds

LEMMA DepsHold ==
  ASSUME IInv
  PROVE  DepsDescribeNest
<1> DEFINE place(dim) == CHOOSE l \in Levels : xform[l].kind = "original" /\ xform[l].dim = dim
<1> SUFFICES ASSUME alive, NEW dv \in dep, NEW dim \in Dims
             PROVE  LET now == Cardinality(OriginalsBefore(place(dim)))
                    IN  dv.lb[now] = vector.lb[dim] /\ dv.ub[now] = vector.ub[dim]
  BY DEF DepsDescribeNest
<1> DEFINE n == Len(xform)
           tiled == Scripts[script].tiled
<1>1. /\ Describes(n, loop_level, xform, tiled) /\ Numbered(n, loop_level, xform)
      /\ n \in Nat /\ Levels = 1 .. n /\ Follows(n, loop_level, xform, dv, vector)
  BY SeqFunction DEF IInv, Nest, Levels
<1> DEFINE l == place(dim)
<1>2. l \in Levels /\ xform[l].kind = "original" /\ xform[l].dim = dim
  <2>1. \E m \in Levels : xform[m].kind = "original" /\ xform[m].dim = dim
    BY <1>1 DEF Numbered
  <2> QED
    BY <2>1, Zenon
<1> HIDE DEF n, l
<1>3. loop_level[l].payload = Cardinality(OriginalsBefore(l))
  BY <1>1, <1>2, NumberCounts DEF OriginalsBefore
<1>4. /\ dv.lb[loop_level[l].payload] = vector.lb[dim]
      /\ dv.ub[loop_level[l].payload] = vector.ub[dim]
  BY <1>1, <1>2 DEF Follows
<1> QED
  BY <1>3, <1>4 DEF l

-----------------------------------------------------------------------------
(* Distances in the order of the nest.                                     *)

LEMMA TimesGrows ==
  ASSUME NEW s \in Nat, NEW p \in Int, NEW q \in Int, p <= q
  PROVE  s * p <= s * q
<1>1. s * p \in Int /\ s * q \in Int /\ q-p \in Nat
  OBVIOUS
<1>2. s * (q-p) \in Nat
  BY <1>1
<1>3. s * q = s * p + s * (q-p)
  OBVIOUS
<1> QED
  BY <1>1, <1>2, <1>3

LEMMA DivGrows ==
  ASSUME NEW s \in Nat \ {0}, NEW a \in Int, NEW b \in Int, a <= b
  PROVE  a \div s \in Int /\ b \div s \in Int /\ a \div s <= b \div s
<1> DEFINE p == a \div s
           q == b \div s
           u == a % s
           w == b % s
<1>1. p \in Int /\ q \in Int /\ u \in 0 .. s-1 /\ w \in 0 .. s-1
  OBVIOUS
<1>2. a = s * p + u /\ b = s * q + w
  OBVIOUS
<1> HIDE DEF p, q, u, w
<1>3. ASSUME q < p PROVE FALSE
  <2>1. q+1 <= p /\ q+1 \in Int
    BY <1>1, <1>3
  <2>2. s * (q+1) <= s * p
    BY <1>1, <2>1, TimesGrows
  <2>3. s * (q+1) = s * q + s
    BY <1>1
  <2>4. s * q \in Int /\ s * p \in Int
    BY <1>1
  <2> QED
    BY <1>1, <1>2, <2>2, <2>3, <2>4
<1>4. p <= q
  BY <1>1, <1>3
<1> QED
  BY <1>1, <1>4 DEF p, q

LEMMA CoordinateGrows ==
  ASSUME NEW loop \in Loops, NEW x \in [Dims -> Int], NEW y \in [Dims -> Int],
         x[loop.dim] <= y[loop.dim]
  PROVE  /\ Coordinate(loop, x) \in Int /\ Coordinate(loop, y) \in Int
         /\ Coordinate(loop, x) <= Coordinate(loop, y)
<1>1. loop.size \in Nat /\ x[loop.dim] \in Int /\ y[loop.dim] \in Int
  BY DEF Loops
<1>2. CASE loop.size = 0
  BY <1>2 DEF Coordinate
<1>3. CASE loop.size # 0
  <2>1. loop.size \in Nat \ {0}
    BY <1>1, <1>3
  <2> QED
    BY <1>1, <1>3, <2>1, DivGrows DEF Coordinate
<1> QED
  BY <1>2, <1>3

LEMMA CoordinateOfOne ==
  ASSUME NEW loop \in Loops, loop.size = 1, NEW x \in [Dims -> Int]
  PROVE  Coordinate(loop, x) = x[loop.dim]
<1>1. x[loop.dim] \in Int
  BY DEF Loops
<1>2. \A a \in Int : a \div 1 = a
  OBVIOUS
<1> QED
  BY <1>1, <1>2 DEF Coordinate

LEMMA PeriodTyped ==
  ASSUME xform \in Seq(Loops), Levels = 1 .. Len(xform)
  PROVE  Period \in Int
<1> DEFINE n == Len(xform)
           f == [i \in 0 .. n-1 |-> xform[i+1].size]
           T == {1} \union {xform[l].size : l \in Levels}
<1>1. n \in Nat /\ xform \in [1 .. n -> Loops]
  BY SeqFunction
<1>2. \A l \in 1 .. n : xform[l].size \in Int /\ l-1 \in 0 .. n-1 /\ (l-1)+1 = l
  BY <1>1 DEF Loops
<1>3. \A i \in 0 .. n-1 : i+1 \in 1 .. n
  BY <1>1
<1> HIDE DEF n
<1>4. f \in [0 .. n-1 -> Int]
  BY <1>2, <1>3
<1>5. PICK hi \in Int : \A i \in 0 .. n-1 : f[i] <= hi
  <2> HIDE DEF f
  <2>1. \E less, more \in Int : \A i \in 0 .. n-1 : less <= f[i] /\ f[i] <= more
    BY <1>1, <1>4, BoundsExist
  <2> QED
    BY <2>1
<1>6. \A l \in 1 .. n : xform[l].size <= hi
  <2> SUFFICES ASSUME NEW l \in 1 .. n PROVE xform[l].size <= hi
    OBVIOUS
  <2>1. f[l-1] = xform[l].size
    BY <1>2
  <2> HIDE DEF f
  <2> QED
    BY <1>2, <1>5, <2>1
<1>7. PICK b \in Int : 1 <= b /\ hi <= b
  <2>1. \E c \in Int : 1 <= c /\ hi <= c
    BY <1>5
  <2> QED
    BY <2>1
<1>8. T \in SUBSET Int /\ T # {}
  BY <1>2 DEF n
<1>9. \A t \in T : t <= b
  <2>1. \A l \in 1 .. n : xform[l].size <= b
    BY <1>2, <1>5, <1>6, <1>7
  <2> QED
    BY <1>7, <2>1 DEF n
<1> HIDE DEF T
<1>10. Max(T) \in T
  BY <1>8, <1>9, MaxBounded
<1> QED
  BY <1>8, <1>10 DEF T, Period

\* The distances that OrderPreserved considers are vectors of integers.
LEMMA BoundsTyped ==
  ASSUME IsVector(vector)
  PROVE  Min({vector.lb[k] : k \in Dims}) \in Int /\ Max({vector.ub[k] : k \in Dims}) \in Int
<1>1. /\ vector.lb \in [0 .. NDim-1 -> Int] /\ vector.ub \in [0 .. NDim-1 -> Int]
      /\ NDim \in Nat /\ Dims = 0 .. NDim-1 /\ 0 \in Dims
  BY NDimAssumption DEF IsVector, Dims
<1>2. Min({vector.lb[k] : k \in Dims}) \in Int
  <2> DEFINE T == {vector.lb[k] : k \in Dims}
  <2>1. PICK b \in Int : \A i \in 0 .. NDim-1 : b <= vector.lb[i]
    BY <1>1, BoundsExist
  <2>2. T \in SUBSET Int /\ T # {} /\ \A t \in T : b <= t
    BY <1>1, <2>1
  <2> HIDE DEF T
  <2>3. Min(T) \in T
    BY <2>2, MinBounded
  <2> QED
    BY <2>2, <2>3 DEF T
<1>3. Max({vector.ub[k] : k \in Dims}) \in Int
  <2> DEFINE T == {vector.ub[k] : k \in Dims}
  <2>1. PICK b \in Int : \A i \in 0 .. NDim-1 : vector.ub[i] <= b
    BY <1>1, BoundsExist
  <2>2. T \in SUBSET Int /\ T # {} /\ \A t \in T : t <= b
    BY <1>1, <2>1
  <2> HIDE DEF T
  <2>3. Max(T) \in T
    BY <2>2, MaxBounded
  <2> QED
    BY <2>2, <2>3 DEF T
<1> QED
  BY <1>2, <1>3

\* How a distance of the original nest moves along the loops.
LEMMA MovesFacts ==
  ASSUME NEW n \in Nat, xform \in [1 .. n -> Loops], Len(xform) = n,
         NEW d \in [Dims -> Int], NEW x \in [Dims -> Int]
  PROVE  /\ Moves(d, x) \in [0 .. n-1 -> Int]
         /\ \A l \in 1 .. n : d[xform[l].dim] >= 0 => Moves(d, x)[l-1] >= 0
         /\ \A l \in 1 .. n : xform[l].kind = "original" /\ xform[l].size = 1
                              => Moves(d, x)[l-1] = d[xform[l].dim]
<1> DEFINE y == [k \in Dims |-> x[k] + d[k]]
           c(l) == Coordinate(xform[l], y) - Coordinate(xform[l], x)
<1>1. y \in [Dims -> Int]
  OBVIOUS
<1>2. Moves(d, x) = [i \in 0 .. n-1 |-> c(i+1)]
  BY DEF Moves
<1>3. \A l \in 1 .. n : xform[l] \in Loops /\ xform[l].dim \in Dims
  BY DEF Loops
<1>4. \A k \in Dims : /\ y[k] = x[k] + d[k]
                      /\ x[k] \in Int /\ d[k] \in Int /\ y[k] \in Int
  OBVIOUS
<1> HIDE DEF y
<1>5. ASSUME NEW l \in 1 .. n
      PROVE  /\ c(l) \in Int
             /\ d[xform[l].dim] >= 0 => c(l) >= 0
             /\ xform[l].size = 1 => c(l) = d[xform[l].dim]
  <2> DEFINE k == xform[l].dim
  <2>1. /\ k \in Dims /\ y[k] = x[k] + d[k] /\ xform[l] \in Loops
        /\ x[k] \in Int /\ d[k] \in Int /\ y[k] \in Int
    BY <1>3, <1>4
  <2>2. x[k] <= y[k] => /\ Coordinate(xform[l], x) \in Int /\ Coordinate(xform[l], y) \in Int
                        /\ Coordinate(xform[l], x) <= Coordinate(xform[l], y)
    BY <1>1, <2>1, CoordinateGrows
  <2>3. y[k] <= x[k] => /\ Coordinate(xform[l], x) \in Int /\ Coordinate(xform[l], y) \in Int
    BY <1>1, <2>1, CoordinateGrows
  <2>4. xform[l].size = 1 => Coordinate(xform[l], x) = x[k] /\ Coordinate(xform[l], y) = y[k]
    BY <1>1, <2>1, CoordinateOfOne
  <2> HIDE DEF k
  <2>5. c(l) \in Int /\ (d[k] >= 0 => c(l) >= 0) /\ (xform[l].size = 1 => c(l) = d[k])
    BY <2>1, <2>2, <2>3, <2>4
  <2> QED
    BY <2>5 DEF k
<1> HIDE DEF c
<1>6. \A i \in 0 .. n-1 : i+1 \in 1 .. n
  OBVIOUS
<1>7. Moves(d, x) \in [0 .. n-1 -> Int]
  BY <1>2, <1>5, <1>6
<1>8. \A l \in 1 .. n : Moves(d, x)[l-1] = c(l)
  <2> SUFFICES ASSUME NEW l \in 1 .. n PROVE Moves(d, x)[l-1] = c(l)
    OBVIOUS
  <2>1. l-1 \in 0 .. n-1 /\ (l-1)+1 = l
    OBVIOUS
  <2> QED
    BY <1>2, <2>1
<1> QED
  BY <1>5, <1>7, <1>8

LEMMA OrderHolds ==
  ASSUME GInv
  PROVE  OrderPreserved
<1> DEFINE n == Len(xform)
           tiled == Scripts[script].tiled
           lo == Min({vector.lb[k] : k \in Dims})
           hi == Max({vector.ub[k] : k \in Dims})
<1> SUFFICES ASSUME alive, NEW d \in [Dims -> lo .. hi],
                    HasDistance(vector, d), LexSign(d, NDim) > 0,
                    NEW x \in [Dims -> 0 .. Period-1]
             PROVE  LexSign(Moves(d, x), n) > 0
  BY DEF OrderPreserved
<1>1. /\ Describes(n, loop_level, xform, tiled) /\ Numbered(n, loop_level, xform)
      /\ n \in Nat /\ Levels = 1 .. n /\ Guarded(n, xform, vector)
      /\ xform \in Seq(Loops) /\ xform \in [1 .. n -> Loops]
  BY SeqFunction DEF GInv, IInv, Nest, Levels
<1>2. IsVector(vector)
  BY ScriptsAssumption DEF GInv, IInv, GivenOK, IsVector
<1>3. d \in [Dims -> Int] /\ x \in [Dims -> Int]
  <2>1. lo \in Int /\ hi \in Int
    BY <1>2, BoundsTyped
  <2>2. Period \in Int
    BY <1>1, PeriodTyped
  <2> HIDE DEF lo, hi
  <2>3. lo .. hi \subseteq Int /\ 0 .. Period-1 \subseteq Int
    BY <2>1, <2>2
  <2> QED
    BY <2>3
<1>4. \A k \in Dims : vector.lb[k] \in Int /\ d[k] \in Int /\ vector.lb[k] <= d[k]
  BY <1>2, <1>3 DEF IsVector, HasDistance
<1> DEFINE m == Moves(d, x)
<1>5. /\ m \in [0 .. n-1 -> Int]
      /\ \A l \in 1 .. n : d[xform[l].dim] >= 0 => m[l-1] >= 0
      /\ \A l \in 1 .. n : xform[l].kind = "original" => m[l-1] = d[xform[l].dim]
  <2>1. \A l \in 1 .. n : xform[l].kind = "original" => xform[l].size = 1
    BY <1>1 DEF Describes
  <2> HIDE DEF n, m
  <2>2. /\ m \in [0 .. n-1 -> Int]
        /\ \A l \in 1 .. n : d[xform[l].dim] >= 0 => m[l-1] >= 0
        /\ \A l \in 1 .. n : xform[l].kind = "original" /\ xform[l].size = 1
                             => m[l-1] = d[xform[l].dim]
    BY <1>1, <1>3, MovesFacts DEF m, n
  <2> QED
    BY <2>1, <2>2
<1> HIDE DEF n, m, lo, hi
<1>6. \E i \in 0 .. n-1 : m[i] # 0
  <2>1. PICK k \in Dims : d[k] # 0
    BY NDimAssumption DEF LexSign, Dims
  <2>2. PICK l \in 1 .. n : xform[l].kind = "original" /\ xform[l].dim = k
    BY <1>1, <2>1 DEF Numbered
  <2>3. m[l-1] # 0 /\ l-1 \in 0 .. n-1
    BY <1>1, <1>5, <2>1, <2>2
  <2> QED
    BY <2>3
<1>7. PICK i \in 0 .. n-1 : m[i] # 0 /\ \A k \in 0 .. i-1 : m[k] = 0
  BY <1>1, <1>5, <1>6, FirstNonZero DEF Bounds
<1> DEFINE l == i+1
<1>8. n \in Nat /\ l \in 1 .. n /\ l-1 = i
  BY <1>1
<1> HIDE DEF l
<1>9. d[xform[l].dim] >= 0
  <2>1. xform[l].dim \in Dims
    BY <1>1, <1>8 DEF Loops
  <2> SUFFICES ASSUME d[xform[l].dim] < 0 PROVE FALSE
    BY <1>4, <2>1
  <2>2. vector.lb[xform[l].dim] < 0
    BY <1>4, <2>1
  <2>3. PICK o \in 1 .. l-1 : xform[o].kind = "original" /\ vector.lb[xform[o].dim] > 0
    BY <1>1, <1>8, <2>2 DEF Guarded
  <2>4. o \in 1 .. n /\ o-1 \in 0 .. i-1
    BY <1>8, <2>3
  <2>5. xform[o].dim \in Dims
    BY <1>1, <2>4 DEF Loops
  <2>6. d[xform[o].dim] > 0
    BY <1>4, <2>3, <2>5
  <2>7. m[o-1] = d[xform[o].dim] /\ m[o-1] = 0
    BY <1>5, <1>7, <2>3, <2>4
  <2> QED
    BY <2>6, <2>7
<1>10. m[i] > 0 /\ m[i] \in Int
  BY <1>5, <1>7, <1>8, <1>9
<1>11. LexSign(m, n) = IF m[i] > 0 THEN 1 ELSE -1
  BY <1>1, <1>7, <1>10, SignOfFirst
<1> QED
  BY <1>10, <1>11 DEF m

-----------------------------------------------------------------------------
(* The theorems: of scripts that end at the first error, and that permute  *)
(* original loops and the tile loops of one dimension apart.               *)

\* loop_level describes the nest that the code is generated for after any
\* number of permutations and tilings (Loop::permute and Loop::tile of
\* loop_basic.cc and loop_tile.cc).
THEOREM LevelsCorrect ==
  ASSUME Interactive = FALSE, PermutedApart
  PROVE  Spec => []LevelsDescribeNest
<1>1. IInv => LevelsDescribeNest
  BY LevelsHold
<1>2. Spec => []IInv
  BY InvariantHolds
<1> QED
  BY <1>1, <1>2, PTL

\* The dependence vectors are those of the original nest, with their
\* dimensions in the order of the loops that run now.
THEOREM DepsCorrect ==
  ASSUME Interactive = FALSE, PermutedApart
  PROVE  Spec => []DepsDescribeNest
<1>1. IInv => DepsDescribeNest
  BY DepsHold
<1>2. Spec => []IInv
  BY InvariantHolds
<1> QED
  BY <1>1, <1>2, PTL

\* No permutation or tiling that the checks of permute and tile let through
\* makes the nest run the sink of a dependence before its source, wherever the
\* two are in the tiles, if no tiled dimension has a distance of unknown sign.
THEOREM OrderCorrect ==
  ASSUME Interactive = FALSE, PermutedApart, SignsKnown
  PROVE  Spec => []OrderPreserved
<1>1. GInv => OrderPreserved
  BY OrderHolds
<1>2. Spec => []GInv
  BY GuardHolds
<1> QED
  BY <1>1, <1>2, PTL
=============================================================================

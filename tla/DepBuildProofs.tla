--------------------------- MODULE DepBuildProofs ---------------------------
(***************************************************************************)
(* The dependence vectors of two references, for every relation of         *)
(* distances, every number of dimensions and every pair of sides on which  *)
(* the library answers "infinite": the boxes are never empty, and where    *)
(* the statements share a loop, no dependence is lost, none is made up and *)
(* none points backwards.                                                  *)
(*                                                                         *)
(* The inductive invariant says of a worklist element that its distances   *)
(* lie within the bounds found so far, seen in its direction, and that a   *)
(* direction was chosen in a dimension that all of them have positive      *)
(* after zeros; and that every distance not yet connected is still in the  *)
(* worklist or in a recorded vector.                                       *)
(***************************************************************************)
EXTENDS DepBuild, OperatorProofs, SequenceTheorems, TLAPS

\* A distance seen from the source of the dependence to its sink.
Facing(dir, d) == IF dir = -1 THEN Negated(d) ELSE d

\* The first of the dimensions 0 .. n-1 that is not zero is positive.
Leads(lb, ub, n) ==
  \E k \in 0 .. n-1 : lb[k] > 0 /\ \A h \in Before(k) : lb[h] = 0 /\ ub[h] = 0

\* What the worklist may hold for the relation rel.
Elements(rel) ==
  {l \in [r : SUBSET rel, level : 0 .. NDim, dir : {-1, 0, 1}, lb : Bounds(NDim), ub : Bounds(NDim)] :
     /\ \A k \in Dims : l.lb[k] <= l.ub[k]
     /\ l.dir = 0 => l.lb = Zeros /\ l.ub = Zeros
     /\ l.dir # 0 => Leads(l.lb, l.ub, l.level)
     /\ \A d \in l.r, k \in 0 .. l.level-1 :
           l.lb[k] <= Facing(l.dir, d)[k] /\ Facing(l.dir, d)[k] <= l.ub[k]}

\* What is recorded in a direction for rel, with the types of its accesses.
Vectors(dir, rel, w) ==
  {dv \in [type : Types, lb : Bounds(NDim), ub : Bounds(NDim), quasi : {FALSE}] :
     /\ dv.type = IF dir = -1 THEN TypeOf(w[2], w[1]) ELSE TypeOf(w[1], w[2])
     /\ \A k \in Dims : dv.lb[k] <= dv.ub[k]
     /\ \/ Leads(dv.lb, dv.ub, NDim)
        \/ dir # -1 /\ dv.lb = Zeros /\ dv.ub = Zeros
     /\ \E d \in rel : HasDistance(dv, Facing(dir, d))}

\* The conjunct of EdgesPointForward for one edge.
PointsForward(e) ==
  LET carried == \E k \in 0 .. common-1 : e.dv.lb[k] > 0 /\ \A h \in Before(k) : e.dv.lb[h] >= 0
      zero == \A k \in 0 .. common-1 : e.dv.lb[k] = 0 /\ e.dv.ub[k] = 0
  IN  /\ carried \/ zero
      /\ ~carried => e.from = "i" /\ e.to = "j"
      /\ e.dv.quasi => zero /\ common < NDim

Connected(e) ==
  /\ e.from \in {"i", "j"} /\ e.to \in {"i", "j"}
  /\ IsVector(e.dv) /\ \A k \in Dims : e.dv.lb[k] <= e.dv.ub[k]
  /\ common # 0 => PointsForward(e) /\ \E d \in R : Stands(e, d)

\* Where the distance d is dealt with, or still to be.
Kept(d) ==
  \/ \E l \in Range(working) : d \in l.r
  \/ \E dv \in Range(dependences1) : HasDistance(dv, d)
  \/ \E dv \in Range(dependences2) : HasDistance(dv, Negated(d))
  \/ \E e \in edges : Stands(e, d)

InputOK ==
  /\ R \in Relations /\ open \in OpenSides
  /\ pair \in {"same ref", "same stmt", "two stmts"}
  /\ common \in CommonLoops /\ (pair # "two stmts" => common = NDim)
  /\ writes \in {<<TRUE, TRUE>>, <<TRUE, FALSE>>, <<FALSE, TRUE>>}

IInv ==
  /\ InputOK
  /\ pc \in {"split", "connect", "done"}
  /\ working \in Seq(Elements(R))
  /\ dependences1 \in Seq(Vectors(1, R, writes))
  /\ dependences2 \in Seq(Vectors(-1, R, writes))
  /\ \A e \in edges : Connected(e)
  /\ pc # "split" => working = <<>>
  /\ pc = "done" => dependences1 = <<>> /\ dependences2 = <<>>
  /\ common # 0 => \A d \in Required : Kept(d)

-----------------------------------------------------------------------------
(* Sequences and bounds.                                                   *)

\* Adding to a sequence, taking its last element away and its first.
LEMMA RangeOfAppend ==
  ASSUME NEW S, NEW q \in Seq(S), NEW x \in S
  PROVE  Append(q, x) \in Seq(S) /\ Range(Append(q, x)) = Range(q) \union {x}
<1> DEFINE p == Append(q, x)
<1>1. /\ p \in Seq(S) /\ Len(p) = Len(q)+1 /\ Len(q) \in Nat
      /\ \A i \in 1 .. Len(q) : p[i] = q[i]
      /\ p[Len(q)+1] = x
  BY AppendProperties, LenProperties
<1>2. Range(q) = {q[i] : i \in 1 .. Len(q)} /\ Range(p) = {p[i] : i \in 1 .. Len(p)}
  BY <1>1, RangeEquality
<1> HIDE DEF p
<1>3. Range(p) = Range(q) \union {x}
  BY <1>1, <1>2
<1> QED
  BY <1>1, <1>3 DEF p

LEMMA RangeOfFront ==
  ASSUME NEW S, NEW q \in Seq(S), q # <<>>
  PROVE  /\ SubSeq(q, 1, Len(q)-1) \in Seq(S)
         /\ q[Len(q)] \in S
         /\ Range(q) = Range(SubSeq(q, 1, Len(q)-1)) \union {q[Len(q)]}
<1> DEFINE f == SubSeq(q, 1, Len(q)-1)
<1>1. Len(q) \in Nat \ {0} /\ \A i \in 1 .. Len(q) : q[i] \in S
  BY EmptySeq, ElementOfSeq
<1>2. f \in Seq(S) /\ Len(f) = Len(q)-1 /\ \A i \in 1 .. Len(q)-1 : f[i] = q[i]
  BY <1>1, SubSeqProperties
<1>3. Range(q) = {q[i] : i \in 1 .. Len(q)} /\ Range(f) = {f[i] : i \in 1 .. Len(f)}
  BY <1>2, RangeEquality
<1> HIDE DEF f
<1>4. Range(q) = Range(f) \union {q[Len(q)]}
  BY <1>1, <1>2, <1>3
<1> QED
  BY <1>1, <1>2, <1>4 DEF f

LEMMA RangeOfTail ==
  ASSUME NEW S, NEW q \in Seq(S), q # <<>>
  PROVE  /\ Tail(q) \in Seq(S)
         /\ Head(q) \in S
         /\ Range(q) = Range(Tail(q)) \union {Head(q)}
<1>1. Len(q) \in Nat \ {0}
  BY EmptySeq
<1>2. /\ Head(q) \in S /\ Tail(q) \in Seq(S) /\ Len(Tail(q)) = Len(q)-1
      /\ \A i \in 1 .. Len(q)-1 : Tail(q)[i] = q[i+1]
  BY HeadTailProperties
<1>3. Range(q) = {q[i] : i \in 1 .. Len(q)} /\ Range(Tail(q)) = {Tail(q)[i] : i \in 1 .. Len(Tail(q))}
  BY <1>2, RangeEquality
<1>4. Head(q) = q[1]
  OBVIOUS
<1>5. ASSUME NEW x
      PROVE  x \in Range(q) <=> x \in Range(Tail(q)) \union {Head(q)}
  <2>1. ASSUME NEW i \in 1 .. Len(q), x = q[i]
        PROVE  x \in Range(Tail(q)) \union {Head(q)}
    <3>1. CASE i = 1
      BY <1>4, <2>1, <3>1
    <3>2. CASE i # 1
      <4>1. i-1 \in 1 .. Len(q)-1 /\ (i-1)+1 = i
        BY <1>1, <3>2
      <4> QED
        BY <1>2, <1>3, <2>1, <4>1
    <3> QED
      BY <3>1, <3>2
  <2>2. ASSUME NEW i \in 1 .. Len(q)-1, x = Tail(q)[i]
        PROVE  x \in Range(q)
    BY <1>1, <1>2, <1>3, <2>2
  <2> QED
    BY <1>1, <1>2, <1>3, <1>4, <2>1, <2>2
<1> QED
  BY <1>2, <1>5

\* A set of integers that is bounded from below has a least element.
LEMMA LeastInteger ==
  ASSUME NEW T \in SUBSET Int, T # {}, NEW b \in Int, \A x \in T : b < x
  PROVE  \E x \in T : \A y \in T : x <= y
<1> DEFINE U == {x-b : x \in T}
<1>1. U \subseteq Nat /\ U # {}
  <2>1. \A x \in T : x-b \in Nat
    OBVIOUS
  <2> QED
    BY <2>1
<1>2. PICK u \in U : \A y \in U : ~(<<y, u>> \in OpToRel(<, Nat))
  BY <1>1, NatLessThanWellFounded, WFMin, Zenon
<1>3. \A y \in U : ~(y < u)
  BY <1>1, <1>2 DEF OpToRel
<1>4. u+b \in T
  OBVIOUS
<1>5. \A y \in T : y-b \in U /\ y-b \in Int /\ y \in Int
  OBVIOUS
<1>6. u \in Nat
  BY <1>1
<1> HIDE DEF U
<1>7. \A y \in T : u+b <= y
  BY <1>3, <1>5, <1>6
<1> QED
  BY <1>4, <1>7

\* The bounds of a query: integers with every distance between them.
LEMMA BoundsHold ==
  ASSUME InputOK, NEW D \in SUBSET R, D # {}, NEW k \in Dims
  PROVE  /\ Lower(D, k) \in Int /\ Upper(D, k) \in Int
         /\ \A d \in D : Lower(D, k) <= d[k] /\ d[k] <= Upper(D, k)
         /\ Lower(D, k) <= Upper(D, k)
<1>1. /\ D \subseteq [Dims -> Int] /\ Infinity \in Nat
      /\ \A d \in D : d[k] \in Int /\ -Infinity < d[k] /\ d[k] < Infinity
  BY RelationsAssumption DEF InputOK
<1> DEFINE T == {d[k] : d \in D}
<1>2. Lower(D, k) \in Int /\ \A d \in D : Lower(D, k) <= d[k]
  <2>1. CASE <<k, "lower">> \in open
    BY <1>1, <2>1 DEF Lower
  <2>2. CASE <<k, "lower">> \notin open
    <3>1. T \in SUBSET Int /\ T # {} /\ -Infinity \in Int /\ \A x \in T : -Infinity < x
      BY <1>1
    <3>2. \E m \in T : \A y \in T : m <= y
      <4> HIDE DEF T
      <4> QED
        BY <3>1, LeastInteger
    <3>3. \E m \in T : \A d \in D : m <= d[k]
      BY <3>2
    <3>4. Lower(D, k) = CHOOSE m \in T : \A d \in D : m <= d[k]
      BY <2>2 DEF Lower
    <3>5. Lower(D, k) \in T /\ \A d \in D : Lower(D, k) <= d[k]
      <4> HIDE DEF T
      <4> QED
        BY <3>3, <3>4, Zenon
    <3> QED
      BY <3>1, <3>5
  <2> QED
    BY <2>1, <2>2
<1>3. Upper(D, k) \in Int /\ \A d \in D : d[k] <= Upper(D, k)
  <2>1. CASE <<k, "upper">> \in open
    BY <1>1, <2>1 DEF Upper
  <2>2. CASE <<k, "upper">> \notin open
    <3> DEFINE W == {-x : x \in T}
    <3>1. W \in SUBSET Int /\ W # {} /\ -Infinity \in Int /\ \A x \in W : -Infinity < x
      BY <1>1
    <3>2. PICK w \in W : \A y \in W : w <= y
      <4> HIDE DEF W
      <4> QED
        BY <3>1, LeastInteger
    <3>3. \E m \in T : \A d \in D : d[k] <= m
      <4>1. PICK c \in D : w = -c[k]
        OBVIOUS
      <4>2. \A d \in D : -d[k] \in W
        OBVIOUS
      <4>3. c[k] \in T
        OBVIOUS
      <4> HIDE DEF T, W
      <4>4. \A d \in D : d[k] <= c[k]
        BY <1>1, <3>2, <4>1, <4>2
      <4> QED
        BY <4>3, <4>4
    <3>4. Upper(D, k) = CHOOSE m \in T : \A d \in D : d[k] <= m
      BY <2>2 DEF Upper
    <3>5. Upper(D, k) \in T /\ \A d \in D : d[k] <= Upper(D, k)
      <4> HIDE DEF T
      <4> QED
        BY <3>3, <3>4, Zenon
    <3> QED
      BY <1>1, <3>5
  <2> QED
    BY <2>1, <2>2
<1>4. Lower(D, k) <= Upper(D, k)
  BY <1>1, <1>2, <1>3
<1> QED
  BY <1>2, <1>3, <1>4

LEMMA TypesOfEnds ==
  ASSUME NEW a \in BOOLEAN, NEW b \in BOOLEAN
  PROVE  /\ TypeOf(a, b) \in Types
         /\ ReversedType(TypeOf(a, b)) = TypeOf(b, a)
<1>1. CASE a /\ b
  <2>1. TypeOf(a, b) = "W2W" /\ TypeOf(b, a) = "W2W"
    BY <1>1 DEF TypeOf
  <2> QED BY <2>1 DEF Types, ReversedType
<1>2. CASE a /\ ~b
  <2>1. TypeOf(a, b) = "W2R" /\ TypeOf(b, a) = "R2W"
    BY <1>2 DEF TypeOf
  <2> QED BY <2>1 DEF Types, ReversedType
<1>3. CASE ~a /\ b
  <2>1. TypeOf(a, b) = "R2W" /\ TypeOf(b, a) = "W2R"
    BY <1>3 DEF TypeOf
  <2> QED BY <2>1 DEF Types, ReversedType
<1>4. CASE ~a /\ ~b
  <2>1. TypeOf(a, b) = "R2R" /\ TypeOf(b, a) = "R2R"
    BY <1>4 DEF TypeOf
  <2> QED BY <2>1 DEF Types, ReversedType
<1> QED BY <1>1, <1>2, <1>3, <1>4

\* The second look at a bound leaves every distance between the two.
LEMMA TightBoundsHold ==
  ASSUME InputOK, top.r \in SUBSET R, top.r # {}, NEW k \in Dims
  PROVE  /\ TightLower(k) \in Int /\ TightUpper(k) \in Int
         /\ \A d \in top.r : TightLower(k) <= d[k] /\ d[k] <= TightUpper(k)
         /\ TightLower(k) <= TightUpper(k)
<1> DEFINE D == top.r
           lb == Lower(D, k)
           ub == Upper(D, k)
           low == IF lb = -Infinity /\ ub = Infinity /\ \A d \in D : d[k] >= 0 THEN 0 ELSE lb
           up == IF lb = -Infinity /\ ub = Infinity /\ \A d \in D : d[k] <= 0 THEN 0 ELSE ub
<1>1. /\ lb \in Int /\ ub \in Int
      /\ \A d \in D : lb <= d[k] /\ d[k] <= ub
  BY BoundsHold
<1>2. \A d \in D : d[k] \in Int
  BY RelationsAssumption DEF InputOK
<1>3. /\ TightLower(k) = IF low = 0 /\ \A d \in D : d[k] # 0 THEN 1 ELSE low
      /\ TightUpper(k) = IF up = 0 /\ \A d \in D : d[k] # 0 THEN -1 ELSE up
  BY DEF TightLower, TightUpper
<1> HIDE DEF lb, ub
<1>4. /\ low \in Int /\ up \in Int
      /\ \A d \in D : low <= d[k] /\ d[k] <= up
  BY <1>1, <1>2
<1> HIDE DEF D, low, up
<1>5. /\ TightLower(k) \in Int /\ TightUpper(k) \in Int
      /\ \A d \in D : TightLower(k) <= d[k] /\ d[k] <= TightUpper(k)
  BY <1>2, <1>3, <1>4
<1>6. PICK d \in D : TRUE
  BY DEF D
<1>7. TightLower(k) <= TightUpper(k)
  BY <1>2, <1>5, <1>6
<1> QED
  BY <1>5, <1>7 DEF D

-----------------------------------------------------------------------------
(* The worklist.                                                           *)

\* The distances r that are left of the top element, the direction and the
\* bounds in dimension k fit together: the bounds hold of r, and a direction
\* that is chosen now is that of all distances within them.
Fits(k, r, dir, lb, ub) ==
  /\ k \in Dims /\ k = top.level /\ r \subseteq top.r
  /\ dir \in {-1, 0, 1} /\ top.dir \in {0, dir}
  /\ lb \in Int /\ ub \in Int /\ lb <= ub
  /\ dir = 0 => lb = 0 /\ ub = 0
  /\ top.dir = 0 /\ dir = 1 => lb > 0
  /\ top.dir = 0 /\ dir = -1 => ub < 0
  /\ \A d \in r : lb <= d[k] /\ d[k] <= ub

\* The top element with one dimension more is one the worklist may hold.
LEMMA DeeperIsElement ==
  ASSUME NDim \in Nat, R \subseteq [Dims -> Int], top \in Elements(R),
         NEW k, NEW r, NEW dir, NEW lb, NEW ub, Fits(k, r, dir, lb, ub)
  PROVE  Deeper(k, r, dir, lb, ub) \in Elements(R) /\ Deeper(k, r, dir, lb, ub).r = r
<1> USE DEF Fits
<1> DEFINE low == IF dir = -1 THEN -ub ELSE lb
           up == IF dir = -1 THEN -lb ELSE ub
           lbs == [top.lb EXCEPT ![k] = low]
           ubs == [top.ub EXCEPT ![k] = up]
           new == Deeper(k, r, dir, lb, ub)
<1>1. new = [r |-> r, level |-> k+1, dir |-> dir, lb |-> lbs, ub |-> ubs]
  BY DEF Deeper, Level
<1>2. /\ top.lb \in Bounds(NDim) /\ top.ub \in Bounds(NDim)
      /\ top.r \subseteq R
      /\ \A h \in Dims : top.lb[h] <= top.ub[h]
      /\ top.dir = 0 => top.lb = Zeros /\ top.ub = Zeros
      /\ top.dir # 0 => Leads(top.lb, top.ub, k)
      /\ \A d \in top.r, h \in 0 .. k-1 :
           top.lb[h] <= Facing(top.dir, d)[h] /\ Facing(top.dir, d)[h] <= top.ub[h]
  BY DEF Elements
<1>3. low \in Int /\ up \in Int /\ low <= up
  OBVIOUS
<1>4. /\ lbs \in Bounds(NDim) /\ ubs \in Bounds(NDim)
      /\ lbs[k] = low /\ ubs[k] = up
      /\ \A h \in Dims : h # k => lbs[h] = top.lb[h] /\ ubs[h] = top.ub[h]
  BY <1>2, <1>3 DEF Bounds, Dims
<1>5. \A d \in R : /\ d \in [Dims -> Int] /\ Negated(d) \in [Dims -> Int]
                     /\ \A h \in Dims : Negated(d)[h] = -d[h]
  BY DEF Negated
<1>6. \A h \in 0 .. k-1 : h \in Dims /\ h # k
  BY DEF Dims
<1> HIDE DEF lbs, ubs
<1>7. \A h \in Dims : lbs[h] <= ubs[h]
  BY <1>2, <1>3, <1>4
<1>8. ASSUME dir = 0 PROVE lbs = Zeros /\ ubs = Zeros
  <2>1. \A h \in Dims : lbs[h] = 0 /\ ubs[h] = 0
    BY <1>2, <1>4, <1>8 DEF Zeros
  <2> QED
    BY <1>4, <2>1 DEF Zeros, Bounds, Dims
<1>9. ASSUME dir # 0 PROVE Leads(lbs, ubs, k+1)
  <2>1. CASE top.dir = 0
    <3>1. lbs[k] > 0 /\ \A h \in Before(k) : lbs[h] = 0 /\ ubs[h] = 0
      BY <1>2, <1>4, <1>6, <1>9, <2>1 DEF Before, Zeros
    <3>2. k \in 0 .. (k+1)-1
      BY DEF Dims
    <3> QED
      BY <3>1, <3>2 DEF Leads
  <2>2. CASE top.dir # 0
    <3>1. PICK j \in 0 .. k-1 : top.lb[j] > 0 /\ \A h \in Before(j) : top.lb[h] = 0 /\ top.ub[h] = 0
      BY <1>2, <2>2 DEF Leads
    <3>2. lbs[j] > 0 /\ \A h \in Before(j) : lbs[h] = 0 /\ ubs[h] = 0
      <4>1. \A h \in Before(j) : h \in 0 .. k-1
        BY DEF Before, Dims
      <4> QED
        BY <1>4, <1>6, <3>1, <4>1
    <3>3. j \in 0 .. (k+1)-1
      BY DEF Dims
    <3> QED
      BY <3>2, <3>3 DEF Leads
  <2> QED
    BY <2>1, <2>2
<1>10. ASSUME NEW d \in r, NEW h \in 0 .. (k+1)-1
       PROVE  lbs[h] <= Facing(dir, d)[h] /\ Facing(dir, d)[h] <= ubs[h]
  <2>1. d \in R /\ d[k] \in Int /\ lb <= d[k] /\ d[k] <= ub
    BY <1>2, <1>5
  <2>2. CASE h = k
    <3>1. CASE dir = -1
      BY <1>4, <1>5, <2>1, <2>2, <3>1 DEF Facing
    <3>2. CASE dir # -1
      BY <1>4, <1>5, <2>1, <2>2, <3>2 DEF Facing
    <3> QED
      BY <3>1, <3>2
  <2>3. CASE h # k
    <3>1. h \in 0 .. k-1 /\ h \in Dims
      BY <2>3 DEF Dims
    <3>2. top.lb[h] <= Facing(top.dir, d)[h] /\ Facing(top.dir, d)[h] <= top.ub[h]
      BY <1>2, <3>1
    <3>3. lbs[h] = top.lb[h] /\ ubs[h] = top.ub[h]
      BY <1>4, <2>3, <3>1
    <3>4. CASE top.dir = dir
      BY <3>2, <3>3, <3>4
    <3>5. CASE top.dir = 0
      <4>1. top.lb[h] = 0 /\ top.ub[h] = 0
        BY <1>2, <3>1, <3>5 DEF Zeros
      <4>2. d[h] \in Int /\ Negated(d)[h] = -d[h]
        BY <1>5, <2>1, <3>1
      <4>3. d[h] = 0
        BY <3>2, <3>5, <4>1, <4>2 DEF Facing
      <4> QED
        BY <3>3, <4>1, <4>2, <4>3 DEF Facing
    <3> QED
      BY <3>4, <3>5
  <2> QED
    BY <2>2, <2>3
<1>11. k+1 \in 0 .. NDim /\ r \in SUBSET R
  BY <1>2 DEF Dims
<1>12. new \in Elements(R)
  <2> HIDE DEF new
  <2>1. /\ new \in [r : SUBSET R, level : 0 .. NDim, dir : {-1, 0, 1},
                    lb : Bounds(NDim), ub : Bounds(NDim)]
        /\ new.r = r /\ new.level = k+1 /\ new.dir = dir /\ new.lb = lbs /\ new.ub = ubs
    BY <1>1, <1>4, <1>11
  <2> QED
    BY <2>1, <1>7, <1>8, <1>9, <1>10 DEF Elements
<1> QED
  BY <1>1, <1>12

LEMMA WritesKnown ==
  ASSUME InputOK
  PROVE  writes[1] \in BOOLEAN /\ writes[2] \in BOOLEAN
<1>1. CASE writes = <<TRUE, TRUE>>
  BY <1>1
<1>2. CASE writes = <<TRUE, FALSE>>
  BY <1>2
<1>3. CASE writes = <<FALSE, TRUE>>
  BY <1>3
<1> QED
  BY <1>1, <1>2, <1>3 DEF InputOK

\* A finished element gives a vector that its distances lie within.
LEMMA RecordedVector ==
  ASSUME InputOK, top \in Elements(R), top.level = NDim, top.r # {}
  PROVE  /\ Vector(top) \in Vectors(IF top.dir = -1 THEN -1 ELSE 1, R, writes)
         /\ \A d \in top.r : HasDistance(Vector(top), Facing(top.dir, d))
<1> DEFINE dv == Vector(top)
           dir == IF top.dir = -1 THEN -1 ELSE 1
<1>1. /\ dv.lb = top.lb /\ dv.ub = top.ub /\ dv.quasi = FALSE
      /\ dv.type = IF top.dir = -1 THEN TypeOf(writes[2], writes[1]) ELSE TypeOf(writes[1], writes[2])
      /\ dv = [type |-> dv.type, lb |-> dv.lb, ub |-> dv.ub, quasi |-> dv.quasi]
  BY DEF Vector
<1>2. dv.type \in Types
  <2>1. writes[1] \in BOOLEAN /\ writes[2] \in BOOLEAN
    BY WritesKnown
  <2>2. TypeOf(writes[1], writes[2]) \in Types /\ TypeOf(writes[2], writes[1]) \in Types
    BY <2>1, TypesOfEnds
  <2> HIDE DEF dv
  <2> QED
    BY <1>1, <2>2
<1> HIDE DEF dv
<1>3. /\ top.lb \in Bounds(NDim) /\ top.ub \in Bounds(NDim) /\ top.r \subseteq R
      /\ top.dir \in {-1, 0, 1}
      /\ \A h \in Dims : top.lb[h] <= top.ub[h]
      /\ top.dir = 0 => top.lb = Zeros /\ top.ub = Zeros
      /\ top.dir # 0 => Leads(top.lb, top.ub, NDim)
      /\ \A d \in top.r, h \in 0 .. NDim-1 :
           top.lb[h] <= Facing(top.dir, d)[h] /\ Facing(top.dir, d)[h] <= top.ub[h]
  BY DEF Elements
<1>4. \A d \in top.r : HasDistance(dv, Facing(top.dir, d))
  <2>1. DOMAIN dv.lb = 0 .. NDim-1
    BY <1>1, <1>3 DEF Bounds
  <2> QED
    BY <1>1, <1>3, <2>1 DEF HasDistance
<1>5. \A d : Facing(dir, d) = Facing(top.dir, d)
  BY <1>3 DEF Facing
<1>6. \E d \in R : HasDistance(dv, Facing(dir, d))
  BY <1>3, <1>4, <1>5
<1>7. dv \in [type : Types, lb : Bounds(NDim), ub : Bounds(NDim), quasi : {FALSE}]
  BY <1>1, <1>2, <1>3
<1>8. /\ dv.type = IF dir = -1 THEN TypeOf(writes[2], writes[1]) ELSE TypeOf(writes[1], writes[2])
      /\ \A k \in Dims : dv.lb[k] <= dv.ub[k]
      /\ \/ Leads(dv.lb, dv.ub, NDim)
         \/ dir # -1 /\ dv.lb = Zeros /\ dv.ub = Zeros
  BY <1>1, <1>3
<1> HIDE DEF dir
<1>9. dv \in Vectors(dir, R, writes)
  BY <1>6, <1>7, <1>8 DEF Vectors
<1> QED
  BY <1>4, <1>9 DEF dv, dir

LEMMA VectorFacts ==
  ASSUME NEW dir, NEW rel, NEW w, NEW dv \in Vectors(dir, rel, w)
  PROVE  /\ dv \in [type : Types, lb : Bounds(NDim), ub : Bounds(NDim), quasi : {FALSE}]
         /\ dv.type = IF dir = -1 THEN TypeOf(w[2], w[1]) ELSE TypeOf(w[1], w[2])
         /\ \A k \in Dims : dv.lb[k] <= dv.ub[k]
         /\ \/ Leads(dv.lb, dv.ub, NDim)
            \/ dir # -1 /\ dv.lb = Zeros /\ dv.ub = Zeros
         /\ \E d \in rel : HasDistance(dv, Facing(dir, d))
BY Zenon DEF Vectors

LEMMA WithinBounds ==
  ASSUME NEW dv, dv.lb \in Bounds(NDim), NEW d, HasDistance(dv, d)
  PROVE  \A k \in Dims : dv.lb[k] <= d[k] /\ d[k] <= dv.ub[k]
<1>1. DOMAIN dv.lb = Dims
  BY DEF Bounds, Dims
<1> QED
  BY <1>1, Zenon DEF HasDistance

-----------------------------------------------------------------------------
(* The edges.                                                              *)

\* Common loops within which bounds, or a distance, begin with a positive
\* dimension after zeros, or are zero.
LEMMA SignOfLeading ==
  ASSUME NEW n \in Nat, NEW d, NEW k \in Nat, d[k] \in Int, d[k] # 0,
         \A h \in Before(k) : d[h] = 0
  PROVE  LexSign(d, n) = IF k < n THEN (IF d[k] > 0 THEN 1 ELSE -1) ELSE 0
<1>1. CASE k < n
  BY <1>1, SignOfFirst DEF Before
<1>2. CASE ~(k < n)
  BY <1>2 DEF LexSign, Before
<1> QED
  BY <1>1, <1>2

LEMMA SignOfZeros ==
  ASSUME NEW n \in Nat, NEW d, \A h \in 0 .. n-1 : d[h] = 0
  PROVE  LexSign(d, n) = 0
BY DEF LexSign

\* The edge of a vector in the direction of the text goes from i to j, and
\* stands for each distance within its bounds.
LEMMA ForwardEdge ==
  ASSUME InputOK, common # 0, NEW dv \in Vectors(1, R, writes)
  PROVE  /\ Valid(dv, TRUE)
         /\ \A d \in R : HasDistance(dv, d) => Stands(Edge("i", "j", dv), d)
         /\ Connected(Edge("i", "j", dv))
<1> DEFINE e == Edge("i", "j", dv)
<1>1. /\ common \in Nat /\ common <= NDim /\ NDim \in Nat
      /\ \A d \in R : \A k \in Dims : d[k] \in Int
  <2>1. R \subseteq [Dims -> Int] /\ common \in CommonLoops
    BY RelationsAssumption DEF InputOK
  <2> QED
    BY <2>1, NDimAssumption
<1>2. /\ dv.type = TypeOf(writes[1], writes[2]) /\ dv.type \in Types
      /\ dv.lb \in Bounds(NDim) /\ dv.ub \in Bounds(NDim) /\ dv.quasi = FALSE
      /\ \A k \in Dims : dv.lb[k] <= dv.ub[k]
      /\ Leads(dv.lb, dv.ub, NDim) \/ (dv.lb = Zeros /\ dv.ub = Zeros)
      /\ \E d \in R : HasDistance(dv, d)
  <2>1. \A d : Facing(1, d) = d
    BY DEF Facing
  <2>2. /\ dv \in [type : Types, lb : Bounds(NDim), ub : Bounds(NDim), quasi : {FALSE}]
        /\ dv.type = IF 1 = -1 THEN TypeOf(writes[2], writes[1]) ELSE TypeOf(writes[1], writes[2])
        /\ \A k \in Dims : dv.lb[k] <= dv.ub[k]
        /\ Leads(dv.lb, dv.ub, NDim) \/ (1 # -1 /\ dv.lb = Zeros /\ dv.ub = Zeros)
        /\ \E d \in R : HasDistance(dv, Facing(1, d))
    BY VectorFacts, Zenon
  <2>3. /\ dv.type \in Types /\ dv.quasi = FALSE
        /\ dv.lb \in Bounds(NDim) /\ dv.ub \in Bounds(NDim)
    BY <2>2
  <2>4. dv.type = TypeOf(writes[1], writes[2])
    BY <2>2
  <2>5. \E d \in R : HasDistance(dv, d)
    BY <2>1, <2>2, Zenon
  <2> QED
    BY <2>2, <2>3, <2>4, <2>5, Zenon
<1>3. /\ DOMAIN dv.lb = Dims /\ DOMAIN dv.ub = Dims
      /\ \A k \in Dims : dv.lb[k] \in Int /\ dv.ub[k] \in Int
  BY <1>2 DEF Bounds, Dims
<1>4. \A k \in 0 .. common-1 : k \in Dims
  BY <1>1 DEF Dims
<1>5. e.from = "i" /\ e.to = "j" /\ e.dv = dv
  BY DEF Edge
<1> HIDE DEF e
<1>6. /\ LexSign(dv.lb, common) >= 0
      /\ \A d \in R : HasDistance(dv, d) => IFirst(d)
      /\ PointsForward(e)
  <2>1. CASE Leads(dv.lb, dv.ub, NDim)
    <3>1. PICK k \in 0 .. NDim-1 : dv.lb[k] > 0 /\ \A h \in Before(k) : dv.lb[h] = 0 /\ dv.ub[h] = 0
      BY <2>1 DEF Leads
    <3>2. k \in Dims /\ k \in Nat /\ \A h \in Before(k) : h \in Dims
      BY <1>1 DEF Dims, Before
    <3>3. LexSign(dv.lb, common) >= 0
      BY <1>1, <1>3, <3>1, <3>2, SignOfLeading
    <3>4. ASSUME NEW d \in R, HasDistance(dv, d)
          PROVE  IFirst(d)
      <4>1. d[k] \in Int /\ d[k] > 0 /\ \A h \in Before(k) : d[h] = 0
        <5>1. \A h \in Dims : dv.lb[h] <= d[h] /\ d[h] <= dv.ub[h]
          BY <1>2, <3>4, WithinBounds
        <5>2. \A h \in Before(k) : h \in Dims
          BY <1>1 DEF Dims, Before
        <5>3. dv.lb[k] <= d[k] /\ d[k] \in Int /\ dv.lb[k] \in Int
          BY <1>1, <1>3, <3>2, <5>1
        <5>4. ASSUME NEW h \in Before(k)
              PROVE  d[h] = 0
          <6>1. dv.lb[h] <= d[h] /\ d[h] <= dv.ub[h] /\ d[h] \in Int
            BY <1>1, <5>1, <5>2
          <6> QED
            BY <3>1, <6>1
        <5> QED
          BY <3>1, <5>3, <5>4
      <4> QED
        BY <1>1, <3>2, <4>1, SignOfLeading DEF IFirst
    <3>5. PointsForward(e)
      <4>1. CASE k < common
        <5>1. k \in 0 .. common-1
          BY <1>1, <4>1
        <5> QED
          BY <1>2, <1>5, <3>1, <5>1 DEF PointsForward
      <4>2. CASE ~(k < common)
        <5>1. \A h \in 0 .. common-1 : dv.lb[h] = 0 /\ dv.ub[h] = 0
          BY <1>1, <3>1, <4>2 DEF Before
        <5> QED
          BY <1>2, <1>5, <5>1 DEF PointsForward
      <4> QED
        BY <4>1, <4>2
    <3> QED
      BY <3>3, <3>4, <3>5
  <2>2. CASE dv.lb = Zeros /\ dv.ub = Zeros
    <3>1. \A h \in 0 .. common-1 : dv.lb[h] = 0 /\ dv.ub[h] = 0
      BY <1>4, <2>2 DEF Zeros
    <3>2. ASSUME NEW d \in R, HasDistance(dv, d)
          PROVE  IFirst(d)
      <4>1. \A h \in 0 .. common-1 : d[h] = 0
        BY <1>1, <1>2, <1>4, <3>1, <3>2, WithinBounds
      <4> QED
        BY <1>1, <4>1, SignOfZeros DEF IFirst
    <3> QED
      BY <1>1, <1>2, <1>5, <3>1, <3>2, SignOfZeros DEF PointsForward
  <2> QED
    BY <1>2, <2>1, <2>2
<1>7. Valid(dv, TRUE)
  BY <1>6 DEF Valid, LexSign
<1>8. \A d \in R : HasDistance(dv, d) => Stands(e, d)
  BY <1>2, <1>5, <1>6 DEF Stands
<1>9. IsVector(e.dv)
  BY <1>2, <1>3, <1>5 DEF IsVector
<1>10. Connected(e)
  BY <1>2, <1>5, <1>6, <1>8, <1>9 DEF Connected
<1> QED
  BY <1>7, <1>8, <1>10 DEF e

\* Without a common loop an edge has the type of its vector, and that is all.
LEMMA UncommonEdge ==
  ASSUME common = 0, NEW dir, NEW dv \in Vectors(dir, R, writes),
         NEW a \in {"i", "j"}, NEW b \in {"i", "j"}
  PROVE  Connected(Edge(a, b, dv))
<1> DEFINE e == Edge(a, b, dv)
<1>1. /\ dv \in [type : Types, lb : Bounds(NDim), ub : Bounds(NDim), quasi : {FALSE}]
      /\ \A k \in Dims : dv.lb[k] <= dv.ub[k]
  BY VectorFacts, Zenon
<1>2. IsVector(dv)
  BY <1>1 DEF IsVector, Bounds, Dims
<1>3. e.from = a /\ e.to = b /\ e.dv = dv
  BY DEF Edge
<1> HIDE DEF e
<1>4. Connected(e)
  BY <1>1, <1>2, <1>3 DEF Connected
<1> QED
  BY <1>4 DEF e

\* A vector against the text gives an edge from j to i where a common loop
\* carries it, and otherwise one from i to j with the opposite distances.
LEMMA BackwardEdge ==
  ASSUME InputOK, common # 0, NEW dv \in Vectors(-1, R, writes)
  PROVE  LET e == IF Valid(dv, FALSE) THEN Edge("j", "i", dv) ELSE Edge("i", "j", Reversed(dv))
         IN  /\ \A d \in R : HasDistance(dv, Negated(d)) => Stands(e, d)
             /\ Connected(e)
<1>1. /\ common \in Nat /\ common <= NDim /\ NDim \in Nat
      /\ \A d \in R : /\ \A k \in Dims : d[k] \in Int
                      /\ Negated(d) = [k \in Dims |-> -d[k]]
  <2>1. R \subseteq [Dims -> Int] /\ common \in CommonLoops
    BY RelationsAssumption DEF InputOK
  <2> QED
    BY <2>1, NDimAssumption DEF Negated
<1>2. /\ dv.type = TypeOf(writes[2], writes[1]) /\ dv.type \in Types
      /\ dv.lb \in Bounds(NDim) /\ dv.ub \in Bounds(NDim) /\ dv.quasi = FALSE
      /\ \A k \in Dims : dv.lb[k] <= dv.ub[k]
      /\ Leads(dv.lb, dv.ub, NDim)
      /\ \E d \in R : HasDistance(dv, Negated(d))
      /\ dv \in [type : Types, lb : Bounds(NDim), ub : Bounds(NDim), quasi : {FALSE}]
  <2>1. \A d : Facing(-1, d) = Negated(d)
    BY DEF Facing
  <2>2. /\ dv \in [type : Types, lb : Bounds(NDim), ub : Bounds(NDim), quasi : {FALSE}]
        /\ dv.type = IF -1 = -1 THEN TypeOf(writes[2], writes[1]) ELSE TypeOf(writes[1], writes[2])
        /\ \A k \in Dims : dv.lb[k] <= dv.ub[k]
        /\ Leads(dv.lb, dv.ub, NDim) \/ (-1 # -1 /\ dv.lb = Zeros /\ dv.ub = Zeros)
        /\ \E d \in R : HasDistance(dv, Facing(-1, d))
    BY VectorFacts, Zenon
  <2>3. /\ dv.type \in Types /\ dv.quasi = FALSE
        /\ dv.lb \in Bounds(NDim) /\ dv.ub \in Bounds(NDim)
    BY <2>2
  <2>4. dv.type = TypeOf(writes[2], writes[1])
    BY <2>2
  <2>5. \E d \in R : HasDistance(dv, Negated(d))
    BY <2>1, <2>2, Zenon
  <2> QED
    BY <2>2, <2>3, <2>4, <2>5, Zenon
<1>3. /\ DOMAIN dv.lb = Dims /\ DOMAIN dv.ub = Dims
      /\ \A k \in Dims : dv.lb[k] \in Int /\ dv.ub[k] \in Int
  BY <1>2 DEF Bounds, Dims
<1>4. PICK k \in 0 .. NDim-1 : dv.lb[k] > 0 /\ \A h \in Before(k) : dv.lb[h] = 0 /\ dv.ub[h] = 0
  BY <1>2 DEF Leads
<1>5. k \in Dims /\ k \in Nat /\ \A h \in Before(k) : h \in Dims
  BY <1>1 DEF Dims, Before
<1>6. LexSign(dv.lb, common) = IF k < common THEN 1 ELSE 0
  BY <1>1, <1>3, <1>4, <1>5, SignOfLeading
<1>7. ASSUME NEW d \in R, HasDistance(dv, Negated(d))
      PROVE  /\ \A h \in Dims : dv.lb[h] <= -d[h] /\ -d[h] <= dv.ub[h]
             /\ d[k] < 0
             /\ LexSign(d, common) = IF k < common THEN -1 ELSE 0
  <2>1. \A h \in Dims : dv.lb[h] <= Negated(d)[h] /\ Negated(d)[h] <= dv.ub[h]
    BY <1>2, <1>7, WithinBounds
  <2>2. \A h \in Dims : dv.lb[h] <= -d[h] /\ -d[h] <= dv.ub[h] /\ d[h] \in Int
    BY <1>1, <2>1
  <2>3. d[k] < 0
    BY <1>3, <1>4, <1>5, <2>2
  <2>4. ASSUME NEW h \in Before(k)
        PROVE  d[h] = 0
    <3>1. dv.lb[h] <= -d[h] /\ -d[h] <= dv.ub[h] /\ d[h] \in Int
      BY <1>5, <2>2
    <3> QED
      BY <1>4, <3>1
  <2>5. LexSign(d, common) = IF k < common THEN -1 ELSE 0
    BY <1>1, <1>5, <2>2, <2>3, <2>4, SignOfLeading
  <2> QED
    BY <2>2, <2>3, <2>5
<1>8. CASE k < common
  <2> DEFINE e == Edge("j", "i", dv)
  <2>1. Valid(dv, FALSE)
    BY <1>6, <1>8 DEF Valid
  <2>2. e.from = "j" /\ e.to = "i" /\ e.dv = dv
    BY DEF Edge
  <2> HIDE DEF e
  <2>3. \A d \in R : HasDistance(dv, Negated(d)) => Stands(e, d)
    BY <1>2, <1>7, <1>8, <2>2 DEF Stands, IFirst
  <2>4. PointsForward(e)
    <3>1. k \in 0 .. common-1
      BY <1>1, <1>8
    <3> QED
      BY <1>2, <1>4, <2>2, <3>1 DEF PointsForward
  <2>5. IsVector(e.dv)
    BY <1>2, <1>3, <2>2 DEF IsVector
  <2>6. Connected(e)
    BY <1>2, <2>2, <2>3, <2>4, <2>5 DEF Connected
  <2> QED
    BY <2>1, <2>3, <2>6 DEF e
<1>9. CASE ~(k < common)
  <2>1. ~Valid(dv, FALSE)
    BY <1>1, <1>6, <1>9 DEF Valid
  <2>2. PICK rv : /\ rv = Reversed(dv)
                  /\ rv.type = TypeOf(writes[1], writes[2])
                  /\ rv.lb = [h \in Dims |-> -dv.ub[h]] /\ rv.ub = [h \in Dims |-> -dv.lb[h]]
                  /\ rv.quasi = TRUE
    <3>1. /\ Reversed(dv).type = ReversedType(dv.type)
          /\ Reversed(dv).lb = Negated(dv.ub) /\ Reversed(dv).ub = Negated(dv.lb)
          /\ Reversed(dv).quasi = TRUE
      BY <1>2 DEF Reversed
    <3>2. ReversedType(TypeOf(writes[2], writes[1])) = TypeOf(writes[1], writes[2])
      BY WritesKnown, TypesOfEnds
    <3>3. Negated(dv.ub) = [h \in Dims |-> -dv.ub[h]] /\ Negated(dv.lb) = [h \in Dims |-> -dv.lb[h]]
      BY <1>3 DEF Negated
    <3> QED
      BY <1>2, <3>1, <3>2, <3>3, Zenon
  <2>3. TypeOf(writes[1], writes[2]) \in Types
    BY WritesKnown, TypesOfEnds
  <2> DEFINE e == Edge("i", "j", rv)
  <2>4. e.from = "i" /\ e.to = "j" /\ e.dv = rv
    BY DEF Edge
  <2> HIDE DEF e
  <2>5. \A h \in Dims : /\ rv.lb[h] = -dv.ub[h] /\ rv.ub[h] = -dv.lb[h]
                        /\ rv.lb[h] \in Int /\ rv.ub[h] \in Int /\ rv.lb[h] <= rv.ub[h]
    BY <1>2, <1>3, <2>2
  <2>6. ASSUME NEW d \in R, HasDistance(dv, Negated(d))
        PROVE  Stands(e, d)
    <3>1. HasDistance(rv, d)
      <4>1. \A h \in Dims : rv.lb[h] <= d[h] /\ d[h] <= rv.ub[h]
        BY <1>1, <1>3, <1>7, <2>5, <2>6
      <4>2. DOMAIN rv.lb = Dims
        BY <2>2
      <4> QED
        BY <4>1, <4>2 DEF HasDistance
    <3>2. IFirst(d)
      BY <1>7, <1>9, <2>6 DEF IFirst
    <3> QED
      BY <2>2, <2>4, <3>1, <3>2 DEF Stands
  <2>7. PointsForward(e)
    <3>1. \A h \in 0 .. common-1 : rv.lb[h] = 0 /\ rv.ub[h] = 0
      BY <1>1, <1>4, <1>5, <1>9, <2>5 DEF Before
    <3>2. common < NDim
      BY <1>1, <1>9
    <3> QED
      BY <2>4, <3>1, <3>2 DEF PointsForward
  <2>8. IsVector(e.dv)
    BY <2>2, <2>3, <2>4, <2>5 DEF IsVector
  <2>9. Connected(e)
    BY <1>2, <2>4, <2>5, <2>6, <2>7, <2>8 DEF Connected
  <2> QED
    BY <2>1, <2>2, <2>6, <2>9 DEF e
<1> QED
  BY <1>8, <1>9

-----------------------------------------------------------------------------
(* The invariant is inductive.                                             *)

LEMMA InitIInv == Init => IInv
<1> SUFFICES ASSUME Init PROVE IInv
  OBVIOUS
<1>1. InputOK /\ pc = "split" /\ dependences1 = <<>> /\ dependences2 = <<>> /\ edges = {}
  BY DEF Init, InputOK
<1>2. NDim \in Nat
  BY NDimAssumption
<1> DEFINE l == Level(R, 0, 0, Zeros, Zeros)
<1>3. l = [r |-> R, level |-> 0, dir |-> 0, lb |-> Zeros, ub |-> Zeros] /\ working = <<l>>
  BY DEF Init, Level
<1>4. Zeros \in Bounds(NDim) /\ \A k \in Dims : Zeros[k] = 0
  BY DEF Zeros, Bounds, Dims
<1> HIDE DEF l
<1>5. l \in Elements(R)
  <2>1. /\ l \in [r : SUBSET R, level : 0 .. NDim, dir : {-1, 0, 1}, lb : Bounds(NDim), ub : Bounds(NDim)]
        /\ l.level = 0 /\ l.dir = 0 /\ l.lb = Zeros /\ l.ub = Zeros
    BY <1>2, <1>3, <1>4
  <2> QED
    BY <1>4, <2>1 DEF Elements
<1>6. working \in Seq(Elements(R)) /\ Range(working) = {l}
  <2>1. working \in Seq(Elements(R)) /\ Len(working) = 1 /\ working[1] = l
    BY <1>3, <1>5
  <2>2. Range(working) = {working[i] : i \in 1 .. Len(working)}
    BY <2>1, RangeEquality
  <2> QED
    BY <2>1, <2>2
<1>7. \A d \in Required : Kept(d)
  <2>1. \A d \in Required : d \in l.r
    BY <1>3 DEF Required
  <2> QED
    BY <1>6, <2>1 DEF Kept
<1> QED
  BY <1>1, <1>6, <1>7, EmptySeq DEF IInv

\* What the input decides stays as it is.
LEMMA InputKept ==
  ASSUME UNCHANGED input
  PROVE  /\ R' = R /\ writes' = writes /\ common' = common
         /\ InputOK => InputOK'
         /\ Required' = Required
         /\ \A e, d : Stands(e, d) => Stands(e, d)'
         /\ \A e : Connected(e) => Connected(e)'
<1>1. R' = R /\ open' = open /\ common' = common /\ pair' = pair /\ writes' = writes
  BY DEF input
<1>2. \A e, d : Stands(e, d)' <=> Stands(e, d)
  BY <1>1, Zenon DEF Stands, IFirst
<1>3. \A e : PointsForward(e)' <=> PointsForward(e)
  BY <1>1, Zenon DEF PointsForward
<1>4. \A e : Connected(e) => Connected(e)'
  BY <1>1, <1>2, <1>3, Zenon DEF Connected
<1>5. InputOK => InputOK'
  BY <1>1, Zenon DEF InputOK
<1>6. Required' = Required
  BY <1>1 DEF Required
<1> QED
  BY <1>1, <1>2, <1>4, <1>5, <1>6

\* The part of the worklist below its top.
LEMMA Below ==
  ASSUME IInv, Working
  PROVE  /\ rest \in Seq(Elements(R)) /\ top \in Elements(R)
         /\ Range(working) = Range(rest) \union {top}
BY RangeOfFront DEF IInv, Working, rest, top

\* A step of the worklist keeps the invariant if it puts elements in place of
\* the top that hold the distances that were in it.
LEMMA WorklistStep ==
  ASSUME IInv, Working, UNCHANGED <<input, pc, dependences1, dependences2, edges>>,
         working' \in Seq(Elements(R)), Range(rest) \subseteq Range(working'),
         \A d \in Required : d \in top.r => \E l \in Range(working') : d \in l.r
  PROVE  IInv'
<1>1. /\ R' = R /\ writes' = writes /\ common' = common /\ InputOK' /\ Required' = Required
      /\ \A e, d : Stands(e, d) => Stands(e, d)'
      /\ \A e : Connected(e) => Connected(e)'
  BY InputKept DEF IInv
<1>2. ASSUME common # 0 PROVE \A d \in Required : Kept(d)'
  <2> SUFFICES ASSUME NEW d \in Required PROVE Kept(d)'
    OBVIOUS
  <2>1. CASE \E l \in Range(working) : d \in l.r
    <3>1. \E l \in Range(working') : d \in l.r
      BY <2>1, Below
    <3> QED
      BY <3>1 DEF Kept
  <2>2. CASE \E dv \in Range(dependences1) : HasDistance(dv, d)
    BY <2>2 DEF Kept
  <2>3. CASE \E dv \in Range(dependences2) : HasDistance(dv, Negated(d))
    BY <2>3 DEF Kept
  <2>4. CASE \E e \in edges : Stands(e, d)
    BY <1>1, <2>4 DEF Kept
  <2>5. Kept(d)
    BY <1>2 DEF IInv
  <2> QED
    BY <2>1, <2>2, <2>3, <2>4, <2>5 DEF Kept
<1> QED
  BY <1>1, <1>2 DEF IInv, Working

\* One element in place of the top.
LEMMA OneElement ==
  ASSUME IInv, Working, UNCHANGED <<input, pc, dependences1, dependences2, edges>>,
         NEW l \in Elements(R), l.r = top.r, working' = Append(rest, l)
  PROVE  IInv'
<1>1. working' \in Seq(Elements(R)) /\ Range(working') = Range(rest) \union {l}
  BY Below, RangeOfAppend
<1> QED
  BY <1>1, WorklistStep

\* What the invariant says of the top element.
LEMMA TopFacts ==
  ASSUME IInv, Working
  PROVE  /\ InputOK /\ NDim \in Nat /\ R \subseteq [Dims -> Int]
         /\ top.r \subseteq R /\ top.level \in 0 .. NDim /\ top.dir \in {-1, 0, 1}
         /\ top.dir = 0 => \A d \in top.r, h \in 0 .. top.level-1 : d[h] = 0
<1>1. InputOK /\ NDim \in Nat /\ R \subseteq [Dims -> Int]
  BY NDimAssumption, RelationsAssumption DEF IInv, InputOK
<1>2. top \in Elements(R)
  BY Below
<1>3. /\ top.r \subseteq R /\ top.level \in 0 .. NDim /\ top.dir \in {-1, 0, 1}
      /\ top.dir = 0 => top.lb = Zeros /\ top.ub = Zeros
      /\ \A d \in top.r, h \in 0 .. top.level-1 :
           top.lb[h] <= Facing(top.dir, d)[h] /\ Facing(top.dir, d)[h] <= top.ub[h]
  BY <1>2 DEF Elements
<1>4. ASSUME top.dir = 0, NEW d \in top.r, NEW h \in 0 .. top.level-1
      PROVE  d[h] = 0
  <2>1. Zeros[h] = 0 /\ d[h] \in Int
    BY <1>1, <1>3 DEF Zeros, Dims
  <2>2. Zeros[h] <= d[h] /\ d[h] <= Zeros[h]
    BY <1>3, <1>4 DEF Facing
  <2> QED
    BY <2>1, <2>2
<1> QED
  BY <1>1, <1>3, <1>4

LEMMA DropIInv == IInv /\ Drop => IInv'
<1> SUFFICES ASSUME IInv, Drop PROVE IInv'
  OBVIOUS
<1>1. Working /\ working' = rest /\ UNCHANGED <<input, pc, dependences1, dependences2, edges>>
  BY DEF Drop
<1>2. ASSUME NEW d \in Required, d \in top.r
      PROVE  FALSE
  <2>1. top.level = NDim /\ top.dir = 0 /\ pair = "same ref"
    BY <1>2 DEF Drop
  <2>2. LexSign(d, NDim) = 0
    BY <1>1, <1>2, <2>1, TopFacts, SignOfZeros
  <2>3. ~(LexSign(d, NDim) > 0)
    BY <2>2
  <2> QED
    BY <2>1, <2>3, Zenon DEF Required
<1>3. rest \in Seq(Elements(R))
  BY <1>1, Below
<1> QED
  BY <1>1, <1>2, <1>3, WorklistStep

LEMMA DirectIInv ==
  ASSUME IInv, NEW k \in Dims, Direct(k)
  PROVE  IInv'
<1>1. /\ Working /\ UNCHANGED <<input, pc, dependences1, dependences2, edges>>
      /\ top.r # {} /\ top.level = k /\ top.dir = 0
  BY DEF Direct, Descend
<1> DEFINE lb == Lower(top.r, k)
           ub == Upper(top.r, k)
<1>2. /\ lb \in Int /\ ub \in Int /\ lb <= ub
      /\ \A d \in top.r : lb <= d[k] /\ d[k] <= ub
  BY <1>1, TopFacts, BoundsHold
<1>3. \/ lb > 0 /\ working' = Append(rest, Deeper(k, top.r, 1, lb, ub))
      \/ ub < 0 /\ working' = Append(rest, Deeper(k, top.r, -1, lb, ub))
  BY DEF Direct
<1> HIDE DEF lb, ub
<1>4. top \in Elements(R) /\ NDim \in Nat /\ R \subseteq [Dims -> Int]
  BY <1>1, TopFacts, Below
<1>5. CASE lb > 0 /\ working' = Append(rest, Deeper(k, top.r, 1, lb, ub))
  <2>1. Deeper(k, top.r, 1, lb, ub) \in Elements(R) /\ Deeper(k, top.r, 1, lb, ub).r = top.r
    <3>1. Fits(k, top.r, 1, lb, ub)
      BY <1>1, <1>2, <1>4, <1>5 DEF Fits
    <3> QED
      BY <1>1, <1>2, <1>4, <3>1, DeeperIsElement
  <2> QED
    BY <1>1, <1>5, <2>1, OneElement
<1>6. CASE ub < 0 /\ working' = Append(rest, Deeper(k, top.r, -1, lb, ub))
  <2>1. Deeper(k, top.r, -1, lb, ub) \in Elements(R) /\ Deeper(k, top.r, -1, lb, ub).r = top.r
    <3>1. Fits(k, top.r, -1, lb, ub)
      BY <1>1, <1>2, <1>4, <1>6 DEF Fits
    <3> QED
      BY <1>1, <1>2, <1>4, <3>1, DeeperIsElement
  <2> QED
    BY <1>1, <1>6, <2>1, OneElement
<1> QED
  BY <1>3, <1>5, <1>6

LEMMA FollowIInv ==
  ASSUME IInv, NEW k \in Dims, Follow(k)
  PROVE  IInv'
<1> DEFINE l == Deeper(k, top.r, top.dir, TightLower(k), TightUpper(k))
<1>1. /\ Working /\ UNCHANGED <<input, pc, dependences1, dependences2, edges>>
      /\ top.r # {} /\ k = top.level /\ top.dir # 0
      /\ working' = Append(rest, l)
  BY DEF Follow, Descend
<1>2. /\ TightLower(k) \in Int /\ TightUpper(k) \in Int /\ TightLower(k) <= TightUpper(k)
      /\ \A d \in top.r : TightLower(k) <= d[k] /\ d[k] <= TightUpper(k)
  BY <1>1, TopFacts, TightBoundsHold
<1>3. top \in Elements(R) /\ NDim \in Nat /\ R \subseteq [Dims -> Int] /\ top.dir \in {-1, 0, 1}
  BY <1>1, TopFacts, Below
<1>4. l \in Elements(R) /\ l.r = top.r
  <2>1. Fits(k, top.r, top.dir, TightLower(k), TightUpper(k))
    BY <1>1, <1>2, <1>3 DEF Fits
  <2> QED
    BY <1>1, <1>2, <1>3, <2>1, DeeperIsElement
<1> HIDE DEF l
<1> QED
  BY <1>1, <1>4, OneElement

LEMMA RangeOfOne ==
  ASSUME NEW S, NEW x \in S
  PROVE  <<x>> \in Seq(S) /\ Range(<<x>>) = {x}
<1> DEFINE q == <<x>>
<1>1. q \in Seq(S) /\ Len(q) = 1 /\ q[1] = x
  OBVIOUS
<1>2. Range(q) = {q[i] : i \in 1 .. Len(q)}
  BY <1>1, RangeEquality
<1> HIDE DEF q
<1>3. Range(q) = {x}
  BY <1>1, <1>2
<1> QED
  BY <1>1, <1>3 DEF q

LEMMA SplitIInv ==
  ASSUME IInv, NEW k \in Dims, Split(k)
  PROVE  IInv'
<1>1. /\ Working /\ UNCHANGED <<input, pc, dependences1, dependences2, edges>>
      /\ top.r # {} /\ k = top.level /\ top.dir = 0
      /\ working' = rest \o ZeroPart(k) \o NegativePart(k) \o PositivePart(k)
  BY DEF Split, Descend
<1>2. /\ top \in Elements(R) /\ NDim \in Nat /\ R \subseteq [Dims -> Int] /\ InputOK
      /\ top.r \in SUBSET R
      /\ rest \in Seq(Elements(R))
  BY <1>1, TopFacts, Below
<1>3. /\ \A d \in top.r : d[k] \in Int /\ Lower(top.r, k) <= d[k] /\ d[k] <= Upper(top.r, k)
      /\ Lower(top.r, k) \in Int /\ Upper(top.r, k) \in Int
  BY <1>1, <1>2, BoundsHold
<1>4. /\ ZeroPart(k) \in Seq(Elements(R))
      /\ \A d \in top.r : d[k] = 0 => \E l \in Range(ZeroPart(k)) : d \in l.r
  <2> DEFINE r == {d \in top.r : d[k] = 0}
             l == Deeper(k, r, 0, 0, 0)
  <2>1. l \in Elements(R) /\ l.r = r
    <3>1. r \in SUBSET top.r /\ \A d \in r : 0 <= d[k] /\ d[k] <= 0
      OBVIOUS
    <3> HIDE DEF r
    <3>2. Fits(k, r, 0, 0, 0)
      BY <1>1, <3>1 DEF Fits
    <3> QED
      BY <1>2, <3>2, DeeperIsElement
  <2>2. ZeroPart(k) = <<l>>
    BY DEF ZeroPart
  <2> HIDE DEF l
  <2>3. ZeroPart(k) \in Seq(Elements(R)) /\ Range(ZeroPart(k)) = {l}
    BY <2>1, <2>2, RangeOfOne
  <2> QED
    BY <2>1, <2>3
<1>5. /\ NegativePart(k) \in Seq(Elements(R))
      /\ \A d \in top.r : d[k] < 0 /\ pair # "same ref" => \E l \in Range(NegativePart(k)) : d \in l.r
  <2> DEFINE r == {d \in top.r : d[k] < 0}
             lb == IF r = {} THEN -1 ELSE Lower(r, k)
             ub0 == IF r = {} THEN -1 ELSE Upper(r, k)
             ub == IF ub0 < -1 THEN ub0 ELSE -1
             l == Deeper(k, r, -1, lb, ub)
  <2>1. CASE Lower(top.r, k) < 0 /\ pair # "same ref"
    <3>1. r \in SUBSET top.r /\ \A d \in r : d[k] < 0 /\ d[k] \in Int
      BY <1>3
    <3>2. NegativePart(k) = <<l>>
      BY <2>1 DEF NegativePart
    <3>3. \A d \in top.r : d[k] < 0 => d \in r
      OBVIOUS
    <3> HIDE DEF r
    <3>4. lb \in Int /\ ub \in Int /\ lb <= ub /\ ub < 0 /\ \A d \in r : lb <= d[k] /\ d[k] <= ub
      <4>1. CASE r = {}
        BY <4>1
      <4>2. CASE r # {}
        <5>1. /\ Lower(r, k) \in Int /\ Upper(r, k) \in Int /\ Lower(r, k) <= Upper(r, k)
              /\ \A d \in r : Lower(r, k) <= d[k] /\ d[k] <= Upper(r, k)
          BY <1>2, <3>1, <4>2, BoundsHold
        <5>2. PICK d \in r : TRUE
          BY <4>2
        <5>3. Lower(r, k) <= -1
          BY <3>1, <5>1, <5>2
        <5> QED
          BY <3>1, <4>2, <5>1, <5>3
      <4> QED
        BY <4>1, <4>2
    <3> HIDE DEF lb, ub
    <3>5. l \in Elements(R) /\ l.r = r
      <4>1. Fits(k, r, -1, lb, ub)
        BY <1>1, <1>2, <3>1, <3>4 DEF Fits
      <4> QED
        BY <1>2, <4>1, DeeperIsElement
    <3> HIDE DEF l
    <3>6. NegativePart(k) \in Seq(Elements(R)) /\ Range(NegativePart(k)) = {l}
      BY <3>2, <3>5, RangeOfOne
    <3> QED
      BY <3>3, <3>5, <3>6
  <2>2. CASE ~(Lower(top.r, k) < 0 /\ pair # "same ref")
    <3>1. NegativePart(k) = <<>>
      BY <2>2 DEF NegativePart
    <3>2. \A d \in top.r : ~(d[k] < 0 /\ pair # "same ref")
      <4>1. CASE pair = "same ref"
        BY <4>1
      <4>2. CASE ~(Lower(top.r, k) < 0)
        <5>1. \A d \in top.r : ~(d[k] < 0)
          BY <1>3, <4>2
        <5> QED
          BY <5>1
      <4> QED
        BY <2>2, <4>1, <4>2
    <3> QED
      BY <3>1, <3>2, EmptySeq
  <2> QED
    BY <2>1, <2>2
<1>6. /\ PositivePart(k) \in Seq(Elements(R))
      /\ \A d \in top.r : d[k] > 0 => \E l \in Range(PositivePart(k)) : d \in l.r
  <2> DEFINE r == {d \in top.r : d[k] > 0}
             lb0 == IF r = {} THEN 1 ELSE Lower(r, k)
             lb == IF lb0 > 1 THEN lb0 ELSE 1
             ub == IF r = {} THEN 1 ELSE Upper(r, k)
             l == Deeper(k, r, 1, lb, ub)
  <2>1. CASE Upper(top.r, k) > 0
    <3>1. r \in SUBSET top.r /\ \A d \in r : d[k] > 0 /\ d[k] \in Int
      BY <1>3
    <3>2. PositivePart(k) = <<l>>
      BY <2>1 DEF PositivePart
    <3>3. \A d \in top.r : d[k] > 0 => d \in r
      OBVIOUS
    <3> HIDE DEF r
    <3>4. lb \in Int /\ ub \in Int /\ lb <= ub /\ lb > 0 /\ \A d \in r : lb <= d[k] /\ d[k] <= ub
      <4>1. CASE r = {}
        BY <4>1
      <4>2. CASE r # {}
        <5>1. /\ Lower(r, k) \in Int /\ Upper(r, k) \in Int /\ Lower(r, k) <= Upper(r, k)
              /\ \A d \in r : Lower(r, k) <= d[k] /\ d[k] <= Upper(r, k)
          BY <1>2, <3>1, <4>2, BoundsHold
        <5>2. PICK d \in r : TRUE
          BY <4>2
        <5>3. Upper(r, k) >= 1
          BY <3>1, <5>1, <5>2
        <5> QED
          BY <3>1, <4>2, <5>1, <5>3
      <4> QED
        BY <4>1, <4>2
    <3> HIDE DEF lb, ub
    <3>5. l \in Elements(R) /\ l.r = r
      <4>1. Fits(k, r, 1, lb, ub)
        BY <1>1, <1>2, <3>1, <3>4 DEF Fits
      <4> QED
        BY <1>2, <4>1, DeeperIsElement
    <3> HIDE DEF l
    <3>6. PositivePart(k) \in Seq(Elements(R)) /\ Range(PositivePart(k)) = {l}
      BY <3>2, <3>5, RangeOfOne
    <3> QED
      BY <3>3, <3>5, <3>6
  <2>2. CASE ~(Upper(top.r, k) > 0)
    <3>1. PositivePart(k) = <<>>
      BY <2>2 DEF PositivePart
    <3>2. \A d \in top.r : ~(d[k] > 0)
      BY <1>3, <2>2
    <3> QED
      BY <3>1, <3>2, EmptySeq
  <2> QED
    BY <2>1, <2>2
<1>7. /\ working' \in Seq(Elements(R))
      /\ Range(working') = Range(rest) \union Range(ZeroPart(k))
                             \union Range(NegativePart(k)) \union Range(PositivePart(k))
  <2> DEFINE a == rest \o ZeroPart(k)
             b == a \o NegativePart(k)
  <2>1. a \in Seq(Elements(R)) /\ Range(a) = Range(rest) \union Range(ZeroPart(k))
    BY <1>2, <1>4, ConcatProperties, RangeConcatenation
  <2> HIDE DEF a
  <2>2. b \in Seq(Elements(R)) /\ Range(b) = Range(a) \union Range(NegativePart(k))
    <3>1. NegativePart(k) \in Seq(Elements(R))
      BY <1>5
    <3> QED
      BY <2>1, <3>1, ConcatProperties, RangeConcatenation
  <2> HIDE DEF b
  <2>3. /\ b \o PositivePart(k) \in Seq(Elements(R))
        /\ Range(b \o PositivePart(k)) = Range(b) \union Range(PositivePart(k))
    <3>1. PositivePart(k) \in Seq(Elements(R))
      BY <1>6
    <3> QED
      BY <2>2, <3>1, ConcatProperties, RangeConcatenation
  <2>4. working' = b \o PositivePart(k)
    BY <1>1 DEF a, b
  <2> QED
    BY <2>1, <2>2, <2>3, <2>4
<1>8. ASSUME NEW d \in Required, d \in top.r
      PROVE  \E l \in Range(working') : d \in l.r
  <2>1. CASE d[k] = 0
    BY <1>4, <1>7, <1>8, <2>1
  <2>2. CASE d[k] > 0
    BY <1>6, <1>7, <1>8, <2>2
  <2>3. CASE d[k] < 0
    <3>1. LexSign(d, NDim) = -1
      <4>1. \A h \in Before(k) : d[h] = 0
        BY <1>1, <1>8, TopFacts DEF Before
      <4>2. k \in Nat /\ k < NDim /\ d[k] \in Int
        BY <1>2, <1>3, <1>8 DEF Dims
      <4> QED
        BY <1>2, <2>3, <4>1, <4>2, SignOfLeading
    <3>2. pair # "same ref"
      <4>1. pair = "same ref" => LexSign(d, NDim) > 0
        BY DEF Required
      <4>2. ~(LexSign(d, NDim) > 0)
        BY <3>1
      <4> QED
        BY <4>1, <4>2, Zenon
    <3> QED
      BY <1>5, <1>7, <1>8, <2>3, <3>2
  <2> QED
    BY <1>3, <1>8, <2>1, <2>2, <2>3
<1> QED
  BY <1>1, <1>7, <1>8, WorklistStep

LEMMA RecordIInv == IInv /\ Record => IInv'
<1> SUFFICES ASSUME IInv, Record PROVE IInv'
  OBVIOUS
<1>1. /\ Working /\ UNCHANGED <<input, pc, edges>> /\ working' = rest
      /\ top.r # {} /\ top.level = NDim
  BY DEF Record
<1>2. /\ R' = R /\ writes' = writes /\ common' = common /\ InputOK' /\ Required' = Required
      /\ \A e, d : Stands(e, d) => Stands(e, d)'
      /\ \A e : Connected(e) => Connected(e)'
  BY <1>1, InputKept DEF IInv
<1>3. /\ rest \in Seq(Elements(R)) /\ top \in Elements(R)
      /\ Range(working) = Range(rest) \union {top}
  BY <1>1, Below
<1>4. /\ Vector(top) \in Vectors(IF top.dir = -1 THEN -1 ELSE 1, R, writes)
      /\ \A d \in top.r : HasDistance(Vector(top), Facing(top.dir, d))
  BY <1>1, <1>3, RecordedVector DEF IInv
<1>5. common # 0 => \A d \in Required : Kept(d)
  BY DEF IInv
<1>6. CASE top.dir = -1
  <2>1. dependences2' = Append(dependences2, Vector(top)) /\ dependences1' = dependences1
    BY <1>6 DEF Record
  <2>2. /\ dependences2' \in Seq(Vectors(-1, R, writes))
        /\ Range(dependences2') = Range(dependences2) \union {Vector(top)}
    BY <1>4, <1>6, <2>1, RangeOfAppend DEF IInv
  <2>3. \A d \in top.r : HasDistance(Vector(top), Negated(d))
    BY <1>4, <1>6 DEF Facing
  <2>4. ASSUME common # 0 PROVE \A d \in Required : Kept(d)'
    <3> SUFFICES ASSUME NEW d \in Required PROVE Kept(d)'
      OBVIOUS
    <3>1. CASE d \in top.r
      BY <2>2, <2>3, <3>1 DEF Kept
    <3>2. CASE \E l \in Range(rest) : d \in l.r
      BY <1>1, <3>2 DEF Kept
    <3>3. CASE \E dv \in Range(dependences1) : HasDistance(dv, d)
      BY <2>1, <3>3 DEF Kept
    <3>4. CASE \E dv \in Range(dependences2) : HasDistance(dv, Negated(d))
      BY <2>2, <3>4 DEF Kept
    <3>5. CASE \E e \in edges : Stands(e, d)
      BY <1>1, <1>2, <3>5 DEF Kept
    <3> QED
      BY <1>3, <1>5, <2>4, <3>1, <3>2, <3>3, <3>4, <3>5 DEF Kept
  <2> QED
    BY <1>1, <1>2, <1>3, <2>1, <2>2, <2>4 DEF IInv, Working
<1>7. CASE top.dir # -1
  <2>1. dependences1' = Append(dependences1, Vector(top)) /\ dependences2' = dependences2
    BY <1>7 DEF Record
  <2>2. /\ dependences1' \in Seq(Vectors(1, R, writes))
        /\ Range(dependences1') = Range(dependences1) \union {Vector(top)}
    BY <1>4, <1>7, <2>1, RangeOfAppend DEF IInv
  <2>3. \A d \in top.r : HasDistance(Vector(top), d)
    BY <1>4, <1>7 DEF Facing
  <2>4. ASSUME common # 0 PROVE \A d \in Required : Kept(d)'
    <3> SUFFICES ASSUME NEW d \in Required PROVE Kept(d)'
      OBVIOUS
    <3>1. CASE d \in top.r
      BY <2>2, <2>3, <3>1 DEF Kept
    <3>2. CASE \E l \in Range(rest) : d \in l.r
      BY <1>1, <3>2 DEF Kept
    <3>3. CASE \E dv \in Range(dependences1) : HasDistance(dv, d)
      BY <2>2, <3>3 DEF Kept
    <3>4. CASE \E dv \in Range(dependences2) : HasDistance(dv, Negated(d))
      BY <2>1, <3>4 DEF Kept
    <3>5. CASE \E e \in edges : Stands(e, d)
      BY <1>1, <1>2, <3>5 DEF Kept
    <3> QED
      BY <1>3, <1>5, <2>4, <3>1, <3>2, <3>3, <3>4, <3>5 DEF Kept
  <2> QED
    BY <1>1, <1>2, <1>3, <2>1, <2>2, <2>4 DEF IInv, Working
<1> QED
  BY <1>6, <1>7

\* Taking a vector off either list and adding its edge.
LEMMA ConnectForwardIInv == IInv /\ ConnectForward => IInv'
<1> SUFFICES ASSUME IInv, ConnectForward PROVE IInv'
  OBVIOUS
<1> DEFINE dv == Head(dependences1)
           e0 == Edge("i", "j", dv)
<1>1. /\ UNCHANGED <<input, pc, working, dependences2>> /\ pc = "connect"
      /\ dependences1 # <<>> /\ dependences1' = Tail(dependences1)
  BY DEF ConnectForward
<1>2. /\ R' = R /\ writes' = writes /\ common' = common /\ InputOK' /\ Required' = Required
      /\ \A e, d : Stands(e, d) => Stands(e, d)'
      /\ \A e : Connected(e) => Connected(e)'
  BY <1>1, InputKept DEF IInv
<1>3. /\ dependences1' \in Seq(Vectors(1, R, writes))
      /\ dv \in Vectors(1, R, writes)
      /\ Range(dependences1) = Range(dependences1') \union {dv}
  BY <1>1, RangeOfTail DEF IInv
<1>4. /\ Valid(dv, TRUE)
      /\ common # 0 => \A d \in R : HasDistance(dv, d) => Stands(e0, d)
      /\ Connected(e0)
  <2>1. CASE common = 0
    BY <1>3, <2>1, UncommonEdge DEF Valid
  <2>2. CASE common # 0
    BY <1>3, <2>2, ForwardEdge DEF IInv
  <2> QED
    BY <2>1, <2>2
<1>5. edges' = edges \union {e0}
  BY <1>4 DEF ConnectForward
<1> HIDE DEF e0, dv
<1>6. \A e \in edges' : Connected(e)'
  BY <1>2, <1>4, <1>5 DEF IInv
<1>7. ASSUME common # 0 PROVE \A d \in Required : Kept(d)'
  <2> SUFFICES ASSUME NEW d \in Required PROVE Kept(d)'
    OBVIOUS
  <2>1. CASE HasDistance(dv, d)
    <3>1. d \in R
      BY DEF Required
    <3> QED
      BY <1>2, <1>4, <1>5, <1>7, <2>1, <3>1 DEF Kept
  <2>2. CASE \E l \in Range(working) : d \in l.r
    BY <1>1, <2>2 DEF Kept
  <2>3. CASE \E v \in Range(dependences1') : HasDistance(v, d)
    BY <2>3 DEF Kept
  <2>4. CASE \E v \in Range(dependences2) : HasDistance(v, Negated(d))
    BY <1>1, <2>4 DEF Kept
  <2>5. CASE \E e \in edges : Stands(e, d)
    BY <1>2, <1>5, <2>5 DEF Kept
  <2>6. Kept(d)
    BY <1>7 DEF IInv
  <2> QED
    BY <1>3, <2>1, <2>2, <2>3, <2>4, <2>5, <2>6 DEF Kept
<1> QED
  BY <1>1, <1>2, <1>3, <1>6, <1>7 DEF IInv

LEMMA ConnectBackwardIInv == IInv /\ ConnectBackward => IInv'
<1> SUFFICES ASSUME IInv, ConnectBackward PROVE IInv'
  OBVIOUS
<1> DEFINE dv == Head(dependences2)
           e0 == IF Valid(dv, FALSE) THEN Edge("j", "i", dv) ELSE Edge("i", "j", Reversed(dv))
<1>1. /\ UNCHANGED <<input, pc, working, dependences1>> /\ pc = "connect"
      /\ dependences2 # <<>> /\ dependences2' = Tail(dependences2)
  BY DEF ConnectBackward
<1>2. /\ R' = R /\ writes' = writes /\ common' = common /\ InputOK' /\ Required' = Required
      /\ \A e, d : Stands(e, d) => Stands(e, d)'
      /\ \A e : Connected(e) => Connected(e)'
  BY <1>1, InputKept DEF IInv
<1>3. /\ dependences2' \in Seq(Vectors(-1, R, writes))
      /\ dv \in Vectors(-1, R, writes)
      /\ Range(dependences2) = Range(dependences2') \union {dv}
  BY <1>1, RangeOfTail DEF IInv
<1>4. /\ common # 0 => \A d \in R : HasDistance(dv, Negated(d)) => Stands(e0, d)
      /\ Connected(e0)
  <2>1. CASE common = 0
    <3>1. Valid(dv, FALSE)
      BY <2>1 DEF Valid
    <3> QED
      BY <1>3, <2>1, <3>1, UncommonEdge
  <2>2. CASE common # 0
    BY <1>3, <2>2, BackwardEdge DEF IInv
  <2> QED
    BY <2>1, <2>2
<1>5. edges' = edges \union {e0}
  BY Zenon DEF ConnectBackward
<1> HIDE DEF e0, dv
<1>6. \A e \in edges' : Connected(e)'
  BY <1>2, <1>4, <1>5 DEF IInv
<1>7. ASSUME common # 0 PROVE \A d \in Required : Kept(d)'
  <2> SUFFICES ASSUME NEW d \in Required PROVE Kept(d)'
    OBVIOUS
  <2>1. CASE HasDistance(dv, Negated(d))
    <3>1. d \in R
      BY DEF Required
    <3> QED
      BY <1>2, <1>4, <1>5, <1>7, <2>1, <3>1 DEF Kept
  <2>2. CASE \E l \in Range(working) : d \in l.r
    BY <1>1, <2>2 DEF Kept
  <2>3. CASE \E v \in Range(dependences1) : HasDistance(v, d)
    BY <1>1, <2>3 DEF Kept
  <2>4. CASE \E v \in Range(dependences2') : HasDistance(v, Negated(d))
    BY <2>4 DEF Kept
  <2>5. CASE \E e \in edges : Stands(e, d)
    BY <1>2, <1>5, <2>5 DEF Kept
  <2>6. Kept(d)
    BY <1>7 DEF IInv
  <2> QED
    BY <1>3, <2>1, <2>2, <2>3, <2>4, <2>5, <2>6 DEF Kept
<1> QED
  BY <1>1, <1>2, <1>3, <1>6, <1>7 DEF IInv

\* The steps that change pc alone, and stuttering.
LEMMA SamePartsIInv ==
  ASSUME IInv, UNCHANGED <<input, working, dependences1, dependences2, edges>>,
         \/ UNCHANGED pc
         \/ pc' = "connect" /\ working = <<>>
         \/ pc' = "done" /\ pc = "connect" /\ dependences1 = <<>> /\ dependences2 = <<>>
  PROVE  IInv'
<1>1. /\ R' = R /\ writes' = writes /\ common' = common /\ InputOK' /\ Required' = Required
      /\ \A e, d : Stands(e, d) => Stands(e, d)'
      /\ \A e : Connected(e) => Connected(e)'
  BY InputKept DEF IInv
<1>2. ASSUME common # 0, NEW d \in Required
      PROVE  Kept(d)'
  <2>1. Kept(d)
    BY <1>2 DEF IInv
  <2> QED
    BY <1>1, <2>1 DEF Kept
<1> QED
  BY <1>1, <1>2 DEF IInv

THEOREM Inductive == Spec => []IInv
<1>1. IInv /\ [Next]_vars => IInv'
  <2> SUFFICES ASSUME IInv, [Next]_vars PROVE IInv'
    OBVIOUS
  <2>1. ASSUME NEW k \in Dims, Direct(k) \/ Split(k) \/ Follow(k) PROVE IInv'
    BY <2>1, DirectIInv, SplitIInv, FollowIInv
  <2>2. CASE Drop
    BY <2>2, DropIInv
  <2>3. CASE Record
    BY <2>3, RecordIInv
  <2>4. CASE SplitOver
    BY <2>4, SamePartsIInv DEF SplitOver
  <2>5. CASE ConnectForward
    BY <2>5, ConnectForwardIInv
  <2>6. CASE ConnectBackward
    BY <2>6, ConnectBackwardIInv
  <2>7. CASE Return
    BY <2>7, SamePartsIInv DEF Return
  <2>8. CASE UNCHANGED vars
    BY <2>8, SamePartsIInv DEF vars
  <2>9. CASE Returned
    BY <2>8, <2>9 DEF Returned
  <2> QED
    BY <2>1, <2>2, <2>3, <2>4, <2>5, <2>6, <2>7, <2>8, <2>9 DEF Next, Step
<1> QED
  BY <1>1, InitIInv, PTL DEF Spec

-----------------------------------------------------------------------------
(* What follows from it.                                                   *)

\* The worklist, the vectors found and the edges have their types; no box is
\* empty; a worklist element without a direction has only zero bounds so far.
THEOREM TypeCorrect == Spec => []TypeOK
<1>1. IInv => TypeOK
  <2> SUFFICES ASSUME IInv PROVE TypeOK
    OBVIOUS
  <2>1. ASSUME NEW w \in 1 .. Len(working)
        PROVE  /\ working[w].level \in 0 .. NDim /\ working[w].dir \in {-1, 0, 1}
               /\ working[w].dir = 0 => working[w].lb = Zeros /\ working[w].ub = Zeros
    <3>1. working[w] \in Elements(R)
      BY ElementOfSeq DEF IInv
    <3> QED
      BY <3>1 DEF Elements
  <2>2. ASSUME NEW dir, NEW dv \in Vectors(dir, R, writes)
        PROVE  IsVector(dv) /\ \A k \in Dims : dv.lb[k] <= dv.ub[k]
    <3>1. /\ dv \in [type : Types, lb : Bounds(NDim), ub : Bounds(NDim), quasi : {FALSE}]
          /\ \A k \in Dims : dv.lb[k] <= dv.ub[k]
      BY VectorFacts, Zenon
    <3>2. IsVector(dv)
      BY <3>1 DEF IsVector, Bounds, Dims
    <3> QED
      BY <3>1, <3>2
  <2>3. /\ Range(dependences1) \subseteq Vectors(1, R, writes)
        /\ Range(dependences2) \subseteq Vectors(-1, R, writes)
    BY RangeOfSeq DEF IInv
  <2>4. /\ Range(dependences1) = {dependences1[v] : v \in DOMAIN dependences1}
        /\ Range(dependences2) = {dependences2[v] : v \in DOMAIN dependences2}
    BY DEF Range
  <2>5. \A e \in edges : /\ IsVector(e.dv) /\ \A k \in Dims : e.dv.lb[k] <= e.dv.ub[k]
                         /\ e.from \in {"i", "j"} /\ e.to \in {"i", "j"}
    BY DEF IInv, Connected
  <2>6. \A dv \in Range(dependences1) \union Range(dependences2) \union {e.dv : e \in edges} :
           IsVector(dv) /\ \A k \in Dims : dv.lb[k] <= dv.ub[k]
    BY <2>2, <2>3, <2>5
  <2>7. pc \in {"split", "connect", "done"}
    BY DEF IInv
  <2> QED
    BY <2>1, <2>4, <2>5, <2>6, <2>7 DEF TypeOK
<1> QED
  BY <1>1, Inductive, PTL

\* No dependence is lost, whatever the distances and the loops around the
\* references: where the two statements share a loop, every pair of iterations
\* that touch the same element is covered by an edge of the right direction.
THEOREM FoundCorrect ==
  ASSUME 0 \notin CommonLoops
  PROVE  Spec => []EveryDependenceFound
<1>1. IInv => common # 0
  BY DEF IInv, InputOK
<1>2. IInv => EveryDependenceFound
  <2> SUFFICES ASSUME IInv, pc = "done", NEW d \in Required
               PROVE  \E e \in edges : Stands(e, d)
    BY DEF EveryDependenceFound
  <2>1. working = <<>> /\ dependences1 = <<>> /\ dependences2 = <<>>
    BY DEF IInv
  <2>2. Range(working) = {} /\ Range(dependences1) = {} /\ Range(dependences2) = {}
    BY <2>1 DEF Range
  <2>3. Kept(d)
    BY <1>1 DEF IInv
  <2> QED
    BY <2>2, <2>3 DEF Kept
<1> QED
  BY <1>2, Inductive, PTL

\* No edge is made up: each stands for a distance that exists.
THEOREM FoundedCorrect ==
  ASSUME 0 \notin CommonLoops
  PROVE  Spec => []EveryEdgeFounded
<1>1. IInv => EveryEdgeFounded
  BY DEF IInv, InputOK, Connected, EveryEdgeFounded
<1> QED
  BY <1>1, Inductive, PTL

\* The common loops never run the sink of an edge before its source, and only
\* a dependence that none of them carries is marked quasi.
THEOREM ForwardCorrect ==
  ASSUME 0 \notin CommonLoops
  PROVE  Spec => []EdgesPointForward
<1>1. IInv => EdgesPointForward
  BY DEF IInv, InputOK, Connected, PointsForward, EdgesPointForward
<1> QED
  BY <1>1, Inductive, PTL
=============================================================================

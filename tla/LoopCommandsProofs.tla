------------------------- MODULE LoopCommandsProofs -------------------------
(***************************************************************************)
(* The bounds that the commands compute with AffineVector cover the        *)
(* distances they are meant for, for all bounds and amounts, finite or     *)
(* not.  And the code kept for getCode is always that of the program,      *)
(* whatever the programs, amounts and matrices are, as long as nothing     *)
(* splits a program whose code has been generated.                         *)
(*                                                                         *)
(* The longest proof is that the commands neither lose nor repeat an       *)
(* instance of a statement.  Each command is shown to send the runs of the *)
(* old statements one to one to those of the new ones (Follows): split and *)
(* peel to one half or the other, unroll to the copies that are lumped     *)
(* together, shift, skew and nonsingular to themselves.  It needs that no  *)
(* two iterations of a statement have the same position, or apply_xform,   *)
(* which makes positions the points, would lose some.                      *)
(*                                                                         *)
(* And what the scripts are written for: without unroll, the vectors bound *)
(* how far apart dependent runs are, and these run in order as long as the *)
(* commands check them.  Each command keeps both (Describes), shown by     *)
(* what it does to the places, the views and the vectors of the runs; the  *)
(* invariant is CoverInv.                                                  *)
(***************************************************************************)
EXTENDS LoopCommands, OperatorProofs, SequenceTheorems

-----------------------------------------------------------------------------
(* The bounds of vectors.                                                  *)

VectorsOver(D) == [type : STRING, lb : [D -> Int], ub : [D -> Int], quasi : BOOLEAN]

\* The bounds of a sum cover the value of the sum.
SumCovers(sum, x) == Above(sum.lb, x) /\ Below(x, sum.ub)

LEMMA TimesPositive ==
  ASSUME NEW a \in Int, NEW x \in Int, NEW y \in Int, a > 0, x <= y
  PROVE  a * x <= a * y
BY SMT

LEMMA TimesNegative ==
  ASSUME NEW a \in Int, NEW x \in Int, NEW y \in Int, a < 0, x <= y
  PROVE  a * y <= a * x
BY SMT

LEMMA FloorBounds ==
  ASSUME NEW a \in Int, NEW b \in Nat \ {0}, NEW k \in Int
  PROVE  /\ Floor(a, b) \in Int
         /\ k * b <= a => k <= Floor(a, b)
         /\ k * b > a - b => k >= Floor(a, b)
         /\ Floor(a, b) * b > a - b /\ Floor(a, b) * b <= a
BY SMT DEF Floor

\* The same, for the upper ends of the ranges of Lumped
LEMMA CeilBounds ==
  ASSUME NEW a \in Int, NEW b \in Nat \ {0}, NEW k \in Int
  PROVE  /\ Ceil(a, b) \in Int
         /\ k * b >= a => k >= Ceil(a, b)
         /\ k * b < a + b => k <= Ceil(a, b)
         /\ Ceil(a, b) * b < a + b /\ Ceil(a, b) * b >= a
<1>1. -((-a) \div b) \in Int /\ (-k) * b = -(k * b) /\ -a \in Int /\ -k \in Int
  BY SMT
<1>2. (-k) * b <= -a => -k <= Floor(-a, b)
  BY <1>1, FloorBounds
<1>3. (-k) * b > -a - b => -k >= Floor(-a, b)
  BY <1>1, FloorBounds
<1>4. Floor(-a, b) \in Int /\ Floor(-a, b) * b > -a - b /\ Floor(-a, b) * b <= -a
  BY <1>1, FloorBounds
<1>5. -(Floor(-a, b) * b) = (-Floor(-a, b)) * b
  BY <1>4, SMT
<1> QED
  BY <1>1, <1>2, <1>3, <1>4, <1>5 DEF Ceil, Floor
-----------------------------------------------------------------------------
(* shift                                                                   *)

\* shift moves every distance the vector covers with its bounds: those to the
\* statements that are shifted, and those from them, with the amount negated.
THEOREM ShiftCovers ==
  ASSUME NEW D \in SUBSET Nat, NEW dv \in VectorsOver(D), NEW d \in [D -> Int],
         NEW dim \in D, NEW amount \in Int, Covers(dv, d)
  PROVE  Covers(MovedBy(dv, dim, amount), [d EXCEPT ![dim] = @ + amount])
<1> DEFINE new == MovedBy(dv, dim, amount)
           e == [d EXCEPT ![dim] = @ + amount]
<1>1. /\ DOMAIN new.lb = D
      /\ \A i \in D : new.lb[i] = IF i = dim /\ dv.lb[i] # -Infinity THEN dv.lb[i] + amount ELSE dv.lb[i]
      /\ \A i \in D : new.ub[i] = IF i = dim /\ dv.ub[i] # Infinity THEN dv.ub[i] + amount ELSE dv.ub[i]
  BY DEF MovedBy, VectorsOver
<1>2. \A i \in D : e[i] = IF i = dim THEN d[i] + amount ELSE d[i]
  OBVIOUS
<1>3. \A i \in D : /\ dv.lb[i] \in Int /\ dv.ub[i] \in Int /\ d[i] \in Int
                   /\ Above(dv.lb[i], d[i]) /\ Below(d[i], dv.ub[i])
  BY DEF Covers, VectorsOver
<1> HIDE DEF new, e
<1>4. \A i \in D : Above(new.lb[i], e[i]) /\ Below(e[i], new.ub[i])
  BY <1>1, <1>2, <1>3, InfinityAssumption DEF Above, Below
<1> QED BY <1>1, <1>4 DEF Covers, new, e
-----------------------------------------------------------------------------
(* skew and nonsingular                                                    *)

\* amount times a covered distance lies between the products of its bounds.
LEMMA ProductBounds ==
  ASSUME NEW D \in SUBSET Nat, NEW dv \in VectorsOver(D), NEW d \in [D -> Int],
         NEW dim \in D, NEW amount \in Int \ {0}, Covers(dv, d)
  PROVE  /\ Low(dv, dim, amount) \in Int /\ High(dv, dim, amount) \in Int
         /\ Low(dv, dim, amount) # -Far(amount) => amount * Low(dv, dim, amount) <= amount * d[dim]
         /\ High(dv, dim, amount) # Far(amount) => amount * d[dim] <= amount * High(dv, dim, amount)
<1>1. /\ dv.lb[dim] \in Int /\ dv.ub[dim] \in Int /\ d[dim] \in Int
      /\ dv.lb[dim] # -Infinity => dv.lb[dim] <= d[dim]
      /\ dv.ub[dim] # Infinity => d[dim] <= dv.ub[dim]
  BY InfinityAssumption DEF Covers, Above, Below, VectorsOver
<1>2. CASE amount > 0
  BY <1>1, <1>2, TimesPositive DEF Low, High, Far
<1>3. CASE amount < 0
  BY <1>1, <1>3, TimesNegative, InfinityAssumption DEF Low, High, Far
<1> QED BY <1>2, <1>3

\* One turn of skew: bounds that cover what is summed so far cover it with one
\* more term, for each distance of the vector.
THEOREM SkewTurnCovers ==
  ASSUME NEW D \in SUBSET Nat, NEW dv \in VectorsOver(D), NEW d \in [D -> Int],
         NEW dim \in D, NEW amount \in Int, NEW x \in Int,
         NEW sum \in [lb : Int, ub : Int],
         SumCovers(sum, x), Covers(dv, d)
  PROVE  SumCovers(SkewTurn(sum, dv, dim, amount), x + amount * d[dim])
<1>1. CASE amount = 0
  BY <1>1, SMT DEF SkewTurn, SumCovers, VectorsOver
<1>2. CASE amount # 0
  <2> DEFINE p == amount * Low(dv, dim, amount)
             q == amount * High(dv, dim, amount)
             y == amount * d[dim]
             zero == dv.lb[dim] = 0 /\ dv.ub[dim] = 0
             new == SkewTurn(sum, dv, dim, amount)
  <2>1. p \in Int /\ q \in Int /\ y \in Int
    BY <1>2, ProductBounds
  <2>2. /\ Low(dv, dim, amount) # -Far(amount) => p <= y
        /\ High(dv, dim, amount) # Far(amount) => y <= q
    BY <1>2, ProductBounds
  <2>3. zero => y = 0
    BY InfinityAssumption, SMT DEF Covers, Above, Below, VectorsOver
  <2>4. new = [lb |-> IF sum.lb # -Infinity /\ Low(dv, dim, amount) # -Far(amount) THEN sum.lb + p
                      ELSE IF zero THEN sum.lb ELSE -Infinity,
               ub |-> IF sum.ub # Infinity /\ High(dv, dim, amount) # Far(amount) THEN sum.ub + q
                      ELSE IF zero THEN sum.ub ELSE Infinity]
    BY <1>2 DEF SkewTurn
  <2> HIDE DEF p, q, y, zero, new
  <2>5. Above(new.lb, x + y)
    BY <2>1, <2>2, <2>3, <2>4, InfinityAssumption DEF SumCovers, Above
  <2>6. Below(x + y, new.ub)
    BY <2>1, <2>2, <2>3, <2>4, InfinityAssumption DEF SumCovers, Below
  <2> QED BY <2>5, <2>6 DEF SumCovers, new, y
<1> QED BY <1>1, <1>2

\* The same of nonsingular, which does not look at dimensions that are zero
THEOREM MultiplyTurnCovers ==
  ASSUME NEW D \in SUBSET Nat, NEW dv \in VectorsOver(D), NEW d \in [D -> Int],
         NEW dim \in D, NEW amount \in Int, NEW x \in Int,
         NEW sum \in [lb : Int, ub : Int],
         SumCovers(sum, x), Covers(dv, d)
  PROVE  SumCovers(MultiplyTurn(sum, dv, dim, amount), x + amount * d[dim])
<1>1. CASE amount = 0
  BY <1>1, SMT DEF MultiplyTurn, SumCovers, VectorsOver
<1>2. CASE amount # 0
  <2> DEFINE p == amount * Low(dv, dim, amount)
             q == amount * High(dv, dim, amount)
             y == amount * d[dim]
             new == MultiplyTurn(sum, dv, dim, amount)
  <2>1. p \in Int /\ q \in Int /\ y \in Int
    BY <1>2, ProductBounds
  <2>2. /\ Low(dv, dim, amount) # -Far(amount) => p <= y
        /\ High(dv, dim, amount) # Far(amount) => y <= q
    BY <1>2, ProductBounds
  <2>3. new = [lb |-> IF sum.lb = -Infinity \/ Low(dv, dim, amount) = -Far(amount) THEN -Infinity ELSE sum.lb + p,
               ub |-> IF sum.ub = Infinity \/ High(dv, dim, amount) = Far(amount) THEN Infinity ELSE sum.ub + q]
    BY <1>2 DEF MultiplyTurn
  <2> HIDE DEF p, q, y, new
  <2>4. Above(new.lb, x + y)
    BY <2>1, <2>2, <2>3, InfinityAssumption DEF SumCovers, Above
  <2>5. Below(x + y, new.ub)
    BY <2>1, <2>2, <2>3, InfinityAssumption DEF SumCovers, Below
  <2> QED BY <2>4, <2>5 DEF SumCovers, new, y
<1> QED BY <1>1, <1>2
-----------------------------------------------------------------------------
(* unroll                                                                  *)

\* The vector Lumped makes of a range of multiples of the step
Multiples(dv, dim, step, l, u) ==
  [dv EXCEPT !.lb[dim] = IF @ = -Infinity THEN @ ELSE l * step,
             !.ub[dim] = IF @ = Infinity THEN @ ELSE u * step]

\* If the range has the multiple in question, the vector is kept and covers it.
LEMMA MultiplesCover ==
  ASSUME NEW D \in SUBSET Nat, NEW dv \in VectorsOver(D), NEW d \in [D -> Int], Covers(dv, d),
         NEW dim \in D, NEW step \in Nat \ {0}, NEW k \in Int, NEW l \in Int, NEW u \in Int,
         dv.lb[dim] # -Infinity => l <= k /\ l * step <= Infinity,
         dv.ub[dim] # Infinity => k <= u /\ -Infinity <= u * step
  PROVE  LET v == Multiples(dv, dim, step, l, u)
         IN  v.ub[dim] >= v.lb[dim] /\ Covers(v, [d EXCEPT ![dim] = k * step])
<1> DEFINE v == Multiples(dv, dim, step, l, u)
           m == k * step
           low == l * step
           high == u * step
           e == [d EXCEPT ![dim] = m]
<1>1. m \in Int /\ low \in Int /\ high \in Int
  BY SMT
<1>2. (l <= k => low <= m) /\ (k <= u => m <= high)
  <2>1. step \in Int /\ step > 0 /\ l * step = step * l /\ u * step = step * u /\ k * step = step * k
    BY SMT
  <2>2. (l <= k => step * l <= step * k) /\ (k <= u => step * k <= step * u)
    BY <2>1, TimesPositive
  <2> QED BY <2>1, <2>2
<1>3. /\ DOMAIN v.lb = D
      /\ \A i \in D : v.lb[i] = IF i = dim /\ dv.lb[i] # -Infinity THEN low ELSE dv.lb[i]
      /\ \A i \in D : v.ub[i] = IF i = dim /\ dv.ub[i] # Infinity THEN high ELSE dv.ub[i]
      /\ \A i \in D : e[i] = IF i = dim THEN m ELSE d[i]
  BY DEF Multiples, VectorsOver
<1>4. /\ dv.lb[dim] # -Infinity => l <= k /\ low <= Infinity
      /\ dv.ub[dim] # Infinity => k <= u /\ -Infinity <= high
  OBVIOUS
<1>5. \A i \in D : /\ dv.lb[i] \in Int /\ dv.ub[i] \in Int
                   /\ Above(dv.lb[i], d[i]) /\ Below(d[i], dv.ub[i])
  BY DEF Covers, VectorsOver
<1> HIDE DEF m, low, high, v, e
<1>6. v.ub[dim] >= v.lb[dim]
  BY <1>1, <1>2, <1>3, <1>4, <1>5, InfinityAssumption
<1>7. \A i \in D : Above(v.lb[i], e[i]) /\ Below(e[i], v.ub[i])
  BY <1>1, <1>2, <1>3, <1>4, <1>5, InfinityAssumption DEF Above, Below
<1> QED BY <1>3, <1>6, <1>7 DEF Covers, v, e, m

\* A vector without an instance is left out.
Kept(v, dim) == IF v.ub[dim] >= v.lb[dim] THEN {v} ELSE {}

LEMMA KeptCover ==
  ASSUME NEW D \in SUBSET Nat, NEW dv \in VectorsOver(D), NEW d \in [D -> Int], Covers(dv, d),
         NEW dim \in D, NEW step \in Nat \ {0}, NEW k \in Int, NEW l \in Int, NEW u \in Int,
         dv.lb[dim] # -Infinity => l <= k /\ l * step <= Infinity,
         dv.ub[dim] # Infinity => k <= u /\ -Infinity <= u * step
  PROVE  \E v \in Kept(Multiples(dv, dim, step, l, u), dim) : Covers(v, [d EXCEPT ![dim] = k * step])
<1> DEFINE v == Multiples(dv, dim, step, l, u)
<1>1. v.ub[dim] >= v.lb[dim] /\ Covers(v, [d EXCEPT ![dim] = k * step])
  BY MultiplesCover
<1>2. Kept(v, dim) = {v}
  BY <1>1 DEF Kept
<1> HIDE DEF v
<1>3. \E w \in {v} : Covers(w, [d EXCEPT ![dim] = k * step])
  BY <1>1
<1>4. \E w \in Kept(v, dim) : Covers(w, [d EXCEPT ![dim] = k * step])
  BY <1>2, <1>3
<1> QED BY <1>4 DEF v

\* The copies lie less than a step behind the iteration they are copied from.
LEMMA CopyOffset ==
  ASSUME NEW stride \in Nat \ {0}, NEW times \in Nat \ {0}, NEW j \in 0 .. times-1
  PROVE  /\ j * stride \in Int
         /\ j = 0 => j * stride = 0
         /\ j # 0 => j * stride >= stride
         /\ j * stride <= times * stride - stride
<1>1. j * stride = stride * j /\ times * stride = stride * times /\ j * stride \in Int
  BY SMT
<1>2. stride * j <= stride * (times - 1)
  BY TimesPositive
<1>3. j # 0 => stride * 1 <= stride * j
  BY TimesPositive
<1>4. stride * (times - 1) = stride * times - stride
  BY SMT
<1> QED BY <1>1, <1>2, <1>3, <1>4, SMT

LEMMA ExactDivision ==
  ASSUME NEW a \in Int, NEW b \in Nat \ {0}, a % b = 0
  PROVE  a \div b \in Int /\ a = (a \div b) * b
BY SMT

\* Multiples less than a step apart are the same.
LEMMA SameMultiple ==
  ASSUME NEW k \in Int, NEW n \in Int, NEW step \in Nat \ {0},
         k * step < n * step + step, k * step > n * step - step
  PROVE  k = n
<1>1. step * k < step * (n + 1) /\ step * (n - 1) < step * k
  BY SMT
<1>2. k >= n + 1 => step * (n + 1) <= step * k
  BY TimesPositive
<1>3. k <= n - 1 => step * k <= step * (n - 1)
  BY TimesPositive
<1>4. step * k \in Int /\ step * (n + 1) \in Int /\ step * (n - 1) \in Int
  OBVIOUS
<1> QED BY <1>1, <1>2, <1>3, <1>4

\* The ends of a range: what MultiplesCover asks of them
LEMMA LowEnd ==
  ASSUME NEW lb \in Int, NEW step \in Nat \ {0}, NEW k \in Int, NEW l \in Int, NEW p \in Int,
         lb = -Infinity \/ lb + step <= Infinity, p < lb + step, lb # -Infinity => k >= l
  PROVE  lb # -Infinity => l <= k /\ p <= Infinity
BY InfinityAssumption

LEMMA HighEnd ==
  ASSUME NEW ub \in Int, NEW step \in Nat \ {0}, NEW stride \in Nat \ {0}, NEW k \in Int, NEW u \in Int, NEW p \in Int,
         ub = Infinity \/ ub - stride - step >= -Infinity, p >= ub - stride - step, ub # Infinity => k <= u
  PROVE  ub # Infinity => k <= u /\ -Infinity <= p
BY InfinityAssumption

\* unroll: where two instances d apart, the sink and the source, become copies
\* j2 and j1 of times copies (0 is the one that stays), and their new iterations
\* are k steps apart, the vectors of that kind cover the new distance.  Bounds
\* that are not infinite have to stay clear of infinity.
THEOREM LumpedCovers ==
  ASSUME NEW D \in SUBSET Nat, NEW dv \in VectorsOver(D), NEW d \in [D -> Int], Covers(dv, d),
         NEW dim \in D, NEW stride \in Nat \ {0}, NEW times \in Nat \ {0}, NEW step \in Nat \ {0}, step = times * stride,
         NEW j1 \in 0 .. times-1, NEW j2 \in 0 .. times-1, NEW k \in Int,
         k * step = d[dim] + j1 * stride - j2 * stride,
         dv.lb[dim] = -Infinity \/ dv.lb[dim] + step <= Infinity,
         dv.ub[dim] = Infinity \/ dv.ub[dim] - stride - step >= -Infinity
  PROVE  LET L  == Lumped(dv, dim, step, stride)
             vs == CASE j1 = 0 /\ j2 = 0 -> L.dvs11
                     [] j1 = 0 /\ j2 # 0 -> L.dvs12
                     [] j1 # 0 /\ j2 = 0 -> L.dvs21
                     [] OTHER            -> L.dvs22
         IN  \E v \in vs : Covers(v, [d EXCEPT ![dim] = k * step])
<1> DEFINE lb == dv.lb[dim]
           ub == dv.ub[dim]
           m  == k * step
           o1 == j1 * stride
           o2 == j2 * stride
           L  == Lumped(dv, dim, step, stride)
           e  == [d EXCEPT ![dim] = m]
<1>1. /\ lb \in Int /\ ub \in Int /\ d[dim] \in Int /\ m \in Int /\ ub - stride \in Int
      /\ lb = -Infinity \/ lb <= d[dim]
      /\ ub = Infinity \/ d[dim] <= ub
  BY SMT DEF Covers, Above, Below, VectorsOver
<1>2. /\ o1 \in Int /\ o2 \in Int
      /\ (j1 = 0 => o1 = 0) /\ (j2 = 0 => o2 = 0)
      /\ (j1 # 0 => o1 >= stride) /\ (j2 # 0 => o2 >= stride)
      /\ o1 <= step - stride /\ o2 <= step - stride
  BY CopyOffset
<1>3. m = d[dim] + o1 - o2
  OBVIOUS
<1>4. CASE lb = ub /\ lb % step = 0
  <2>1. L = [dvs11 |-> {dv}, dvs12 |-> {}, dvs21 |-> {}, dvs22 |-> {dv}]
    BY <1>4 DEF Lumped
  <2>2. lb = d[dim] /\ lb # Infinity /\ lb # -Infinity
    BY <1>1, <1>4, InfinityAssumption
  <2> DEFINE n == lb \div step
  <2>3. n \in Int /\ lb = n * step
    BY <1>1, <1>4, ExactDivision
  <2> HIDE DEF n
  <2>4. m < lb + step /\ m > lb - step
    BY <1>1, <1>2, <1>3, <2>2
  <2>5. k = n
    BY <2>3, <2>4, SameMultiple
  <2>6. m = d[dim] /\ (j1 = 0 <=> j2 = 0)
    <3>1. m = d[dim]
      BY <2>2, <2>3, <2>5
    <3>2. o1 = o2
      BY <1>1, <1>2, <1>3, <3>1
    <3> QED BY <1>2, <3>1, <3>2
  <2>7. e = d
    BY <2>6
  <2>8. (j1 = 0 => L.dvs11 = {dv}) /\ (j1 # 0 => L.dvs22 = {dv})
    BY <2>1
  <2> HIDE DEF e, L
  <2>9. \E v \in {dv} : Covers(v, e)
    BY <2>7
  <2>10. CASE j1 = 0 /\ j2 = 0
    <3>1. \E v \in L.dvs11 : Covers(v, e)
      BY <2>8, <2>9, <2>10
    <3> QED BY <2>10, <3>1 DEF e, L
  <2>11. CASE j1 # 0 /\ j2 # 0
    <3>1. \E v \in L.dvs22 : Covers(v, e)
      BY <2>8, <2>9, <2>11
    <3> QED BY <2>11, <3>1 DEF e, L
  <2> QED BY <2>6, <2>10, <2>11
<1>5. CASE ~(lb = ub /\ lb % step = 0)
  <2> DEFINE fl == Floor(lb, step)
             cl == Ceil(lb, step)
             fu == Floor(ub, step)
             cu == Ceil(ub, step)
             fs == Floor(ub - stride, step)
             cs == Ceil(ub - stride, step)
             In(l, u) == \E v \in Kept(Multiples(dv, dim, step, l, u), dim) : Covers(v, e)
  <2>1. /\ L.dvs11 = Kept(Multiples(dv, dim, step, cl, fu), dim)
        /\ L.dvs21 = Kept(Multiples(dv, dim, step, cl, cu), dim)
        /\ L.dvs12 = Kept(Multiples(dv, dim, step, fl, fs), dim)
        /\ L.dvs22 = Kept(Multiples(dv, dim, step, fl, cs), dim)
    BY <1>5 DEF Lumped, Multiples, Kept
  <2>2. ASSUME NEW l \in Int, NEW u \in Int,
               lb # -Infinity => l <= k /\ l * step <= Infinity,
               ub # Infinity => k <= u /\ -Infinity <= u * step
        PROVE  In(l, u)
    BY <2>2, KeptCover
  <2>3. fl \in Int /\ (m > lb - step => k >= fl) /\ fl * step <= lb
    BY <1>1, FloorBounds
  <2>4. fu \in Int /\ (m <= ub => k <= fu) /\ fu * step > ub - step
    BY <1>1, FloorBounds
  <2>5. fs \in Int /\ (m <= ub - stride => k <= fs) /\ fs * step > ub - stride - step
    BY <1>1, FloorBounds
  <2>6. cl \in Int /\ (m >= lb => k >= cl) /\ cl * step < lb + step
    BY <1>1, CeilBounds
  <2>7. cu \in Int /\ (m < ub + step => k <= cu) /\ cu * step >= ub
    BY <1>1, CeilBounds
  <2>8. cs \in Int /\ (m < ub - stride + step => k <= cs) /\ cs * step >= ub - stride
    BY <1>1, CeilBounds
  <2>9. /\ lb # -Infinity => m > lb - step /\ (o2 = 0 => m >= lb)
        /\ ub # Infinity => /\ m < ub + step
                            /\ o1 = 0 => m <= ub
                            /\ o2 # 0 => m < ub - stride + step
                            /\ o1 = 0 /\ o2 # 0 => m <= ub - stride
    <3> HIDE DEF m, o1, o2, lb, ub
    <3>1. (o1 = 0 \/ o1 >= stride) /\ (o2 = 0 \/ o2 >= stride) /\ (j1 = 0 <=> o1 = 0) /\ (j2 = 0 <=> o2 = 0)
      BY <1>2
    <3>2. lb # -Infinity => m > lb - step /\ (o2 = 0 => m >= lb)
      BY <1>1, <1>2, <1>3, <3>1
    <3>3. ub # Infinity => /\ m < ub + step
                           /\ o1 = 0 => m <= ub
                           /\ o2 # 0 => m < ub - stride + step
                           /\ o1 = 0 /\ o2 # 0 => m <= ub - stride
      BY <1>1, <1>2, <1>3, <3>1
    <3> QED BY <3>1, <3>2, <3>3, Zenon
  <2>10. /\ lb = -Infinity \/ lb + step <= Infinity
         /\ ub = Infinity \/ ub - stride - step >= -Infinity
    OBVIOUS
  <2> HIDE DEF fl, cl, fu, cu, fs, cs, e, L, m, o1, o2, lb, ub, In
  <2>11. CASE j1 = 0 /\ j2 = 0
    <3>1. lb # -Infinity => cl <= k /\ cl * step <= Infinity
      <4>1. cl \in Int /\ cl * step \in Int /\ cl * step < lb + step
        BY <1>1, <2>6
      <4>2. lb # -Infinity => k >= cl
        BY <1>2, <2>9, <2>6, <2>11
      <4> QED BY <1>1, <2>10, <4>1, <4>2, LowEnd
    <3>2. ub # Infinity => k <= fu /\ -Infinity <= fu * step
      <4>1. fu \in Int /\ fu * step \in Int /\ fu * step >= ub - stride - step
        BY <1>1, <2>4
      <4>2. ub # Infinity => k <= fu
        BY <1>2, <2>9, <2>4, <2>11
      <4> QED BY <1>1, <2>10, <4>1, <4>2, HighEnd
    <3>3. In(cl, fu)
      BY <2>2, <2>6, <2>4, <3>1, <3>2
    <3>4. \E v \in L.dvs11 : Covers(v, e)
      BY <2>1, <3>3 DEF In
    <3> QED BY <2>11, <3>4 DEF L, e, m
  <2>12. CASE j1 = 0 /\ j2 # 0
    <3>1. lb # -Infinity => fl <= k /\ fl * step <= Infinity
      <4>1. fl \in Int /\ fl * step \in Int /\ fl * step < lb + step
        BY <1>1, <2>3
      <4>2. lb # -Infinity => k >= fl
        BY <1>2, <2>9, <2>3, <2>12
      <4> QED BY <1>1, <2>10, <4>1, <4>2, LowEnd
    <3>2. ub # Infinity => k <= fs /\ -Infinity <= fs * step
      <4>1. fs \in Int /\ fs * step \in Int /\ fs * step >= ub - stride - step
        BY <1>1, <2>5
      <4>2. ub # Infinity => k <= fs
        BY <1>2, <2>9, <2>5, <2>12
      <4> QED BY <1>1, <2>10, <4>1, <4>2, HighEnd
    <3>3. In(fl, fs)
      BY <2>2, <2>3, <2>5, <3>1, <3>2
    <3>4. \E v \in L.dvs12 : Covers(v, e)
      BY <2>1, <3>3 DEF In
    <3> QED BY <2>12, <3>4 DEF L, e, m
  <2>13. CASE j1 # 0 /\ j2 = 0
    <3>1. lb # -Infinity => cl <= k /\ cl * step <= Infinity
      <4>1. cl \in Int /\ cl * step \in Int /\ cl * step < lb + step
        BY <1>1, <2>6
      <4>2. lb # -Infinity => k >= cl
        BY <1>2, <2>9, <2>6, <2>13
      <4> QED BY <1>1, <2>10, <4>1, <4>2, LowEnd
    <3>2. ub # Infinity => k <= cu /\ -Infinity <= cu * step
      <4>1. cu \in Int /\ cu * step \in Int /\ cu * step >= ub - stride - step
        BY <1>1, <2>7
      <4>2. ub # Infinity => k <= cu
        BY <1>2, <2>9, <2>7, <2>13
      <4> QED BY <1>1, <2>10, <4>1, <4>2, HighEnd
    <3>3. In(cl, cu)
      BY <2>2, <2>6, <2>7, <3>1, <3>2
    <3>4. \E v \in L.dvs21 : Covers(v, e)
      BY <2>1, <3>3 DEF In
    <3> QED BY <2>13, <3>4 DEF L, e, m
  <2>14. CASE j1 # 0 /\ j2 # 0
    <3>1. lb # -Infinity => fl <= k /\ fl * step <= Infinity
      <4>1. fl \in Int /\ fl * step \in Int /\ fl * step < lb + step
        BY <1>1, <2>3
      <4>2. lb # -Infinity => k >= fl
        BY <1>2, <2>9, <2>3, <2>14
      <4> QED BY <1>1, <2>10, <4>1, <4>2, LowEnd
    <3>2. ub # Infinity => k <= cs /\ -Infinity <= cs * step
      <4>1. cs \in Int /\ cs * step \in Int /\ cs * step >= ub - stride - step
        BY <1>1, <2>8
      <4>2. ub # Infinity => k <= cs
        BY <1>2, <2>9, <2>8, <2>14
      <4> QED BY <1>1, <2>10, <4>1, <4>2, HighEnd
    <3>3. In(fl, cs)
      BY <2>2, <2>3, <2>8, <3>1, <3>2
    <3>4. \E v \in L.dvs22 : Covers(v, e)
      BY <2>1, <3>3 DEF In
    <3> QED BY <2>14, <3>4 DEF L, e, m
  <2> QED BY <2>11, <2>12, <2>13, <2>14
<1> QED BY <1>4, <1>5

-----------------------------------------------------------------------------
(* The code that is kept.                                                  *)

\* Nothing but split changes the program and keeps the code: every other
\* command drops it, or leaves both alone.
LEMMA CodeIsCurrentInductive ==
  ASSUME "split of printed code" \in LeftOut, CodeIsCurrent, [Next]_vars
  PROVE  CodeIsCurrent'
<1>1. CASE last_compute' = NoCode
  BY <1>1 DEF CodeIsCurrent
<1>2. CASE UNCHANGED <<stmt, last_compute>>
  BY <1>2 DEF CodeIsCurrent, Given
<1>3. CASE GetCode
  BY <1>3 DEF GetCode, CodeIsCurrent, Given
<1>4. ASSUME NEW s \in DOMAIN stmt, NEW level \in Loops, NEW con \in Conditions, Split(s, level, con)
      PROVE  last_compute' = NoCode
  BY <1>4 DEF Split, Tried
<1>5. ASSUME NEW S \in SUBSET DOMAIN stmt \ {{}}, NEW level \in Loops,
             \/ \E amount \in ShiftAmounts : Shift(S, level, amount)
             \/ \E amounts \in SkewAmounts : Skew(S, level, amounts)
      PROVE  last_compute' = NoCode
  BY <1>5 DEF Shift, Skew, DropCode
<1>6. ASSUME NEW s \in DOMAIN stmt, NEW level \in Loops,
             \/ \E amount \in PeelAmounts : Peel(s, level, amount)
             \/ \E amount \in UnrollAmounts, extra \in BOOLEAN : Unroll(s, level, amount, extra)
      PROVE  last_compute' = NoCode \/ UNCHANGED <<stmt, last_compute>>
  BY <1>6 DEF Peel, Unroll, DropCode
<1>7. (Known \/ \E T \in Matrices : Nonsingular(T)) => last_compute' = NoCode
  BY DEF Known, Nonsingular, DropCode
<1>8. CASE UNCHANGED vars
  BY <1>8, <1>2 DEF vars
<1> QED
  BY <1>1, <1>2, <1>3, <1>4, <1>5, <1>6, <1>7, <1>8 DEF Next

\* Whatever is done to a program, getCode returns the code of the program as it
\* is now (loop.cc:1185-1240), unless split is tried on a program whose code is
\* kept.
THEOREM CodeKeptIsCurrent ==
  ASSUME "split of printed code" \in LeftOut
  PROVE  Spec => []CodeIsCurrent
<1>1. Init => CodeIsCurrent
  BY DEF Init, CodeIsCurrent
<1>2. CodeIsCurrent /\ [Next]_vars => CodeIsCurrent'
  BY CodeIsCurrentInductive
<1> QED
  BY <1>1, <1>2, PTL DEF Spec
-----------------------------------------------------------------------------
(* Sums over the loops.                                                    *)

\* A nest has a loop, and the loops are numbered from 1.
LEMMA LoopsFacts ==
  /\ NDim \in Nat /\ NDim >= 1 /\ NDim \in 0 .. NDim
  /\ \A l \in Loops : l \in Nat /\ l \in 1 .. NDim /\ l >= 1 /\ l <= NDim /\ l \in 0 .. NDim /\ l-1 \in 0 .. NDim /\ l # 0
BY LoopsAssumption DEF Loops

\* Sum adds the values of the loops one by one.
Partial(f, g) == g[0] = 0 /\ \A i \in Loops : g[i] = g[i-1] + f[i]

LEMMA SumIsPartial ==
  ASSUME NEW f \in Points
  PROVE  \E g \in [0 .. NDim -> Int] : Partial(f, g) /\ Sum(f) = g[NDim]
<1> DEFINE step == [i \in 1 .. NDim |-> [x \in Int |-> x + f[i]]]
           P(g) == g = [n \in 0 .. NDim |-> IF n = 0 THEN 0 ELSE g[n-1] + f[n]]
           sum == CHOOSE g : P(g)
<1>1. f \in [1 .. NDim -> Int]
  BY DEF Points, Loops
<1>2. step \in [1 .. NDim -> [Int -> Int]]
  BY <1>1
<1> HIDE DEF step
<1>0. 0 \in Int
  OBVIOUS
<1>00. NDim \in Nat
  BY LoopsFacts
<1>33. PICK h \in [0 .. NDim -> Int] : IsRecursion(h, 0, NDim, step)
  BY <1>0, <1>00, <1>2, RecursionExists
<1>3. h[0] = 0 /\ \A i \in 1 .. NDim : h[i] = step[i][h[i-1]]
  BY <1>33 DEF IsRecursion
<1>4. P(h)
  <2>1. ASSUME NEW i \in 0 .. NDim, i # 0 PROVE step[i][h[i-1]] = h[i-1] + f[i]
    <3>1. i \in 1 .. NDim /\ i-1 \in 0 .. NDim
      BY <2>1, LoopsFacts
    <3> QED BY <3>1 DEF step
  <2>2. ASSUME NEW i \in 0 .. NDim PROVE h[i] = IF i = 0 THEN 0 ELSE h[i-1] + f[i]
    <3>1. i # 0 => i \in 1 .. NDim
      BY LoopsFacts
    <3> QED BY <1>3, <2>1, <3>1
  <2> QED BY <2>2
<1>5. P(sum)
  BY <1>4
<1>6. Sum(f) = sum[NDim]
  BY DEF Sum
<1> HIDE DEF sum
<1>7. sum[0] = 0
  BY <1>5, LoopsFacts
<1>8. ASSUME NEW i \in Loops PROVE sum[i] = sum[i-1] + f[i]
  BY <1>5, LoopsFacts
<1> DEFINE S == {i \in 0 .. NDim : sum[i] \in Int}
<1>9. \A i \in 0 .. NDim : i \in S
  <2>1. 0 \in S
    BY <1>7, LoopsFacts
  <2>2. ASSUME NEW i \in 1 .. NDim, i-1 \in S PROVE i \in S
    BY <1>1, <1>8, <2>2, LoopsFacts DEF Loops
  <2> HIDE DEF S
  <2> QED BY <2>1, <2>2, LoopsFacts, UpTo
<1>10. sum = [i \in 0 .. NDim |-> sum[i]]
  BY <1>5
<1>11. sum \in [0 .. NDim -> Int]
  BY <1>9, <1>10
<1> QED BY <1>6, <1>7, <1>8, <1>11 DEF Partial

\* A claim about all partial sums, by the number of loops summed
LEMMA SumInt ==
  ASSUME NEW f \in Points
  PROVE  Sum(f) \in Int
BY SumIsPartial, LoopsFacts

\* The sum of sums
LEMMA SumAdd ==
  ASSUME NEW f \in Points, NEW h \in Points
  PROVE  Sum([l \in Loops |-> f[l] + h[l]]) = Sum(f) + Sum(h)
<1> DEFINE s == [l \in Loops |-> f[l] + h[l]]
<1>1. s \in Points /\ \A l \in Loops : f[l] \in Int /\ h[l] \in Int /\ s[l] = f[l] + h[l]
  BY DEF Points
<1> HIDE DEF s
<1>2. PICK a \in [0 .. NDim -> Int] : Partial(f, a) /\ Sum(f) = a[NDim]
  BY SumIsPartial
<1>3. PICK b \in [0 .. NDim -> Int] : Partial(h, b) /\ Sum(h) = b[NDim]
  BY SumIsPartial
<1>4. PICK c \in [0 .. NDim -> Int] : Partial(s, c) /\ Sum(s) = c[NDim]
  BY <1>1, SumIsPartial
<1> DEFINE S == {i \in 0 .. NDim : c[i] = a[i] + b[i]}
<1>5. 0 \in S
  BY <1>2, <1>3, <1>4, LoopsFacts DEF Partial
<1>6. ASSUME NEW i \in 1 .. NDim, i-1 \in S PROVE i \in S
  <2>1. i \in Loops /\ i \in 0 .. NDim /\ i-1 \in 0 .. NDim
    BY LoopsFacts DEF Loops
  <2>2. a[i] = a[i-1] + f[i] /\ b[i] = b[i-1] + h[i] /\ c[i] = c[i-1] + s[i]
    BY <1>2, <1>3, <1>4, <2>1 DEF Partial
  <2>3. a[i-1] \in Int /\ b[i-1] \in Int /\ c[i-1] = a[i-1] + b[i-1]
    BY <1>2, <1>3, <1>6, <2>1
  <2> QED BY <1>1, <2>1, <2>2, <2>3
<1> HIDE DEF S
<1>7. \A i \in 0 .. NDim : i \in S
  BY <1>5, <1>6, LoopsFacts, UpTo
<1> QED BY <1>2, <1>3, <1>4, <1>7, LoopsFacts DEF S, s

\* A common factor of a sum
LEMMA SumTimes ==
  ASSUME NEW f \in Points, NEW x \in Int
  PROVE  Sum([l \in Loops |-> x * f[l]]) = x * Sum(f)
<1> DEFINE s == [l \in Loops |-> x * f[l]]
<1>1. s \in Points /\ \A l \in Loops : f[l] \in Int /\ s[l] = x * f[l] /\ s[l] \in Int
  BY DEF Points
<1> HIDE DEF s
<1>2. PICK a \in [0 .. NDim -> Int] : Partial(f, a) /\ Sum(f) = a[NDim]
  BY SumIsPartial
<1>4. PICK c \in [0 .. NDim -> Int] : Partial(s, c) /\ Sum(s) = c[NDim]
  BY <1>1, SumIsPartial
<1> DEFINE S == {i \in 0 .. NDim : c[i] = x * a[i]}
<1>5. 0 \in S
  BY <1>2, <1>4, LoopsFacts DEF Partial
<1>6. ASSUME NEW i \in 1 .. NDim, i-1 \in S PROVE i \in S
  <2>1. i \in Loops /\ i \in 0 .. NDim /\ i-1 \in 0 .. NDim
    BY LoopsFacts DEF Loops
  <2>2. a[i] = a[i-1] + f[i] /\ c[i] = c[i-1] + s[i]
    BY <1>2, <1>4, <2>1 DEF Partial
  <2>3. a[i-1] \in Int /\ c[i-1] = x * a[i-1] /\ f[i] \in Int /\ s[i] = x * f[i]
    BY <1>1, <1>2, <1>6, <2>1
  <2>4. x * (a[i-1] + f[i]) = x * a[i-1] + x * f[i]
    BY <2>3, SMT
  <2> QED BY <2>1, <2>2, <2>3, <2>4
<1> HIDE DEF S
<1>7. \A i \in 0 .. NDim : i \in S
  BY <1>5, <1>6, LoopsFacts, UpTo
<1> QED BY <1>2, <1>4, <1>7, LoopsFacts DEF S, s

\* Two sums of which one loop differs
LEMMA SumExcept ==
  ASSUME NEW f \in Points, NEW h \in Points, NEW k \in Loops, \A l \in Loops \ {k} : h[l] = f[l]
  PROVE  Sum(h) = Sum(f) + (h[k] - f[k])
<1>1. \A l \in Loops : f[l] \in Int /\ h[l] \in Int
  BY DEF Points
<1>2. PICK a \in [0 .. NDim -> Int] : Partial(f, a) /\ Sum(f) = a[NDim]
  BY SumIsPartial
<1>3. PICK b \in [0 .. NDim -> Int] : Partial(h, b) /\ Sum(h) = b[NDim]
  BY SumIsPartial
<1> DEFINE S == {i \in 0 .. NDim : b[i] = a[i] + (IF i < k THEN 0 ELSE h[k] - f[k])}
<1>5. 0 \in S
  BY <1>2, <1>3, LoopsFacts DEF Partial
<1>6. ASSUME NEW i \in 1 .. NDim, i-1 \in S PROVE i \in S
  <2>1. i \in Loops /\ i \in 0 .. NDim /\ i-1 \in 0 .. NDim /\ i \in Nat /\ k \in Nat
    BY LoopsFacts DEF Loops
  <2>2. a[i] = a[i-1] + f[i] /\ b[i] = b[i-1] + h[i]
    BY <1>2, <1>3, <2>1 DEF Partial
  <2>3. a[i-1] \in Int /\ b[i-1] = a[i-1] + (IF i-1 < k THEN 0 ELSE h[k] - f[k])
    BY <1>2, <1>3, <1>6, <2>1
  <2>4. CASE i = k
    BY <1>1, <2>1, <2>2, <2>3, <2>4
  <2>5. CASE i # k
    <3>1. h[i] = f[i] /\ (i-1 < k <=> i < k)
      BY <2>1, <2>5
    <3> QED BY <1>1, <2>1, <2>2, <2>3, <3>1
  <2> QED BY <2>4, <2>5
<1> HIDE DEF S
<1>7. \A i \in 0 .. NDim : i \in S
  BY <1>5, <1>6, LoopsFacts, UpTo
<1>8. ~(NDim < k)
  BY LoopsFacts
<1> QED BY <1>2, <1>3, <1>7, <1>8, LoopsFacts DEF S

\* A sum of zeros
LEMMA SumZero ==
  ASSUME NEW f \in Points, \A l \in Loops : f[l] = 0
  PROVE  Sum(f) = 0
<1>2. PICK a \in [0 .. NDim -> Int] : Partial(f, a) /\ Sum(f) = a[NDim]
  BY SumIsPartial
<1> DEFINE S == {i \in 0 .. NDim : a[i] = 0}
<1>5. 0 \in S
  BY <1>2, LoopsFacts DEF Partial
<1>6. ASSUME NEW i \in 1 .. NDim, i-1 \in S PROVE i \in S
  <2>1. i \in Loops /\ i \in 0 .. NDim /\ i-1 \in 0 .. NDim
    BY LoopsFacts DEF Loops
  <2> QED BY <1>2, <1>6, <2>1 DEF Partial
<1> HIDE DEF S
<1>7. \A i \in 0 .. NDim : i \in S
  BY <1>5, <1>6, LoopsFacts, UpTo
<1> QED BY <1>2, <1>7, LoopsFacts DEF S

\* The rows of a square of numbers, summed, or its columns
LEMMA SumExchange ==
  ASSUME NEW M \in [Loops -> Points]
  PROVE  Sum([k \in Loops |-> Sum([l \in Loops |-> M[l][k]])]) = Sum([l \in Loops |-> Sum(M[l])])
<1> DEFINE col(k) == [l \in Loops |-> M[l][k]]
           r == [l \in Loops |-> Sum(M[l])]
           Is(k, g) == Partial(col(k), g) /\ Sum(col(k)) = g[NDim]
           G == [k \in Loops |-> CHOOSE g \in [0 .. NDim -> Int] : Is(k, g)]
           part(i) == [k \in Loops |-> G[k][i]]
<1>1. \A l, k \in Loops : M[l] \in Points /\ M[l][k] \in Int
  BY DEF Points
<1>2. \A k \in Loops : col(k) \in Points
  BY <1>1 DEF Points
<1>3. r \in Points
  BY <1>1, SumInt DEF Points
<1>4. ASSUME NEW k \in Loops PROVE G[k] \in [0 .. NDim -> Int] /\ Is(k, G[k])
  <2>1. \E g \in [0 .. NDim -> Int] : Is(k, g)
    BY <1>2, SumIsPartial
  <2> HIDE DEF Is
  <2> QED BY <2>1
<1>5. PICK c \in [0 .. NDim -> Int] : Partial(r, c) /\ Sum(r) = c[NDim]
  BY <1>3, SumIsPartial
<1>6. \A i \in 0 .. NDim : part(i) \in Points
  BY <1>4 DEF Points
<1> DEFINE S == {i \in 0 .. NDim : Sum(part(i)) = c[i]}
<1>7. 0 \in S
  <2>1. \A k \in Loops : part(0)[k] = 0
    BY <1>4 DEF Partial
  <2>2. Sum(part(0)) = 0
    <3>2. 0 \in 0 .. NDim
      BY LoopsFacts
    <3> HIDE DEF part
    <3>1. part(0) \in Points
      BY <1>6, <3>2
    <3> QED BY <2>1, <3>1, SumZero
  <2> QED BY <1>5, <2>2, LoopsFacts DEF Partial
<1>8. ASSUME NEW i \in 1 .. NDim, i-1 \in S PROVE i \in S
  <2>1. i \in Loops /\ i \in 0 .. NDim /\ i-1 \in 0 .. NDim
    BY LoopsFacts DEF Loops
  <2>2. ASSUME NEW k \in Loops PROVE G[k][i] = G[k][i-1] + M[i][k]
    BY <1>4, <2>1 DEF Partial
  <2>3. part(i) = [k \in Loops |-> part(i-1)[k] + M[i][k]]
    BY <2>2
  <2>4. Sum(part(i)) = Sum(part(i-1)) + Sum(M[i])
    <3>1. part(i-1) \in Points /\ M[i] \in Points
      BY <1>1, <1>6, <2>1
    <3> HIDE DEF part
    <3> QED BY <2>3, <3>1, SumAdd
  <2>5. c[i] = c[i-1] + Sum(M[i])
    BY <1>5, <2>1 DEF Partial
  <2>6. Sum(part(i-1)) = c[i-1]
    BY <1>8
  <2> HIDE DEF part
  <2> QED BY <2>1, <2>4, <2>5, <2>6
<1> HIDE DEF S
<1>9. \A i \in 0 .. NDim : i \in S
  BY <1>7, <1>8, LoopsFacts, UpTo
<1>10. Sum(part(NDim)) = Sum(r)
  BY <1>5, <1>9, LoopsFacts DEF S
<1>11. part(NDim) = [k \in Loops |-> Sum(col(k))]
  BY <1>4
<1> QED BY <1>10, <1>11
-----------------------------------------------------------------------------
(* Affine functions of points.                                             *)

\* What an affine function of a point is
LEMMA AffineIs ==
  ASSUME NEW row \in Rows, NEW p \in Points
  PROVE  /\ [k \in Loops |-> row.coef[k] * p[k]] \in Points
         /\ Affine(row, p) \in Int
<1>1. row.coef \in [Loops -> Int] /\ row.const \in Int
  BY DEF Rows
<1>2. [k \in Loops |-> row.coef[k] * p[k]] \in Points
  BY <1>1 DEF Points
<1> QED BY <1>1, <1>2, SumInt DEF Affine

\* The row of a loop is the value of the loop.
LEMMA UnitRowIs ==
  ASSUME NEW l \in Loops
  PROVE  /\ UnitRow(l) \in Rows
         /\ \A p \in Points : Affine(UnitRow(l), p) = p[l]
<1>1. UnitRow(l) \in Rows
  BY DEF UnitRow, Rows
<1>2. ASSUME NEW p \in Points PROVE Affine(UnitRow(l), p) = p[l]
  <2> DEFINE zero == [k \in Loops |-> 0]
             one == [k \in Loops |-> UnitRow(l).coef[k] * p[k]]
  <2>1. zero \in Points /\ one \in Points
    BY <1>1, AffineIs DEF Points
  <2>2. \A k \in Loops : p[k] \in Int
    BY DEF Points
  <2>3. one[l] = p[l] /\ \A k \in Loops \ {l} : one[k] = 0
    BY <2>2 DEF UnitRow
  <2>4. Sum(zero) = 0
    BY <2>1, SumZero
  <2>5. \A k \in Loops : zero[k] = 0
    OBVIOUS
  <2> HIDE DEF zero, one
  <2>6. Sum(one) = p[l]
    BY <2>1, <2>2, <2>3, <2>4, <2>5, SumExcept
  <2> QED BY <2>2, <2>6 DEF Affine, UnitRow, one
<1> QED BY <1>1, <1>2

\* The identity is a choice of rows.
LEMMA IdentityRows == Identity \in [Loops -> Rows]
BY UnitRowIs DEF Identity

\* The loop variables at a point are affine functions of it.
LEMMA PositionIs ==
  ASSUME NEW s, s.rows \in [Loops -> Rows], NEW p \in Points
  PROVE  Position(s, p) \in Points /\ \A l \in Loops : Position(s, p)[l] = Affine(s.rows[l], p)
BY AffineIs DEF Position, Points

\* Under the identity a point is its own position.
LEMMA IdentityPosition ==
  ASSUME NEW s, s.rows = Identity, NEW p \in Points
  PROVE  Position(s, p) = p
BY UnitRowIs DEF Position, Identity, Points

\* Composition yields rows again.
LEMMA ComposedIs ==
  ASSUME NEW rows \in [Loops -> Rows], NEW row \in Rows
  PROVE  Composed(rows, row) \in Rows
<1>1. row.coef \in [Loops -> Int] /\ row.const \in Int
      /\ \A l \in Loops : rows[l].coef \in [Loops -> Int] /\ rows[l].const \in Int
  BY DEF Rows
<1>2. \A k \in Loops : [l \in Loops |-> row.coef[l] * rows[l].coef[k]] \in Points
  BY <1>1 DEF Points
<1>3. [l \in Loops |-> row.coef[l] * rows[l].const] \in Points
  BY <1>1 DEF Points
<1>4. \A k \in Loops : Sum([l \in Loops |-> row.coef[l] * rows[l].coef[k]]) \in Int
  BY <1>2, SumInt
<1>5. Sum([l \in Loops |-> row.coef[l] * rows[l].const]) \in Int
  BY <1>3, SumInt
<1> QED BY <1>1, <1>4, <1>5 DEF Composed, Rows

\* An affine function of affine functions
LEMMA ComposedAffine ==
  ASSUME NEW rows \in [Loops -> Rows], NEW row \in Rows, NEW p \in Points
  PROVE  Affine(Composed(rows, row), p) = Affine(row, [l \in Loops |-> Affine(rows[l], p)])
<1> DEFINE w(l) == row.coef[l]
           c(l, k) == rows[l].coef[k]
           M == [l \in Loops |-> [k \in Loops |-> w(l) * (c(l, k) * p[k])]]
           inner(l) == [k \in Loops |-> c(l, k) * p[k]]
           S(l) == Sum(inner(l))
           consts == [l \in Loops |-> w(l) * rows[l].const]
           sums == [l \in Loops |-> w(l) * S(l)]
           col(k) == [l \in Loops |-> w(l) * c(l, k)]
<1>1. /\ row.const \in Int /\ \A l \in Loops : w(l) \in Int /\ rows[l].const \in Int /\ p[l] \in Int
      /\ \A l, k \in Loops : c(l, k) \in Int
  BY DEF Rows, Points
<1>2. M \in [Loops -> Points] /\ \A l \in Loops : inner(l) \in Points
  BY <1>1 DEF Points
<1>3. \A l \in Loops : S(l) \in Int
  BY <1>2, SumInt
<1>4. consts \in Points /\ sums \in Points /\ \A k \in Loops : col(k) \in Points
  BY <1>1, <1>3 DEF Points
<1>5. ASSUME NEW l \in Loops PROVE Sum(M[l]) = w(l) * S(l)
  <2>1. M[l] = [k \in Loops |-> w(l) * inner(l)[k]]
    OBVIOUS
  <2>2. inner(l) \in Points /\ w(l) \in Int
    BY <1>1, <1>2
  <2> HIDE DEF w, inner
  <2> QED BY <2>1, <2>2, SumTimes
<1>6. ASSUME NEW k \in Loops PROVE Sum([l \in Loops |-> M[l][k]]) = Sum(col(k)) * p[k]
  <2>1. ASSUME NEW l \in Loops PROVE M[l][k] = p[k] * col(k)[l]
    <3>1. w(l) \in Int /\ c(l, k) \in Int /\ p[k] \in Int
      BY <1>1
    <3> HIDE DEF w, c
    <3>2. w(l) * (c(l, k) * p[k]) = p[k] * (w(l) * c(l, k))
      BY <3>1, SMT
    <3> QED BY <3>2
  <2>2. [l \in Loops |-> M[l][k]] = [l \in Loops |-> p[k] * col(k)[l]]
    BY <2>1
  <2>3. col(k) \in Points /\ p[k] \in Int
    BY <1>1, <1>4
  <2> HIDE DEF col, M
  <2>4. Sum([l \in Loops |-> M[l][k]]) = p[k] * Sum(col(k))
    BY <2>2, <2>3, SumTimes
  <2>5. Sum(col(k)) \in Int
    BY <2>3, SumInt
  <2> QED BY <2>3, <2>4, <2>5
<1>7. Sum([k \in Loops |-> Sum(col(k)) * p[k]]) = Sum(sums)
  <2>1. [k \in Loops |-> Sum(col(k)) * p[k]] = [k \in Loops |-> Sum([l \in Loops |-> M[l][k]])]
    BY <1>6
  <2>2. sums = [l \in Loops |-> Sum(M[l])]
    BY <1>5
  <2> HIDE DEF col, M, sums
  <2> QED BY <1>2, <2>1, <2>2, SumExchange
<1>8. Affine(Composed(rows, row), p) = (row.const + Sum(consts)) + Sum(sums)
  <2>1. Composed(rows, row) = [coef |-> [k \in Loops |-> Sum(col(k))], const |-> row.const + Sum(consts)]
    BY DEF Composed
  <2> DEFINE new == Composed(rows, row)
  <2>2. [k \in Loops |-> new.coef[k] * p[k]] = [k \in Loops |-> Sum(col(k)) * p[k]] /\ new.const = row.const + Sum(consts)
    <3> HIDE DEF col, consts
    <3> QED BY <2>1
  <2> HIDE DEF new, col, consts, sums
  <2>3. Affine(new, p) = (row.const + Sum(consts)) + Sum(sums)
    BY <1>7, <2>2 DEF Affine
  <2> QED BY <2>3 DEF new
<1>9. Affine(row, [l \in Loops |-> Affine(rows[l], p)]) = row.const + Sum([l \in Loops |-> consts[l] + sums[l]])
  <2>1. ASSUME NEW l \in Loops
        PROVE  row.coef[l] * [m \in Loops |-> Affine(rows[m], p)][l] = consts[l] + sums[l]
    <3>1. Affine(rows[l], p) = rows[l].const + S(l)
      BY DEF Affine
    <3>2. w(l) \in Int /\ rows[l].const \in Int /\ S(l) \in Int
      BY <1>1, <1>3
    <3> DEFINE a == rows[l].const
    <3> HIDE DEF w, S, a
    <3>3. w(l) * (a + S(l)) = w(l) * a + w(l) * S(l)
      BY <3>2, SMT DEF a
    <3> QED BY <3>1, <3>3 DEF a, w
  <2>2. [l \in Loops |-> row.coef[l] * [m \in Loops |-> Affine(rows[m], p)][l]] = [l \in Loops |-> consts[l] + sums[l]]
    BY <2>1
  <2> HIDE DEF consts, sums
  <2> QED BY <2>2 DEF Affine
<1> HIDE DEF consts, sums
<1>10. Sum([l \in Loops |-> consts[l] + sums[l]]) = Sum(consts) + Sum(sums)
  BY <1>4, SumAdd
<1>11. Sum(consts) \in Int /\ Sum(sums) \in Int
  BY <1>4, SumInt
<1> QED BY <1>1, <1>8, <1>9, <1>10, <1>11
-----------------------------------------------------------------------------
(* Runs and the instances they compute.                                    *)

\* A statement as the commands leave it
Statement(s) ==
  /\ s = [IS |-> s.IS, code |-> s.code, rows |-> s.rows, lex |-> s.lex]
  /\ s.IS \in SUBSET Points /\ IsFiniteSet(s.IS)
  /\ SeqLike(s.code)
  /\ s.rows \in [Loops -> Rows] /\ s.lex \in Lexes

\* No two iterations have the same values of the loop variables.
Spread(s) == \A p, q \in s.IS : Position(s, p) = Position(s, q) => p = q

Proper(ss) == SeqLike(ss) /\ \A n \in DOMAIN ss : Statement(ss[n]) /\ Spread(ss[n])

\* Runs and Instance of any statements
RunsIn(ss) == UNION {UNION {{<<n, c, p>> : p \in ss[n].IS} : c \in DOMAIN ss[n].code} : n \in DOMAIN ss}

InstanceIn(ss, r) == <<ss[r[1]].code[r[2]].of, ss[r[1]].code[r[2]].at[r[3]]>>

\* A run is a statement, one of its copies and one of its points.
LEMMA RunsAre ==
  ASSUME NEW ss
  PROVE  /\ \A n, c, p : n \in DOMAIN ss /\ c \in DOMAIN ss[n].code /\ p \in ss[n].IS => <<n, c, p>> \in RunsIn(ss)
         /\ \A r \in RunsIn(ss) : /\ r = <<r[1], r[2], r[3]>>
                                  /\ r[1] \in DOMAIN ss /\ r[2] \in DOMAIN ss[r[1]].code /\ r[3] \in ss[r[1]].IS
<1>1. ASSUME NEW n, NEW c, NEW p, n \in DOMAIN ss, c \in DOMAIN ss[n].code, p \in ss[n].IS
      PROVE  <<n, c, p>> \in RunsIn(ss)
  <2> DEFINE of(m, d) == {<<m, d, q>> : q \in ss[m].IS}
             all(m) == UNION {of(m, d) : d \in DOMAIN ss[m].code}
  <2>1. <<n, c, p>> \in of(n, c)
    BY <1>1, Zenon
  <2> HIDE DEF of
  <2>2. <<n, c, p>> \in all(n)
    BY <1>1, <2>1, Zenon
  <2> HIDE DEF all
  <2>3. <<n, c, p>> \in UNION {all(m) : m \in DOMAIN ss}
    BY <1>1, <2>2, Zenon
  <2> QED BY <2>3, Zenon DEF RunsIn, all, of
<1>2. ASSUME NEW r \in RunsIn(ss)
      PROVE  /\ r = <<r[1], r[2], r[3]>>
             /\ r[1] \in DOMAIN ss /\ r[2] \in DOMAIN ss[r[1]].code /\ r[3] \in ss[r[1]].IS
  <2>1. PICK n \in DOMAIN ss : r \in UNION {{<<n, c, p>> : p \in ss[n].IS} : c \in DOMAIN ss[n].code}
    BY Zenon DEF RunsIn
  <2>2. PICK c \in DOMAIN ss[n].code : r \in {<<n, c, p>> : p \in ss[n].IS}
    BY <2>1, Zenon
  <2>3. PICK p \in ss[n].IS : r = <<n, c, p>>
    BY <2>2, Zenon
  <2> QED BY <2>3
<1> QED BY <1>1, <1>2

\* The runs of the statements are the instances I, each once.
Once(ss, I) ==
  /\ \A r \in RunsIn(ss) : InstanceIn(ss, r) \in I
  /\ \A i \in I : \E r \in RunsIn(ss) : InstanceIn(ss, r) = i
  /\ \A r, t \in RunsIn(ss) : InstanceIn(ss, r) = InstanceIn(ss, t) => r = t

\* f says where each run has gone.
Follows(f, old, new) ==
  /\ f \in [RunsIn(old) -> RunsIn(new)]
  /\ \A t \in RunsIn(new) : \E r \in RunsIn(old) : f[r] = t
  /\ \A r \in RunsIn(old) : InstanceIn(new, f[r]) = InstanceIn(old, r)

\* If every run goes to one with its instance, different ones to different
\* ones and none is left out, the instances still run once.
LEMMA OnceFollows ==
  ASSUME NEW old, NEW new, NEW f, NEW I, Follows(f, old, new), Once(old, I)
  PROVE  Once(new, I)
<1>1. \A r \in RunsIn(new) : InstanceIn(new, r) \in I
  BY DEF Follows, Once
<1>2. ASSUME NEW i \in I PROVE \E r \in RunsIn(new) : InstanceIn(new, r) = i
  <2>1. PICK r \in RunsIn(old) : InstanceIn(old, r) = i
    BY DEF Once
  <2>2. f[r] \in RunsIn(new) /\ InstanceIn(new, f[r]) = i
    BY <2>1 DEF Follows
  <2> QED BY <2>2
<1>3. ASSUME NEW r \in RunsIn(new), NEW t \in RunsIn(new), InstanceIn(new, r) = InstanceIn(new, t)
      PROVE  r = t
  <2>1. PICK a \in RunsIn(old) : f[a] = r
    BY DEF Follows
  <2>2. PICK b \in RunsIn(old) : f[b] = t
    BY DEF Follows
  <2>3. InstanceIn(old, a) = InstanceIn(old, b)
    BY <1>3, <2>1, <2>2 DEF Follows
  <2>4. a = b
    BY <2>3 DEF Once
  <2> QED BY <2>1, <2>2, <2>4
<1> QED BY <1>1, <1>2, <1>3 DEF Once

\* Statements that differ in nothing but the rows and the order run the same.
LEMMA SameRuns ==
  ASSUME NEW old, NEW new, DOMAIN new = DOMAIN old,
         \A n \in DOMAIN old : new[n].IS = old[n].IS /\ new[n].code = old[n].code
  PROVE  Follows([r \in RunsIn(old) |-> r], old, new)
<1>1. RunsIn(new) = RunsIn(old)
  <2>1. ASSUME NEW r \in RunsIn(old) PROVE r \in RunsIn(new)
    BY RunsAre
  <2>2. ASSUME NEW r \in RunsIn(new) PROVE r \in RunsIn(old)
    BY RunsAre
  <2> QED BY <2>1, <2>2
<1>2. \A r \in RunsIn(old) : InstanceIn(new, r) = InstanceIn(old, r)
  BY RunsAre DEF InstanceIn
<1> QED BY <1>1, <1>2 DEF Follows

\* A statement on other points computes there what the old points computed.
LEMMA OnIs ==
  ASSUME NEW s, Statement(s), NEW P \in SUBSET Points, IsFiniteSet(P), NEW back, DOMAIN back = P
  PROVE  LET n == On(s, back)
         IN  /\ Statement(n) /\ n.IS = P /\ n.rows = s.rows /\ n.lex = s.lex
             /\ DOMAIN n.code = DOMAIN s.code /\ Len(n.code) = Len(s.code)
             /\ \A c \in DOMAIN s.code : /\ n.code[c].of = s.code[c].of
                                         /\ \A q \in P : n.code[c].at[q] = s.code[c].at[back[q]]
<1> DEFINE code == [c \in DOMAIN s.code |-> CopyOn(s.code[c], back)]
           n == On(s, back)
<1>1. n = [IS |-> P, code |-> code, rows |-> s.rows, lex |-> s.lex]
  <2> HIDE DEF code
  <2>1. On(s, back) = [s EXCEPT !.IS = P, !.code = code]
    BY DEF On, code
  <2>2. s = [IS |-> s.IS, code |-> s.code, rows |-> s.rows, lex |-> s.lex]
    BY DEF Statement
  <2> QED BY <2>1, <2>2
<1>2. DOMAIN s.code = 1 .. Len(s.code) /\ Len(s.code) \in Nat
  BY DEF Statement, SeqLike
<1>3. DOMAIN code = DOMAIN s.code /\ Len(code) = Len(s.code)
  BY <1>2
<1>4. SeqLike(code)
  BY <1>2, <1>3 DEF SeqLike
<1>5. \A c \in DOMAIN s.code : code[c].of = s.code[c].of /\ \A q \in P : code[c].at[q] = s.code[c].at[back[q]]
  BY DEF CopyOn
<1> HIDE DEF code
<1>6. n.IS = P /\ n.code = code /\ n.rows = s.rows /\ n.lex = s.lex
  BY <1>1
<1> HIDE DEF n
<1>7. Statement(n)
  BY <1>1, <1>4, <1>6 DEF Statement
<1> QED BY <1>3, <1>5, <1>6, <1>7 DEF n
-----------------------------------------------------------------------------
(* apply_xform.                                                            *)

\* The positions of a statement are finitely many points.
LEMMA PositionsAre ==
  ASSUME NEW s, Statement(s)
  PROVE  /\ Positions(s) \in SUBSET Points /\ IsFiniteSet(Positions(s))
         /\ \A p \in s.IS : p \in Points /\ Position(s, p) \in Positions(s)
<1>1. \A p \in s.IS : p \in Points /\ Position(s, p) \in Points
  BY PositionIs DEF Statement
<1>2. IsFiniteSet(Positions(s))
  <2> DEFINE f == [p \in s.IS |-> Position(s, p)]
  <2>1. f \in [s.IS -> Positions(s)] /\ \A t \in Positions(s) : \E x \in s.IS : f[x] = t
    BY DEF Positions
  <2>2. IsFiniteSet(s.IS)
    BY DEF Statement
  <2> HIDE DEF f
  <2> QED BY <2>1, <2>2, ImageFinite
<1> QED BY <1>1, <1>2 DEF Positions

\* What apply_xform makes of a statement
LEMMA AppliedIs ==
  ASSUME NEW s, Statement(s), Spread(s)
  PROVE  LET a == Applied(s)
         IN  /\ Statement(a) /\ Spread(a) /\ a.IS = Positions(s) /\ a.rows = Identity /\ a.lex = s.lex
             /\ DOMAIN a.code = DOMAIN s.code
             /\ \A p \in a.IS : Position(a, p) = p
             /\ \A c \in DOMAIN s.code : /\ a.code[c].of = s.code[c].of
                                         /\ \A p \in s.IS : a.code[c].at[Position(s, p)] = s.code[c].at[p]
<1> DEFINE a == Applied(s)
<1>1. CASE s.rows = Identity
  <2>1. a = s
    BY <1>1 DEF Applied
  <2>2. \A p \in s.IS : Position(s, p) = p
    BY <1>1, IdentityPosition DEF Statement
  <2>3. Positions(s) = s.IS
    BY <2>2 DEF Positions
  <2> HIDE DEF a
  <2> QED BY <1>1, <2>1, <2>2, <2>3 DEF a
<1>2. CASE s.rows # Identity
  <2> DEFINE back == [q \in Positions(s) |-> CHOOSE p \in s.IS : Position(s, p) = q]
             n == On(s, back)
  <2>1. a = [n EXCEPT !.rows = Identity]
    BY <1>2 DEF Applied
  <2>2. \A p \in s.IS : back[Position(s, p)] = p
    BY PositionsAre DEF Spread
  <2>3. DOMAIN back = Positions(s)
    OBVIOUS
  <2> HIDE DEF back
  <2>4. /\ Statement(n) /\ n.IS = Positions(s) /\ n.rows = s.rows /\ n.lex = s.lex
        /\ DOMAIN n.code = DOMAIN s.code
        /\ \A c \in DOMAIN s.code : /\ n.code[c].of = s.code[c].of
                                    /\ \A q \in Positions(s) : n.code[c].at[q] = s.code[c].at[back[q]]
    BY <2>3, PositionsAre, OnIs
  <2> HIDE DEF n
  <2>5. a = [IS |-> n.IS, code |-> n.code, rows |-> Identity, lex |-> n.lex]
    BY <2>1, <2>4 DEF Statement
  <2>6. a.IS = Positions(s) /\ a.code = n.code /\ a.rows = Identity /\ a.lex = s.lex
    BY <2>4, <2>5
  <2> HIDE DEF a
  <2>7. Statement(a)
    BY <2>4, <2>5, <2>6, IdentityRows DEF Statement
  <2>8. \A p \in a.IS : Position(a, p) = p
    BY <2>6, <2>7, IdentityPosition DEF Statement
  <2>9. \A c \in DOMAIN s.code : /\ a.code[c].of = s.code[c].of
                                 /\ \A p \in s.IS : a.code[c].at[Position(s, p)] = s.code[c].at[p]
    BY <2>2, <2>4, <2>6, PositionsAre
  <2>10. Spread(a)
    BY <2>8 DEF Spread
  <2> QED BY <2>4, <2>6, <2>7, <2>8, <2>9, <2>10 DEF a
<1> QED BY <1>1, <1>2

\* Where apply_xform sends a run, and what it makes of the statements
XformSent(ss, active) ==
  [r \in RunsIn(ss) |-> IF r[1] \in active THEN <<r[1], r[2], Position(ss[r[1]], r[3])>> ELSE r]

XformShape(ss, active, new) ==
  /\ Proper(new) /\ DOMAIN new = DOMAIN ss /\ Len(new) = Len(ss)
  /\ \A n \in DOMAIN ss : new[n] = IF n \in active THEN Applied(ss[n]) ELSE ss[n]
  /\ Follows(XformSent(ss, active), ss, new)

\* apply_xform moves the points of the active statements and keeps their runs.
LEMMA ApplyXformIs ==
  ASSUME NEW ss, Proper(ss), NEW active \in SUBSET DOMAIN ss, NEW new, new = ApplyXform(ss, active)
  PROVE  XformShape(ss, active, new)
<1> DEFINE f == [r \in RunsIn(ss) |-> IF r[1] \in active THEN <<r[1], r[2], Position(ss[r[1]], r[3])>> ELSE r]
<1>1. DOMAIN ss = 1 .. Len(ss) /\ Len(ss) \in Nat
  BY DEF Proper, SeqLike
<1>2. DOMAIN new = DOMAIN ss /\ \A n \in DOMAIN ss : new[n] = IF n \in active THEN Applied(ss[n]) ELSE ss[n]
  BY DEF ApplyXform
<1>3. Len(new) = Len(ss) /\ SeqLike(new)
  BY <1>1 DEF ApplyXform, SeqLike
<1>4. \A n \in DOMAIN ss : Statement(ss[n]) /\ Spread(ss[n])
  BY DEF Proper
<1>5. \A n \in DOMAIN new : Statement(new[n]) /\ Spread(new[n])
  BY <1>2, <1>4, AppliedIs
<1>6. Proper(new)
  BY <1>3, <1>5 DEF Proper
<1>7. ASSUME NEW r \in RunsIn(ss)
      PROVE  f[r] \in RunsIn(new) /\ InstanceIn(new, f[r]) = InstanceIn(ss, r)
  <2>1. r = <<r[1], r[2], r[3]>> /\ r[1] \in DOMAIN ss /\ r[2] \in DOMAIN ss[r[1]].code /\ r[3] \in ss[r[1]].IS
    BY RunsAre
  <2>2. CASE r[1] \in active
    <3> DEFINE q == Position(ss[r[1]], r[3])
    <3>1. f[r] = <<r[1], r[2], q>>
      BY <2>2
    <3>2. new[r[1]] = Applied(ss[r[1]])
      BY <1>2, <2>2
    <3>3. q \in new[r[1]].IS /\ r[2] \in DOMAIN new[r[1]].code
      BY <1>4, <2>1, <3>2, AppliedIs, PositionsAre
    <3>4. /\ new[r[1]].code[r[2]].of = ss[r[1]].code[r[2]].of
          /\ new[r[1]].code[r[2]].at[q] = ss[r[1]].code[r[2]].at[r[3]]
      BY <1>4, <2>1, <3>2, AppliedIs
    <3> HIDE DEF q, f
    <3>5. f[r] \in RunsIn(new)
      BY <1>2, <2>1, <3>1, <3>3, RunsAre
    <3> QED BY <3>1, <3>4, <3>5 DEF InstanceIn
  <2>3. CASE r[1] \notin active
    <3>1. f[r] = r /\ new[r[1]] = ss[r[1]]
      BY <1>2, <2>1, <2>3
    <3> HIDE DEF f
    <3> QED BY <1>2, <2>1, <3>1, RunsAre DEF InstanceIn
  <2> QED BY <2>2, <2>3
<1>8. ASSUME NEW t \in RunsIn(new) PROVE \E r \in RunsIn(ss) : f[r] = t
  <2>1. t = <<t[1], t[2], t[3]>> /\ t[1] \in DOMAIN ss /\ t[2] \in DOMAIN new[t[1]].code /\ t[3] \in new[t[1]].IS
    BY <1>2, RunsAre
  <2>2. CASE t[1] \in active
    <3>1. new[t[1]].IS = Positions(ss[t[1]]) /\ DOMAIN new[t[1]].code = DOMAIN ss[t[1]].code
      BY <1>2, <1>4, <2>1, <2>2, AppliedIs
    <3>2. PICK p \in ss[t[1]].IS : t[3] = Position(ss[t[1]], p)
      BY <2>1, <3>1 DEF Positions
    <3>3. <<t[1], t[2], p>> \in RunsIn(ss)
      BY <2>1, <3>1, <3>2, RunsAre
    <3>4. f[<<t[1], t[2], p>>] = <<t[1], t[2], Position(ss[t[1]], p)>>
      BY <2>2, <3>3
    <3> QED BY <2>1, <3>2, <3>3, <3>4
  <2>3. CASE t[1] \notin active
    <3>1. t \in RunsIn(ss)
      BY <1>2, <2>1, <2>3, RunsAre
    <3> QED BY <2>3, <3>1
  <2> QED BY <2>2, <2>3
<1>9. Follows(f, ss, new)
  <2>1. f = [r \in RunsIn(ss) |-> f[r]] /\ DOMAIN f = RunsIn(ss)
    OBVIOUS
  <2> HIDE DEF f
  <2> QED BY <1>7, <1>8, <2>1 DEF Follows
<1> QED BY <1>2, <1>3, <1>6, <1>9 DEF XformShape, XformSent
-----------------------------------------------------------------------------
(* shift and skew: a new row for a loop.                                   *)

\* A new row changes the position in the loop of that row only.
LEMMA ComposedAtIs ==
  ASSUME NEW s, Statement(s), NEW level \in Loops, NEW row \in Rows
  PROVE  LET n == ComposedAt(s, level, row)
         IN  /\ Statement(n) /\ n.IS = s.IS /\ n.code = s.code /\ n.lex = s.lex
             /\ \A p \in s.IS : /\ p \in Points /\ Position(s, p) \in Points /\ Position(n, p) \in Points
                                /\ \A l \in Loops \ {level} : Position(n, p)[l] = Position(s, p)[l]
                                /\ Position(n, p)[level] = Affine(row, Position(s, p))
<1> DEFINE n == ComposedAt(s, level, row)
           rows == [s.rows EXCEPT ![level] = Composed(s.rows, row)]
<1>1. s.rows \in [Loops -> Rows] /\ s = [IS |-> s.IS, code |-> s.code, rows |-> s.rows, lex |-> s.lex]
  BY DEF Statement
<1>2. rows \in [Loops -> Rows] /\ rows[level] = Composed(s.rows, row) /\ \A l \in Loops \ {level} : rows[l] = s.rows[l]
  BY <1>1, ComposedIs
<1>3. n = [s EXCEPT !.rows = rows]
  BY <1>1 DEF ComposedAt
<1> HIDE DEF rows
<1>4. n = [IS |-> s.IS, code |-> s.code, rows |-> rows, lex |-> s.lex]
  BY <1>1, <1>3
<1> HIDE DEF n
<1>5. n.IS = s.IS /\ n.code = s.code /\ n.rows = rows /\ n.lex = s.lex
  BY <1>4
<1>6. Statement(n)
  BY <1>2, <1>4, <1>5 DEF Statement
<1>7. ASSUME NEW p \in s.IS
      PROVE  /\ p \in Points /\ Position(s, p) \in Points /\ Position(n, p) \in Points
             /\ \A l \in Loops \ {level} : Position(n, p)[l] = Position(s, p)[l]
             /\ Position(n, p)[level] = Affine(row, Position(s, p))
  <2>1. p \in Points
    BY DEF Statement
  <2>2. /\ Position(s, p) \in Points /\ \A l \in Loops : Position(s, p)[l] = Affine(s.rows[l], p)
        /\ Position(n, p) \in Points /\ \A l \in Loops : Position(n, p)[l] = Affine(rows[l], p)
    BY <1>1, <1>2, <1>5, <2>1, PositionIs
  <2>3. Affine(Composed(s.rows, row), p) = Affine(row, [l \in Loops |-> Affine(s.rows[l], p)])
    BY <1>1, <2>1, ComposedAffine
  <2>4. Affine(Composed(s.rows, row), p) = Affine(row, Position(s, p))
    BY <2>3 DEF Position
  <2> QED BY <1>2, <2>1, <2>2, <2>4
<1> QED BY <1>5, <1>6, <1>7 DEF n

\* A row that takes the loop of its level into account tells apart what
\* differs there.
LEMMA AffineExcept ==
  ASSUME NEW row \in Rows, NEW level \in Loops, NEW p \in Points, NEW q \in Points,
         \A l \in Loops \ {level} : q[l] = p[l]
  PROVE  Affine(row, q) = Affine(row, p) + row.coef[level] * (q[level] - p[level])
<1> DEFINE f == [k \in Loops |-> row.coef[k] * p[k]]
           h == [k \in Loops |-> row.coef[k] * q[k]]
<1>1. f \in Points /\ h \in Points
  BY AffineIs
<1>2. \A l \in Loops \ {level} : h[l] = f[l]
  OBVIOUS
<1>3. f[level] = row.coef[level] * p[level] /\ h[level] = row.coef[level] * q[level]
  OBVIOUS
<1>4. Affine(row, p) = row.const + Sum(f) /\ Affine(row, q) = row.const + Sum(h)
  BY DEF Affine
<1> HIDE DEF f, h
<1>5. Sum(h) = Sum(f) + (h[level] - f[level])
  BY <1>1, <1>2, SumExcept
<1>6. Sum(f) \in Int /\ row.const \in Int /\ row.coef[level] \in Int /\ p[level] \in Int /\ q[level] \in Int
  BY <1>1, SumInt DEF Rows, Points
<1>7. row.coef[level] * (q[level] - p[level]) = row.coef[level] * q[level] - row.coef[level] * p[level]
  BY <1>6, SMT
<1> QED BY <1>3, <1>4, <1>5, <1>6, <1>7

\* A product is 0 only where a factor is.
LEMMA ProductZero ==
  ASSUME NEW a \in Int, NEW b \in Int, a # 0, a * b = 0
  PROVE  b = 0
BY SMT

\* So iterations of a statement stay apart when a row is replaced by one that
\* takes its loop into account.
LEMMA ComposedAtSpread ==
  ASSUME NEW s, Statement(s), Spread(s), NEW level \in Loops, NEW row \in Rows, row.coef[level] # 0
  PROVE  Spread(ComposedAt(s, level, row))
<1> DEFINE n == ComposedAt(s, level, row)
<1> SUFFICES ASSUME NEW p \in s.IS, NEW q \in s.IS, Position(n, p) = Position(n, q)
             PROVE  p = q
  BY ComposedAtIs DEF Spread
<1> DEFINE P == Position(s, p)
           Q == Position(s, q)
<1>1. /\ P \in Points /\ Q \in Points
      /\ \A l \in Loops \ {level} : Q[l] = P[l]
      /\ Affine(row, P) = Affine(row, Q)
  <2> HIDE DEF n
  <2> QED BY ComposedAtIs DEF n
<1> HIDE DEF P, Q
<1>2. Affine(row, Q) = Affine(row, P) + row.coef[level] * (Q[level] - P[level])
  BY <1>1, AffineExcept
<1>3. row.coef[level] \in Int /\ Q[level] - P[level] \in Int /\ P[level] \in Int /\ Q[level] \in Int /\ Affine(row, P) \in Int
  BY <1>1, AffineIs DEF Rows, Points
<1>4. row.coef[level] * (Q[level] - P[level]) = 0
  <2> DEFINE d == row.coef[level] * (Q[level] - P[level])
  <2>1. d \in Int
    BY <1>3
  <2> HIDE DEF d
  <2>2. d = 0
    BY <1>1, <1>2, <1>3, <2>1 DEF d
  <2> QED BY <2>2 DEF d
<1>5. Q[level] = P[level]
  <2> DEFINE a == row.coef[level]
             b == Q[level] - P[level]
  <2>1. a \in Int /\ b \in Int /\ a # 0 /\ a * b = 0
    BY <1>3, <1>4
  <2> HIDE DEF a, b
  <2>2. b = 0
    BY <2>1, ProductZero
  <2> QED BY <1>3, <2>2 DEF b
<1>6. Q = P
  BY <1>1, <1>5 DEF Points
<1> QED BY <1>6 DEF Spread, P, Q

\* shift and skew: the statements of S get a new row.
ComposedIn(ss, S, level, row) ==
  [t \in DOMAIN ss |-> IF t \in S THEN ComposedAt(ss[t], level, row) ELSE ss[t]]

\* The same iterations and code in the same statements
SameCode(old, new) ==
  DOMAIN new = DOMAIN old /\ \A n \in DOMAIN old : new[n].IS = old[n].IS /\ new[n].code = old[n].code

\* shift and skew keep the statements apart and leave their code alone.
LEMMA ComposedStatements ==
  ASSUME NEW ss, Proper(ss), NEW S \in SUBSET DOMAIN ss, NEW level \in Loops, NEW row \in Rows, row.coef[level] # 0,
         NEW new, new = ComposedIn(ss, S, level, row)
  PROVE  Proper(new) /\ SameCode(ss, new) /\ \A n \in DOMAIN ss : new[n].lex = ss[n].lex
<1>1. DOMAIN ss = 1 .. Len(ss) /\ Len(ss) \in Nat /\ \A n \in DOMAIN ss : Statement(ss[n]) /\ Spread(ss[n])
  BY DEF Proper, SeqLike
<1>2. DOMAIN new = DOMAIN ss /\ \A n \in DOMAIN ss : new[n] = IF n \in S THEN ComposedAt(ss[n], level, row) ELSE ss[n]
  BY DEF ComposedIn
<1>3. Len(new) = Len(ss) /\ SeqLike(new)
  BY <1>1 DEF SeqLike, ComposedIn
<1>4. ASSUME NEW n \in DOMAIN ss
      PROVE  /\ Statement(new[n]) /\ Spread(new[n])
             /\ new[n].IS = ss[n].IS /\ new[n].code = ss[n].code /\ new[n].lex = ss[n].lex
  <2>1. CASE n \in S
    <3>1. new[n] = ComposedAt(ss[n], level, row) /\ Statement(ss[n]) /\ Spread(ss[n])
      BY <1>1, <1>2, <2>1
    <3> QED BY <3>1, ComposedAtIs, ComposedAtSpread
  <2>2. CASE n \notin S
    BY <1>1, <1>2, <2>2
  <2> QED BY <2>1, <2>2
<1> QED BY <1>2, <1>3, <1>4 DEF Proper, SameCode
-----------------------------------------------------------------------------
(* Sets in order.                                                          *)

\* Sorted lists a set of numbers, each once and in order.
LEMMA SortedNumbers ==
  ASSUME NEW S \in SUBSET Nat, IsFiniteSet(S)
  PROVE  LET q == Sorted(S, <)
         IN  /\ SeqLike(q) /\ Len(q) = Cardinality(S) /\ DOMAIN q = 1 .. Len(q)
             /\ \A i \in DOMAIN q : q[i] \in S
             /\ \A x \in S : \E i \in DOMAIN q : q[i] = x
             /\ \A i, j \in DOMAIN q : q[i] = q[j] => i = j
             /\ \A i, j \in DOMAIN q : i < j => q[i] < q[j]
<1> DEFINE R == {p \in S \X S : p[1] < p[2]}
           q == Sorted(S, <)
           C(x) == Cardinality({y \in S : y < x})
<1>1. StrictOrder(S, R)
  BY DEF StrictOrder
<1>2. ASSUME NEW x \in S PROVE C(x) = Rank(S, R, x)
  <2>1. {y \in S : y < x} = {y \in S : <<y, x>> \in R}
    OBVIOUS
  <2> QED BY <2>1 DEF Rank
<1>3. q = [i \in 1 .. Cardinality(S) |-> CHOOSE x \in S : C(x) = i-1]
  BY DEF Sorted
<1> HIDE DEF R, q, C
<1>4. ASSUME NEW i \in 1 .. Cardinality(S)
      PROVE  q[i] \in S /\ Rank(S, R, q[i]) = i-1
  <2>1. \E x \in S : C(x) = i-1
    BY <1>1, <1>2, RankExists
  <2>2. q[i] = CHOOSE x \in S : C(x) = i-1
    BY <1>3
  <2>3. q[i] \in S /\ C(q[i]) = i-1
    BY <2>1, <2>2
  <2> QED BY <1>2, <2>3
<1>5. q = [i \in 1 .. Cardinality(S) |-> q[i]]
  BY <1>3
<1>6. Listing(q, S, R)
  BY <1>1, <1>4, <1>5, RankedSequence
<1>7. \A i, j \in DOMAIN q : i < j => q[i] < q[j]
  BY <1>6 DEF Listing, R
<1> QED BY <1>6, <1>7 DEF Listing, q
-----------------------------------------------------------------------------
(* Pieces of statements and their places.                                  *)

\* m is the statement s on the points P.
Piece(m, s, P) ==
  /\ Statement(m) /\ Spread(m) /\ m.IS = P /\ m.rows = s.rows /\ DOMAIN m.code = DOMAIN s.code
  /\ \A c \in DOMAIN s.code : m.code[c].of = s.code[c].of /\ \A p \in P : m.code[c].at[p] = s.code[c].at[p]

\* A part of a statement has no two iterations at one position either.
LEMMA SpreadPart ==
  ASSUME NEW s, NEW m, Spread(s), m.rows = s.rows, m.IS \subseteq s.IS
  PROVE  Spread(m)
BY DEF Spread, Position

\* A statement is the piece of itself with all points.
LEMMA WholePiece ==
  ASSUME NEW s, Statement(s), Spread(s)
  PROVE  Piece(s, s, s.IS)
BY DEF Piece

\* Within is a piece of the statement.
LEMMA WithinIs ==
  ASSUME NEW s, Statement(s), Spread(s), NEW P \in SUBSET s.IS
  PROVE  Piece(Within(s, P), s, P) /\ Within(s, P).lex = s.lex
<1> DEFINE back == [p \in P |-> p]
           n == On(s, back)
<1>1. IsFiniteSet(P) /\ P \in SUBSET Points
  BY FS_Subset DEF Statement
<1>2. DOMAIN back = P /\ \A p \in P : back[p] = p
  OBVIOUS
<1> HIDE DEF back
<1>3. /\ Statement(n) /\ n.IS = P /\ n.rows = s.rows /\ n.lex = s.lex
      /\ DOMAIN n.code = DOMAIN s.code /\ Len(n.code) = Len(s.code)
      /\ \A c \in DOMAIN s.code : /\ n.code[c].of = s.code[c].of
                                  /\ \A q \in P : n.code[c].at[q] = s.code[c].at[back[q]]
  BY <1>1, <1>2, OnIs
<1>4. n = Within(s, P)
  BY DEF Within, back
<1> HIDE DEF n
<1>5. Spread(n)
  BY <1>3, SpreadPart
<1>6. Piece(n, s, P)
  BY <1>2, <1>3, <1>5 DEF Piece
<1> QED BY <1>3, <1>4, <1>6

\* Another place in the lexical order
LEMMA PieceMoved ==
  ASSUME NEW m, NEW s, NEW P, Piece(m, s, P), NEW level \in Loops, NEW x \in Int
  PROVE  LET n == [m EXCEPT !.lex[level] = x]
         IN  Piece(n, s, P) /\ n.lex = [m.lex EXCEPT ![level] = x]
<1> DEFINE n == [m EXCEPT !.lex[level] = x]
           lex == [m.lex EXCEPT ![level] = x]
<1>1. Statement(m) /\ m = [IS |-> m.IS, code |-> m.code, rows |-> m.rows, lex |-> m.lex]
  BY DEF Piece, Statement
<1>2. lex \in Lexes
  BY <1>1, LoopsFacts DEF Statement, Lexes
<1>3. n = [m EXCEPT !.lex = lex]
  BY <1>1
<1> HIDE DEF lex
<1>4. n = [IS |-> m.IS, code |-> m.code, rows |-> m.rows, lex |-> lex]
  BY <1>1, <1>3
<1> HIDE DEF n
<1>5. n.IS = m.IS /\ n.code = m.code /\ n.rows = m.rows /\ n.lex = lex
  BY <1>4
<1>6. Statement(n)
  BY <1>1, <1>2, <1>4, <1>5 DEF Statement
<1>7. Spread(n)
  BY <1>5, SpreadPart DEF Piece
<1>8. Piece(n, s, P)
  BY <1>5, <1>6, <1>7 DEF Piece
<1> QED BY <1>5, <1>8 DEF n, lex

\* The order in which the loops of a level run: those from place on move.
Moved(lex, place, level, amount) ==
  IF /\ \A k \in 1 .. level-1 : lex[k] = place[k]
     /\ IF amount > 0 THEN lex[level] >= place[level] ELSE lex[level] <= place[level]
  THEN [lex EXCEPT ![level] = @ + amount] ELSE lex

\* The statements with their places moved
ShiftShape(ss, place, level, amount, new) ==
  /\ SeqLike(new) /\ Len(new) = Len(ss) /\ DOMAIN new = DOMAIN ss
  /\ \A n \in DOMAIN ss : \A s, P : Piece(ss[n], s, P) =>
       Piece(new[n], s, P) /\ new[n].lex = Moved(ss[n].lex, place, level, amount)

\* shiftLexicalOrder changes the place of a statement and nothing else.
LEMMA ShiftLexicalOrderIs ==
  ASSUME NEW ss, SeqLike(ss), NEW place, NEW level \in Loops, NEW amount \in Int,
         NEW new, new = ShiftLexicalOrder(ss, place, level, amount)
  PROVE  ShiftShape(ss, place, level, amount, new)
<1> DEFINE behind(n) == /\ \A k \in 1 .. level-1 : ss[n].lex[k] = place[k]
                        /\ IF amount > 0 THEN ss[n].lex[level] >= place[level] ELSE ss[n].lex[level] <= place[level]
<1>1. DOMAIN ss = 1 .. Len(ss) /\ Len(ss) \in Nat
  BY DEF SeqLike
<1>2. new = [n \in DOMAIN ss |-> IF behind(n) THEN [ss[n] EXCEPT !.lex[level] = @ + amount] ELSE ss[n]]
  BY DEF ShiftLexicalOrder
<1> HIDE DEF behind
<1>3. DOMAIN new = DOMAIN ss /\ Len(new) = Len(ss) /\ SeqLike(new)
  BY <1>1, <1>2 DEF SeqLike
<1>4. ASSUME NEW n \in DOMAIN ss, NEW s, NEW P, Piece(ss[n], s, P)
      PROVE  Piece(new[n], s, P) /\ new[n].lex = Moved(ss[n].lex, place, level, amount)
  <2>1. CASE behind(n)
    <3> DEFINE x == ss[n].lex[level] + amount
    <3>1. ss[n].lex \in Lexes /\ level \in 1 .. NDim+1
      BY <1>4, LoopsFacts DEF Piece, Statement
    <3>2. x \in Int
      <4>1. ss[n].lex[level] \in Int
        BY <3>1 DEF Lexes
      <4> QED BY <4>1
    <3>3. ss[n] = [IS |-> ss[n].IS, code |-> ss[n].code, rows |-> ss[n].rows, lex |-> ss[n].lex]
      BY <1>4 DEF Piece, Statement
    <3>4. new[n] = [ss[n] EXCEPT !.lex[level] = x]
      BY <1>2, <2>1, <3>1, <3>3 DEF Lexes
    <3>5. Moved(ss[n].lex, place, level, amount) = [ss[n].lex EXCEPT ![level] = x]
      BY <2>1, <3>1 DEF Moved, behind, Lexes
    <3> HIDE DEF x
    <3>6. Piece([ss[n] EXCEPT !.lex[level] = x], s, P) /\ [ss[n] EXCEPT !.lex[level] = x].lex = [ss[n].lex EXCEPT ![level] = x]
      BY <1>4, <3>2, PieceMoved
    <3> QED BY <3>4, <3>5, <3>6
  <2>2. CASE ~behind(n)
    <3>1. new[n] = ss[n]
      BY <1>2, <2>2
    <3>2. Moved(ss[n].lex, place, level, amount) = ss[n].lex
      BY <2>2 DEF Moved, behind
    <3> QED BY <1>4, <3>1, <3>2
  <2> QED BY <2>1, <2>2
<1> QED BY <1>3, <1>4 DEF ShiftShape
-----------------------------------------------------------------------------
(* One constraint of split.                                                *)

\* The points of statement n that stay with it
Staying(ss, same, con, n) == IF n \in same THEN ss[n].IS \ Part2(ss[n], con) ELSE ss[n].IS

\* Statements, or a loop as split has looked it up, of ss
Among(ss, same) == same \subseteq DOMAIN ss

LoopIn(ss, loop) == Among(ss, loop.same) /\ loop.level \in Loops /\ loop.lex \in Lexes

\* split makes room for one loop, before or behind.
LEMMA StepIs ==
  ASSUME NEW con
  PROVE  Step(con) \in {1, -1} /\ Step(con) \in Int
BY DEF Step

\* cut lists the statements that get a new half.
CutShape(ss, same, con, cut) ==
  /\ SeqLike(cut) /\ DOMAIN cut = 1 .. Len(cut) /\ Len(cut) \in Nat
  /\ \A i \in DOMAIN cut : cut[i] \in same /\ Part2(ss[cut[i]], con) # {}
  /\ \A t \in same : Part2(ss[t], con) # {} => \E i \in DOMAIN cut : cut[i] = t /\ Half(ss, cut, t) = Len(ss) + i
  /\ \A i \in DOMAIN cut : Half(ss, cut, cut[i]) = Len(ss) + i

\* The statements that get a second half, each once
LEMMA CutIs ==
  ASSUME NEW ss, Proper(ss), NEW same, Among(ss, same), NEW con, NEW cut, cut = Cut(ss, same, con)
  PROVE  CutShape(ss, same, con, cut)
<1> DEFINE T == {t \in same : Part2(ss[t], con) # {}}
<1>1. DOMAIN ss = 1 .. Len(ss) /\ Len(ss) \in Nat
  BY DEF Proper, SeqLike
<1>2. IsFiniteSet(1 .. Len(ss))
  BY <1>1, FS_Interval
<1>3. T \in SUBSET Nat /\ IsFiniteSet(T)
  <2>1. T \subseteq 1 .. Len(ss)
    BY <1>1 DEF Among
  <2>2. 1 .. Len(ss) \subseteq Nat
    BY <1>1
  <2> HIDE DEF T
  <2>3. IsFiniteSet(T)
    BY <1>2, <2>1, FS_Subset
  <2> QED BY <2>1, <2>2, <2>3
<1>4. cut = Sorted(T, <)
  BY DEF Cut
<1> HIDE DEF T
<1>5. /\ SeqLike(cut) /\ DOMAIN cut = 1 .. Len(cut)
      /\ \A i \in DOMAIN cut : cut[i] \in T
      /\ \A x \in T : \E i \in DOMAIN cut : cut[i] = x
      /\ \A i, j \in DOMAIN cut : cut[i] = cut[j] => i = j
  BY <1>3, <1>4, SortedNumbers
<1>6. Len(cut) \in Nat
  BY <1>5 DEF SeqLike
<1>7. ASSUME NEW t \in T
      PROVE  \E i \in DOMAIN cut : cut[i] = t /\ Half(ss, cut, t) = Len(ss) + i
  <2> DEFINE i == CHOOSE n \in DOMAIN cut : cut[n] = t
  <2>1. i \in DOMAIN cut /\ cut[i] = t
    BY <1>5
  <2>2. Half(ss, cut, t) = Len(ss) + i
    BY DEF Half
  <2> HIDE DEF i
  <2> QED BY <1>1, <1>5, <1>6, <2>1, <2>2
<1>8. ASSUME NEW i \in DOMAIN cut PROVE Half(ss, cut, cut[i]) = Len(ss) + i
  BY <1>5, <1>7
<1> QED BY <1>5, <1>6, <1>7, <1>8 DEF T, CutShape

\* What split makes of the statements: the pieces and their places
SplitShape(ss, loop, con, cut, place, split) ==
  /\ SeqLike(split) /\ Len(split) = Len(ss) + Len(cut) /\ DOMAIN split = 1 .. (Len(ss) + Len(cut))
  /\ \A n \in DOMAIN ss : /\ Piece(split[n], ss[n], Staying(ss, loop.same, con, n))
                          /\ split[n].lex = Moved(ss[n].lex, place, loop.level, Step(con))
  /\ \A i \in DOMAIN cut :
       /\ Piece(split[Len(ss) + i], ss[cut[i]], Part2(ss[cut[i]], con))
       /\ split[Len(ss) + i].lex
            = Moved([ss[cut[i]].lex EXCEPT ![loop.level] = place[loop.level]], place, loop.level, Step(con))

\* One constraint leaves every statement its points within it, and the new
\* statements are the pieces outside.
LEMMA SplitPieces ==
  ASSUME NEW ss, Proper(ss), NEW loop, LoopIn(ss, loop), NEW con,
         NEW cut, cut = Cut(ss, loop.same, con), NEW place, place = Place(loop, con),
         NEW split, split = SplitStatements(ss, loop, con)
  PROVE  SplitShape(ss, loop, con, cut, place, split)
<1> DEFINE same == loop.same
           level == loop.level
           x    == place[level]
           rest == [t \in DOMAIN ss |-> IF t \in same THEN Within(ss[t], ss[t].IS \ Part2(ss[t], con)) ELSE ss[t]]
           half(i) == Within(ss[cut[i]], Part2(ss[cut[i]], con))
           made == [i \in DOMAIN cut |-> [half(i) EXCEPT !.lex[level] = x]]
           both == rest \o made
           new  == ShiftLexicalOrder(both, place, level, Step(con))
<1>1. DOMAIN ss = 1 .. Len(ss) /\ Len(ss) \in Nat /\ \A n \in DOMAIN ss : Statement(ss[n]) /\ Spread(ss[n])
  BY DEF Proper, SeqLike
<1>01. Among(ss, loop.same) /\ loop.same \subseteq DOMAIN ss /\ loop.level \in Loops /\ loop.lex \in Lexes /\ \A t \in loop.same : t \in DOMAIN ss
  BY DEF Among, LoopIn
<1>2. split = new
  BY DEF SplitStatements
<1>3. x \in Int
  <2>1. level \in 1 .. NDim+1
    BY <1>01, LoopsFacts
  <2>2. loop.lex[level] \in Int
    BY <1>01, <2>1 DEF Lexes
  <2>3. x = loop.lex[level] + Step(con)
    BY <1>01, <2>1 DEF Place, Lexes
  <2> QED BY <2>2, <2>3, StepIs
<1> HIDE DEF x
<1>4. /\ SeqLike(cut) /\ DOMAIN cut = 1 .. Len(cut) /\ Len(cut) \in Nat
      /\ \A i \in DOMAIN cut : cut[i] \in same
  <2>1. CutShape(ss, loop.same, con, cut)
    BY <1>01, CutIs
  <2> QED BY <2>1 DEF CutShape
<1>5. SeqLike(rest) /\ Len(rest) = Len(ss) /\ DOMAIN rest = DOMAIN ss
  BY <1>1 DEF SeqLike
<1>6. SeqLike(made) /\ Len(made) = Len(cut) /\ DOMAIN made = DOMAIN cut
  BY <1>4 DEF SeqLike
<1>7. ASSUME NEW n \in DOMAIN ss
      PROVE  Piece(rest[n], ss[n], Staying(ss, same, con, n)) /\ rest[n].lex = ss[n].lex
  <2>1. CASE n \in same
    <3>1. rest[n] = Within(ss[n], ss[n].IS \ Part2(ss[n], con)) /\ Staying(ss, same, con, n) = ss[n].IS \ Part2(ss[n], con)
      BY <2>1 DEF Staying
    <3> HIDE DEF rest
    <3> QED BY <1>1, <3>1, WithinIs
  <2>2. CASE n \notin same
    <3>1. rest[n] = ss[n] /\ Staying(ss, same, con, n) = ss[n].IS
      BY <2>2 DEF Staying
    <3> HIDE DEF rest
    <3> QED BY <1>1, <3>1, WholePiece
  <2> QED BY <2>1, <2>2
<1>8. ASSUME NEW i \in DOMAIN cut
      PROVE  /\ Piece(made[i], ss[cut[i]], Part2(ss[cut[i]], con))
             /\ made[i].lex = [ss[cut[i]].lex EXCEPT ![level] = x]
  <2>1. Statement(ss[cut[i]]) /\ Spread(ss[cut[i]])
    BY <1>01, <1>1, <1>4
  <2>2. Part2(ss[cut[i]], con) \in SUBSET ss[cut[i]].IS
    BY DEF Part2
  <2>3. Piece(half(i), ss[cut[i]], Part2(ss[cut[i]], con)) /\ half(i).lex = ss[cut[i]].lex
    BY <2>1, <2>2, WithinIs
  <2> DEFINE m == [half(i) EXCEPT !.lex[level] = x]
  <2>4. made[i] = m
    OBVIOUS
  <2> HIDE DEF half
  <2>5. Piece(m, ss[cut[i]], Part2(ss[cut[i]], con)) /\ m.lex = [half(i).lex EXCEPT ![level] = x]
    BY <1>01, <1>3, <2>3, PieceMoved
  <2> HIDE DEF m, made
  <2> QED BY <2>3, <2>4, <2>5
<1> HIDE DEF rest, made
<1>9. /\ SeqLike(both) /\ Len(both) = Len(ss) + Len(cut) /\ DOMAIN both = 1 .. (Len(ss) + Len(cut))
      /\ \A n \in DOMAIN ss : both[n] = rest[n]
      /\ \A i \in DOMAIN cut : both[Len(ss) + i] = made[i] /\ Len(ss) + i \in DOMAIN both
      /\ \A n \in DOMAIN ss : n \in DOMAIN both
  BY <1>1, <1>4, <1>5, <1>6, ConcatIs
<1> HIDE DEF both
<1>10. /\ SeqLike(split) /\ Len(split) = Len(both) /\ DOMAIN split = DOMAIN both
       /\ \A n \in DOMAIN both : \A s, P : Piece(both[n], s, P) =>
            Piece(split[n], s, P) /\ split[n].lex = Moved(both[n].lex, place, level, Step(con))
  <2>1. PICK ss2 : ss2 = both
    OBVIOUS
  <2>2. split = ShiftLexicalOrder(ss2, place, level, Step(con)) /\ SeqLike(ss2)
    BY <1>2, <1>9, <2>1
  <2>3. ShiftShape(ss2, place, loop.level, Step(con), split)
    BY <1>01, <2>2, StepIs, ShiftLexicalOrderIs
  <2> QED BY <2>1, <2>3 DEF ShiftShape
<1> HIDE DEF new
<1>11. ASSUME NEW n \in DOMAIN ss
       PROVE  /\ Piece(split[n], ss[n], Staying(ss, same, con, n))
              /\ split[n].lex = Moved(ss[n].lex, place, level, Step(con))
  BY <1>7, <1>9, <1>10
<1>12. ASSUME NEW i \in DOMAIN cut
       PROVE  /\ Piece(split[Len(ss) + i], ss[cut[i]], Part2(ss[cut[i]], con))
              /\ split[Len(ss) + i].lex = Moved([ss[cut[i]].lex EXCEPT ![level] = x], place, level, Step(con))
  <2>1. PICK j, t, P, lex : /\ j = Len(ss) + i /\ t = ss[cut[i]] /\ P = Part2(t, con)
                            /\ lex = [t.lex EXCEPT ![level] = x]
    OBVIOUS
  <2>2. Piece(made[i], t, P) /\ made[i].lex = lex
    BY <1>8, <2>1
  <2>3. both[j] = made[i] /\ j \in DOMAIN both
    BY <1>9, <2>1
  <2>4. Piece(split[j], t, P) /\ split[j].lex = Moved(lex, place, level, Step(con))
    BY <1>10, <2>2, <2>3
  <2> QED BY <2>1, <2>4
<1> QED BY <1>9, <1>10, <1>11, <1>12 DEF x, SplitShape

\* Where split sends a run
Sent(ss, same, con, r) ==
  IF r[1] \in same /\ r[3] \in Part2(ss[r[1]], con) THEN <<Half(ss, Cut(ss, same, con), r[1]), r[2], r[3]>> ELSE r

\* Every run is in one of the two halves.
LEMMA SplitFollows ==
  ASSUME NEW ss, Proper(ss), NEW loop, LoopIn(ss, loop), NEW con,
         NEW new, new = SplitStatements(ss, loop, con)
  PROVE  /\ Proper(new)
         /\ Follows([r \in RunsIn(ss) |-> Sent(ss, loop.same, con, r)], ss, new)
<1> DEFINE same == loop.same
           f == [r \in RunsIn(ss) |-> Sent(ss, same, con, r)]
<1>1. DOMAIN ss = 1 .. Len(ss) /\ Len(ss) \in Nat /\ \A n \in DOMAIN ss : Statement(ss[n]) /\ Spread(ss[n])
  BY DEF Proper, SeqLike
<1>01. Among(ss, loop.same) /\ loop.same \subseteq DOMAIN ss /\ loop.level \in Loops /\ loop.lex \in Lexes /\ \A t \in loop.same : t \in DOMAIN ss
  BY DEF Among, LoopIn
<1>0. PICK cut, place : cut = Cut(ss, loop.same, con) /\ place = Place(loop, con)
  OBVIOUS
<1>2. /\ SeqLike(cut) /\ DOMAIN cut = 1 .. Len(cut) /\ Len(cut) \in Nat
      /\ \A i \in DOMAIN cut : cut[i] \in same /\ Part2(ss[cut[i]], con) # {}
      /\ \A t \in same : Part2(ss[t], con) # {} => \E i \in DOMAIN cut : cut[i] = t /\ Half(ss, cut, t) = Len(ss) + i
      /\ \A i \in DOMAIN cut : Half(ss, cut, cut[i]) = Len(ss) + i
  <2>1. CutShape(ss, loop.same, con, cut)
    BY <1>0, <1>01, CutIs
  <2> QED BY <2>1 DEF CutShape
<1>3. /\ SeqLike(new) /\ DOMAIN new = 1 .. (Len(ss) + Len(cut))
      /\ \A n \in DOMAIN ss : Piece(new[n], ss[n], Staying(ss, same, con, n))
      /\ \A i \in DOMAIN cut : Piece(new[Len(ss) + i], ss[cut[i]], Part2(ss[cut[i]], con))
  <2>1. SplitShape(ss, loop, con, cut, place, new)
    BY <1>0, SplitPieces
  <2> QED BY <2>1 DEF SplitShape
<1>4. \A t \in DOMAIN new : t \notin DOMAIN ss => \E i \in DOMAIN cut : t = Len(ss) + i
  <2>1. ASSUME NEW t \in DOMAIN new, t \notin DOMAIN ss
        PROVE  \E i \in DOMAIN cut : t = Len(ss) + i
    <3>1. t - Len(ss) \in 1 .. Len(cut) /\ t = Len(ss) + (t - Len(ss))
      BY <1>1, <1>2, <1>3, <2>1
    <3> QED BY <1>2, <3>1
  <2> QED BY <2>1
<1>5. \A i \in DOMAIN cut : Len(ss) + i \in DOMAIN new /\ Len(ss) + i \notin DOMAIN ss
  BY <1>1, <1>2, <1>3
<1>6. DOMAIN ss \subseteq DOMAIN new
  BY <1>1, <1>2, <1>3
<1>7. \A n \in DOMAIN new : Statement(new[n]) /\ Spread(new[n])
  BY <1>3, <1>4 DEF Piece
<1>8. Proper(new)
  BY <1>3, <1>7 DEF Proper
<1>9. ASSUME NEW r \in RunsIn(ss)
      PROVE  f[r] \in RunsIn(new) /\ InstanceIn(new, f[r]) = InstanceIn(ss, r)
  <2>1. r = <<r[1], r[2], r[3]>> /\ r[1] \in DOMAIN ss /\ r[2] \in DOMAIN ss[r[1]].code /\ r[3] \in ss[r[1]].IS
    BY RunsAre
  <2>2. CASE r[1] \in same /\ r[3] \in Part2(ss[r[1]], con)
    <3>1. f[r] = <<Half(ss, cut, r[1]), r[2], r[3]>>
      BY <1>0, <2>2 DEF Sent
    <3>2. PICK i \in DOMAIN cut : cut[i] = r[1] /\ Half(ss, cut, r[1]) = Len(ss) + i
      BY <1>2, <2>2
    <3> DEFINE h == Len(ss) + i
    <3>3. Piece(new[h], ss[r[1]], Part2(ss[r[1]], con)) /\ h \in DOMAIN new
      BY <1>3, <1>5, <3>2
    <3>4. f[r] = <<h, r[2], r[3]>>
      BY <3>1, <3>2
    <3> HIDE DEF h, f
    <3>5. f[r] \in RunsIn(new)
      BY <2>1, <2>2, <3>3, <3>4, RunsAre DEF Piece
    <3>6. new[h].code[r[2]].of = ss[r[1]].code[r[2]].of /\ new[h].code[r[2]].at[r[3]] = ss[r[1]].code[r[2]].at[r[3]]
      BY <2>1, <2>2, <3>3 DEF Piece
    <3> QED BY <3>4, <3>5, <3>6 DEF InstanceIn
  <2>3. CASE ~(r[1] \in same /\ r[3] \in Part2(ss[r[1]], con))
    <3>1. f[r] = r
      BY <2>3 DEF Sent
    <3>2. Piece(new[r[1]], ss[r[1]], Staying(ss, same, con, r[1])) /\ r[1] \in DOMAIN new
      BY <1>3, <1>6, <2>1
    <3>3. r[3] \in Staying(ss, same, con, r[1])
      BY <2>1, <2>3 DEF Staying
    <3> HIDE DEF f
    <3>4. f[r] \in RunsIn(new)
      BY <2>1, <3>1, <3>2, <3>3, RunsAre DEF Piece
    <3>5. new[r[1]].code[r[2]].of = ss[r[1]].code[r[2]].of /\ new[r[1]].code[r[2]].at[r[3]] = ss[r[1]].code[r[2]].at[r[3]]
      BY <2>1, <3>2, <3>3 DEF Piece
    <3> QED BY <3>1, <3>4, <3>5 DEF InstanceIn
  <2> QED BY <2>2, <2>3
<1>10. ASSUME NEW t \in RunsIn(new) PROVE \E r \in RunsIn(ss) : f[r] = t
  <2>1. t = <<t[1], t[2], t[3]>> /\ t[1] \in DOMAIN new /\ t[2] \in DOMAIN new[t[1]].code /\ t[3] \in new[t[1]].IS
    BY RunsAre
  <2>2. CASE t[1] \in DOMAIN ss
    <3>1. Piece(new[t[1]], ss[t[1]], Staying(ss, same, con, t[1]))
      BY <1>3, <2>2
    <3>2. t[3] \in Staying(ss, same, con, t[1]) /\ t[2] \in DOMAIN ss[t[1]].code
      BY <2>1, <3>1 DEF Piece
    <3>3. t[3] \in ss[t[1]].IS /\ ~(t[1] \in same /\ t[3] \in Part2(ss[t[1]], con))
      BY <3>2 DEF Staying
    <3>4. t \in RunsIn(ss)
      BY <2>1, <2>2, <3>2, <3>3, RunsAre
    <3>5. f[t] = t
      BY <3>3, <3>4 DEF Sent
    <3> QED BY <3>4, <3>5
  <2>3. CASE t[1] \notin DOMAIN ss
    <3>1. PICK i \in DOMAIN cut : t[1] = Len(ss) + i
      BY <1>4, <2>1, <2>3
    <3> DEFINE n == cut[i]
               r == <<n, t[2], t[3]>>
    <3>2. Piece(new[t[1]], ss[n], Part2(ss[n], con)) /\ n \in same /\ n \in DOMAIN ss /\ Half(ss, cut, n) = t[1]
      BY <1>01, <1>2, <1>3, <3>1
    <3>3. t[3] \in Part2(ss[n], con) /\ t[2] \in DOMAIN ss[n].code
      BY <2>1, <3>2 DEF Piece
    <3>4. t[3] \in ss[n].IS
      BY <3>3 DEF Part2
    <3>5. r \in RunsIn(ss)
      BY <3>2, <3>3, <3>4, RunsAre
    <3>6. f[r] = <<Half(ss, cut, n), t[2], t[3]>>
      <4> HIDE DEF n
      <4> QED BY <1>0, <3>2, <3>3, <3>5 DEF Sent
    <3> HIDE DEF r, n
    <3> QED BY <2>1, <3>2, <3>5, <3>6
  <2> QED BY <2>2, <2>3
<1>11. Follows(f, ss, new)
  <2>1. f = [r \in RunsIn(ss) |-> f[r]] /\ DOMAIN f = RunsIn(ss)
    OBVIOUS
  <2> HIDE DEF f
  <2> QED BY <1>9, <1>10, <2>1 DEF Follows
<1> QED BY <1>8, <1>11
-----------------------------------------------------------------------------
(* split.                                                                  *)

\* The statements run what they ran, and so do those of a pair with vectors.
Sound(ss, I) == Proper(ss) /\ Once(ss, I)

\* The statements of P are still those of ss, and more.
Extends(ss, new) == DOMAIN ss \subseteq DOMAIN new

\* One constraint of split neither loses nor repeats an instance.
LEMMA SplitByIs ==
  ASSUME NEW P, NEW I, Sound(P.stmt, I), NEW loop, LoopIn(P.stmt, loop), NEW con
  PROVE  Sound(SplitBy(P, loop, con).stmt, I) /\ Extends(P.stmt, SplitBy(P, loop, con).stmt)
<1>1. PICK ss : ss = ApplyXform(P.stmt, loop.same)
  OBVIOUS
<1>2. PICK new : new = SplitStatements(ss, loop, con)
  OBVIOUS
<1>3. SplitBy(P, loop, con).stmt = new
  BY <1>1, <1>2 DEF SplitBy
<1>4. loop.same \in SUBSET DOMAIN P.stmt /\ Proper(P.stmt) /\ Once(P.stmt, I)
  BY DEF LoopIn, Among, Sound
<1>5. Proper(ss) /\ DOMAIN ss = DOMAIN P.stmt /\ \E f : Follows(f, P.stmt, ss)
  <2>1. XformShape(P.stmt, loop.same, ss)
    BY <1>1, <1>4, ApplyXformIs
  <2> QED BY <2>1 DEF XformShape
<1>6. Once(ss, I)
  BY <1>4, <1>5, OnceFollows
<1>7. LoopIn(ss, loop)
  BY <1>5 DEF LoopIn, Among
<1>8. Proper(new) /\ \E f : Follows(f, ss, new)
  BY <1>2, <1>5, <1>7, SplitFollows
<1>9. Once(new, I)
  BY <1>6, <1>8, OnceFollows
<1>10. DOMAIN ss \subseteq DOMAIN new
  <2>1. PICK cut, place : cut = Cut(ss, loop.same, con) /\ place = Place(loop, con)
    OBVIOUS
  <2>5. Among(ss, loop.same)
    BY <1>7 DEF LoopIn
  <2>2. CutShape(ss, loop.same, con, cut)
    BY <1>5, <2>5, <2>1, CutIs
  <2>3. SplitShape(ss, loop, con, cut, place, new)
    BY <1>2, <1>5, <1>7, <2>1, SplitPieces
  <2>4. DOMAIN new = 1 .. (Len(ss) + Len(cut)) /\ DOMAIN ss = 1 .. Len(ss) /\ Len(ss) \in Nat /\ Len(cut) \in Nat
    BY <1>5, <2>2, <2>3 DEF SplitShape, CutShape, Proper, SeqLike
  <2> QED BY <2>4
<1> QED BY <1>3, <1>5, <1>8, <1>9, <1>10 DEF Sound, Extends

\* split applies one constraint after the other.
SplitSteps(after, P, loop, cons, n) == after[0] = P /\ \A i \in 1 .. n : after[i] = SplitBy(after[i-1], loop, cons[i])

\* What the recursion of split computes, step by step
LEMMA SplitAllSteps ==
  ASSUME NEW P, NEW s, NEW level, NEW cons, Len(cons) \in Nat, NEW loop, loop = LoopOf(P.stmt, s, level)
  PROVE  \E after : SplitSteps(after, P, loop, cons, Len(cons)) /\ SplitAll(P, s, level, cons) = after[Len(cons)]
<1> DEFINE Is(k, g) == g = [i \in 0 .. k |-> IF i = 0 THEN P ELSE SplitBy(g[i-1], loop, cons[i])]
           N == Len(cons)
           T == {k \in 0 .. N : \E g : Is(k, g)}
<1>1. 0 \in T
  <2>1. Is(0, [i \in 0 .. 0 |-> P])
    OBVIOUS
  <2>2. \E g : Is(0, g)
    BY <2>1
  <2>3. 0 \in 0 .. N
    OBVIOUS
  <2> HIDE DEF Is
  <2> QED BY <2>2, <2>3
<1>2. ASSUME NEW k \in 1 .. N, k-1 \in T PROVE k \in T
  <2>1. k \in Nat /\ k-1 \in Nat /\ k \in 0 .. N
    OBVIOUS
  <2>2. PICK g : Is(k-1, g)
    BY <1>2
  <2> DEFINE h == [i \in 0 .. k |-> IF i = k THEN SplitBy(g[k-1], loop, cons[k]) ELSE g[i]]
  <2>3. ASSUME NEW i \in 0 .. k PROVE h[i] = IF i = 0 THEN P ELSE SplitBy(h[i-1], loop, cons[i])
    <3>1. CASE i = k
      <4>1. k-1 \in 0 .. k /\ k-1 # k /\ k # 0
        BY <2>1
      <4>2. h[k-1] = g[k-1] /\ h[k] = SplitBy(g[k-1], loop, cons[k])
        BY <2>1, <4>1
      <4> HIDE DEF h
      <4> QED BY <3>1, <4>1, <4>2
    <3>2. CASE i # k
      <4>1. i \in 0 .. k-1 /\ (i # 0 => i-1 \in 0 .. k-1 /\ i-1 \in 0 .. k /\ i-1 # k)
        BY <2>1, <3>2
      <4>2. g[i] = IF i = 0 THEN P ELSE SplitBy(g[i-1], loop, cons[i])
        BY <2>2, <4>1
      <4>3. h[i] = g[i] /\ (i # 0 => h[i-1] = g[i-1])
        BY <3>2, <4>1
      <4> HIDE DEF h
      <4> QED BY <4>2, <4>3
    <3> QED BY <3>1, <3>2
  <2>4. h = [i \in 0 .. k |-> h[i]]
    OBVIOUS
  <2> HIDE DEF h
  <2>5. Is(k, h)
    BY <2>3, <2>4
  <2> QED BY <2>1, <2>5
<1> HIDE DEF T
<1>3. N \in T
  <2>1. N \in Nat /\ N \in 0 .. N
    OBVIOUS
  <2> HIDE DEF N
  <2>2. \A i \in 0 .. N : i \in T
    BY <1>1, <1>2, <2>1, UpTo
  <2> QED BY <2>1, <2>2
<1>4. PICK g : Is(N, g)
  BY <1>3 DEF T
<1> DEFINE after == CHOOSE g2 : Is(N, g2)
<1>5. Is(N, after)
  BY <1>4
<1>6. SplitAll(P, s, level, cons) = after[N]
  BY DEF SplitAll
<1> HIDE DEF after
<1>7. after[0] = P
  BY <1>5
<1>8. \A i \in 1 .. N : after[i] = SplitBy(after[i-1], loop, cons[i])
  BY <1>5
<1> QED BY <1>6, <1>7, <1>8 DEF SplitSteps

\* The loop that split looks up is one of the program.
LEMMA LoopOfIs ==
  ASSUME NEW ss, Proper(ss), NEW s \in DOMAIN ss, NEW level \in Loops
  PROVE  LoopIn(ss, LoopOf(ss, s, level))
BY DEF LoopOf, LoopIn, Among, SameLoop, Proper, Statement

\* split neither loses nor repeats an instance, whatever its constraints.
LEMMA SplitAllIs ==
  ASSUME NEW P, NEW I, Sound(P.stmt, I), NEW s \in DOMAIN P.stmt, NEW level \in Loops, NEW cons, Len(cons) \in Nat
  PROVE  Sound(SplitAll(P, s, level, cons).stmt, I) /\ Extends(P.stmt, SplitAll(P, s, level, cons).stmt)
<1>1. PICK loop : loop = LoopOf(P.stmt, s, level)
  OBVIOUS
<1>2. PICK after : SplitSteps(after, P, loop, cons, Len(cons)) /\ SplitAll(P, s, level, cons) = after[Len(cons)]
  BY <1>1, SplitAllSteps
<1>3. LoopIn(P.stmt, loop)
  BY <1>1, LoopOfIs DEF Sound
<1> DEFINE T == {n \in 0 .. Len(cons) : Sound(after[n].stmt, I) /\ Extends(P.stmt, after[n].stmt)}
<1>4. 0 \in T
  BY <1>2 DEF SplitSteps, Extends
<1>5. ASSUME NEW n \in 1 .. Len(cons), n-1 \in T PROVE n \in T
  <2>1. Sound(after[n-1].stmt, I) /\ DOMAIN P.stmt \subseteq DOMAIN after[n-1].stmt
    BY <1>5 DEF Extends
  <2>2. LoopIn(after[n-1].stmt, loop)
    BY <1>3, <2>1 DEF LoopIn, Among
  <2>3. after[n] = SplitBy(after[n-1], loop, cons[n])
    BY <1>2 DEF SplitSteps
  <2>4. Sound(after[n].stmt, I) /\ Extends(after[n-1].stmt, after[n].stmt)
    BY <2>1, <2>2, <2>3, SplitByIs
  <2>5. n \in 0 .. Len(cons)
    OBVIOUS
  <2> QED BY <2>1, <2>4, <2>5 DEF Extends
<1> HIDE DEF T
<1>6. Len(cons) \in T
  <2>1. \A i \in 0 .. Len(cons) : i \in T
    BY <1>4, <1>5, UpTo
  <2> QED BY <2>1
<1> QED BY <1>2, <1>6 DEF T
-----------------------------------------------------------------------------
(* peel.                                                                   *)

\* How many iterations peel takes off
Amount(amount) == Max({amount, -amount})

\* The amount of peel is a number of iterations.
LEMMA AmountIs ==
  ASSUME NEW amount \in Int
  PROVE  Amount(amount) \in Nat
<1> DEFINE m == IF amount >= 0 THEN amount ELSE -amount
<1>1. m \in {amount, -amount} /\ m \in Nat /\ \A y \in {amount, -amount} : m >= y
  OBVIOUS
<1>2. Amount(amount) = CHOOSE x \in {amount, -amount} : \A y \in {amount, -amount} : x >= y
  BY DEF Amount, Max
<1>3. \A x \in {amount, -amount} : (\A y \in {amount, -amount} : x >= y) => x = m
  OBVIOUS
<1> HIDE DEF m
<1>4. Amount(amount) = m
  BY <1>1, <1>2, <1>3
<1> QED BY <1>1, <1>4

\* peel splits off one iteration after the other.
PeelSteps(after, P, s, level, con, n) ==
  after[0] = P /\ \A i \in 1 .. n : after[i] = SplitAll(after[i-1], s, level, con[i])

\* The values of a loop, and the constraint that takes off one more iteration
PeelBound(v, level, amount, i) == IF amount > 0 THEN Bound(level, 1, Min(v) + i) ELSE Bound(level, -1, Max(v) - i)

PeelBounds(con, v, level, amount, n) == \A i \in 1 .. n : con[i] = <<PeelBound(v, level, amount, i)>>

\* What the recursion of peel computes, step by step
LEMMA PeeledSteps ==
  ASSUME NEW P, NEW s, NEW level, NEW amount \in Int, NEW v, v = PeelValues(P.stmt, s, level)
  PROVE  \E after, con : /\ PeelSteps(after, P, s, level, con, Amount(amount))
                         /\ PeelBounds(con, v, level, amount, Amount(amount))
                         /\ Peeled(P, s, level, amount) = after[Amount(amount)]
<1> DEFINE N == Amount(amount)
           con(i) == PeelBound(v, level, amount, i)
           cons == [i \in 1 .. N |-> <<con(i)>>]
           Is(k, g) == g = [i \in 0 .. k |-> IF i = 0 THEN P ELSE SplitAll(g[i-1], s, level, cons[i])]
           T == {k \in 0 .. N : \E g : Is(k, g)}
           Real(g) == g = [i \in 0 .. N |-> IF i = 0 THEN P ELSE SplitAll(g[i-1], s, level, <<con(i)>>)]
           after == CHOOSE g : Real(g)
<1>0. N \in Nat
  BY AmountIs
<1>1. Peeled(P, s, level, amount) = after[N]
  BY DEF Peeled, Amount, PeelBound, PeelValues
<1>11. \A i : con(i) = PeelBound(v, level, amount, i)
  OBVIOUS
<1> HIDE DEF con, N
<1>2. \A i \in 1 .. N : cons[i] = <<con(i)>>
  OBVIOUS
<1>3. 0 \in T
  <2>1. Is(0, [i \in 0 .. 0 |-> P])
    OBVIOUS
  <2>2. \E g : Is(0, g)
    BY <2>1
  <2>3. 0 \in 0 .. N
    BY <1>0
  <2> HIDE DEF Is
  <2> QED BY <2>2, <2>3
<1>4. ASSUME NEW k \in 1 .. N, k-1 \in T PROVE k \in T
  <2>1. k \in Nat /\ k-1 \in Nat /\ k \in 0 .. N
    BY <1>0
  <2>2. PICK g : Is(k-1, g)
    BY <1>4
  <2> DEFINE h == [i \in 0 .. k |-> IF i = k THEN SplitAll(g[k-1], s, level, cons[k]) ELSE g[i]]
  <2> HIDE DEF cons
  <2>3. ASSUME NEW i \in 0 .. k PROVE h[i] = IF i = 0 THEN P ELSE SplitAll(h[i-1], s, level, cons[i])
    <3>1. CASE i = k
      <4>1. k-1 \in 0 .. k /\ k-1 # k /\ k # 0
        BY <2>1
      <4>2. h[k-1] = g[k-1] /\ h[k] = SplitAll(g[k-1], s, level, cons[k])
        BY <2>1, <4>1
      <4> HIDE DEF h
      <4> QED BY <3>1, <4>1, <4>2
    <3>2. CASE i # k
      <4>1. i \in 0 .. k-1 /\ (i # 0 => i-1 \in 0 .. k-1 /\ i-1 \in 0 .. k /\ i-1 # k)
        BY <2>1, <3>2
      <4>2. g[i] = IF i = 0 THEN P ELSE SplitAll(g[i-1], s, level, cons[i])
        BY <2>2, <4>1
      <4>3. h[i] = g[i] /\ (i # 0 => h[i-1] = g[i-1])
        BY <3>2, <4>1
      <4> HIDE DEF h
      <4> QED BY <4>2, <4>3
    <3> QED BY <3>1, <3>2
  <2>4. h = [i \in 0 .. k |-> h[i]]
    OBVIOUS
  <2> HIDE DEF h
  <2>5. Is(k, h)
    BY <2>3, <2>4
  <2> QED BY <2>1, <2>5
<1>5. N \in T
  <2>1. N \in 0 .. N
    BY <1>0
  <2> HIDE DEF T
  <2>2. \A i \in 0 .. N : i \in T
    BY <1>0, <1>3, <1>4, UpTo
  <2> QED BY <2>1, <2>2
<1>6. PICK g : Is(N, g)
  BY <1>5
<1>7. Real(g)
  <2>1. ASSUME NEW i \in 0 .. N
        PROVE  (IF i = 0 THEN P ELSE SplitAll(g[i-1], s, level, cons[i])) = (IF i = 0 THEN P ELSE SplitAll(g[i-1], s, level, <<con(i)>>))
    <3>1. i # 0 => i \in 1 .. N
      BY <1>0
    <3> QED BY <1>2, <3>1
  <2> QED BY <1>6, <2>1
<1>8. Real(after)
  BY <1>7
<1> HIDE DEF after
<1>9. after[0] = P /\ \A i \in 1 .. N : after[i] = SplitAll(after[i-1], s, level, <<con(i)>>)
  BY <1>0, <1>8
<1>10. PeelSteps(after, P, s, level, cons, N)
  BY <1>2, <1>9 DEF PeelSteps
<1> HIDE DEF cons
<1>12. PeelBounds(cons, v, level, amount, N)
  BY <1>2, <1>11 DEF PeelBounds
<1> QED BY <1>1, <1>10, <1>12 DEF N

\* peel neither loses nor repeats an instance, whatever the bounds it reads.
LEMMA PeeledIs ==
  ASSUME NEW P, NEW I, Sound(P.stmt, I), NEW s \in DOMAIN P.stmt, NEW level \in Loops, NEW amount \in Int
  PROVE  Sound(Peeled(P, s, level, amount).stmt, I)
<1> DEFINE N == Amount(amount)
<1>0. N \in Nat
  BY AmountIs
<1>1. PICK after, con : /\ PeelSteps(after, P, s, level, con, N)
                        /\ \A i \in 1 .. N : Len(con[i]) \in Nat
                        /\ Peeled(P, s, level, amount) = after[N]
  <2>0. PICK v : v = PeelValues(P.stmt, s, level)
    OBVIOUS
  <2>1. PICK after, con : /\ PeelSteps(after, P, s, level, con, N)
                          /\ PeelBounds(con, v, level, amount, N)
                          /\ Peeled(P, s, level, amount) = after[N]
    BY <2>0, PeeledSteps
  <2>2. \A x : Len(<<x>>) \in Nat
    OBVIOUS
  <2> QED BY <2>1, <2>2 DEF PeelBounds
<1> HIDE DEF N
<1> DEFINE T == {n \in 0 .. N : Sound(after[n].stmt, I) /\ s \in DOMAIN after[n].stmt}
<1>4. 0 \in T
  BY <1>0, <1>1 DEF PeelSteps
<1>5. ASSUME NEW n \in 1 .. N, n-1 \in T PROVE n \in T
  <2>1. Sound(after[n-1].stmt, I) /\ s \in DOMAIN after[n-1].stmt
    BY <1>5
  <2>3. after[n] = SplitAll(after[n-1], s, level, con[n]) /\ Len(con[n]) \in Nat
    BY <1>1 DEF PeelSteps
  <2>4. Sound(after[n].stmt, I) /\ Extends(after[n-1].stmt, after[n].stmt)
    BY <2>1, <2>3, SplitAllIs
  <2>5. n \in 0 .. N
    BY <1>0
  <2> QED BY <2>1, <2>4, <2>5 DEF Extends
<1> HIDE DEF T
<1>6. N \in T
  <2>1. \A i \in 0 .. N : i \in T
    BY <1>0, <1>4, <1>5, UpTo
  <2> QED BY <1>0, <2>1
<1> QED BY <1>1, <1>6 DEF T
-----------------------------------------------------------------------------
(* Loops over an arithmetic progression.                                   *)

\* The values of a loop at some points, and points that form n iterations of it
Values(points, level) == {p[level] : p \in points}

Even(points, level, lo, st, n) ==
  /\ points \subseteq Points /\ IsFiniteSet(points)
  /\ \A p, q \in points : [p EXCEPT ![level] = q[level]] \in points
  /\ Progression(Values(points, level), lo, st, n)

\* Even points, iteration by iteration
LEMMA EvenAt ==
  ASSUME NEW points, NEW level \in Loops, NEW lo, NEW st, NEW n, Even(points, level, lo, st, n)
  PROVE  /\ lo \in Int /\ st \in Nat /\ st >= 1 /\ n \in Nat /\ n >= 1
         /\ \A p \in points : p \in Points /\ p[level] \in Int /\ \E i \in 0 .. n-1 : p[level] = lo + i * st
         /\ \A i \in 0 .. n-1 : \E p \in points : p[level] = lo + i * st
         /\ \A p \in points : \A i \in 0 .. n-1 : [p EXCEPT ![level] = lo + i * st] \in points
<1>1. /\ lo \in Int /\ st \in Nat /\ st >= 1 /\ n \in Nat /\ n >= 1
      /\ Values(points, level) = {lo + i * st : i \in 0 .. n-1}
      /\ points \subseteq Points /\ \A p, q \in points : [p EXCEPT ![level] = q[level]] \in points
  BY DEF Even, Progression
<1>2. ASSUME NEW p \in points
      PROVE  p \in Points /\ p[level] \in Int /\ \E i \in 0 .. n-1 : p[level] = lo + i * st
  <2>1. p \in Points /\ p[level] \in Int
    BY <1>1 DEF Points
  <2>2. p[level] \in Values(points, level)
    BY DEF Values
  <2> QED BY <1>1, <2>1, <2>2
<1>3. ASSUME NEW i \in 0 .. n-1 PROVE \E p \in points : p[level] = lo + i * st
  <2>1. lo + i * st \in Values(points, level)
    BY <1>1
  <2> QED BY <2>1 DEF Values
<1>4. ASSUME NEW p \in points, NEW i \in 0 .. n-1 PROVE [p EXCEPT ![level] = lo + i * st] \in points
  BY <1>1, <1>3
<1> QED BY <1>1, <1>2, <1>3, <1>4

\* What unroll accepts is as it expects.
LEMMA SimpleEven ==
  ASSUME NEW points, points \subseteq Points, IsFiniteSet(points), points # {}, Simple(points), NEW level \in Loops
  PROVE  \E lo, st, n : Even(points, level, lo, st, n)
<1> DEFINE v == Values(points, level)
           n == Cardinality(v)
           step == (Max(v) - Min(v)) \div (n - 1)
<1>1. v \in SUBSET Int /\ v # {}
  BY DEF Values, Points
<1>2. IsFiniteSet(v)
  <2> DEFINE f == [p \in points |-> p[level]]
  <2>1. f \in [points -> v] /\ \A t \in v : \E p \in points : f[p] = t
    BY DEF Values
  <2> HIDE DEF f, v
  <2> QED BY <2>1, ImageFinite
<1>3. ASSUME NEW p \in points, NEW q \in points PROVE [p EXCEPT ![level] = q[level]] \in points
  <2> DEFINE values(l) == {r[l] : r \in points}
             new == [p EXCEPT ![level] = q[level]]
  <2>1. points = {r \in [Loops -> UNION {values(l) : l \in Loops}] : \A l \in Loops : r[l] \in values(l)}
    BY Zenon DEF Simple
  <2>2. \A l \in Loops : p[l] \in values(l) /\ q[l] \in values(l)
    OBVIOUS
  <2>3. p = [l \in Loops |-> p[l]]
    BY DEF Points
  <2>4. new = [l \in Loops |-> new[l]] /\ \A l \in Loops : new[l] = IF l = level THEN q[l] ELSE p[l]
    BY <2>3
  <2> HIDE DEF new, values
  <2>5. \A l \in Loops : new[l] \in values(l)
    BY <2>2, <2>4
  <2>6. \A l \in Loops : new[l] \in UNION {values(k) : k \in Loops}
    BY <2>5
  <2>7. new \in [Loops -> UNION {values(l) : l \in Loops}]
    BY <2>4, <2>6
  <2>8. new \in points
    BY <2>1, <2>5, <2>7
  <2> QED BY <2>8 DEF new
<1>4. n \in Nat /\ n # 0
  BY <1>1, <1>2, FS_CardinalityType, FS_EmptySet
<1>5. Min(v) \in v /\ (\A y \in v : Min(v) <= y) /\ Max(v) \in v /\ (\A y \in v : Max(v) >= y)
  BY <1>1, <1>2, Extremes
<1>6. n # 1 => v = {Min(v) + i * step : i \in 0 .. n-1}
  BY DEF Simple, Values
<1> HIDE DEF v, n
<1>9. Min(v) \in Int /\ Max(v) \in Int /\ Max(v) >= Min(v)
  BY <1>1, <1>5
<1>7. CASE n = 1
  <2>1. Cardinality({Min(v)}) = 1 /\ IsFiniteSet({Min(v)}) /\ {Min(v)} \subseteq v
    BY <1>5, FS_Singleton
  <2>2. v = {Min(v)}
    BY <1>2, <1>7, <2>1, FS_Subset DEF n
  <2> DEFINE x == Min(v)
  <2>3. {x + i * 1 : i \in 0 .. 1-1} = {x}
    <3>1. x \in Int /\ \A i \in 0 .. 1-1 : i = 0
      BY <1>9
    <3> HIDE DEF x
    <3>2. \A i \in 0 .. 1-1 : x + i * 1 = x
      BY <3>1
    <3>3. 0 \in 0 .. 1-1
      OBVIOUS
    <3> QED BY <3>2, <3>3
  <2>4. Progression(v, x, 1, 1)
    <3>1. x \in Int /\ v = {x}
      BY <1>9, <2>2
    <3> HIDE DEF x
    <3> QED BY <2>3, <3>1 DEF Progression
  <2>5. Even(points, level, x, 1, 1)
    BY <1>3, <2>4 DEF Even, v
  <2> QED BY <2>5
<1>8. CASE n # 1
  <2>1. n-1 \in Int /\ n-1 > 0 /\ Max(v) - Min(v) \in Int /\ Max(v) - Min(v) >= 0
    BY <1>4, <1>8, <1>9
  <2>2. step \in Int /\ step >= 0
    BY <2>1
  <2> DEFINE x == Min(v)
             st == step
  <2>10. x \in Int /\ st \in Int /\ st >= 0 /\ v = {x + i * st : i \in 0 .. n-1}
    BY <1>6, <1>8, <1>9, <2>2
  <2> HIDE DEF x, step, st
  <2>3. st # 0
    <3> SUFFICES ASSUME st = 0 PROVE FALSE
      OBVIOUS
    <3>1. v = {x}
      <4>1. \A i \in 0 .. n-1 : x + i * st = x
        BY <2>10
      <4>2. 0 \in 0 .. n-1
        BY <2>1
      <4> QED BY <2>10, <4>1, <4>2
    <3>2. n = 1
      BY <3>1, FS_Singleton DEF n
    <3> QED BY <1>8, <3>2
  <2>4. Progression(v, x, st, n)
    BY <1>4, <2>3, <2>10 DEF Progression
  <2>5. Even(points, level, x, st, n)
    BY <1>3, <2>4 DEF Even, v
  <2> QED BY <2>5
<1> QED BY <1>7, <1>8

\* The iterations of a loop up to number m, and those behind them
LEMMA EvenFirst ==
  ASSUME NEW points, NEW level \in Loops, NEW lo, NEW st, NEW n, Even(points, level, lo, st, n),
         NEW m \in 1 .. n, NEW part, part = {p \in points : p[level] <= lo + (m-1) * st}
  PROVE  Even(part, level, lo, st, m)
<1>1. /\ lo \in Int /\ st \in Nat /\ st >= 1 /\ n \in Nat /\ n >= 1
      /\ \A p \in points : p \in Points /\ p[level] \in Int /\ \E i \in 0 .. n-1 : p[level] = lo + i * st
      /\ \A i \in 0 .. n-1 : \E p \in points : p[level] = lo + i * st
      /\ \A p \in points : \A i \in 0 .. n-1 : [p EXCEPT ![level] = lo + i * st] \in points
  BY EvenAt
<1>2. \A i \in 0 .. n-1 : i * st \in Int /\ (m-1) * st \in Int /\ (i <= m-1 <=> i * st <= (m-1) * st)
  <2>1. ASSUME NEW i \in 0 .. n-1 PROVE i * st \in Int /\ (m-1) * st \in Int /\ (i <= m-1 <=> i * st <= (m-1) * st)
    <3>1. i \in Int /\ m-1 \in Int /\ st \in Int /\ st >= 1
      BY <1>1
    <3>2. i < m-1 => i * st < (m-1) * st
      BY <3>1, TimesLess
    <3>3. m-1 < i => (m-1) * st < i * st
      BY <3>1, TimesLess
    <3>4. i * st \in Int /\ (m-1) * st \in Int
      BY <3>1
    <3> QED BY <3>1, <3>2, <3>3, <3>4
  <2> QED BY <2>1
<1>3. Values(part, level) = {lo + i * st : i \in 0 .. m-1}
  <2>1. ASSUME NEW p \in part PROVE p[level] \in {lo + i * st : i \in 0 .. m-1}
    <3>1. PICK i \in 0 .. n-1 : p[level] = lo + i * st
      BY <1>1
    <3>2. lo + i * st <= lo + (m-1) * st
      BY <3>1
    <3>3. i * st <= (m-1) * st
      BY <1>1, <1>2, <3>2
    <3>4. i \in 0 .. m-1
      BY <1>1, <1>2, <3>3
    <3> QED BY <3>1, <3>4
  <2>2. ASSUME NEW i \in 0 .. m-1 PROVE \E p \in part : p[level] = lo + i * st
    <3>1. i \in 0 .. n-1 /\ i <= m-1
      BY <1>1
    <3>2. PICK p \in points : p[level] = lo + i * st
      BY <1>1, <3>1
    <3>3. lo + i * st <= lo + (m-1) * st
      BY <1>1, <1>2, <3>1
    <3> QED BY <3>2, <3>3
  <2> QED BY <2>1, <2>2 DEF Values
<1>4. Progression(Values(part, level), lo, st, m)
  BY <1>1, <1>3 DEF Progression
<1>5. part \subseteq Points /\ IsFiniteSet(part)
  BY FS_Subset DEF Even
<1>6. ASSUME NEW p \in part, NEW q \in part PROVE [p EXCEPT ![level] = q[level]] \in part
  <2>1. [p EXCEPT ![level] = q[level]] \in points
    BY DEF Even
  <2>2. [p EXCEPT ![level] = q[level]][level] = q[level]
    BY <1>5 DEF Points
  <2> QED BY <2>1, <2>2
<1> QED BY <1>4, <1>5, <1>6 DEF Even

LEMMA EvenLast ==
  ASSUME NEW points, NEW level \in Loops, NEW lo, NEW st, NEW n, Even(points, level, lo, st, n),
         NEW m \in 1 .. n-1, NEW part, part = {p \in points : ~(p[level] <= lo + (m-1) * st)}
  PROVE  Even(part, level, lo + m * st, st, n - m)
<1>1. /\ lo \in Int /\ st \in Nat /\ st >= 1 /\ n \in Nat /\ n >= 1
      /\ \A p \in points : p \in Points /\ p[level] \in Int /\ \E i \in 0 .. n-1 : p[level] = lo + i * st
      /\ \A i \in 0 .. n-1 : \E p \in points : p[level] = lo + i * st
      /\ \A p \in points : \A i \in 0 .. n-1 : [p EXCEPT ![level] = lo + i * st] \in points
  BY EvenAt
<1>2. \A i \in 0 .. n-1 : i * st \in Int /\ (m-1) * st \in Int /\ (i <= m-1 <=> i * st <= (m-1) * st)
  <2>1. ASSUME NEW i \in 0 .. n-1 PROVE i * st \in Int /\ (m-1) * st \in Int /\ (i <= m-1 <=> i * st <= (m-1) * st)
    <3>1. i \in Int /\ m-1 \in Int /\ st \in Int /\ st >= 1
      BY <1>1
    <3>2. i < m-1 => i * st < (m-1) * st
      BY <3>1, TimesLess
    <3>3. m-1 < i => (m-1) * st < i * st
      BY <3>1, TimesLess
    <3>4. i * st \in Int /\ (m-1) * st \in Int
      BY <3>1
    <3> QED BY <3>1, <3>2, <3>3, <3>4
  <2> QED BY <2>1
<1>7. \A i \in 0 .. n-m-1 : (lo + m * st) + i * st = lo + (m + i) * st
  BY <1>1
<1>3. Values(part, level) = {(lo + m * st) + i * st : i \in 0 .. n-m-1}
  <2>1. ASSUME NEW p \in part PROVE p[level] \in {(lo + m * st) + i * st : i \in 0 .. n-m-1}
    <3>1. PICK i \in 0 .. n-1 : p[level] = lo + i * st
      BY <1>1
    <3>2. ~(lo + i * st <= lo + (m-1) * st)
      BY <3>1
    <3>3. ~(i * st <= (m-1) * st)
      BY <1>1, <1>2, <3>2
    <3>4. i - m \in 0 .. n-m-1 /\ m + (i - m) = i
      BY <1>1, <1>2, <3>3
    <3>5. (lo + m * st) + (i - m) * st = lo + i * st
      BY <1>7, <3>4
    <3> QED BY <3>1, <3>4, <3>5
  <2>2. ASSUME NEW i \in 0 .. n-m-1 PROVE \E p \in part : p[level] = (lo + m * st) + i * st
    <3>1. m + i \in 0 .. n-1 /\ ~(m + i <= m-1)
      BY <1>1
    <3>2. PICK p \in points : p[level] = lo + (m + i) * st
      BY <1>1, <3>1
    <3>3. ~(lo + (m + i) * st <= lo + (m-1) * st)
      BY <1>1, <1>2, <3>1
    <3> QED BY <1>7, <3>2, <3>3
  <2> QED BY <2>1, <2>2 DEF Values
<1>4. Progression(Values(part, level), lo + m * st, st, n - m)
  <2>1. lo + m * st \in Int /\ n - m \in Nat /\ n - m >= 1
    BY <1>1
  <2> QED BY <1>1, <1>3, <2>1 DEF Progression
<1>5. part \subseteq Points /\ IsFiniteSet(part)
  BY FS_Subset DEF Even
<1>6. ASSUME NEW p \in part, NEW q \in part PROVE [p EXCEPT ![level] = q[level]] \in part
  <2>1. [p EXCEPT ![level] = q[level]] \in points
    BY DEF Even
  <2>2. [p EXCEPT ![level] = q[level]][level] = q[level]
    BY <1>5 DEF Points
  <2> QED BY <2>1, <2>2
<1> QED BY <1>4, <1>5, <1>6 DEF Even
-----------------------------------------------------------------------------
(* The copies that unroll makes.                                           *)

\* A sequence and one element more
LEMMA AppendIs ==
  ASSUME NEW a, SeqLike(a), NEW x
  PROVE  /\ SeqLike(Append(a, x)) /\ Len(Append(a, x)) = Len(a) + 1 /\ DOMAIN Append(a, x) = 1 .. (Len(a) + 1)
         /\ \A i \in 1 .. Len(a) : Append(a, x)[i] = a[i]
         /\ Append(a, x)[Len(a) + 1] = x
<1> DEFINE S == {a[i] : i \in 1 .. Len(a)} \union {x}
<1>1. a \in Seq(S) /\ x \in S /\ Len(a) \in Nat
  <2>1. \A i \in 1 .. Len(a) : a[i] \in S
    OBVIOUS
  <2>2. x \in S
    OBVIOUS
  <2> HIDE DEF S
  <2> QED BY <2>1, <2>2, SeqLikeSeq
<1> HIDE DEF S
<1>2. /\ Append(a, x) \in Seq(S) /\ Len(Append(a, x)) = Len(a) + 1
      /\ \A i \in 1 .. Len(a) : Append(a, x)[i] = a[i]
      /\ Append(a, x)[Len(a) + 1] = x
  BY <1>1, AppendProperties
<1>3. PICK b : b = Append(a, x)
  OBVIOUS
<1>4. b \in [1 .. Len(b) -> S] /\ Len(b) \in Nat
  BY <1>2, <1>3, LenProperties
<1>5. SeqLike(b) /\ DOMAIN b = 1 .. Len(b)
  BY <1>4 DEF SeqLike
<1> QED BY <1>1, <1>2, <1>3, <1>5

\* The statements of a loop, each once
Lists1(order, same) ==
  /\ SeqLike(order) /\ DOMAIN order = 1 .. Len(order) /\ Len(order) \in Nat
  /\ \A i \in DOMAIN order : order[i] \in same
  /\ \A t \in same : \E i \in DOMAIN order : order[i] = t
  /\ \A i, j \in DOMAIN order : order[i] = order[j] => i = j

\* The statements of a loop in lexical order are those of the loop, each once.
LEMMA InLexicalOrderIs ==
  ASSUME NEW ss, Proper(ss), NEW same, Among(ss, same), NEW order, order = InLexicalOrder(ss, same)
  PROVE  Lists1(order, same)
<1> DEFINE before(t, u) == \/ ss[t].lex[NDim+1] < ss[u].lex[NDim+1]
                           \/ ss[t].lex[NDim+1] = ss[u].lex[NDim+1] /\ t < u
           R == {p \in same \X same : before(p[1], p[2])}
           C(x) == Cardinality({y \in same : before(y, x)})
<1>1. DOMAIN ss = 1 .. Len(ss) /\ Len(ss) \in Nat /\ \A t \in same : t \in DOMAIN ss /\ Statement(ss[t])
  BY DEF Proper, SeqLike, Among
<1>2. \A t \in same : t \in Int /\ ss[t].lex[NDim+1] \in Int
  <2>1. \A t \in same : ss[t].lex \in Lexes
    BY <1>1 DEF Statement
  <2>2. NDim+1 \in 1 .. NDim+1
    BY LoopsFacts
  <2> QED BY <1>1, <2>1, <2>2 DEF Lexes
<1>3. IsFiniteSet(same)
  <2>1. IsFiniteSet(1 .. Len(ss)) /\ same \subseteq 1 .. Len(ss)
    BY <1>1, FS_Interval
  <2> QED BY <2>1, FS_Subset
<1>4. order = [i \in 1 .. Cardinality(same) |-> CHOOSE x \in same : C(x) = i-1]
  BY DEF InLexicalOrder, Sorted
<1>5. \A t, u \in same : <<t, u>> \in R <=> before(t, u)
  OBVIOUS
<1>6. StrictOrder(same, R)
  <2>1. \A x \in same : ~before(x, x)
    BY <1>2
  <2>2. \A x, y \in same : x # y => before(x, y) \/ before(y, x)
    BY <1>2
  <2>3. \A x, y, z \in same : before(x, y) /\ before(y, z) => before(x, z)
    BY <1>2
  <2> HIDE DEF before, R
  <2> QED BY <1>5, <2>1, <2>2, <2>3 DEF StrictOrder
<1>7. ASSUME NEW x \in same PROVE C(x) = Rank(same, R, x)
  <2>1. {y \in same : before(y, x)} = {y \in same : <<y, x>> \in R}
    BY <1>5
  <2> QED BY <2>1 DEF Rank
<1> HIDE DEF R, C, before
<1>8. ASSUME NEW i \in 1 .. Cardinality(same)
      PROVE  order[i] \in same /\ Rank(same, R, order[i]) = i-1
  <2>1. \E x \in same : C(x) = i-1
    BY <1>3, <1>6, <1>7, RankExists
  <2>2. order[i] = CHOOSE x \in same : C(x) = i-1
    BY <1>4
  <2>3. order[i] \in same /\ C(order[i]) = i-1
    BY <2>1, <2>2
  <2> QED BY <1>7, <2>3
<1>9. order = [i \in 1 .. Cardinality(same) |-> order[i]]
  BY <1>4
<1>10. Listing(order, same, R)
  BY <1>3, <1>6, <1>8, <1>9, RankedSequence
<1> QED BY <1>10 DEF Lists1, SeqLike, Listing

\* Where the code of the new statement has copy c of statement t, j iterations ahead
Slots(ss, same, times) ==
  {u \in (1 .. times-1) \X same \X Nat : u[3] \in DOMAIN ss[u[2]].code}

\* code has these copies, each once.
CopyShape(ss, same, times, ahead, kept, code, slot) ==
  /\ SeqLike(code)
  /\ \A u \in Slots(ss, same, times) :
       /\ slot[u] \in DOMAIN code /\ code[slot[u]].of = ss[u[2]].code[u[3]].of
       /\ \A p \in kept : code[slot[u]].at[p] = ss[u[2]].code[u[3]].at[ahead[u[1]][p]]
  /\ \A z \in DOMAIN code : \E u \in Slots(ss, same, times) : slot[u] = z
  /\ \A u, w \in Slots(ss, same, times) : slot[u] = slot[w] => u = w

\* A copy on other points computes what the old points computed.
LEMMA CopyOnIs ==
  ASSUME NEW copy, NEW back, NEW new, new = CopyOn(copy, back)
  PROVE  new.of = copy.of /\ \A q \in DOMAIN back : new.at[q] = copy.at[back[q]]
BY DEF CopyOn

\* The code of the statements of a loop, and of the iterations behind them
CodesOf(ss, order) == [n \in DOMAIN order |-> ss[order[n]].code]

CopyLists(codes, ahead, times) == [j \in 1 .. times-1 |-> [c \in DOMAIN codes |-> CopyOn(codes[c], ahead[j])]]

\* The code of the new statement has every copy of every statement for every
\* iteration that is lumped with the first, and has each once.
LEMMA CopiesAre ==
  ASSUME NEW ss, Proper(ss), NEW same, Among(ss, same), same # {}, NEW times \in Nat, times >= 2,
         NEW ahead, NEW kept, \A j \in 1 .. times-1 : DOMAIN ahead[j] = kept,
         NEW order, order = InLexicalOrder(ss, same),
         NEW codes, codes = FlattenSeq(CodesOf(ss, order)),
         NEW code, code = FlattenSeq(CopyLists(codes, ahead, times))
  PROVE  \E slot : CopyShape(ss, same, times, ahead, kept, code, slot)
<1> DEFINE seqs == [n \in DOMAIN order |-> ss[order[n]].code]
           all  == [j \in 1 .. times-1 |-> [c \in DOMAIN codes |-> CopyOn(codes[c], ahead[j])]]
           U    == Slots(ss, same, times)
<1>0. /\ SeqLike(order) /\ DOMAIN order = 1 .. Len(order) /\ Len(order) \in Nat
      /\ \A i \in DOMAIN order : order[i] \in same
      /\ \A t \in same : \E i \in DOMAIN order : order[i] = t
      /\ \A i, j \in DOMAIN order : order[i] = order[j] => i = j
  <2>1. Lists1(order, same)
    BY InLexicalOrderIs
  <2> QED BY <2>1 DEF Lists1
<1>1. \A t \in same : SeqLike(ss[t].code) /\ DOMAIN ss[t].code \subseteq Nat
  BY DEF Proper, Among, Statement, SeqLike
<1>2. Lists(seqs) /\ Len(seqs) = Len(order) /\ DOMAIN seqs = 1 .. Len(order)
  <2>1. Len(order) >= 1
    BY <1>0
  <2>2. SeqLike(seqs) /\ Len(seqs) = Len(order) /\ DOMAIN seqs = 1 .. Len(order)
    BY <1>0 DEF SeqLike
  <2>3. \A i \in DOMAIN seqs : SeqLike(seqs[i])
    BY <1>0, <1>1
  <2> HIDE DEF seqs
  <2> QED BY <2>1, <2>2, <2>3 DEF Lists
<1>3. \A n \in 1 .. Len(order) : seqs[n] = ss[order[n]].code
  BY <1>0
<1> HIDE DEF seqs
<1>4. PICK idx : Flat(seqs, Len(order), codes, idx)
  BY <1>2, FlattenSeqIs DEF seqs, CodesOf
<1>5. SeqLike(codes) /\ DOMAIN codes = 1 .. Len(codes) /\ Len(codes) \in Nat
  BY <1>4 DEF Flat, SeqLike
<1>6. Lists(all) /\ Len(all) = times-1 /\ DOMAIN all = 1 .. times-1
  <2>1. SeqLike(all) /\ Len(all) = times-1 /\ DOMAIN all = 1 .. times-1
    BY DEF SeqLike
  <2>2. ASSUME NEW j \in DOMAIN all PROVE SeqLike(all[j])
    <3>1. all[j] = [c \in 1 .. Len(codes) |-> CopyOn(codes[c], ahead[j])]
      BY <1>5
    <3>2. Len(all[j]) = Len(codes)
      BY <1>5, <3>1
    <3> HIDE DEF all
    <3> QED BY <1>5, <3>1, <3>2 DEF SeqLike
  <2> HIDE DEF all
  <2> QED BY <2>1, <2>2 DEF Lists
<1>7. \A j \in 1 .. times-1 : DOMAIN all[j] = DOMAIN codes /\ \A c \in DOMAIN codes : all[j][c] = CopyOn(codes[c], ahead[j])
  OBVIOUS
<1> HIDE DEF all
<1>8. PICK idx2 : Flat(all, times-1, code, idx2)
  BY <1>6, FlattenSeqIs DEF all, CopyLists
<1> DEFINE number(t) == CHOOSE n \in DOMAIN order : order[n] = t
           place(u) == <<number(u[2]), u[3]>>
           slot == [u \in U |-> idx2[<<u[1], idx[place(u)]>>]]
<1>9. \A t \in same : number(t) \in 1 .. Len(order) /\ order[number(t)] = t
  BY <1>0
<1>10. \A n \in 1 .. Len(order) : order[n] \in same /\ number(order[n]) = n
  BY <1>0
<1> HIDE DEF number
<1>11. ASSUME NEW u \in U
       PROVE  /\ u[1] \in 1 .. times-1 /\ u[2] \in same /\ u[3] \in DOMAIN ss[u[2]].code
              /\ u = <<u[1], u[2], u[3]>>
              /\ place(u) \in PlacesIn(seqs, Len(order))
              /\ idx[place(u)] \in DOMAIN codes /\ codes[idx[place(u)]] = ss[u[2]].code[u[3]]
              /\ <<u[1], idx[place(u)]>> \in PlacesIn(all, times-1)
              /\ slot[u] = idx2[<<u[1], idx[place(u)]>>]
  <2>1. u[1] \in 1 .. times-1 /\ u[2] \in same /\ u[3] \in Nat /\ u[3] \in DOMAIN ss[u[2]].code /\ u = <<u[1], u[2], u[3]>>
    BY DEF Slots
  <2>2. number(u[2]) \in 1 .. Len(order) /\ number(u[2]) \in Nat /\ seqs[number(u[2])] = ss[u[2]].code
    BY <1>3, <1>9, <2>1
  <2>3. place(u) \in PlacesIn(seqs, Len(order))
    BY <2>1, <2>2 DEF PlacesIn
  <2>4. idx[place(u)] \in DOMAIN codes /\ codes[idx[place(u)]] = seqs[place(u)[1]][place(u)[2]]
    <3> HIDE DEF place
    <3> QED BY <1>4, <2>3 DEF Flat
  <2>5. codes[idx[place(u)]] = ss[u[2]].code[u[3]]
    BY <2>2, <2>4
  <2>6. idx[place(u)] \in Nat /\ u[1] \in Nat
    BY <1>5, <2>1, <2>4
  <2>7. <<u[1], idx[place(u)]>> \in PlacesIn(all, times-1)
    <3> HIDE DEF place
    <3> QED BY <1>7, <2>1, <2>4, <2>6 DEF PlacesIn
  <2> QED BY <2>1, <2>3, <2>4, <2>5, <2>7
<1> HIDE DEF place, slot
<1>12. ASSUME NEW u \in U
       PROVE  /\ slot[u] \in DOMAIN code /\ code[slot[u]].of = ss[u[2]].code[u[3]].of
              /\ \A p \in kept : code[slot[u]].at[p] = ss[u[2]].code[u[3]].at[ahead[u[1]][p]]
  <2> DEFINE w == <<u[1], idx[place(u)]>>
             k == idx[place(u)]
             j == u[1]
  <2>1. /\ w \in PlacesIn(all, times-1) /\ slot[u] = idx2[w] /\ j \in 1 .. times-1
        /\ k \in DOMAIN codes /\ codes[k] = ss[u[2]].code[u[3]]
    BY <1>11
  <2>2. w[1] = j /\ w[2] = k
    OBVIOUS
  <2> HIDE DEF w, k, j
  <2>3. slot[u] \in DOMAIN code /\ code[slot[u]] = all[j][k]
    BY <1>8, <2>1, <2>2 DEF Flat
  <2>4. code[slot[u]] = CopyOn(codes[k], ahead[j])
    BY <1>7, <2>1, <2>3
  <2>5. DOMAIN ahead[j] = kept
    BY <2>1
  <2> DEFINE x == code[slot[u]]
             y == codes[k]
             back == ahead[j]
  <2>9. x = CopyOn(y, back) /\ DOMAIN back = kept
    BY <2>4, <2>5
  <2> HIDE DEF x, y, back
  <2>10. x.of = y.of /\ \A q \in DOMAIN back : x.at[q] = y.at[back[q]]
    BY <2>9, CopyOnIs
  <2>6. code[slot[u]].of = codes[k].of
    BY <2>10 DEF x, y
  <2>7. \A p \in kept : code[slot[u]].at[p] = codes[k].at[ahead[j][p]]
    BY <2>9, <2>10 DEF x, y, back
  <2>8. slot[u] \in DOMAIN code /\ codes[k] = ss[u[2]].code[u[3]] /\ j = u[1]
    BY <2>1, <2>3 DEF j
  <2> QED BY <2>6, <2>7, <2>8
<1>13. ASSUME NEW z \in DOMAIN code PROVE \E u \in U : slot[u] = z
  <2>1. PICK w \in PlacesIn(all, times-1) : idx2[w] = z
    BY <1>8 DEF Flat
  <2>2. w = <<w[1], w[2]>> /\ w[1] \in 1 .. times-1 /\ w[2] \in DOMAIN codes
    BY <1>7, <2>1 DEF PlacesIn
  <2>3. PICK x \in PlacesIn(seqs, Len(order)) : idx[x] = w[2]
    BY <1>4, <2>2 DEF Flat
  <2>4. x = <<x[1], x[2]>> /\ x[1] \in 1 .. Len(order) /\ x[2] \in Nat /\ x[2] \in DOMAIN seqs[x[1]]
    BY <2>3 DEF PlacesIn
  <2> DEFINE u == <<w[1], order[x[1]], x[2]>>
  <2>5. u[1] = w[1] /\ u[2] = order[x[1]] /\ u[3] = x[2]
    OBVIOUS
  <2>6. u \in U
    BY <1>3, <1>10, <2>2, <2>4 DEF Slots
  <2> HIDE DEF u
  <2>7. place(u) = x
    BY <1>10, <2>4, <2>5 DEF place
  <2>8. slot[u] = idx2[<<u[1], idx[place(u)]>>]
    BY <1>11, <2>6
  <2>9. slot[u] = z
    BY <2>1, <2>2, <2>3, <2>5, <2>7, <2>8
  <2> QED BY <2>6, <2>9
<1>14. ASSUME NEW u \in U, NEW x \in U, slot[u] = slot[x] PROVE u = x
  <2> DEFINE a == <<u[1], idx[place(u)]>>
             b == <<x[1], idx[place(x)]>>
  <2>1. a \in PlacesIn(all, times-1) /\ b \in PlacesIn(all, times-1) /\ idx2[a] = idx2[b]
    BY <1>11, <1>14
  <2>6. a = b
    <3> HIDE DEF a, b
    <3> QED BY <1>8, <2>1 DEF Flat
  <2>2. u[1] = x[1] /\ idx[place(u)] = idx[place(x)]
    BY <2>6
  <2>3. place(u) = place(x)
    BY <1>4, <1>11, <2>2 DEF Flat
  <2>4. number(u[2]) = number(x[2]) /\ u[3] = x[3]
    BY <2>3 DEF place
  <2>7. u[2] \in same /\ x[2] \in same
    BY <1>11
  <2>5. u[2] = x[2]
    BY <1>9, <2>4, <2>7
  <2> QED BY <1>11, <2>2, <2>4, <2>5
<1>15. SeqLike(code)
  BY <1>8 DEF Flat
<1>16. CopyShape(ss, same, times, ahead, kept, code, slot)
  BY <1>12, <1>13, <1>14, <1>15 DEF CopyShape
<1> QED BY <1>16
-----------------------------------------------------------------------------
(* Iterations, strides and turns.                                          *)

\* x further in a loop
Ahead(p, level, x) == [p EXCEPT ![level] = @ + x]

\* Which of the iterations lumped together one of them is
TurnOf(p, level, lo, st, times) == ((p[level] - lo) \div st) % times

\* kept is the first of times iterations each.
StrideShape(K, level, lo, st, times, kept) ==
  /\ \A p \in kept : p \in K
  /\ \A q \in K : /\ TurnOf(q, level, lo, st, times) \in 0 .. times-1
                  /\ q \in kept <=> TurnOf(q, level, lo, st, times) = 0
                  /\ Ahead(q, level, -(TurnOf(q, level, lo, st, times) * st)) \in kept
                  /\ Ahead(Ahead(q, level, -(TurnOf(q, level, lo, st, times) * st)), level, TurnOf(q, level, lo, st, times) * st) = q
  /\ \A p \in kept, j \in 1 .. times-1 :
       /\ p \in K /\ Ahead(p, level, j * st) \in K
       /\ TurnOf(Ahead(p, level, j * st), level, lo, st, times) = j
       /\ Ahead(Ahead(p, level, j * st), level, -(j * st)) = p

\* Iterations ahead, and back
LEMMA AheadIs ==
  ASSUME NEW p \in Points, NEW level \in Loops, NEW x \in Int
  PROVE  /\ Ahead(p, level, x) \in Points /\ Ahead(p, level, x)[level] = p[level] + x /\ p[level] \in Int
         /\ Ahead(Ahead(p, level, x), level, -x) = p
         /\ Ahead(p, level, x) = [p EXCEPT ![level] = p[level] + x]
<1>1. p = [l \in Loops |-> p[l]] /\ \A l \in Loops : p[l] \in Int
  BY DEF Points
<1>2. Ahead(p, level, x) = [l \in Loops |-> IF l = level THEN p[level] + x ELSE p[l]]
  BY <1>1 DEF Ahead
<1>3. Ahead(p, level, x) \in Points /\ Ahead(p, level, x)[level] = p[level] + x
  BY <1>1, <1>2 DEF Points
<1>4. Ahead(Ahead(p, level, x), level, -x) = [l \in Loops |-> IF l = level THEN (p[level] + x) + (-x) ELSE p[l]]
  BY <1>2, <1>3 DEF Ahead
<1>5. (p[level] + x) + (-x) = p[level]
  BY <1>1
<1>6. Ahead(Ahead(p, level, x), level, -x) = p
  BY <1>1, <1>4, <1>5
<1> QED BY <1>1, <1>3, <1>6 DEF Ahead

\* Iteration number i of the loop
LEMMA TurnIs ==
  ASSUME NEW level \in Loops, NEW q, NEW lo \in Int, NEW st \in Nat, st >= 1, NEW times \in Nat, times >= 1,
         NEW i \in Nat, q[level] = lo + i * st
  PROVE  TurnOf(q, level, lo, st, times) = i % times /\ (q[level] - lo) % (times * st) = (i % times) * st
<1> DEFINE x == q[level] - lo
<1>1. x = st * i + 0 /\ x \in Int /\ x = i * st
  OBVIOUS
<1> HIDE DEF x
<1>2. x \div st = i
  BY <1>1, Divided
<1>3. x % (times * st) = (i % times) * st
  <2>1. (i * st) % (times * st) = (i % times) * st
    BY StrideRest
  <2> DEFINE y == i * st
             z == times * st
             w == (i % times) * st
  <2>2. y % z = w /\ x = y
    BY <1>1, <2>1
  <2> HIDE DEF y, z, w
  <2>3. x % z = w
    BY <2>2
  <2> QED BY <2>3 DEF z, w
<1> QED BY <1>2, <1>3 DEF x, TurnOf

\* Even points of which the values are as in a progression
EvenShape(points, level, lo, st, n) ==
  /\ lo \in Int /\ st \in Nat /\ st >= 1 /\ n \in Nat /\ n >= 1
  /\ \A p \in points : p \in Points /\ p[level] \in Int /\ \E i \in 0 .. n-1 : p[level] = lo + i * st
  /\ \A i \in 0 .. n-1 : \E p \in points : p[level] = lo + i * st
  /\ \A p \in points : \A i \in 0 .. n-1 : [p EXCEPT ![level] = lo + i * st] \in points

\* The iteration ahead has the value of the loop that is x more.
LEMMA AheadAt ==
  ASSUME NEW p \in Points, NEW level \in Loops, NEW x \in Int, NEW y, p[level] + x = y,
         NEW q, q = Ahead(p, level, x)
  PROVE  q = [p EXCEPT ![level] = y] /\ q[level] = y
<1>1. p = [l \in Loops |-> p[l]]
  BY DEF Points
<1> QED BY <1>1 DEF Ahead

\* Every iteration lies fewer than times strides behind one that is kept, and
\* behind one only.
LEMMA StridesAre ==
  ASSUME NEW level \in Loops, NEW K, NEW lo, NEW st, NEW m, Even(K, level, lo, st, m),
         NEW times \in Nat, times >= 2, m % times = 0,
         NEW kept, kept = {p \in K : (p[level] - lo) % (times * st) = 0}
  PROVE  StrideShape(K, level, lo, st, times, kept)
<1> DEFINE turn(q) == TurnOf(q, level, lo, st, times)
<1>0. EvenShape(K, level, lo, st, m)
  BY EvenAt DEF EvenShape
<1>1. /\ lo \in Int /\ st \in Nat /\ st >= 1 /\ m \in Nat /\ m >= 1
      /\ \A p \in K : p \in Points /\ p[level] \in Int /\ \E i \in 0 .. m-1 : p[level] = lo + i * st
      /\ \A p \in K : \A i \in 0 .. m-1 : [p EXCEPT ![level] = lo + i * st] \in K
  BY <1>0 DEF EvenShape
<1>2. \A i \in 0 .. m-1 : i \in Nat
  BY <1>1
<1>3. ASSUME NEW q \in K, NEW i \in 0 .. m-1, q[level] = lo + i * st
      PROVE  /\ turn(q) = i % times /\ i % times \in 0 .. times-1
             /\ q \in kept <=> i % times = 0
  <2>1. turn(q) = i % times /\ (q[level] - lo) % (times * st) = (i % times) * st
    <3>1. i \in Nat /\ times >= 1 /\ lo \in Int /\ st \in Nat /\ st >= 1
      BY <1>1, <1>2
    <3>2. TurnOf(q, level, lo, st, times) = i % times /\ (q[level] - lo) % (times * st) = (i % times) * st
      BY <1>3, <3>1, TurnIs
    <3> QED BY <3>2
  <2>2. i % times \in 0 .. times-1
    BY <1>2, Division
  <2> DEFINE r == i % times
  <2>3. r * st = 0 <=> r = 0
    <3>1. r \in Int /\ r >= 0 /\ 0 * st = 0
      BY <1>1, <2>2
    <3> HIDE DEF r
    <3>2. r > 0 => 0 * st < r * st
      BY <1>1, <3>1, TimesLess
    <3>3. r * st \in Int
      BY <1>1, <3>1
    <3> QED BY <3>1, <3>2, <3>3
  <2> HIDE DEF r
  <2>4. (q[level] - lo) % (times * st) = r * st
    BY <2>1 DEF r
  <2>5. q \in kept <=> r = 0
    BY <2>3, <2>4
  <2> QED BY <2>1, <2>2, <2>5 DEF r
<1>4. ASSUME NEW q \in K
      PROVE  /\ turn(q) \in 0 .. times-1
             /\ q \in kept <=> turn(q) = 0
             /\ Ahead(q, level, -(turn(q) * st)) \in kept
             /\ Ahead(Ahead(q, level, -(turn(q) * st)), level, turn(q) * st) = q
  <2>1. PICK i \in 0 .. m-1 : q[level] = lo + i * st
    BY <1>1
  <2>2. turn(q) = i % times /\ i % times \in 0 .. times-1 /\ (q \in kept <=> i % times = 0)
    BY <1>3, <2>1
  <2> DEFINE j == turn(q)
             k == i - j
             x == -(j * st)
             p == Ahead(q, level, x)
  <2>3. j \in 0 .. times-1 /\ j = i % times
    BY <2>2
  <2> HIDE DEF j
  <2>4. i = times * (i \div times) + j /\ i \div times \in Int
    BY <1>2, <2>3, Division
  <2>5. k \in 0 .. m-1 /\ k = times * (i \div times) + 0
    <3>1. i \div times >= 0
      BY <1>2, <2>3, <2>4
    <3>2. times * (i \div times) >= 0
      BY <2>4, <3>1
    <3> QED BY <1>1, <1>2, <2>3, <2>4, <3>2
  <2>6. k % times = 0
    BY <2>4, <2>5, Divided
  <2>7. x \in Int /\ -x = j * st /\ q \in Points
    BY <1>1, <2>3
  <2>8. q[level] + x = lo + k * st
    <3>1. i \in Int /\ j \in Int
      BY <1>2, <2>3
    <3>2. (i - j) * st = i * st - j * st
      BY <1>1, <3>1
    <3>3. i * st \in Int /\ j * st \in Int
      BY <1>1, <3>1
    <3> QED BY <1>1, <2>1, <3>2, <3>3
  <2> HIDE DEF x, k
  <2>9. p \in K /\ p[level] = lo + k * st
    <3>1. p = [q EXCEPT ![level] = lo + k * st] /\ p[level] = lo + k * st
      BY <2>7, <2>8, AheadAt
    <3> HIDE DEF p
    <3> QED BY <1>1, <2>5, <3>1
  <2>10. p \in kept
    <3> HIDE DEF p
    <3> QED BY <1>3, <2>5, <2>6, <2>9
  <2>11. Ahead(p, level, -x) = q
    BY <2>7, AheadIs
  <2> QED BY <2>2, <2>7, <2>10, <2>11 DEF j, x
<1>5. ASSUME NEW p \in kept, NEW j \in 1 .. times-1
      PROVE  /\ p \in K /\ Ahead(p, level, j * st) \in K
             /\ turn(Ahead(p, level, j * st)) = j
             /\ Ahead(Ahead(p, level, j * st), level, -(j * st)) = p
  <2>1. p \in K
    OBVIOUS
  <2>2. PICK i \in 0 .. m-1 : p[level] = lo + i * st
    BY <1>1, <2>1
  <2>3. i % times = 0
    BY <1>3, <2>1, <2>2
  <2> DEFINE k == i + j
             x == j * st
             q == Ahead(p, level, x)
             a == i \div times
             b == m \div times
  <2>4. i = times * a /\ m = times * b /\ a \in Int /\ b \in Int
    BY <1>1, <1>2, <2>3, Division
  <2> HIDE DEF a, b
  <2>5. a < b
    <3> SUFFICES ASSUME b <= a PROVE FALSE
      BY <2>4
    <3>1. b < a => b * times < a * times
      BY <2>4, TimesLess
    <3>2. i = a * times /\ m = b * times
      BY <2>4
    <3> QED BY <1>1, <2>4, <3>1, <3>2
  <2>6. times * a + times <= times * b
    <3>1. a + 1 <= b
      BY <2>4, <2>5
    <3>2. (a + 1) * times <= b * times
      BY <2>4, <3>1, TimesLess
    <3>3. (a + 1) * times = times * a + times /\ b * times = times * b
      BY <2>4
    <3> QED BY <3>2, <3>3
  <2>7. k \in 0 .. m-1 /\ k = times * a + j
    BY <1>1, <2>4, <2>6
  <2>8. k % times = j
    BY <2>4, <2>7, Divided
  <2>9. x \in Int /\ p \in Points
    BY <1>1, <2>1
  <2>10. p[level] + x = lo + k * st
    <3>1. i \in Int /\ j \in Int
      BY <1>2
    <3>2. (i + j) * st = i * st + j * st
      BY <1>1, <3>1
    <3>3. i * st \in Int /\ j * st \in Int
      BY <1>1, <3>1
    <3> QED BY <1>1, <2>2, <3>2, <3>3
  <2> HIDE DEF x, k
  <2>11. q \in K /\ q[level] = lo + k * st
    <3>1. q = [p EXCEPT ![level] = lo + k * st] /\ q[level] = lo + k * st
      BY <2>9, <2>10, AheadAt
    <3> HIDE DEF q
    <3> QED BY <1>1, <2>1, <2>7, <3>1
  <2>12. turn(q) = j
    <3> HIDE DEF q
    <3> QED BY <1>3, <2>7, <2>8, <2>11
  <2>13. Ahead(q, level, -x) = p
    BY <2>9, AheadIs
  <2> QED BY <2>1, <2>11, <2>12, <2>13 DEF x
<1>6. \A p \in kept : p \in K
  OBVIOUS
<1> QED BY <1>4, <1>5, <1>6 DEF StrideShape
-----------------------------------------------------------------------------
(* Lumping iterations together: the statements.                            *)

\* The points of statement t that stay
LumpKept(ss, same, kept, t) == IF t \in same THEN kept ELSE ss[t].IS

\* The statements with iterations lumped together, the last one with the copies
LumpShape(ss, same, s, kept, code, new) ==
  /\ SeqLike(new) /\ Len(new) = Len(ss) + 1 /\ DOMAIN new = 1 .. (Len(ss) + 1)
  /\ \A t \in DOMAIN ss : /\ Piece(new[t], ss[t], LumpKept(ss, same, kept, t))
                          /\ new[t].lex = ss[t].lex
  /\ LET copied == new[Len(ss) + 1]
     IN  /\ Statement(copied) /\ copied.IS = kept /\ copied.code = code /\ copied.rows = ss[s].rows
         /\ \A k \in Loops : copied.lex[k] = ss[s].lex[k]

\* A statement with other code, in another place
CopiedFrom(m, code, x) == [m EXCEPT !.code = code, !.lex[NDim+1] = x]

\* The new statement runs the copies on the points that are kept.
LEMMA CopiedIs ==
  ASSUME NEW m, NEW s, NEW P, Piece(m, s, P), NEW code, SeqLike(code), NEW x \in Int,
         NEW n, n = CopiedFrom(m, code, x)
  PROVE  /\ Statement(n) /\ n.IS = P /\ n.code = code /\ n.rows = s.rows
         /\ \A k \in Loops : n.lex[k] = m.lex[k]
<1>1. /\ m = [IS |-> m.IS, code |-> m.code, rows |-> m.rows, lex |-> m.lex]
      /\ m.IS \in SUBSET Points /\ IsFiniteSet(m.IS) /\ m.rows \in [Loops -> Rows] /\ m.lex \in Lexes
      /\ m.IS = P /\ m.rows = s.rows
  BY DEF Piece, Statement
<1>2. NDim+1 \in 1 .. NDim+1 /\ \A k \in Loops : k \in 1 .. NDim+1 /\ k # NDim+1
  BY LoopsFacts DEF Loops
<1>3. n = [IS |-> m.IS, code |-> code, rows |-> m.rows, lex |-> [m.lex EXCEPT ![NDim+1] = x]]
  BY <1>1 DEF CopiedFrom
<1>4. [m.lex EXCEPT ![NDim+1] = x] \in Lexes /\ \A k \in Loops : [m.lex EXCEPT ![NDim+1] = x][k] = m.lex[k]
  BY <1>1, <1>2 DEF Lexes
<1>5. n = [IS |-> n.IS, code |-> n.code, rows |-> n.rows, lex |-> n.lex]
  BY <1>3
<1> QED BY <1>1, <1>3, <1>4, <1>5 DEF Statement

\* The same, with the copies in the code of the last one
LumpParts(ss, same, s, level, st, times, kept, new) ==
  \E ahead, code, slot :
    /\ \A j \in 1 .. times-1 : \A p \in kept : ahead[j][p] = Ahead(p, level, j * st)
    /\ CopyShape(ss, same, times, ahead, kept, code, slot)
    /\ LumpShape(ss, same, s, kept, code, new)

\* What lumping makes of the statements
LEMMA LumpPieces ==
  ASSUME NEW ss, Proper(ss), NEW same, Among(ss, same), NEW s \in same, NEW level \in Loops,
         NEW lo, NEW st, NEW m, Even(ss[s].IS, level, lo, st, m),
         \A t \in same : ss[t].IS = ss[s].IS,
         NEW times \in Nat, times >= 2,
         NEW kept, kept = {p \in ss[s].IS : (p[level] - lo) % (times * st) = 0},
         NEW new, new = LumpStatements(ss, same, s, level, times, st)
  PROVE  LumpParts(ss, same, s, level, st, times, kept, new)
<1> DEFINE order == InLexicalOrder(ss, same)
           codes == FlattenSeq([n \in DOMAIN order |-> ss[order[n]].code])
           first == Min({p[level] : p \in ss[s].IS})
           K     == {p \in ss[s].IS : (p[level] - first) % (times * st) = 0}
           ahead == [j \in 1 .. times-1 |-> [p \in K |-> [p EXCEPT ![level] = @ + j * st]]]
           code  == FlattenSeq([j \in 1 .. times-1 |-> [c \in DOMAIN codes |-> CopyOn(codes[c], ahead[j])]])
           copied == [Within(ss[s], K) EXCEPT !.code = code,
                                              !.lex[NDim+1] = ss[order[Len(order)]].lex[NDim+1] + 1]
           rest  == [t \in DOMAIN ss |-> IF t \in same THEN Within(ss[t], K) ELSE ss[t]]
<1>1. new = Append(rest, copied)
  BY DEF LumpStatements
<1>2. first = lo
  <2>1. Progression(Values(ss[s].IS, level), lo, st, m)
    BY DEF Even
  <2>2. Min(Values(ss[s].IS, level)) = lo
    BY <2>1, ProgressionIs
  <2> QED BY <2>2 DEF Values
<1>3. K = kept
  BY <1>2
<1>4. \A j \in 1 .. times-1 : DOMAIN ahead[j] = kept /\ \A p \in kept : ahead[j][p] = Ahead(p, level, j * st)
  <2> HIDE DEF first
  <2> QED BY <1>3 DEF Ahead
<1>5. same # {}
  OBVIOUS
<1> HIDE DEF ahead, K
<1>6. PICK slot : CopyShape(ss, same, times, ahead, kept, code, slot)
  <2>1. order = InLexicalOrder(ss, same)
    OBVIOUS
  <2>2. codes = FlattenSeq(CodesOf(ss, order))
    BY DEF CodesOf
  <2>3. code = FlattenSeq(CopyLists(codes, ahead, times))
    BY DEF CopyLists
  <2>4. \A j \in 1 .. times-1 : DOMAIN ahead[j] = kept
    BY <1>4
  <2> HIDE DEF order, codes, code
  <2> QED BY <1>5, <2>1, <2>2, <2>3, <2>4, CopiesAre
<1>7. SeqLike(code)
  BY <1>6 DEF CopyShape
<1> HIDE DEF code
<1>8. ss[order[Len(order)]].lex[NDim+1] + 1 \in Int
  <2>1. Lists1(order, same)
    BY InLexicalOrderIs
  <2> HIDE DEF order
  <2>2. /\ DOMAIN order = 1 .. Len(order) /\ Len(order) \in Nat
        /\ \A i \in DOMAIN order : order[i] \in same
        /\ \E i \in DOMAIN order : order[i] = s
    BY <2>1 DEF Lists1
  <2>3. Len(order) \in DOMAIN order
    BY <2>2
  <2>4. order[Len(order)] \in same
    BY <2>2, <2>3
  <2>5. ss[order[Len(order)]].lex \in Lexes
    BY <2>4 DEF Among, Proper, Statement
  <2>6. NDim+1 \in 1 .. NDim+1
    BY LoopsFacts
  <2> QED BY <2>5, <2>6 DEF Lexes
<1>9. s \in DOMAIN ss /\ SeqLike(ss) /\ \A t \in DOMAIN ss : Statement(ss[t]) /\ Spread(ss[t])
  BY DEF Among, Proper
<1>10. \A t \in same : t \in DOMAIN ss /\ kept \in SUBSET ss[t].IS
  BY DEF Among
<1>11. \A t \in same : Piece(Within(ss[t], kept), ss[t], kept) /\ Within(ss[t], kept).lex = ss[t].lex
  BY <1>9, <1>10, WithinIs
<1>12. /\ Statement(copied) /\ copied.IS = kept /\ copied.code = code /\ copied.rows = ss[s].rows
       /\ \A k \in Loops : copied.lex[k] = ss[s].lex[k]
  <2> DEFINE w == Within(ss[s], kept)
             x == ss[order[Len(order)]].lex[NDim+1] + 1
  <2>1. Piece(w, ss[s], kept) /\ w.lex = ss[s].lex /\ x \in Int
    BY <1>8, <1>11
  <2>2. copied = CopiedFrom(w, code, x)
    BY <1>3 DEF CopiedFrom
  <2> HIDE DEF w, x, copied, order
  <2>3. /\ Statement(copied) /\ copied.IS = kept /\ copied.code = code /\ copied.rows = ss[s].rows
        /\ \A k \in Loops : copied.lex[k] = w.lex[k]
    BY <1>7, <2>1, <2>2, CopiedIs
  <2> QED BY <2>1, <2>3
<1> HIDE DEF copied
<1>13. DOMAIN ss = 1 .. Len(ss) /\ Len(ss) \in Nat
  BY <1>9 DEF SeqLike
<1>14. SeqLike(rest) /\ Len(rest) = Len(ss) /\ DOMAIN rest = DOMAIN ss
  BY <1>13 DEF SeqLike
<1>15. ASSUME NEW t \in DOMAIN ss
       PROVE  Piece(rest[t], ss[t], LumpKept(ss, same, kept, t)) /\ rest[t].lex = ss[t].lex
  <2>1. CASE t \in same
    <3>1. rest[t] = Within(ss[t], kept)
      BY <1>3, <2>1
    <3>2. LumpKept(ss, same, kept, t) = kept
      BY <2>1 DEF LumpKept
    <3> QED BY <1>11, <2>1, <3>1, <3>2
  <2>2. CASE t \notin same
    <3>1. rest[t] = ss[t] /\ LumpKept(ss, same, kept, t) = ss[t].IS
      BY <2>2 DEF LumpKept
    <3>2. Piece(ss[t], ss[t], ss[t].IS)
      BY <1>9, WholePiece
    <3> QED BY <3>1, <3>2
  <2> QED BY <2>1, <2>2
<1> HIDE DEF rest
<1>16. /\ SeqLike(new) /\ Len(new) = Len(ss) + 1 /\ DOMAIN new = 1 .. (Len(ss) + 1)
       /\ \A t \in 1 .. Len(ss) : new[t] = rest[t]
       /\ new[Len(ss) + 1] = copied
  <2>1. /\ SeqLike(Append(rest, copied)) /\ Len(Append(rest, copied)) = Len(rest) + 1
        /\ DOMAIN Append(rest, copied) = 1 .. (Len(rest) + 1)
        /\ \A i \in 1 .. Len(rest) : Append(rest, copied)[i] = rest[i]
        /\ Append(rest, copied)[Len(rest) + 1] = copied
    BY <1>14, AppendIs
  <2> QED BY <1>1, <1>14, <2>1
<1>17. LumpShape(ss, same, s, kept, code, new)
  BY <1>12, <1>13, <1>15, <1>16 DEF LumpShape
<1> QED BY <1>4, <1>6, <1>17 DEF LumpParts
-----------------------------------------------------------------------------
(* Lumping iterations together: the runs.                                  *)

\* Where lumping iterations together sends a run
LumpSent(ss, same, level, lo, st, times, slot, r) ==
  LET j == TurnOf(r[3], level, lo, st, times)
  IN  IF r[1] \in same /\ j # 0
      THEN <<Len(ss) + 1, slot[<<j, r[1], r[2]>>], Ahead(r[3], level, -(j * st))>> ELSE r

\* Every run stays where it was, or becomes one of the copies.
LEMMA LumpFollows ==
  ASSUME NEW ss, Proper(ss), NEW same, Among(ss, same), NEW s \in same, NEW level, NEW lo, NEW st, NEW times,
         \A t \in same : ss[t].IS = ss[s].IS,
         NEW kept, StrideShape(ss[s].IS, level, lo, st, times, kept),
         NEW ahead, \A j \in 1 .. times-1 : \A p \in kept : ahead[j][p] = Ahead(p, level, j * st),
         NEW code, NEW slot, CopyShape(ss, same, times, ahead, kept, code, slot),
         NEW new, LumpShape(ss, same, s, kept, code, new)
  PROVE  Follows([r \in RunsIn(ss) |-> LumpSent(ss, same, level, lo, st, times, slot, r)], ss, new)
<1> DEFINE f == [r \in RunsIn(ss) |-> LumpSent(ss, same, level, lo, st, times, slot, r)]
           K == ss[s].IS
           C == Len(ss) + 1
           turn(p) == TurnOf(p, level, lo, st, times)
<1>1. /\ DOMAIN new = 1 .. C /\ Len(ss) \in Nat /\ DOMAIN ss = 1 .. Len(ss)
      /\ new[C].IS = kept /\ new[C].code = code
  BY DEF LumpShape, Proper, SeqLike
<1>2. ASSUME NEW t \in DOMAIN ss
      PROVE  /\ new[t].IS = LumpKept(ss, same, kept, t) /\ DOMAIN new[t].code = DOMAIN ss[t].code
             /\ \A c \in DOMAIN ss[t].code : /\ new[t].code[c].of = ss[t].code[c].of
                                             /\ \A p \in LumpKept(ss, same, kept, t) : new[t].code[c].at[p] = ss[t].code[c].at[p]
             /\ t # C /\ t \in DOMAIN new
             /\ DOMAIN ss[t].code \subseteq Nat
  <2>1. Piece(new[t], ss[t], LumpKept(ss, same, kept, t))
    BY DEF LumpShape
  <2>2. t # C /\ t \in DOMAIN new
    BY <1>1
  <2>3. DOMAIN ss[t].code \subseteq Nat
    BY DEF Proper, Statement, SeqLike
  <2> QED BY <2>1, <2>2, <2>3 DEF Piece
<1>3. \A t \in same : t \in DOMAIN ss /\ ss[t].IS = K /\ LumpKept(ss, same, kept, t) = kept
  BY DEF Among, LumpKept
<1>4. \A t \in DOMAIN ss \ same : LumpKept(ss, same, kept, t) = ss[t].IS
  BY DEF LumpKept
<1>5. ASSUME NEW q \in K
      PROVE  /\ turn(q) \in 0 .. times-1 /\ (q \in kept <=> turn(q) = 0)
             /\ Ahead(q, level, -(turn(q) * st)) \in kept
             /\ Ahead(Ahead(q, level, -(turn(q) * st)), level, turn(q) * st) = q
  BY DEF StrideShape
<1>6. ASSUME NEW p \in kept, NEW j \in 1 .. times-1
      PROVE  /\ p \in K /\ Ahead(p, level, j * st) \in K
             /\ turn(Ahead(p, level, j * st)) = j
             /\ Ahead(Ahead(p, level, j * st), level, -(j * st)) = p
  BY DEF StrideShape
<1> HIDE DEF turn, C
<1>7. ASSUME NEW r \in RunsIn(ss)
      PROVE  /\ r[1] \in DOMAIN ss /\ r[2] \in DOMAIN ss[r[1]].code /\ r[3] \in ss[r[1]].IS /\ r[2] \in Nat
             /\ f[r] = IF r[1] \in same /\ turn(r[3]) # 0
                       THEN <<C, slot[<<turn(r[3]), r[1], r[2]>>], Ahead(r[3], level, -(turn(r[3]) * st))>> ELSE r
  <2>1. r[1] \in DOMAIN ss /\ r[2] \in DOMAIN ss[r[1]].code /\ r[3] \in ss[r[1]].IS
    BY RunsAre
  <2>2. r[2] \in Nat
    BY <1>2, <2>1
  <2> QED BY <2>1, <2>2 DEF LumpSent, turn, C
<1>8. ASSUME NEW u \in Slots(ss, same, times)
      PROVE  /\ slot[u] \in DOMAIN code /\ code[slot[u]].of = ss[u[2]].code[u[3]].of
             /\ \A p \in kept : code[slot[u]].at[p] = ss[u[2]].code[u[3]].at[ahead[u[1]][p]]
  BY DEF CopyShape
<1> HIDE DEF f
<1>9. ASSUME NEW r \in RunsIn(ss)
      PROVE  f[r] \in RunsIn(new) /\ InstanceIn(new, f[r]) = InstanceIn(ss, r)
  <2> DEFINE t == r[1]
             c == r[2]
             q == r[3]
             j == turn(q)
  <2>0. r = <<t, c, q>>
    BY RunsAre
  <2>1. t \in DOMAIN ss /\ c \in DOMAIN ss[t].code /\ q \in ss[t].IS /\ c \in Nat
    BY <1>7
  <2>2. CASE t \in same /\ j # 0
    <3>1. q \in K
      BY <1>3, <2>1, <2>2
    <3>2. j \in 1 .. times-1
      BY <1>5, <2>2, <3>1
    <3> DEFINE u == <<j, t, c>>
               p == Ahead(q, level, -(j * st))
    <3>3. u[1] = j /\ u[2] = t /\ u[3] = c
      OBVIOUS
    <3>4. u \in Slots(ss, same, times)
      BY <2>1, <2>2, <3>2 DEF Slots
    <3>5. p \in kept /\ Ahead(p, level, j * st) = q
      BY <1>5, <3>1
    <3>6. f[r] = <<C, slot[u], p>>
      BY <1>7, <2>2
    <3> HIDE DEF u, p, j, t, c, q
    <3>7. slot[u] \in DOMAIN code /\ code[slot[u]].of = ss[t].code[c].of /\ code[slot[u]].at[p] = ss[t].code[c].at[ahead[j][p]]
      BY <1>8, <3>3, <3>4, <3>5
    <3>8. ahead[j][p] = q
      BY <3>2, <3>5
    <3>9. f[r] \in RunsIn(new)
      <4>1. C \in DOMAIN new
        BY <1>1 DEF C
      <4> QED BY <1>1, <3>5, <3>6, <3>7, <4>1, RunsAre
    <3>10. InstanceIn(new, f[r]) = <<ss[t].code[c].of, ss[t].code[c].at[q]>>
      BY <1>1, <3>6, <3>7, <3>8 DEF InstanceIn
    <3>11. InstanceIn(ss, r) = <<ss[t].code[c].of, ss[t].code[c].at[q]>>
      BY DEF InstanceIn, t, c, q
    <3> QED BY <3>9, <3>10, <3>11
  <2>3. CASE ~(t \in same /\ j # 0)
    <3>1. f[r] = r
      BY <1>7, <2>3
    <3>2. q \in LumpKept(ss, same, kept, t)
      <4>1. CASE t \in same
        BY <1>3, <1>5, <2>1, <2>3, <4>1
      <4>2. CASE t \notin same
        BY <1>4, <2>1, <4>2
      <4> QED BY <4>1, <4>2
    <3> HIDE DEF t, c, q, j
    <3>3. t \in DOMAIN new /\ c \in DOMAIN new[t].code /\ q \in new[t].IS
      BY <1>2, <2>1, <3>2
    <3>4. new[t].code[c].of = ss[t].code[c].of /\ new[t].code[c].at[q] = ss[t].code[c].at[q]
      BY <1>2, <2>1, <3>2
    <3>5. r \in RunsIn(new)
      BY <2>0, <3>3, RunsAre
    <3>6. InstanceIn(new, r) = InstanceIn(ss, r)
      BY <3>4 DEF InstanceIn, t, c, q
    <3> QED BY <3>1, <3>5, <3>6
  <2> QED BY <2>2, <2>3
<1>10. ASSUME NEW z \in RunsIn(new) PROVE \E r \in RunsIn(ss) : f[r] = z
  <2> DEFINE n == z[1]
             c == z[2]
             p == z[3]
  <2>1. z = <<n, c, p>> /\ n \in DOMAIN new /\ c \in DOMAIN new[n].code /\ p \in new[n].IS
    BY RunsAre
  <2> HIDE DEF n, c, p
  <2>2. CASE n \in DOMAIN ss
    <3>1. c \in DOMAIN ss[n].code /\ p \in LumpKept(ss, same, kept, n)
      BY <1>2, <2>1, <2>2
    <3>2. p \in ss[n].IS /\ (n \in same => turn(p) = 0)
      <4>1. CASE n \in same
        <5>1. p \in kept
          BY <1>3, <3>1, <4>1
        <5>2. kept \subseteq K
          BY DEF StrideShape
        <5> QED BY <1>3, <1>5, <4>1, <5>1, <5>2
      <4>2. CASE n \notin same
        BY <1>4, <2>2, <3>1, <4>2
      <4> QED BY <4>1, <4>2
    <3>3. z \in RunsIn(ss)
      BY <2>1, <2>2, <3>1, <3>2, RunsAre
    <3>4. z[1] = n /\ z[3] = p
      BY DEF n, p
    <3>5. f[z] = z
      BY <1>7, <3>2, <3>3, <3>4
    <3> QED BY <3>3, <3>5
  <2>3. CASE n \notin DOMAIN ss
    <3>1. n = C
      BY <1>1, <2>1, <2>3 DEF C
    <3>2. p \in kept /\ c \in DOMAIN code
      BY <1>1, <2>1, <3>1
    <3>3. PICK u \in Slots(ss, same, times) : slot[u] = c
      BY <3>2 DEF CopyShape
    <3> DEFINE j == u[1]
               t == u[2]
               d == u[3]
               q == Ahead(p, level, j * st)
               r == <<t, d, q>>
    <3>4. u = <<j, t, d>> /\ j \in 1 .. times-1 /\ t \in same /\ d \in DOMAIN ss[t].code
      BY DEF Slots
    <3>5. q \in K /\ turn(q) = j /\ Ahead(q, level, -(j * st)) = p
      BY <1>6, <3>2, <3>4
    <3>6. r[1] = t /\ r[2] = d /\ r[3] = q
      OBVIOUS
    <3> HIDE DEF j, t, d, q
    <3>7. r \in RunsIn(ss)
      BY <1>3, <3>4, <3>5, RunsAre
    <3> HIDE DEF r
    <3>8. j # 0
      BY <3>4
    <3>9. f[r] = <<C, slot[<<j, t, d>>], p>>
      BY <1>7, <3>4, <3>5, <3>6, <3>7, <3>8
    <3> QED BY <2>1, <3>1, <3>3, <3>4, <3>7, <3>9
  <2> QED BY <2>2, <2>3
<1>11. DOMAIN f = RunsIn(ss) /\ f = [r \in RunsIn(ss) |-> f[r]]
  BY DEF f
<1>12. f \in [RunsIn(ss) -> RunsIn(new)]
  BY <1>9, <1>11
<1>13. Follows(f, ss, new)
  BY <1>9, <1>10, <1>12 DEF Follows
<1> QED BY <1>13 DEF f
-----------------------------------------------------------------------------
(* Cuts of one loop.                                                       *)

\* unroll lumps iterations together without losing or repeating one.
LEMMA LumpIs ==
  ASSUME NEW ss, NEW I, Sound(ss, I), NEW same, Among(ss, same), NEW s \in same, NEW level \in Loops,
         NEW lo, NEW st, NEW m, Even(ss[s].IS, level, lo, st, m),
         \A t \in same : ss[t].IS = ss[s].IS,
         NEW times \in Nat, times >= 2, m % times = 0,
         NEW new, new = LumpStatements(ss, same, s, level, times, st)
  PROVE  Sound(new, I) /\ \E kept, code : LumpShape(ss, same, s, kept, code, new)
<1>0. PICK kept : kept = {p \in ss[s].IS : (p[level] - lo) % (times * st) = 0}
  OBVIOUS
<1>1. Proper(ss) /\ Once(ss, I)
  BY DEF Sound
<1>2. PICK ahead, code, slot :
        /\ \A j \in 1 .. times-1 : \A p \in kept : ahead[j][p] = Ahead(p, level, j * st)
        /\ CopyShape(ss, same, times, ahead, kept, code, slot)
        /\ LumpShape(ss, same, s, kept, code, new)
  <2>1. LumpParts(ss, same, s, level, st, times, kept, new)
    BY <1>0, <1>1, LumpPieces
  <2> QED BY <2>1 DEF LumpParts
<1>3. StrideShape(ss[s].IS, level, lo, st, times, kept)
  BY <1>0, StridesAre
<1>4. \E f : Follows(f, ss, new)
  <2>1. Follows([r \in RunsIn(ss) |-> LumpSent(ss, same, level, lo, st, times, slot, r)], ss, new)
    BY <1>1, <1>2, <1>3, LumpFollows
  <2> QED BY <2>1
<1>5. Once(new, I)
  BY <1>1, <1>4, OnceFollows
<1>6. Proper(new)
  <2>1. s \in DOMAIN ss /\ DOMAIN ss = 1 .. Len(ss) /\ Len(ss) \in Nat /\ Spread(ss[s]) /\ Statement(ss[s])
    BY <1>1 DEF Among, Proper, SeqLike
  <2>2. /\ SeqLike(new) /\ DOMAIN new = 1 .. (Len(ss) + 1)
        /\ \A t \in DOMAIN ss : Statement(new[t]) /\ Spread(new[t])
    BY <1>2 DEF LumpShape, Piece
  <2>3. Statement(new[Len(ss) + 1]) /\ new[Len(ss) + 1].rows = ss[s].rows /\ new[Len(ss) + 1].IS = kept
    BY <1>2 DEF LumpShape
  <2>4. kept \subseteq ss[s].IS
    BY <1>3 DEF StrideShape
  <2>5. Spread(new[Len(ss) + 1])
    BY <2>1, <2>3, <2>4, SpreadPart
  <2>6. \A t \in DOMAIN new : t \in DOMAIN ss \/ t = Len(ss) + 1
    BY <2>1, <2>2
  <2> QED BY <2>2, <2>3, <2>5, <2>6 DEF Proper
<1> QED BY <1>2, <1>5, <1>6 DEF Sound

\* Sides of a loop that are bounded by a number
LEMMA BoundIs ==
  ASSUME NEW level \in Loops, NEW coef \in {1, -1}, NEW b \in Int, NEW con, con = Bound(level, coef, b)
  PROVE  /\ con \in Rows /\ con.coef[level] = coef /\ MaxLevel(con) = level
         /\ \A p \in Points : Holds(con, p) <=> coef * p[level] >= coef * b
         /\ Step(con) = IF coef = 1 THEN -1 ELSE 1
<1>1. con \in Rows /\ con.coef[level] = coef /\ con.const = -coef * b
  BY DEF Bound, Rows
<1>2. \A k \in Loops : con.coef[k] = IF k = level THEN coef ELSE 0
  BY DEF Bound
<1>3. level \in Nat /\ level > 0
  BY LoopsFacts DEF Loops
<1>4. MaxLevel(con) = level
  <2>1. {l \in Loops : con.coef[l] # 0} = {level}
    BY <1>2
  <2> DEFINE S == {0, level}
  <2>2. S \in SUBSET Int /\ IsFiniteSet(S) /\ S # {}
    <3>1. IsFiniteSet({0}) /\ IsFiniteSet({level})
      BY FS_Singleton
    <3>2. IsFiniteSet({0} \union {level})
      BY <3>1, FS_Union
    <3>3. S = {0} \union {level}
      OBVIOUS
    <3>4. S \in SUBSET Int /\ S # {}
      BY <1>3
    <3> QED BY <3>2, <3>3, <3>4
  <2>3. Max(S) \in S /\ \A y \in S : Max(S) >= y
    BY <2>2, Extremes
  <2>4. Max(S) = level
    <3>1. level \in S
      OBVIOUS
    <3>2. Max(S) >= level /\ (Max(S) = 0 \/ Max(S) = level)
      BY <2>3, <3>1
    <3> QED BY <1>3, <3>2
  <2>5. {0} \union {l \in Loops : con.coef[l] # 0} = S
    BY <2>1
  <2> QED BY <2>4, <2>5 DEF MaxLevel
<1>5. ASSUME NEW p \in Points PROVE Holds(con, p) <=> coef * p[level] >= coef * b
  <2> DEFINE zero == [k \in Loops |-> 0]
             one == [k \in Loops |-> con.coef[k] * p[k]]
  <2>1. zero \in Points /\ one \in Points
    BY <1>1, AffineIs DEF Points
  <2>2. \A k \in Loops : p[k] \in Int
    BY DEF Points
  <2>3. one[level] = coef * p[level] /\ \A k \in Loops \ {level} : one[k] = 0
    BY <1>2, <2>2
  <2>4. Sum(zero) = 0
    BY <2>1, SumZero
  <2>5. \A k \in Loops : zero[k] = 0
    OBVIOUS
  <2> DEFINE x == coef * p[level]
  <2>6. x \in Int /\ one[level] = x
    BY <2>2, <2>3
  <2> HIDE DEF zero, one, x
  <2>7. Sum(one) = x
    BY <2>1, <2>3, <2>4, <2>5, <2>6, SumExcept
  <2>8. Affine(con, p) = -coef * b + x
    BY <1>1, <2>7 DEF Affine, one
  <2> QED BY <2>6, <2>8 DEF Holds, x
<1>6. Step(con) = IF coef = 1 THEN -1 ELSE 1
  BY <1>1, <1>3, <1>4 DEF Step, PlaceAfter
<1> QED BY <1>1, <1>4, <1>5, <1>6

\* One cut of a loop of which the variables are the points
CutOnce(ss, same, level, con, place, new) ==
  /\ DOMAIN ss \subseteq DOMAIN new
  /\ \A t \in DOMAIN ss : /\ new[t].IS = Staying(ss, same, con, t) /\ new[t].rows = ss[t].rows
                          /\ new[t].lex = Moved(ss[t].lex, place, level, Step(con))
  /\ \A t \in DOMAIN new : t \notin DOMAIN ss =>
       \E u \in same : /\ Part2(ss[u], con) # {} /\ new[t].IS = Part2(ss[u], con) /\ new[t].rows = ss[u].rows
                       /\ new[t].lex = Moved([ss[u].lex EXCEPT ![level] = place[level]], place, level, Step(con))

\* The new half of the statement that was named, if there is one
MadeOnce(made, new, ss, now) ==
  now = made \/ \E h \in DOMAIN new : h \notin DOMAIN ss /\ now = made \union {h}

\* split is one cut, whatever the rows of the statements are.
LEMMA SplitCuts ==
  ASSUME NEW ss, Proper(ss), NEW s \in DOMAIN ss, NEW level \in Loops, NEW loop, loop = LoopOf(ss, s, level),
         NEW con, NEW cut, cut = Cut(ss, loop.same, con), NEW place, place = Place(loop, con),
         NEW new, new = SplitStatements(ss, loop, con)
  PROVE  /\ CutOnce(ss, loop.same, level, con, place, new) /\ CutShape(ss, loop.same, con, cut)
         /\ SplitShape(ss, loop, con, cut, place, new) /\ LoopIn(ss, loop) /\ loop.level = level
<1>1. LoopIn(ss, loop)
  BY LoopOfIs
<1>2. loop.level = level
  BY DEF LoopOf
<1> DEFINE same == loop.same
<1>12. CutShape(ss, same, con, cut)
  BY <1>1, CutIs DEF LoopIn
<1>14. SplitShape(ss, loop, con, cut, place, new)
  BY <1>1, SplitPieces
<1>15. /\ DOMAIN new = 1 .. (Len(ss) + Len(cut)) /\ DOMAIN ss = 1 .. Len(ss) /\ Len(ss) \in Nat
       /\ \A n \in DOMAIN ss : /\ Piece(new[n], ss[n], Staying(ss, same, con, n))
                               /\ new[n].lex = Moved(ss[n].lex, place, level, Step(con))
       /\ \A i \in DOMAIN cut :
            /\ Piece(new[Len(ss) + i], ss[cut[i]], Part2(ss[cut[i]], con))
            /\ new[Len(ss) + i].lex = Moved([ss[cut[i]].lex EXCEPT ![level] = place[level]], place, level, Step(con))
  BY <1>2, <1>14 DEF SplitShape, Proper, SeqLike
<1> HIDE DEF same
<1>16. /\ DOMAIN cut = 1 .. Len(cut) /\ Len(cut) \in Nat
       /\ \A i \in DOMAIN cut : cut[i] \in same /\ Part2(ss[cut[i]], con) # {}
  BY <1>12 DEF CutShape
<1>17. CutOnce(ss, same, level, con, place, new)
  <2>1. DOMAIN ss \subseteq DOMAIN new
    BY <1>15, <1>16
  <2>2. ASSUME NEW t \in DOMAIN ss
        PROVE  /\ new[t].IS = Staying(ss, same, con, t) /\ new[t].rows = ss[t].rows
               /\ new[t].lex = Moved(ss[t].lex, place, level, Step(con))
    BY <1>15 DEF Piece
  <2>3. ASSUME NEW t \in DOMAIN new, t \notin DOMAIN ss
        PROVE  \E u \in same : /\ Part2(ss[u], con) # {} /\ new[t].IS = Part2(ss[u], con) /\ new[t].rows = ss[u].rows
                               /\ new[t].lex = Moved([ss[u].lex EXCEPT ![level] = place[level]], place, level, Step(con))
    <3>1. t - Len(ss) \in DOMAIN cut /\ Len(ss) + (t - Len(ss)) = t
      BY <1>15, <1>16, <2>3
    <3>2. PICK i \in DOMAIN cut : Len(ss) + i = t
      BY <3>1
    <3>3. PICK u : u = cut[i]
      OBVIOUS
    <3>4. Piece(new[t], ss[u], Part2(ss[u], con)) /\ new[t].lex = Moved([ss[u].lex EXCEPT ![level] = place[level]], place, level, Step(con))
      BY <1>15, <3>2, <3>3
    <3>5. u \in same /\ Part2(ss[u], con) # {}
      BY <1>16, <3>3
    <3> QED BY <3>4, <3>5 DEF Piece
  <2> QED BY <2>1, <2>2, <2>3 DEF CutOnce
<1> QED BY <1>1, <1>2, <1>12, <1>14, <1>17 DEF same

\* split of a loop by one constraint makes one cut.
LEMMA CutOnceIs ==
  ASSUME NEW P, NEW I, Sound(P.stmt, I), NEW s \in DOMAIN P.stmt, NEW level \in Loops,
         NEW same, same = SameLoop(P.stmt, s, level), \A t \in same : P.stmt[t].rows = Identity,
         NEW con, NEW Q, Q = SplitAll(P, s, level, <<con>>),
         NEW place, place = Place(LoopOf(P.stmt, s, level), con)
  PROVE  /\ Sound(Q.stmt, I) /\ CutOnce(P.stmt, same, level, con, place, Q.stmt)
         /\ MadeOnce(P.made, Q.stmt, P.stmt, Q.made)
<1> DEFINE cons == <<con>>
<1>1. Len(cons) = 1 /\ cons[1] = con
  OBVIOUS
<1> HIDE DEF cons
<1>2. PICK loop : loop = LoopOf(P.stmt, s, level)
  OBVIOUS
<1>3. Q = SplitBy(P, loop, con)
  <2>1. PICK after : SplitSteps(after, P, loop, cons, Len(cons)) /\ SplitAll(P, s, level, cons) = after[Len(cons)]
    <3>1. Len(cons) \in Nat
      BY <1>1
    <3> QED BY <1>2, <3>1, SplitAllSteps
  <2>2. after[0] = P /\ after[1] = SplitBy(after[1-1], loop, cons[1])
    BY <1>1, <2>1 DEF SplitSteps
  <2>3. 1-1 = 0
    OBVIOUS
  <2>4. after[1] = SplitBy(P, loop, con)
    BY <1>1, <2>2, <2>3
  <2>5. SplitAll(P, s, level, cons) = after[1]
    BY <1>1, <2>1
  <2> QED BY <2>4, <2>5 DEF cons
<1>4. LoopIn(P.stmt, loop) /\ Proper(P.stmt)
  BY <1>2, LoopOfIs DEF Sound
<1>5. Sound(Q.stmt, I)
  BY <1>3, <1>4, SplitByIs
<1>6. loop.same = same /\ loop.level = level /\ loop.of = s
  BY <1>2 DEF LoopOf
<1>7. same \in SUBSET DOMAIN P.stmt
  BY DEF SameLoop
<1> DEFINE ss == P.stmt
<1>8. ApplyXform(P.stmt, same) = P.stmt
  <2>1. ss = [t \in DOMAIN ss |-> ss[t]]
    BY <1>4 DEF Proper, SeqLike
  <2>2. \A t \in same : Applied(ss[t]) = ss[t]
    BY DEF Applied
  <2> HIDE DEF ss
  <2>3. ApplyXform(ss, same) = [t \in DOMAIN ss |-> ss[t]]
    BY <2>2 DEF ApplyXform
  <2> QED BY <2>1, <2>3 DEF ss
<1>9. PICK cut : cut = Cut(ss, same, con)
  OBVIOUS
<1>10. Q.stmt = SplitStatements(ss, loop, con)
  BY <1>3, <1>6, <1>8 DEF SplitBy
<1>11. Q.made = P.made \union IF s \in Range(cut) THEN {Half(ss, cut, s)} ELSE {}
  BY <1>3, <1>6, <1>8, <1>9 DEF SplitBy
<1>12. place = Place(loop, con) /\ s \in DOMAIN ss /\ Proper(ss)
  BY <1>2, <1>4
<1>13. CutOnce(ss, same, level, con, place, Q.stmt) /\ CutShape(ss, same, con, cut) /\ SplitShape(ss, loop, con, cut, place, Q.stmt)
  <2>1. PICK new : new = Q.stmt
    OBVIOUS
  <2>2. new = SplitStatements(ss, loop, con) /\ cut = Cut(ss, loop.same, con) /\ loop = LoopOf(ss, s, level)
    BY <1>2, <1>6, <1>9, <1>10, <2>1
  <2> HIDE DEF ss
  <2>3. CutOnce(ss, loop.same, level, con, place, new) /\ CutShape(ss, loop.same, con, cut) /\ SplitShape(ss, loop, con, cut, place, new)
    BY <1>12, <2>2, SplitCuts
  <2> QED BY <1>6, <2>1, <2>3
<1> HIDE DEF ss
<1> DEFINE new == Q.stmt
<1> HIDE DEF new
<1>15. DOMAIN new = 1 .. (Len(ss) + Len(cut)) /\ DOMAIN ss = 1 .. Len(ss) /\ Len(ss) \in Nat
  BY <1>12, <1>13 DEF SplitShape, Proper, SeqLike, new
<1>16. /\ DOMAIN cut = 1 .. Len(cut) /\ Len(cut) \in Nat
       /\ \A i \in DOMAIN cut : Half(ss, cut, cut[i]) = Len(ss) + i
  BY <1>13 DEF CutShape
<1>18. MadeOnce(P.made, new, ss, Q.made)
  <2>1. CASE s \in Range(cut)
    <3>1. PICK i \in DOMAIN cut : cut[i] = s
      BY <2>1 DEF Range
    <3>2. Len(ss) + i \in DOMAIN new /\ Len(ss) + i \notin DOMAIN ss /\ Half(ss, cut, s) = Len(ss) + i
      BY <1>15, <1>16, <3>1
    <3> QED BY <1>11, <2>1, <3>2 DEF MadeOnce, ss
  <2>2. CASE s \notin Range(cut)
    BY <1>11, <2>2 DEF MadeOnce, ss
  <2> QED BY <2>1, <2>2
<1> QED BY <1>5, <1>13, <1>18 DEF new, ss
-----------------------------------------------------------------------------
(* The loops beside a cut.                                                 *)

\* The loops around a loop, and the loop
Around(lex, base, level) == \A k \in 1 .. level-1 : lex[k] = base[k]

\* Where the loop of lex is after a cut beside the loop of base
MovedShape(lex, base, level, d, new) ==
  /\ new \in Lexes /\ \A k \in 1 .. level-1 : new[k] = lex[k]
  /\ lex[level] \in Int /\ base[level] \in Int
  /\ new[level] = IF /\ Around(lex, base, level)
                     /\ IF d = 1 THEN lex[level] >= base[level] + 1 ELSE lex[level] <= base[level] - 1
                  THEN lex[level] + d ELSE lex[level]

\* The place next to that of a loop
PlaceAt(base, level, d) == [base EXCEPT ![level] = @ + d]

\* What makes room for a loop leaves the loop itself in place.
LEMMA MovedAt ==
  ASSUME NEW lex \in Lexes, NEW base \in Lexes, NEW level \in Loops, NEW d \in {1, -1},
         NEW place, place = PlaceAt(base, level, d),
         NEW new, new = Moved(lex, place, level, d)
  PROVE  MovedShape(lex, base, level, d, new)
<1>1. level \in 1 .. NDim+1 /\ level \in Int /\ \A k \in 1 .. level-1 : k \in 1 .. NDim+1 /\ k # level
  BY LoopsFacts DEF Loops
<1>2. lex[level] \in Int /\ base[level] \in Int /\ d \in Int
  BY <1>1 DEF Lexes
<1>3. place[level] = base[level] + d /\ \A k \in 1 .. level-1 : place[k] = base[k]
  BY <1>1 DEF Lexes, PlaceAt
<1> DEFINE moves == /\ Around(lex, base, level)
                    /\ IF d = 1 THEN lex[level] >= base[level] + 1 ELSE lex[level] <= base[level] - 1
<1>4. new = IF moves THEN [lex EXCEPT ![level] = @ + d] ELSE lex
  BY <1>2, <1>3 DEF Moved, Around
<1> HIDE DEF moves
<1>5. CASE moves
  <2>1. new = [lex EXCEPT ![level] = lex[level] + d]
    BY <1>4, <1>5
  <2>2. new \in Lexes /\ new[level] = lex[level] + d /\ \A k \in 1 .. level-1 : new[k] = lex[k]
    <3> DEFINE x == lex[level] + d
    <3>1. x \in Int /\ new = [lex EXCEPT ![level] = x]
      BY <1>2, <2>1
    <3> HIDE DEF x
    <3>2. new \in Lexes /\ new[level] = x /\ \A k \in 1 .. level-1 : new[k] = lex[k]
      BY <1>1, <3>1 DEF Lexes
    <3> QED BY <3>2 DEF x
  <2> QED BY <1>2, <1>5, <2>2 DEF MovedShape, moves
<1>6. CASE ~moves
  BY <1>2, <1>4, <1>6 DEF MovedShape, moves
<1> QED BY <1>5, <1>6

\* The statements of a loop after a cut
SameShape(ss, s, level, same, new) ==
  /\ SameLoop(new, s, level) = same
  /\ \A t \in same : new[t].lex = ss[t].lex

\* A cut leaves the loop where it was, and the new half two places from it.
LEMMA LoopStays ==
  ASSUME NEW ss, Proper(ss), NEW s \in DOMAIN ss, NEW level \in Loops,
         NEW same, same = SameLoop(ss, s, level),
         NEW con, NEW place, place = Place(LoopOf(ss, s, level), con),
         NEW new, CutOnce(ss, same, level, con, place, new)
  PROVE  /\ SameShape(ss, s, level, same, new)
         /\ \A t \in DOMAIN ss : ss[t].lex \in Lexes /\ MovedShape(ss[t].lex, ss[s].lex, level, Step(con), new[t].lex)
         /\ \A t \in DOMAIN new : t \notin DOMAIN ss =>
              /\ new[t].lex \in Lexes /\ Around(new[t].lex, ss[s].lex, level)
              /\ new[t].lex[level] = ss[s].lex[level] + 2 * Step(con)
<1> DEFINE base == ss[s].lex
           d == Step(con)
<1>1. \A t \in DOMAIN ss : ss[t].lex \in Lexes
  BY DEF Proper, Statement
<1>2. d \in {1, -1} /\ base \in Lexes /\ place = PlaceAt(base, level, d)
  BY <1>1, StepIs DEF Place, LoopOf, PlaceAt
<1>3. level \in 1 .. NDim+1 /\ level \in Int /\ \A k \in 1 .. level-1 : k \in 1 .. NDim+1 /\ k # level
  BY LoopsFacts DEF Loops
<1>0. base[level] \in Int /\ \A t \in DOMAIN ss : ss[t].lex[level] \in Int
  BY <1>1, <1>2, <1>3 DEF Lexes
<1>4. ASSUME NEW t \in DOMAIN ss PROVE MovedShape(ss[t].lex, base, level, d, new[t].lex)
  <2>1. new[t].lex = Moved(ss[t].lex, place, level, d)
    BY DEF CutOnce
  <2> HIDE DEF base, d
  <2> QED BY <1>1, <1>2, <2>1, MovedAt
<1>5. same \subseteq DOMAIN ss /\ s \in same
  BY DEF SameLoop
<1>6. \A t \in DOMAIN ss : t \in same <=> Around(ss[t].lex, base, level) /\ ss[t].lex[level] = base[level]
  <2>1. \A k : k \in 1 .. level <=> k \in 1 .. level-1 \/ k = level
    BY <1>3, LoopsFacts DEF Loops
  <2> QED BY <2>1 DEF SameLoop, Around
<1>7. ASSUME NEW t \in DOMAIN new, t \notin DOMAIN ss
      PROVE  /\ new[t].lex \in Lexes /\ Around(new[t].lex, base, level)
             /\ new[t].lex[level] = base[level] + 2 * d
  <2>1. PICK u \in same : new[t].lex = Moved([ss[u].lex EXCEPT ![level] = place[level]], place, level, d)
    BY <1>7 DEF CutOnce
  <2> DEFINE lex == [ss[u].lex EXCEPT ![level] = place[level]]
  <2>2. place[level] = base[level] + d
    BY <1>2, <1>3 DEF Lexes, PlaceAt
  <2>3. base[level] + d \in Int
    BY <1>0, <1>2
  <2>4. u \in DOMAIN ss /\ ss[u].lex \in Lexes /\ Around(ss[u].lex, base, level)
    BY <1>1, <1>5, <1>6
  <2>5. lex \in Lexes /\ lex[level] = base[level] + d /\ Around(lex, base, level)
    BY <1>3, <2>2, <2>3, <2>4 DEF Lexes, Around
  <2> HIDE DEF lex, base, d
  <2>6. MovedShape(lex, base, level, d, new[t].lex)
    BY <1>2, <2>1, <2>5, MovedAt DEF lex
  <2>7. new[t].lex \in Lexes /\ new[t].lex[level] = base[level] + d + d /\ \A k \in 1 .. level-1 : new[t].lex[k] = lex[k]
    BY <1>0, <1>2, <2>5, <2>6 DEF MovedShape
  <2> QED BY <1>0, <1>2, <2>5, <2>7 DEF Around
<1> HIDE DEF base, d
<1>8. ASSUME NEW t \in same PROVE new[t].lex = ss[t].lex
  <2>1. t \in DOMAIN ss /\ MovedShape(ss[t].lex, base, level, d, new[t].lex) /\ ss[t].lex[level] = base[level]
    BY <1>4, <1>5, <1>6
  <2>2. new[t].lex = Moved(ss[t].lex, place, level, d) /\ ss[t].lex \in Lexes
    BY <1>1, <2>1 DEF CutOnce, d
  <2>3. place[level] = base[level] + d
    BY <1>2, <1>3 DEF Lexes, PlaceAt
  <2> QED BY <1>0, <1>2, <2>1, <2>2, <2>3 DEF Moved
<1>9. DOMAIN ss \subseteq DOMAIN new
  BY DEF CutOnce
<1>10. \A t \in DOMAIN new : t \in SameLoop(new, s, level) <=> Around(new[t].lex, base, level) /\ new[t].lex[level] = base[level]
  <2>1. \A k : k \in 1 .. level <=> k \in 1 .. level-1 \/ k = level
    BY <1>3, LoopsFacts DEF Loops
  <2>2. new[s].lex = base
    BY <1>5, <1>8 DEF base
  <2> QED BY <2>1, <2>2 DEF SameLoop, Around
<1>11. ASSUME NEW t \in DOMAIN new PROVE t \in SameLoop(new, s, level) <=> t \in same
  <2>1. CASE t \in same
    BY <1>5, <1>6, <1>8, <1>10, <2>1
  <2>2. CASE t \in DOMAIN ss /\ t \notin same
    <3>1. MovedShape(ss[t].lex, base, level, d, new[t].lex) /\ ~(Around(ss[t].lex, base, level) /\ ss[t].lex[level] = base[level])
      BY <1>4, <1>6, <2>2
    <3>2. Around(new[t].lex, base, level) <=> Around(ss[t].lex, base, level)
      BY <3>1 DEF MovedShape, Around
    <3>3. ~(Around(new[t].lex, base, level) /\ new[t].lex[level] = base[level])
      BY <1>0, <1>2, <2>2, <3>1, <3>2 DEF MovedShape
    <3> QED BY <1>10, <2>2, <3>3
  <2>3. CASE t \notin DOMAIN ss
    <3>1. new[t].lex[level] = base[level] + 2 * d
      BY <1>7, <2>3
    <3>2. new[t].lex[level] # base[level]
      BY <1>0, <1>2, <3>1
    <3> QED BY <1>5, <1>10, <2>3, <3>2
  <2> QED BY <2>1, <2>2, <2>3
<1>12. SameLoop(new, s, level) = same
  <2>1. SameLoop(new, s, level) \subseteq DOMAIN new
    BY DEF SameLoop
  <2> QED BY <1>5, <1>9, <1>11, <2>1
<1> QED BY <1>1, <1>4, <1>7, <1>8, <1>12 DEF SameShape, base, d
-----------------------------------------------------------------------------
(* The two cuts of unroll.                                                 *)

\* No loop has the place right behind a loop.
NotTaken(ss, s, level) ==
  \A t \in DOMAIN ss : ~(Around(ss[t].lex, ss[s].lex, level) /\ ss[t].lex[level] = ss[s].lex[level] + 1)

\* The same after both cuts of unroll
CutsShape(ss, s, level, same, near, rest, new, made) ==
  /\ SameLoop(new, s, level) = same
  /\ \A t \in same : t \in DOMAIN ss /\ new[t].IS = near /\ new[t].rows = Identity /\ new[t].lex = ss[t].lex
  /\ DOMAIN ss \subseteq DOMAIN new
  /\ \A t \in DOMAIN new : t \notin DOMAIN ss =>
       /\ new[t].IS = rest /\ new[t].rows = Identity /\ rest # {}
       /\ Around(new[t].lex, ss[s].lex, level) /\ new[t].lex[level] = ss[s].lex[level] + 2
  /\ NotTaken(ss, s, level) =>
       \A t \in DOMAIN ss : ~(Around(new[t].lex, ss[s].lex, level) /\ new[t].lex[level] = ss[s].lex[level] + 2)
  /\ made = {} \/ \E h \in DOMAIN new : h \notin DOMAIN ss /\ made = {h}

\* The two cuts of unroll, of which the second finds nothing to cut
CutTwice(P, s, level, hi, lo) ==
  SplitAll(SplitAll(P, s, level, <<Bound(level, -1, hi)>>), s, level, <<Bound(level, 1, lo)>>)

\* What the two cuts of unroll make: the loop without the iterations left over,
\* and a loop with these behind it
LEMMA UnrollCuts ==
  ASSUME NEW P, NEW I, Sound(P.stmt, I), P.made = {}, NEW s \in DOMAIN P.stmt, NEW level \in Loops,
         NEW same, same = SameLoop(P.stmt, s, level),
         NEW K \in SUBSET Points, \A t \in same : P.stmt[t].rows = Identity /\ P.stmt[t].IS = K,
         NEW lo \in Int, \A p \in K : p[level] >= lo, NEW hi \in Int,
         NEW near, near = {p \in K : p[level] <= hi}, NEW rest, rest = {p \in K : ~(p[level] <= hi)},
         NEW Q, Q = CutTwice(P, s, level, hi, lo)
  PROVE  Sound(Q.stmt, I) /\ CutsShape(P.stmt, s, level, same, near, rest, Q.stmt, Q.made)
<1>00. PICK A : A = SplitAll(P, s, level, <<Bound(level, -1, hi)>>)
  OBVIOUS
<1>01. Q = SplitAll(A, s, level, <<Bound(level, 1, lo)>>)
  BY <1>00 DEF CutTwice
<1>0. PICK upper, lower : upper = Bound(level, -1, hi) /\ lower = Bound(level, 1, lo)
  OBVIOUS
<1>1. PICK ss, mid, new : ss = P.stmt /\ mid = A.stmt /\ new = Q.stmt
  OBVIOUS
<1>2. PICK place, place2 : place = Place(LoopOf(ss, s, level), upper) /\ place2 = Place(LoopOf(mid, s, level), lower)
  OBVIOUS
<1>3. Proper(ss) /\ s \in DOMAIN ss /\ s \in same /\ same \subseteq DOMAIN ss
  BY <1>1 DEF Sound, SameLoop
<1>4. /\ Step(upper) = 1 /\ Step(lower) = -1
      /\ \A p \in Points : Holds(upper, p) <=> p[level] <= hi
      /\ \A p \in Points : Holds(lower, p) <=> 1 * p[level] >= 1 * lo
  <2>1. \A p \in Points : Holds(upper, p) <=> p[level] <= hi
    <3>1. PICK c : c = -1
      OBVIOUS
    <3>2. c \in {1, -1} /\ upper = Bound(level, c, hi)
      BY <1>0, <3>1
    <3>3. \A p \in Points : Holds(upper, p) <=> c * p[level] >= c * hi
      BY <3>2, BoundIs
    <3>4. ASSUME NEW p \in Points PROVE Holds(upper, p) <=> p[level] <= hi
      <4>1. PICK x \in Int : x = p[level]
        BY DEF Points
      <4>2. c * x = -x /\ c * hi = -hi
        BY <3>1
      <4>3. Holds(upper, p) <=> c * x >= c * hi
        BY <3>3, <4>1
      <4> QED BY <4>1, <4>2, <4>3
    <3> QED BY <3>4
  <2>2. \A p \in Points : Holds(lower, p) <=> 1 * p[level] >= 1 * lo
    BY <1>0, BoundIs
  <2>3. Step(upper) = 1
    BY <1>0, BoundIs
  <2>4. Step(lower) = -1
    BY <1>0, BoundIs
  <2> QED BY <2>1, <2>2, <2>3, <2>4
<1>5. \A p \in K : p \in Points /\ p[level] \in Int
  BY DEF Points
<1>6. \A p \in K : Holds(upper, p) <=> p[level] <= hi
  BY <1>4, <1>5
<1>7. \A p \in K : Holds(lower, p)
  <2>1. ASSUME NEW p \in K PROVE Holds(lower, p)
    <3>1. p[level] \in Int /\ p \in Points /\ p[level] >= lo
      BY <1>5
    <3>2. 1 * p[level] >= 1 * lo
      BY <3>1
    <3> QED BY <1>4, <3>1, <3>2
  <2> QED BY <2>1
<1>8. \A t \in same : ss[t].rows = Identity /\ ss[t].IS = K
  BY <1>1
<1>9. \A t \in same : Part2(ss[t], upper) = rest /\ Staying(ss, same, upper, t) = near
  BY <1>6, <1>8 DEF Part2, Staying
<1>10. Sound(mid, I) /\ CutOnce(ss, same, level, upper, place, mid) /\ MadeOnce({}, mid, ss, A.made)
  <2> DEFINE ss2 == P.stmt
  <2>1. place = Place(LoopOf(P.stmt, s, level), upper) /\ A = SplitAll(P, s, level, <<upper>>)
    BY <1>00, <1>0, <1>1, <1>2
  <2>2. /\ Sound(A.stmt, I) /\ CutOnce(P.stmt, same, level, upper, place, A.stmt)
        /\ MadeOnce(P.made, A.stmt, P.stmt, A.made)
    BY <2>1, CutOnceIs
  <2> QED BY <1>1, <2>2
<1>11. /\ SameShape(ss, s, level, same, mid)
       /\ \A t \in DOMAIN ss : ss[t].lex \in Lexes /\ MovedShape(ss[t].lex, ss[s].lex, level, 1, mid[t].lex)
       /\ \A t \in DOMAIN mid : t \notin DOMAIN ss =>
            /\ mid[t].lex \in Lexes /\ Around(mid[t].lex, ss[s].lex, level)
            /\ mid[t].lex[level] = ss[s].lex[level] + 2 * 1
  <2>1. same = SameLoop(ss, s, level)
    BY <1>1
  <2> QED BY <1>2, <1>3, <1>4, <1>10, <2>1, LoopStays
<1>12. \A t \in same : mid[t].IS = near /\ mid[t].rows = Identity /\ mid[t].lex = ss[t].lex
  BY <1>3, <1>8, <1>9, <1>10, <1>11 DEF CutOnce, SameShape
<1>13. \A t \in DOMAIN mid : t \notin DOMAIN ss => mid[t].IS = rest /\ mid[t].rows = Identity /\ rest # {}
  BY <1>8, <1>9, <1>10 DEF CutOnce
<1>14. DOMAIN ss \subseteq DOMAIN mid /\ same = SameLoop(mid, s, level) /\ s \in DOMAIN mid
  BY <1>3, <1>10, <1>11 DEF CutOnce, SameShape
<1>15. Sound(new, I) /\ CutOnce(mid, same, level, lower, place2, new) /\ MadeOnce(A.made, new, mid, Q.made)
  <2>1. place2 = Place(LoopOf(A.stmt, s, level), lower) /\ Q = SplitAll(A, s, level, <<lower>>)
    BY <1>01, <1>0, <1>1, <1>2
  <2>2. Sound(A.stmt, I) /\ s \in DOMAIN A.stmt /\ same = SameLoop(A.stmt, s, level) /\ \A t \in same : A.stmt[t].rows = Identity
    BY <1>1, <1>10, <1>12, <1>14
  <2>3. /\ Sound(Q.stmt, I) /\ CutOnce(A.stmt, same, level, lower, place2, Q.stmt)
        /\ MadeOnce(A.made, Q.stmt, A.stmt, Q.made)
    BY <2>1, <2>2, CutOnceIs
  <2> QED BY <1>1, <2>3
<1>16. \A t \in same : Part2(mid[t], lower) = {} /\ Staying(mid, same, lower, t) = near
  BY <1>7, <1>12 DEF Part2, Staying
<1>17. DOMAIN new = DOMAIN mid
  BY <1>15, <1>16 DEF CutOnce
<1>18. Q.made = A.made
  BY <1>15, <1>17 DEF MadeOnce
<1>19. /\ SameShape(mid, s, level, same, new)
       /\ \A t \in DOMAIN mid : mid[t].lex \in Lexes /\ MovedShape(mid[t].lex, mid[s].lex, level, -1, new[t].lex)
  <2>1. Proper(mid)
    BY <1>10 DEF Sound
  <2> QED BY <1>2, <1>4, <1>14, <1>15, <2>1, LoopStays
<1>20. mid[s].lex = ss[s].lex
  BY <1>3, <1>12
<1>21. \A t \in same : new[t].IS = near /\ new[t].rows = Identity /\ new[t].lex = ss[t].lex
  BY <1>3, <1>12, <1>14, <1>15, <1>16, <1>19 DEF CutOnce, SameShape
<1> DEFINE base == ss[s].lex
<1>22. base[level] \in Int
  <2>1. level \in 1 .. NDim+1
    BY LoopsFacts
  <2> QED BY <1>3, <1>11, <2>1 DEF Lexes
<1> HIDE DEF base
<1>23. ASSUME NEW t \in DOMAIN new, t \notin DOMAIN ss
       PROVE  /\ new[t].IS = rest /\ new[t].rows = Identity /\ rest # {}
              /\ Around(new[t].lex, base, level) /\ new[t].lex[level] = base[level] + 2
  <2>1. t \in DOMAIN mid /\ t \notin same
    BY <1>3, <1>17, <1>23
  <2>2. new[t].IS = mid[t].IS /\ new[t].rows = mid[t].rows
    BY <1>15, <2>1 DEF CutOnce, Staying
  <2>3. Around(mid[t].lex, base, level) /\ mid[t].lex[level] = base[level] + 2 * 1
    BY <1>11, <1>23, <2>1 DEF base
  <2>4. MovedShape(mid[t].lex, base, level, -1, new[t].lex)
    BY <1>19, <1>20, <2>1 DEF base
  <2>5. new[t].lex[level] = base[level] + 2 /\ \A k \in 1 .. level-1 : new[t].lex[k] = mid[t].lex[k]
    BY <1>22, <2>3, <2>4 DEF MovedShape
  <2> QED BY <1>13, <1>23, <2>1, <2>2, <2>3, <2>5 DEF Around
<1>24. ASSUME NotTaken(ss, s, level), NEW t \in DOMAIN ss
       PROVE  ~(Around(new[t].lex, base, level) /\ new[t].lex[level] = base[level] + 2)
  <2>1. ~(Around(ss[t].lex, base, level) /\ ss[t].lex[level] = base[level] + 1)
    BY <1>24 DEF NotTaken, base
  <2>2. MovedShape(ss[t].lex, base, level, 1, mid[t].lex)
    BY <1>11 DEF base
  <2>3. MovedShape(mid[t].lex, base, level, -1, new[t].lex)
    BY <1>14, <1>19, <1>20 DEF base
  <2>4. Around(mid[t].lex, base, level) <=> Around(ss[t].lex, base, level)
    BY <2>2 DEF MovedShape, Around
  <2>5. Around(new[t].lex, base, level) <=> Around(mid[t].lex, base, level)
    BY <2>3 DEF MovedShape, Around
  <2> QED BY <1>22, <2>1, <2>2, <2>3, <2>4, <2>5 DEF MovedShape
<1>25. Q.made = {} \/ \E h \in DOMAIN new : h \notin DOMAIN ss /\ Q.made = {h}
  BY <1>10, <1>17, <1>18 DEF MadeOnce
<1>26. SameLoop(new, s, level) = same /\ DOMAIN ss \subseteq DOMAIN new /\ \A t \in same : t \in DOMAIN ss
  BY <1>3, <1>14, <1>17, <1>19 DEF SameShape
<1>27. CutsShape(ss, s, level, same, near, rest, new, Q.made)
  BY <1>21, <1>23, <1>24, <1>25, <1>26 DEF CutsShape, base
<1> QED BY <1>1, <1>15, <1>27
-----------------------------------------------------------------------------
(* unroll: the numbers and what is left over.                              *)

\* A record with statements and vectors, and the halves made
Pair(P) == P = [stmt |-> P.stmt, dep |-> P.dep, made |-> P.made]

\* A record with statements and vectors
LEMMA PairOf ==
  ASSUME NEW a, NEW b, NEW c, NEW R, R = [stmt |-> a, dep |-> b, made |-> c]
  PROVE  Pair(R) /\ R.stmt = a /\ R.dep = b /\ R.made = c
BY DEF Pair

\* What unroll finds: all statements of a loop have the same even iterations.
Ready(ss, s, level, K, lo, st, n) ==
  /\ s \in DOMAIN ss /\ Even(K, level, lo, st, n)
  /\ \A t \in SameLoop(ss, s, level) : Positions(ss[t]) = K

\* The statements when unroll begins to cut
StartShape(P, s, level, K, same, Q) ==
  /\ Pair(Q) /\ Q.made = {} /\ DOMAIN Q.stmt = DOMAIN P.stmt
  /\ same = SameLoop(Q.stmt, s, level)
  /\ \A t \in same : Q.stmt[t].rows = Identity /\ Q.stmt[t].IS = K
  /\ \A t \in DOMAIN P.stmt : Q.stmt[t].lex = P.stmt[t].lex

\* unroll first makes the loop variables the points.
LEMMA UnrollStart ==
  ASSUME NEW P, Pair(P), NEW I, Sound(P.stmt, I), NEW s \in DOMAIN P.stmt, NEW level \in Loops,
         NEW same, same = SameLoop(P.stmt, s, level),
         NEW K, \A t \in same : Positions(P.stmt[t]) = K,
         NEW Q, Q = [P EXCEPT !.stmt = ApplyXform(@, same), !.made = {}]
  PROVE  Sound(Q.stmt, I) /\ StartShape(P, s, level, K, same, Q)
<1>1. PICK ss, new : ss = P.stmt /\ new = ApplyXform(ss, same)
  OBVIOUS
<1>2. Q = [stmt |-> new, dep |-> P.dep, made |-> {}]
  BY <1>1 DEF Pair
<1>3. Pair(Q) /\ Q.stmt = new /\ Q.made = {}
  <2>1. PICK R : R = [stmt |-> new, dep |-> P.dep, made |-> {}]
    OBVIOUS
  <2>2. Pair(R) /\ R.stmt = new /\ R.made = {}
    BY <2>1, PairOf
  <2> QED BY <1>2, <2>1, <2>2
<1>4. same \in SUBSET DOMAIN ss /\ Proper(ss) /\ Once(ss, I)
  BY <1>1 DEF Sound, SameLoop
<1>5. XformShape(ss, same, new)
  BY <1>1, <1>4, ApplyXformIs
<1>6. /\ Proper(new) /\ DOMAIN new = DOMAIN ss
      /\ \A n \in DOMAIN ss : new[n] = IF n \in same THEN Applied(ss[n]) ELSE ss[n]
      /\ \E f : Follows(f, ss, new)
  BY <1>5 DEF XformShape
<1>7. Sound(new, I)
  BY <1>4, <1>6, OnceFollows DEF Sound
<1>8. ASSUME NEW t \in same PROVE new[t].rows = Identity /\ new[t].IS = K /\ new[t].lex = ss[t].lex
  <2>1. Statement(ss[t]) /\ Spread(ss[t]) /\ new[t] = Applied(ss[t]) /\ Positions(ss[t]) = K
    BY <1>1, <1>4, <1>6 DEF Proper
  <2>2. Applied(ss[t]).IS = Positions(ss[t]) /\ Applied(ss[t]).rows = Identity /\ Applied(ss[t]).lex = ss[t].lex
    BY <2>1, AppliedIs
  <2> QED BY <2>1, <2>2
<1>9. \A t \in DOMAIN ss : new[t].lex = ss[t].lex
  BY <1>6, <1>8
<1>10. same = SameLoop(new, s, level)
  <2>1. s \in DOMAIN ss /\ same = SameLoop(ss, s, level)
    BY <1>1
  <2> QED BY <1>6, <1>9, <2>1 DEF SameLoop
<1> QED BY <1>1, <1>3, <1>6, <1>7, <1>8, <1>9, <1>10 DEF StartShape

\* A multiple leaves no remainder.
LEMMA Multiple ==
  ASSUME NEW b \in Int, b > 0, NEW q \in Int, NEW x, x = b * q
  PROVE  x % b = 0
<1>1. x = b * q + 0 /\ x \in Int
  OBVIOUS
<1> QED BY <1>1, Divided

\* How many iterations unroll lumps together, and those that are not left over
NumbersShape(n, times, m) ==
  times \in Nat /\ times >= 2 /\ m \in 1 .. n /\ m % times = 0 /\ n % times = n - m /\ n % times \in Int

\* times divides the number of the iterations that are lumped together.
LEMMA UnrollNumbers ==
  ASSUME NEW n \in Nat, n > 1, NEW amount \in Nat, amount # 1,
         NEW times, times = IF amount = 0 \/ n < amount THEN n ELSE amount,
         NEW m, m = n - (n % times)
  PROVE  NumbersShape(n, times, m)
<1>1. times \in Nat /\ times >= 2 /\ times <= n
  OBVIOUS
<1> DEFINE q == n \div times
           r == n % times
<1>2. n = times * q + r /\ r \in 0 .. times-1 /\ q \in Int
  BY <1>1, Division
<1> HIDE DEF q, r
<1>3. q >= 1
  <2> SUFFICES ASSUME q <= 0 PROVE FALSE
    BY <1>2
  <2>1. times * q <= 0
    BY <1>1, <1>2
  <2> QED BY <1>1, <1>2, <2>1
<1>4. m = times * q + 0
  BY <1>1, <1>2 DEF r
<1>5. times * q >= 1
  BY <1>1, <1>2, <1>3
<1>6. m % times = 0
  <2>1. m = times * q /\ times \in Int /\ times > 0 /\ q \in Int
    BY <1>1, <1>2, <1>4
  <2> QED BY <2>1, Multiple
<1> QED BY <1>1, <1>2, <1>4, <1>5, <1>6 DEF r, NumbersShape

\* What is left over can be unrolled in turn.
RestShape(Q, level) ==
  Q.made = {} \/ \E h \in DOMAIN Q.stmt : /\ Q.made = {h}
                                          /\ \E K, lo, st, n : Ready(Q.stmt, h, level, K, lo, st, n)

\* All statements of a loop have the iterations rest.
HalfShape(new, h, level, rest) ==
  h \in DOMAIN new /\ rest # {} /\ \A t \in SameLoop(new, h, level) : Positions(new[t]) = rest

\* The iterations left over have a loop of their own.
LEMMA LumpRest ==
  ASSUME NEW ss, NEW B, NEW same, NEW s \in same, s \in DOMAIN ss, NEW level \in Loops,
         ss[s].lex \in Lexes, NEW near, NEW rest \in SUBSET Points,
         same = SameLoop(ss, s, level),
         NEW made, CutsShape(ss, s, level, same, near, rest, B, made), Proper(B),
         NotTaken(ss, s, level), NEW kept, NEW code, NEW new, LumpShape(B, same, s, kept, code, new),
         NEW h, made = {h}, h \in DOMAIN B, h \notin DOMAIN ss
  PROVE  HalfShape(new, h, level, rest)
<1> DEFINE base == ss[s].lex
<1>1. level \in 1 .. NDim+1 /\ base[level] \in Int /\ level \in 1 .. level
  BY LoopsFacts DEF Lexes, Loops
<1> HIDE DEF base
<1>2. DOMAIN B = 1 .. Len(B) /\ Len(B) \in Nat /\ DOMAIN new = 1 .. (Len(B) + 1)
  BY DEF Proper, SeqLike, LumpShape
<1>3. h \in DOMAIN new /\ \A t \in DOMAIN new : t \in DOMAIN B \/ t = Len(B) + 1
  BY <1>2
<1>4. \A t \in DOMAIN B : new[t].lex = B[t].lex /\ new[t].rows = B[t].rows /\ new[t].IS = LumpKept(B, same, kept, t)
  BY DEF LumpShape, Piece
<1>5. /\ \A t \in same : t \in DOMAIN ss /\ B[t].lex = ss[t].lex
      /\ \A t \in DOMAIN B : t \notin DOMAIN ss =>
           /\ B[t].IS = rest /\ B[t].rows = Identity /\ rest # {}
           /\ Around(B[t].lex, base, level) /\ B[t].lex[level] = base[level] + 2
      /\ \A t \in DOMAIN ss : ~(Around(B[t].lex, base, level) /\ B[t].lex[level] = base[level] + 2)
      /\ DOMAIN ss \subseteq DOMAIN B
  BY DEF CutsShape, base
<1>6. new[Len(B) + 1].lex[level] = base[level]
  <2>1. new[Len(B) + 1].lex[level] = B[s].lex[level]
    BY DEF LumpShape
  <2> QED BY <1>5, <2>1 DEF base
<1>7. Around(new[h].lex, base, level) /\ new[h].lex[level] = base[level] + 2
  BY <1>4, <1>5
<1>8. ASSUME NEW t \in SameLoop(new, h, level) PROVE Positions(new[t]) = rest
  <2>1. t \in DOMAIN new /\ \A k \in 1 .. level : new[t].lex[k] = new[h].lex[k]
    BY <1>8 DEF SameLoop
  <2>2. new[t].lex[level] = base[level] + 2
    BY <1>1, <1>7, <2>1
  <2>3. t \in DOMAIN B
    <3>1. t # Len(B) + 1
      BY <1>1, <1>6, <2>2
    <3> QED BY <1>3, <2>1, <3>1
  <2>4. Around(B[t].lex, base, level) /\ B[t].lex[level] = base[level] + 2
    <3>1. \A k \in 1 .. level-1 : k \in 1 .. level
      BY LoopsFacts DEF Loops
    <3>2. Around(new[t].lex, base, level)
      BY <1>7, <2>1, <3>1 DEF Around
    <3> QED BY <1>4, <2>2, <2>3, <3>2
  <2>5. t \notin DOMAIN ss
    BY <1>5, <2>4
  <2>6. t \notin same /\ B[t].IS = rest /\ B[t].rows = Identity
    BY <1>5, <2>3, <2>5
  <2>7. new[t].IS = rest /\ new[t].rows = Identity
    BY <1>4, <2>3, <2>6 DEF LumpKept
  <2>8. \A p \in rest : Position(new[t], p) = p
    BY <2>7, IdentityPosition
  <2> QED BY <2>7, <2>8 DEF Positions
<1>9. rest # {}
  BY <1>5
<1> QED BY <1>3, <1>8, <1>9 DEF HalfShape
-----------------------------------------------------------------------------
(* unroll and unroll_extra.                                                *)

\* What unroll leaves; the rest too, where nothing is in its way
UnrolledShape(Q, I, level, free) == Sound(Q.stmt, I) /\ Pair(Q) /\ (free => RestShape(Q, level))

\* unroll neither loses nor repeats an instance.
LEMMA UnrolledIs ==
  ASSUME NEW P, Pair(P), NEW I, Sound(P.stmt, I), NEW s, NEW level \in Loops,
         NEW K, NEW lo, NEW st, NEW n, Ready(P.stmt, s, level, K, lo, st, n),
         NEW amount \in Nat, amount # 1, NEW new, new = Unrolled(P, s, level, amount)
  PROVE  UnrolledShape(new, I, level, NotTaken(P.stmt, s, level))
<1> DEFINE free == NotTaken(P.stmt, s, level)
<1>1. s \in DOMAIN P.stmt /\ Even(K, level, lo, st, n) /\ \A t \in SameLoop(P.stmt, s, level) : Positions(P.stmt[t]) = K
  BY DEF Ready
<1>2. PICK same, Q : same = SameLoop(P.stmt, s, level) /\ Q = [P EXCEPT !.stmt = ApplyXform(@, same), !.made = {}]
  OBVIOUS
<1>3. Sound(Q.stmt, I) /\ StartShape(P, s, level, K, same, Q)
  BY <1>1, <1>2, UnrollStart
<1>4. PICK ss : ss = Q.stmt
  OBVIOUS
<1>5. /\ Pair(Q) /\ Q.made = {} /\ DOMAIN ss = DOMAIN P.stmt /\ same = SameLoop(ss, s, level)
      /\ \A t \in same : ss[t].rows = Identity /\ ss[t].IS = K
      /\ \A t \in DOMAIN P.stmt : ss[t].lex = P.stmt[t].lex
      /\ Sound(ss, I) /\ s \in DOMAIN ss
  BY <1>1, <1>3, <1>4 DEF StartShape
<1>6. s \in same /\ same \subseteq DOMAIN ss
  BY <1>5 DEF SameLoop
<1>7. EvenShape(K, level, lo, st, n) /\ Progression(Values(K, level), lo, st, n) /\ K \subseteq Points
  <2>1. EvenShape(K, level, lo, st, n)
    BY <1>1, EvenAt DEF EvenShape
  <2> QED BY <1>1, <2>1 DEF Even
<1>8. /\ lo \in Int /\ st \in Nat /\ st >= 1 /\ n \in Nat /\ n >= 1
      /\ \A p \in K : p \in Points /\ p[level] \in Int /\ \E i \in 0 .. n-1 : p[level] = lo + i * st
  BY <1>7 DEF EvenShape
<1> DEFINE q0 == [P EXCEPT !.stmt = ApplyXform(@, SameLoop(P.stmt, s, level)), !.made = {}]
           v0 == {p[level] : p \in q0.stmt[s].IS}
           count0 == Cardinality(v0)
           stride0 == (Max(v0) - Min(v0)) \div (count0 - 1)
           times0 == IF amount = 0 \/ count0 < amount THEN count0 ELSE amount
           hi0 == Max(v0) - (count0 % times0) * stride0
           B0 == CutTwice(q0, s, level, hi0, Min(v0))
<1>9. new = IF count0 = 1 THEN q0 ELSE LumpTogether(B0, SameLoop(P.stmt, s, level), s, level, times0, stride0)
  BY DEF Unrolled, CutTwice
<1>10. v0 = Values(K, level)
  BY <1>2, <1>4, <1>5, <1>6 DEF Values
<1> HIDE DEF v0
<1>11. PICK v, count, stride, times, hi, B :
         v = v0 /\ count = count0 /\ stride = stride0 /\ times = times0 /\ hi = hi0 /\ B = B0
  <2> HIDE DEF count0, stride0, times0, hi0, B0
  <2> QED OBVIOUS
<1>12. /\ count = Cardinality(v) /\ stride = (Max(v) - Min(v)) \div (count - 1)
       /\ times = IF amount = 0 \/ count < amount THEN count ELSE amount
       /\ hi = Max(v) - (count % times) * stride /\ B = CutTwice(Q, s, level, hi, Min(v))
  <2>1. count = Cardinality(v)
    BY <1>11
  <2>2. stride = (Max(v) - Min(v)) \div (count - 1)
    BY <1>11
  <2> HIDE DEF count0, stride0
  <2>3. times = IF amount = 0 \/ count < amount THEN count ELSE amount
    BY <1>11
  <2> HIDE DEF times0
  <2>4. hi = Max(v) - (count % times) * stride
    BY <1>11
  <2> HIDE DEF hi0
  <2>5. B = CutTwice(Q, s, level, hi, Min(v))
    BY <1>2, <1>11
  <2> QED BY <2>1, <2>2, <2>3, <2>4, <2>5
<1> HIDE DEF count0, stride0, times0, hi0, B0
<1>13. new = IF count = 1 THEN Q ELSE LumpTogether(B, same, s, level, times, stride)
  BY <1>2, <1>9, <1>11
<1> HIDE DEF q0
<1>14. count = n /\ Min(v) = lo /\ Max(v) = lo + (n-1) * st /\ (n > 1 => stride = st)
  <2>1. v = Values(K, level)
    BY <1>10, <1>11
  <2> QED BY <1>7, <1>12, <2>1, ProgressionIs
<1>15. CASE n = 1
  <2>1. new = Q
    BY <1>13, <1>14, <1>15
  <2> QED BY <1>4, <1>5, <2>1 DEF UnrolledShape, RestShape
<1>16. CASE n > 1
  <2>1. stride = st /\ times = IF amount = 0 \/ n < amount THEN n ELSE amount
    BY <1>12, <1>14, <1>16
  <2>2. PICK m : m = n - (n % times)
    OBVIOUS
  <2>3. times \in Nat /\ times >= 2 /\ m \in 1 .. n /\ m % times = 0 /\ n % times = n - m
    <3>1. NumbersShape(n, times, m)
      BY <1>8, <1>16, <2>1, <2>2, UnrollNumbers
    <3> QED BY <3>1 DEF NumbersShape
  <2>4. hi = lo + (m-1) * st /\ hi \in Int
    <3>1. hi = (lo + (n-1) * st) - (n - m) * st
      BY <1>12, <1>14, <2>1, <2>3
    <3>2. n \in Int /\ m \in Int /\ st \in Int /\ lo \in Int
      BY <1>8, <2>3
    <3>3. (n-1) * st - (n - m) * st = (m-1) * st
      BY <3>2
    <3>4. (n-1) * st \in Int /\ (n - m) * st \in Int /\ (m-1) * st \in Int
      BY <3>2
    <3> QED BY <3>1, <3>2, <3>3, <3>4
  <2>5. PICK near, rest : near = {p \in K : p[level] <= hi} /\ rest = {p \in K : ~(p[level] <= hi)}
    OBVIOUS
  <2>6. Even(near, level, lo, st, m)
    BY <1>1, <2>3, <2>4, <2>5, EvenFirst
  <2>7. \A p \in K : p[level] >= lo
    <3>1. ASSUME NEW p \in K PROVE p[level] >= lo
      <4>1. PICK i \in 0 .. n-1 : p[level] = lo + i * st
        BY <1>8
      <4>2. i \in Int /\ i >= 0
        BY <1>8
      <4>3. i * st >= 0
        BY <1>8, <4>2
      <4> QED BY <1>8, <4>1, <4>3
    <3> QED BY <3>1
  <2>8. B = CutTwice(Q, s, level, hi, lo)
    BY <1>12, <1>14
  <2>9. Sound(B.stmt, I) /\ CutsShape(Q.stmt, s, level, same, near, rest, B.stmt, B.made)
    <3>1. /\ Sound(Q.stmt, I) /\ s \in DOMAIN Q.stmt /\ same = SameLoop(Q.stmt, s, level)
          /\ \A t \in same : Q.stmt[t].rows = Identity /\ Q.stmt[t].IS = K
      BY <1>4, <1>5
    <3>2. K \in SUBSET Points
      BY <1>7
    <3> QED BY <1>5, <1>8, <2>4, <2>5, <2>7, <2>8, <3>1, <3>2, UnrollCuts
  <2>10. CutsShape(ss, s, level, same, near, rest, B.stmt, B.made)
    BY <1>4, <2>9
  <2>11. \A t \in same : t \in DOMAIN B.stmt /\ B.stmt[t].IS = near
    BY <2>10 DEF CutsShape
  <2>12. PICK last : last = LumpStatements(B.stmt, same, s, level, times, st)
    OBVIOUS
  <2>13. new = [stmt |-> last,
                dep  |-> UNION {LumpedEdges(e, same, Len(B.stmt) + 1, DimOf(level), times * st, st) : e \in B.dep},
                made |-> B.made]
    BY <1>13, <1>14, <1>16, <2>1, <2>12 DEF LumpTogether
  <2>14. Pair(new) /\ new.stmt = last /\ new.made = B.made
    BY <2>13, PairOf
  <2>15. Sound(last, I) /\ \E kept, code : LumpShape(B.stmt, same, s, kept, code, last)
    <3>1. PICK bs : bs = B.stmt
      OBVIOUS
    <3>2. Among(bs, same) /\ Sound(bs, I) /\ (\A t \in same : bs[t].IS = bs[s].IS) /\ bs[s].IS = near
      BY <1>6, <2>9, <2>11, <3>1 DEF Among
    <3>3. last = LumpStatements(bs, same, s, level, times, st)
      BY <2>12, <3>1
    <3>4. Sound(last, I) /\ \E kept, code : LumpShape(bs, same, s, kept, code, last)
      BY <1>6, <2>3, <2>6, <3>2, <3>3, LumpIs
    <3> QED BY <3>1, <3>4
  <2>16. ASSUME free PROVE RestShape(new, level)
    <3>1. CASE B.made = {}
      BY <2>14, <3>1 DEF RestShape
    <3>2. CASE B.made # {}
      <4>1. PICK h \in DOMAIN B.stmt : h \notin DOMAIN ss /\ B.made = {h}
        BY <2>10, <3>2 DEF CutsShape
      <4>2. PICK kept, code : LumpShape(B.stmt, same, s, kept, code, last)
        BY <2>15
      <4>3. NotTaken(ss, s, level)
        BY <1>5, <2>16 DEF NotTaken
      <4>4. ss[s].lex \in Lexes /\ Proper(B.stmt) /\ rest \in SUBSET Points
        BY <1>5, <1>7, <2>5, <2>9 DEF Sound, Proper, Statement
      <4>5. h \in DOMAIN last /\ rest # {} /\ \A t \in SameLoop(last, h, level) : Positions(last[t]) = rest
        <5>1. PICK bs, made : bs = B.stmt /\ made = B.made
          OBVIOUS
        <5>2. CutsShape(ss, s, level, same, near, rest, bs, made) /\ Proper(bs) /\ LumpShape(bs, same, s, kept, code, last)
          BY <2>10, <4>2, <4>4, <5>1
        <5>3. h \in DOMAIN bs /\ h \notin DOMAIN ss /\ made = {h}
          BY <4>1, <5>1
        <5>4. HalfShape(last, h, level, rest)
          BY <1>5, <1>6, <4>3, <4>4, <5>2, <5>3, LumpRest
        <5> QED BY <5>4 DEF HalfShape
      <4>6. m \in 1 .. n-1
        <5> SUFFICES ASSUME m = n PROVE FALSE
          BY <1>8, <2>3
        <5>1. PICK p \in K : ~(p[level] <= hi)
          BY <2>5, <4>5
        <5>2. PICK i \in 0 .. n-1 : p[level] = lo + i * st
          BY <1>8
        <5>3. i \in Int /\ n-1 \in Int /\ (i = n-1 \/ i < n-1) /\ p[level] \in Int
          BY <1>8
        <5>4. i < n-1 => i * st < (n-1) * st
          BY <1>8, <5>3, TimesLess
        <5>5. i * st \in Int /\ (n-1) * st \in Int /\ hi = lo + (n-1) * st
          BY <1>8, <2>4, <5>3
        <5> QED BY <1>8, <5>1, <5>2, <5>3, <5>4, <5>5
      <4>7. Even(rest, level, lo + m * st, st, n - m)
        BY <1>1, <2>4, <2>5, <4>6, EvenLast
      <4>8. Ready(last, h, level, rest, lo + m * st, st, n - m)
        BY <4>5, <4>7 DEF Ready
      <4> QED BY <2>14, <4>1, <4>5, <4>8 DEF RestShape
    <3> QED BY <3>1, <3>2
  <2> QED BY <2>14, <2>15, <2>16 DEF UnrolledShape
<1> QED BY <1>8, <1>15, <1>16

\* unroll_extra unrolls at most one rest.
LEMMA UnrolledExtraIs ==
  ASSUME NEW P, Pair(P), NEW I, Sound(P.stmt, I), NEW s, NEW level \in Loops,
         NEW K, NEW lo, NEW st, NEW n, Ready(P.stmt, s, level, K, lo, st, n), NotTaken(P.stmt, s, level),
         NEW amount \in Nat, amount # 1
  PROVE  Sound(UnrolledExtra(P, s, level, amount).stmt, I)
<1>1. PICK Q : Q = Unrolled(P, s, level, amount)
  OBVIOUS
<1>2. Sound(Q.stmt, I) /\ Pair(Q) /\ RestShape(Q, level)
  <2>1. UnrolledShape(Q, I, level, NotTaken(P.stmt, s, level))
    BY <1>1, UnrolledIs
  <2> QED BY <2>1 DEF UnrolledShape
<1> DEFINE rest == Sorted(Q.made, <)
           N == Len(rest)
           Is(g) == g = [k \in 0 .. N |-> IF k = 0 THEN Q ELSE Unrolled(g[k-1], rest[k], level, 0)]
           after == CHOOSE g : Is(g)
<1>3. UnrolledExtra(P, s, level, amount) = after[N]
  BY <1>1 DEF UnrolledExtra
<1>4. CASE Q.made = {}
  <2>1. N = 0
    <3>1. Q.made \in SUBSET Nat /\ IsFiniteSet(Q.made) /\ Cardinality(Q.made) = 0
      BY <1>4, FS_EmptySet
    <3> QED BY <3>1, SortedNumbers
  <2> HIDE DEF N, rest
  <2>2. Is([k \in 0 .. 0 |-> Q])
    BY <2>1
  <2>3. Is(after)
    BY <2>2
  <2> HIDE DEF after
  <2>4. after[0] = Q
    BY <2>1, <2>3
  <2> QED BY <1>2, <1>3, <2>1, <2>4
<1>5. CASE Q.made # {}
  <2>1. PICK h \in DOMAIN Q.stmt : Q.made = {h} /\ \E L, first, step, m : Ready(Q.stmt, h, level, L, first, step, m)
    BY <1>2, <1>5 DEF RestShape
  <2>2. N = 1 /\ rest[1] = h
    <3>1. h \in Nat
      BY <1>2, <2>1 DEF Sound, Proper, SeqLike
    <3>2. Q.made \in SUBSET Nat /\ IsFiniteSet(Q.made) /\ Cardinality(Q.made) = 1
      <4>1. IsFiniteSet({h}) /\ Cardinality({h}) = 1
        BY FS_Singleton
      <4> QED BY <2>1, <3>1, <4>1
    <3>3. Len(rest) = 1 /\ DOMAIN rest = 1 .. Len(rest) /\ \A i \in DOMAIN rest : rest[i] \in Q.made
      BY <3>2, SortedNumbers
    <3> HIDE DEF rest
    <3>4. 1 \in DOMAIN rest
      BY <3>3
    <3> QED BY <2>1, <3>3, <3>4
  <2> HIDE DEF N, rest
  <2>3. PICK R : R = Unrolled(Q, h, level, 0)
    OBVIOUS
  <2>4. \E g : Is(g)
    <3> DEFINE g == [k \in 0 .. 1 |-> IF k = 0 THEN Q ELSE R]
    <3>1. g[0] = Q /\ g[1] = R
      OBVIOUS
    <3>2. \A k \in 0 .. 1 : g[k] = IF k = 0 THEN Q ELSE Unrolled(g[k-1], rest[k], level, 0)
      <4>1. \A k \in 0 .. 1 : k = 0 \/ (k = 1 /\ k-1 = 0 /\ k # 0)
        OBVIOUS
      <4> HIDE DEF g
      <4> QED BY <2>2, <2>3, <3>1, <4>1
    <3>3. g = [k \in 0 .. 1 |-> g[k]]
      OBVIOUS
    <3> HIDE DEF g
    <3>4. Is(g)
      BY <2>2, <3>2, <3>3
    <3> QED BY <3>4
  <2>5. Is(after)
    BY <2>4
  <2> HIDE DEF after
  <2>6. after[0] = Q
    BY <2>2, <2>5
  <2>7. after[1] = Unrolled(after[0], rest[1], level, 0)
    <3>1. 1 \in 0 .. N /\ 1 # 0 /\ 1-1 = 0
      BY <2>2
    <3> QED BY <2>5, <3>1
  <2>8. after[N] = Unrolled(Q, h, level, 0)
    BY <2>2, <2>6, <2>7
  <2>9. PICK L, first, step, m : Ready(Q.stmt, h, level, L, first, step, m)
    BY <2>1
  <2>10. UnrolledShape(R, I, level, NotTaken(Q.stmt, h, level))
    <3>1. 0 \in Nat /\ 0 # 1
      OBVIOUS
    <3> QED BY <1>2, <2>3, <2>9, <3>1, UnrolledIs
  <2> QED BY <1>3, <2>3, <2>8, <2>10 DEF UnrolledShape
<1> QED BY <1>4, <1>5
-----------------------------------------------------------------------------
(* nonsingular and the invariant.                                          *)

\* No two points have the same values of all rows.
Regular(T) == \A p, q \in Points : (\A l \in Loops : Affine(T[l], p) = Affine(T[l], q)) => p = q

\* The statement with other rows
TimesShape(s, new) == Statement(new) /\ Spread(new) /\ new.IS = s.IS /\ new.code = s.code

\* What nonsingular makes of the statement
TimesMatrix(s, T) == [MultiplyStatement(s, T) EXCEPT !.lex = [k \in DOMAIN @ |-> 0]]

\* A regular matrix keeps the iterations of a statement apart.
LEMMA MultiplyIs ==
  ASSUME NEW s, Statement(s), Spread(s), NEW T \in [Loops -> Rows], Regular(T), NEW new, new = TimesMatrix(s, T)
  PROVE  TimesShape(s, new)
<1> DEFINE lex == [k \in DOMAIN s.lex |-> 0]
<1>0. lex \in Lexes
  BY DEF Statement, Lexes
<1> DEFINE rows == [l \in Loops |-> Composed(s.rows, T[l])]
<1>1. /\ s = [IS |-> s.IS, code |-> s.code, rows |-> s.rows, lex |-> s.lex]
      /\ s.IS \in SUBSET Points /\ IsFiniteSet(s.IS) /\ SeqLike(s.code) /\ s.rows \in [Loops -> Rows]
  BY DEF Statement
<1>2. rows \in [Loops -> Rows] /\ \A l \in Loops : rows[l] = Composed(s.rows, T[l])
  BY <1>1, ComposedIs
<1>3. new = [IS |-> s.IS, code |-> s.code, rows |-> rows, lex |-> lex]
  BY <1>1 DEF MultiplyStatement, TimesMatrix
<1> HIDE DEF rows, lex
<1>4. new.IS = s.IS /\ new.code = s.code /\ new.rows = rows /\ new.lex = lex
  BY <1>3
<1>5. Statement(new)
  BY <1>0, <1>1, <1>2, <1>3, <1>4 DEF Statement
<1>6. ASSUME NEW p \in s.IS
      PROVE  /\ p \in Points /\ Position(s, p) \in Points
             /\ \A l \in Loops : Position(new, p)[l] = Affine(T[l], Position(s, p))
  <2>1. p \in Points
    BY <1>1
  <2>2. Position(s, p) \in Points
    BY <1>1, <2>1, PositionIs
  <2>3. ASSUME NEW l \in Loops PROVE Position(new, p)[l] = Affine(T[l], Position(s, p))
    <3>1. Position(new, p)[l] = Affine(rows[l], p)
      BY <1>4 DEF Position
    <3>2. Affine(Composed(s.rows, T[l]), p) = Affine(T[l], [k \in Loops |-> Affine(s.rows[k], p)])
      BY <1>1, <2>1, ComposedAffine
    <3> QED BY <1>2, <3>1, <3>2 DEF Position
  <2> QED BY <2>1, <2>2, <2>3
<1>7. ASSUME NEW p \in s.IS, NEW q \in s.IS, Position(new, p) = Position(new, q) PROVE p = q
  <2>1. \A l \in Loops : Affine(T[l], Position(s, p)) = Affine(T[l], Position(s, q))
    BY <1>6, <1>7
  <2>2. Position(s, p) = Position(s, q)
    BY <1>6, <2>1 DEF Regular
  <2> QED BY <2>2 DEF Spread
<1>8. Spread(new)
  BY <1>4, <1>7 DEF Spread
<1> QED BY <1>4, <1>5, <1>8 DEF TimesShape

\* Statements that keep their iterations and their code keep their instances.
LEMMA SoundSame ==
  ASSUME NEW old, NEW new, NEW I, Sound(old, I), Proper(new), SameCode(old, new)
  PROVE  Sound(new, I)
<1>1. Follows([r \in RunsIn(old) |-> r], old, new)
  BY SameRuns DEF SameCode
<1> QED BY <1>1, OnceFollows DEF Sound

\* The inductive invariant: no statement has two iterations in one place, and
\* every instance has one run.
OnceInv == program \in DOMAIN Programs /\ Sound(stmt, Instances)

\* The program as it was runs its own instances.
LEMMA OnceInit == Init => OnceInv
<1> SUFFICES ASSUME Init PROVE OnceInv
  OBVIOUS
<1> DEFINE P == Programs[program]
           stmts == P.stmts
<1>1. /\ program \in DOMAIN Programs
      /\ stmt = [n \in DOMAIN stmts |->
                   [IS   |-> stmts[n].IS, code |-> <<[of |-> n, at |-> [p \in stmts[n].IS |-> p]]>>,
                    rows |-> Identity, lex  |-> stmts[n].lex]]
  BY DEF Init
<1>2. /\ stmts \in Seq([IS : SUBSET Points, lex : Lexes])
      /\ \A n \in DOMAIN stmts : IsFiniteSet(stmts[n].IS)
  BY <1>1, ProgramsAssumption
<1>3. Instances = UNION {{<<n, p>> : p \in stmts[n].IS} : n \in DOMAIN stmts}
  BY DEF Instances
<1> HIDE DEF stmts
<1>4. DOMAIN stmts = 1 .. Len(stmts) /\ Len(stmts) \in Nat /\ \A n \in DOMAIN stmts : stmts[n].IS \in SUBSET Points /\ stmts[n].lex \in Lexes
  <2>1. PICK R : R = [IS : SUBSET Points, lex : Lexes]
    OBVIOUS
  <2>2. DOMAIN stmts = 1 .. Len(stmts) /\ Len(stmts) \in Nat /\ \A n \in DOMAIN stmts : stmts[n] \in R
    <3>1. PICK q : q = stmts
      OBVIOUS
    <3>2. q \in Seq(R)
      BY <1>2, <2>1, <3>1
    <3>3. q \in [1 .. Len(q) -> R] /\ Len(q) \in Nat
      BY <3>2, LenProperties
    <3> QED BY <3>1, <3>3
  <2>3. \A x \in R : x.IS \in SUBSET Points /\ x.lex \in Lexes
    BY <2>1
  <2> QED BY <2>2, <2>3
<1>5. ASSUME NEW n \in DOMAIN stmts
      PROVE  /\ n \in DOMAIN stmt /\ stmt[n].IS = stmts[n].IS /\ stmt[n].rows = Identity
             /\ DOMAIN stmt[n].code = {1} /\ stmt[n].code[1].of = n
             /\ \A p \in stmts[n].IS : stmt[n].code[1].at[p] = p
             /\ Statement(stmt[n]) /\ Spread(stmt[n])
  <2> DEFINE copy == [of |-> n, at |-> [p \in stmts[n].IS |-> p]]
             code == <<copy>>
  <2>1. n \in DOMAIN stmt /\ stmt[n] = [IS |-> stmts[n].IS, code |-> code, rows |-> Identity, lex |-> stmts[n].lex]
    BY <1>1
  <2>2. copy.of = n /\ \A p \in stmts[n].IS : copy.at[p] = p
    OBVIOUS
  <2> HIDE DEF copy
  <2>3. SeqLike(code) /\ DOMAIN code = {1} /\ code[1] = copy
    BY DEF SeqLike
  <2> HIDE DEF code
  <2>4. stmt[n].IS = stmts[n].IS /\ stmt[n].rows = Identity /\ stmt[n].code = code /\ stmt[n].lex = stmts[n].lex
    BY <2>1
  <2>5. stmts[n].IS \in SUBSET Points /\ stmts[n].lex \in Lexes /\ IsFiniteSet(stmts[n].IS)
    BY <1>2, <1>4
  <2>6. Statement(stmt[n])
    BY <2>1, <2>3, <2>4, <2>5, IdentityRows DEF Statement
  <2>7. \A p \in stmts[n].IS : Position(stmt[n], p) = p
    BY <2>4, <2>5, IdentityPosition
  <2>8. Spread(stmt[n])
    BY <2>4, <2>7 DEF Spread
  <2> QED BY <2>1, <2>2, <2>3, <2>4, <2>6, <2>8
<1>6. DOMAIN stmt = DOMAIN stmts /\ stmt = [n \in 1 .. Len(stmts) |-> stmt[n]]
  BY <1>1, <1>4
<1>7. Len(stmt) = Len(stmts)
  BY <1>4, <1>6
<1>8. Proper(stmt)
  BY <1>4, <1>5, <1>6, <1>7 DEF Proper, SeqLike
<1>9. ASSUME NEW r \in RunsIn(stmt)
      PROVE  /\ r = <<r[1], 1, r[3]>> /\ r[1] \in DOMAIN stmts /\ r[3] \in stmts[r[1]].IS
             /\ InstanceIn(stmt, r) = <<r[1], r[3]>>
  <2>1. r = <<r[1], r[2], r[3]>> /\ r[1] \in DOMAIN stmt /\ r[2] \in DOMAIN stmt[r[1]].code /\ r[3] \in stmt[r[1]].IS
    BY RunsAre
  <2>2. r[1] \in DOMAIN stmts /\ r[2] = 1 /\ r[3] \in stmts[r[1]].IS
    <3>1. PICK n : n = r[1]
      OBVIOUS
    <3>2. n \in DOMAIN stmts
      BY <1>6, <2>1, <3>1
    <3>3. stmt[n].IS = stmts[n].IS /\ DOMAIN stmt[n].code = {1}
      BY <1>5, <3>2
    <3> QED BY <2>1, <3>1, <3>2, <3>3
  <2> QED BY <1>5, <2>1, <2>2 DEF InstanceIn
<1>10. Once(stmt, Instances)
  <2>1. \A r \in RunsIn(stmt) : InstanceIn(stmt, r) \in Instances
    BY <1>3, <1>9
  <2>2. ASSUME NEW i \in Instances PROVE \E r \in RunsIn(stmt) : InstanceIn(stmt, r) = i
    <3>1. PICK n \in DOMAIN stmts : \E p \in stmts[n].IS : i = <<n, p>>
      BY <1>3
    <3>2. PICK p \in stmts[n].IS : i = <<n, p>>
      BY <3>1
    <3> DEFINE r == <<n, 1, p>>
    <3>3. r \in RunsIn(stmt)
      BY <1>5, RunsAre
    <3>4. r[1] = n /\ r[3] = p
      OBVIOUS
    <3> HIDE DEF r
    <3> QED BY <1>9, <3>2, <3>3, <3>4
  <2>3. ASSUME NEW r \in RunsIn(stmt), NEW t \in RunsIn(stmt), InstanceIn(stmt, r) = InstanceIn(stmt, t)
        PROVE  r = t
    <3>1. <<r[1], r[3]>> = <<t[1], t[3]>>
      BY <1>9, <2>3
    <3> QED BY <1>9, <3>1
  <2> QED BY <2>1, <2>2, <2>3 DEF Once
<1> QED BY <1>1, <1>8, <1>10 DEF OnceInv, Sound
-----------------------------------------------------------------------------
(* Every instance runs once.                                               *)

\* shift
LEMMA OnceShift ==
  ASSUME OnceInv, NEW S \in SUBSET DOMAIN stmt, NEW level \in Loops, NEW amount \in ShiftAmounts,
         Shift(S, level, amount)
  PROVE  Sound(stmt', Instances)
<1> DEFINE row == [UnitRow(level) EXCEPT !.const = amount]
<1>1. amount \in Int /\ UnitRow(level) \in Rows /\ UnitRow(level).coef[level] = 1
  BY AmountsAssumption, UnitRowIs DEF UnitRow
<1>2. row = [coef |-> UnitRow(level).coef, const |-> amount]
  <2>1. PICK u : u = UnitRow(level).coef
    OBVIOUS
  <2>2. UnitRow(level) = [coef |-> u, const |-> 0]
    BY <2>1 DEF UnitRow
  <2> QED BY <2>2
<1>3. row \in Rows /\ row.coef[level] # 0
  BY <1>1, <1>2 DEF Rows
<1>4. stmt' = ComposedIn(stmt, S, level, row)
  BY DEF Shift, Becomes, ShiftStatements, ComposedIn
<1> HIDE DEF row
<1>5. PICK new : new = stmt'
  OBVIOUS
<1>6. Proper(new) /\ SameCode(stmt, new)
  BY <1>3, <1>4, <1>5, ComposedStatements DEF OnceInv, Sound
<1>7. Sound(new, Instances)
  BY <1>6, SoundSame DEF OnceInv
<1> QED BY <1>5, <1>7

\* skew, also when it stops at an illegal vector
LEMMA OnceSkew ==
  ASSUME OnceInv, NEW S \in SUBSET DOMAIN stmt, NEW level \in Loops, NEW amounts \in SkewAmounts,
         Skew(S, level, amounts), amounts[level] # 0
  PROVE  Sound(stmt', Instances)
<1> DEFINE row == [coef |-> amounts, const |-> 0]
<1>1. amounts \in [Loops -> Int]
  BY AmountsAssumption
<1>3. row \in Rows /\ row.coef[level] # 0
  BY <1>1 DEF Rows
<1>4. stmt' = ComposedIn(stmt, S, level, row)
  BY DEF Skew, SkewStatements, ComposedIn
<1> HIDE DEF row
<1>5. PICK new : new = stmt'
  OBVIOUS
<1>6. Proper(new) /\ SameCode(stmt, new)
  BY <1>3, <1>4, <1>5, ComposedStatements DEF OnceInv, Sound
<1>7. Sound(new, Instances)
  BY <1>6, SoundSame DEF OnceInv
<1> QED BY <1>5, <1>7

\* nonsingular
LEMMA OnceNonsingular ==
  ASSUME OnceInv, NEW T \in Matrices, Regular(T), Nonsingular(T)
  PROVE  Sound(stmt', Instances)
<1> DEFINE s == stmt[1]
           one == TimesMatrix(s, T)
<1>1. Len(stmt) = 1 /\ stmt' = <<one>>
  BY DEF Nonsingular, Becomes, TimesMatrix
<1>2. DOMAIN stmt = {1} /\ Statement(s) /\ Spread(s)
  BY <1>1 DEF OnceInv, Sound, Proper, SeqLike
<1>4. T \in [Loops -> Rows]
  BY AmountsAssumption
<1> HIDE DEF s
<1>5. TimesShape(s, one)
  BY <1>2, <1>4, MultiplyIs
<1> HIDE DEF one
<1>6. PICK new : new = stmt'
  OBVIOUS
<1>7. DOMAIN new = {1} /\ new[1] = one /\ SeqLike(new)
  BY <1>1, <1>6 DEF SeqLike
<1>8. Proper(new)
  BY <1>5, <1>7 DEF Proper, TimesShape
<1>9. Sound(new, Instances)
  <2>1. SameCode(stmt, new)
    BY <1>2, <1>5, <1>7 DEF TimesShape, SameCode, s
  <2> QED BY <1>8, <2>1, SoundSame DEF OnceInv
<1> QED BY <1>6, <1>9

\* split
LEMMA OnceSplit ==
  ASSUME OnceInv, NEW s \in DOMAIN stmt, NEW level \in Loops, NEW cons \in Conditions, Split(s, level, cons)
  PROVE  Sound(stmt', Instances)
<1>1. stmt' = SplitAll(Program, s, level, cons).stmt
  BY DEF Split, Becomes
<1>2. Len(cons) \in Nat
  BY AmountsAssumption
<1>3. Program.stmt = stmt
  BY DEF Program
<1>4. PICK P : P = Program
  OBVIOUS
<1>5. Sound(P.stmt, Instances) /\ s \in DOMAIN P.stmt
  BY <1>3, <1>4 DEF OnceInv
<1>6. Sound(SplitAll(P, s, level, cons).stmt, Instances)
  BY <1>2, <1>5, SplitAllIs
<1> QED BY <1>1, <1>4, <1>6

\* peel
LEMMA OncePeel ==
  ASSUME OnceInv, NEW s \in DOMAIN stmt, NEW level \in Loops, NEW amount \in PeelAmounts, Peel(s, level, amount)
  PROVE  Sound(stmt', Instances)
<1>0. CASE stmt' = stmt      \* refused
  BY <1>0 DEF OnceInv
<1>1. stmt' = stmt \/ stmt' = Peeled(Program, s, level, amount).stmt
  BY DEF Peel, Becomes
<1>2. amount \in Int
  BY AmountsAssumption
<1>3. Program.stmt = stmt
  BY DEF Program
<1>4. PICK P : P = Program
  OBVIOUS
<1>5. Sound(P.stmt, Instances) /\ s \in DOMAIN P.stmt
  BY <1>3, <1>4 DEF OnceInv
<1>6. Sound(Peeled(P, s, level, amount).stmt, Instances)
  BY <1>2, <1>5, PeeledIs
<1> QED BY <1>0, <1>1, <1>4, <1>6

\* The commands work on the statements and vectors.
LEMMA ProgramIs == Pair(Program) /\ Program.stmt = stmt
BY DEF Program, Pair

\* unroll and unroll_extra
LEMMA OnceUnroll ==
  ASSUME OnceInv, "cut beside another loop" \in LeftOut,
         NEW s \in DOMAIN stmt, NEW level \in Loops, NEW amount \in UnrollAmounts, NEW extra \in BOOLEAN,
         Unroll(s, level, amount, extra)
  PROVE  Sound(stmt', Instances)
<1>0. amount \in Nat
  BY AmountsAssumption
<1>1. PICK P : P = Program
  OBVIOUS
<1>2. Pair(P) /\ P.stmt = stmt
  BY <1>1, ProgramIs
<1>3. stmt' \in {stmt, Unrolled(P, s, level, amount).stmt, UnrolledExtra(P, s, level, amount).stmt}
      /\ (amount = 1 => stmt' = stmt)
  BY <1>1, <1>2 DEF Unroll, Becomes
<1>4. CASE stmt' = stmt
  BY <1>4 DEF OnceInv
<1>5. CASE stmt' # stmt
  <2>1. amount # 1
    BY <1>3, <1>5
  <2>2. Lumps(s, level) /\ MayCut(s, level, {-1, 1})
    BY DEF Unroll, MayUnroll
  <2>3. PICK K : K = Positions(stmt[s])
    OBVIOUS
  <2>4. K # {} /\ Simple(K) /\ \A t \in SameLoop(stmt, s, level) : Positions(stmt[t]) = K
    BY <2>2, <2>3 DEF Lumps
  <2>5. K \subseteq Points /\ IsFiniteSet(K)
    <3>1. Statement(stmt[s])
      BY DEF OnceInv, Sound, Proper
    <3> QED BY <2>3, <3>1, PositionsAre
  <2>6. PICK lo, st, n : Even(K, level, lo, st, n)
    BY <2>4, <2>5, SimpleEven
  <2>7. Ready(P.stmt, s, level, K, lo, st, n)
    BY <1>2, <2>4, <2>6 DEF Ready
  <2>8. NotTaken(P.stmt, s, level)
    <3>1. ~PlaceTaken(s, level, 1)
      BY <2>2 DEF MayCut, Tried
    <3> QED BY <1>2, <3>1 DEF PlaceTaken, SameLoop, NotTaken, Around
  <2>9. Sound(P.stmt, Instances)
    BY <1>2 DEF OnceInv
  <2>10. UnrolledShape(Unrolled(P, s, level, amount), Instances, level, NotTaken(P.stmt, s, level))
    BY <1>0, <1>2, <2>1, <2>7, <2>9, UnrolledIs
  <2>11. Sound(Unrolled(P, s, level, amount).stmt, Instances)
    BY <2>10 DEF UnrolledShape
  <2>12. Sound(UnrolledExtra(P, s, level, amount).stmt, Instances)
    BY <1>0, <1>2, <2>1, <2>7, <2>8, <2>9, UnrolledExtraIs
  <2> QED BY <1>3, <1>5, <2>11, <2>12
<1> QED BY <1>4, <1>5

\* Instances of program k
InstancesOf(k) == UNION {{<<n, p>> : p \in Programs[k].stmts[n].IS} : n \in DOMAIN Programs[k].stmts}

\* Every step keeps the instances and the runs of each.
LEMMA OnceInductive ==
  ASSUME \A T \in Matrices : Regular(T), {"cut beside another loop", "skew by other loops only"} \subseteq LeftOut,
         OnceInv, [Next]_vars
  PROVE  OnceInv'
<1>1. program' = program
  BY DEF Next, vars, Command, Known, GetCode, Shift, Skew, Nonsingular, Split, Peel, Unroll
<1>2. Instances' = Instances
  <2>1. Instances = InstancesOf(program)
    BY DEF Instances, InstancesOf
  <2>2. Instances' = InstancesOf(program')
    BY DEF Instances, InstancesOf
  <2> QED BY <1>1, <2>1, <2>2
<1>3. Sound(stmt', Instances)
  <2>1. CASE UNCHANGED stmt
    BY <2>1 DEF OnceInv
  <2>2. CASE Known \/ GetCode \/ UNCHANGED vars
    BY <2>1, <2>2 DEF Known, GetCode, vars
  <2>3. ASSUME NEW S \in SUBSET DOMAIN stmt \ {{}}, NEW level \in Loops,
               \/ \E amount \in ShiftAmounts : Shift(S, level, amount)
               \/ \E amounts \in SkewAmounts : Skew(S, level, amounts)
        PROVE  Sound(stmt', Instances)
    <3>1. ASSUME NEW amounts \in SkewAmounts, Skew(S, level, amounts) PROVE amounts[level] # 0
      BY <3>1 DEF Skew, Tried
    <3> QED BY <2>3, <3>1, OnceShift, OnceSkew
  <2>4. CASE \E T \in Matrices : Nonsingular(T)
    BY <2>4, OnceNonsingular
  <2>5. ASSUME NEW s \in DOMAIN stmt, NEW level \in Loops,
               \/ \E cons \in Conditions : Split(s, level, cons)
               \/ \E amount \in PeelAmounts : Peel(s, level, amount)
               \/ \E amount \in UnrollAmounts, extra \in BOOLEAN : Unroll(s, level, amount, extra)
        PROVE  Sound(stmt', Instances)
    BY <2>5, OnceSplit, OncePeel, OnceUnroll
  <2> QED BY <2>2, <2>3, <2>4, <2>5 DEF Next
<1>4. OnceInv' <=> program' \in DOMAIN Programs /\ Sound(stmt', Instances')
  BY DEF OnceInv
<1> QED BY <1>1, <1>2, <1>3, <1>4 DEF OnceInv

\* The program has finitely many instances.
LEMMA InstancesFinite ==
  ASSUME program \in DOMAIN Programs
  PROVE  IsFiniteSet(Instances)
<1> DEFINE stmts == Programs[program].stmts
           of(n) == {<<n, p>> : p \in stmts[n].IS}
           all == {of(n) : n \in DOMAIN stmts}
<1>1. stmts \in Seq([IS : SUBSET Points, lex : Lexes]) /\ \A n \in DOMAIN stmts : IsFiniteSet(stmts[n].IS)
  BY ProgramsAssumption
<1> HIDE DEF stmts
<1>2. PICK D : D = DOMAIN stmts
  OBVIOUS
<1>3. IsFiniteSet(D)
  <2>1. DOMAIN stmts = 1 .. Len(stmts) /\ Len(stmts) \in Nat
    BY <1>1, LenProperties
  <2> QED BY <1>2, <2>1, FS_Interval
<1>4. ASSUME NEW n \in D PROVE IsFiniteSet(of(n))
  <2> DEFINE f == [p \in stmts[n].IS |-> <<n, p>>]
  <2>1. f \in [stmts[n].IS -> of(n)] /\ \A t \in of(n) : \E p \in stmts[n].IS : f[p] = t
    OBVIOUS
  <2>2. IsFiniteSet(stmts[n].IS)
    BY <1>1, <1>2, <1>4
  <2> HIDE DEF f
  <2> QED BY <2>1, <2>2, ImageFinite
<1>5. IsFiniteSet(all) /\ \A x \in all : IsFiniteSet(x)
  <2> DEFINE g == [n \in D |-> of(n)]
  <2>1. g \in [D -> all] /\ \A t \in all : \E n \in D : g[n] = t
    BY <1>2
  <2> HIDE DEF g, of
  <2>2. \A x \in all : IsFiniteSet(x)
    BY <1>2, <1>4
  <2> HIDE DEF all
  <2> QED BY <1>3, <2>1, <2>2, ImageFinite
<1>6. Instances = UNION all
  BY DEF Instances, stmts
<1> HIDE DEF all, of
<1> QED BY <1>5, <1>6, FS_UNION

\* As many runs as instances, and every instance among them
LEMMA OnceMeans == OnceInv => RunsEveryInstanceOnce
<1> SUFFICES ASSUME OnceInv PROVE RunsEveryInstanceOnce
  OBVIOUS
<1>1. Runs = RunsIn(stmt) /\ \A r : Instance(r) = InstanceIn(stmt, r)
  BY DEF Runs, RunsIn, Instance, InstanceIn
<1>2. /\ \A r \in Runs : Instance(r) \in Instances
      /\ \A i \in Instances : \E r \in Runs : Instance(r) = i
      /\ \A r, t \in Runs : Instance(r) = Instance(t) => r = t
  BY <1>1 DEF OnceInv, Sound, Once
<1>3. {Instance(r) : r \in Runs} = Instances
  BY <1>2
<1>4. IsFiniteSet(Instances)
  BY InstancesFinite DEF OnceInv
<1> DEFINE f == [i \in Instances |-> CHOOSE r \in Runs : Instance(r) = i]
<1>5. \A i \in Instances : f[i] \in Runs /\ Instance(f[i]) = i
  BY <1>2
<1>6. f = [i \in Instances |-> f[i]]
  OBVIOUS
<1> HIDE DEF f
<1>7. f \in [Instances -> Runs]
  BY <1>5, <1>6
<1>8. \A x, y \in Instances : f[x] = f[y] => x = y
  BY <1>5
<1>9. \A t \in Runs : \E x \in Instances : f[x] = t
  BY <1>2, <1>5
<1>10. Cardinality(Runs) = Cardinality(Instances)
  BY <1>4, <1>7, <1>8, <1>9, SameSize
<1> QED BY <1>3, <1>10 DEF RunsEveryInstanceOnce

\* Whatever the programs, the number of loops, the amounts and conditions: the
\* statements that split, peel and unroll make (loop_basic.cc:500,
\* loop_extra.cc:60, 72, loop_unroll.cc:19), on the points that apply_xform gives
\* them (loop.cc:2292), run every instance of the program, and none twice.  The
\* matrices of nonsingular are regular, no loop is skewed by others only, which
\* makes its matrix singular as well, and loops are not cut where the new half
\* would fall into another loop, which the proof needs for the rest that
\* unroll_extra unrolls.
THEOREM EveryInstanceRunsOnce ==
  ASSUME \A T \in Matrices : Regular(T), {"cut beside another loop", "skew by other loops only"} \subseteq LeftOut
  PROVE  Spec => []RunsEveryInstanceOnce
<1>1. Init => OnceInv
  BY OnceInit
<1>2. OnceInv /\ [Next]_vars => OnceInv'
  BY OnceInductive
<1>3. OnceInv => RunsEveryInstanceOnce
  BY OnceMeans
<1> QED BY <1>1, <1>2, <1>3, PTL DEF Spec
-----------------------------------------------------------------------------
(* Times of runs.                                                          *)

\* When and where a run runs
View(ss, r) == [lex |-> ss[r[1]].lex, at |-> Position(ss[r[1]], r[3]), n |-> r[1], c |-> r[2]]
Views == [lex : Lexes, at : Points, n : Int, c : Int]
TimeAt(x) == Time(x.lex, x.at, x.n, x.c)

\* x and y are in the same loops down to level l, and in the same iterations.
Alike(x, y, l) == \A k \in 1 .. l : x.lex[k] = y.lex[k] /\ x.at[k] = y.at[k]

\* x runs before y: what is first different between them decides.
Sooner(x, y) ==
  \/ \E l \in 1 .. NDim+1 : Alike(x, y, l-1) /\ x.lex[l] < y.lex[l]
  \/ \E l \in Loops : Alike(x, y, l-1) /\ x.lex[l] = y.lex[l] /\ x.at[l] < y.at[l]
  \/ Alike(x, y, NDim) /\ x.lex[NDim+1] = y.lex[NDim+1] /\ (x.n < y.n \/ (x.n = y.n /\ x.c < y.c))

\* Odd places of a time are places in the lexical order, even ones iterations.
LEMMA TimeParts ==
  ASSUME NEW x
  PROVE  /\ DOMAIN TimeAt(x) = 1 .. 2 * NDim + 3
         /\ \A l \in 1 .. NDim+1 : TimeAt(x)[2 * l - 1] = x.lex[l]
         /\ \A l \in Loops : TimeAt(x)[2 * l] = x.at[l]
         /\ TimeAt(x)[2 * NDim + 2] = x.n /\ TimeAt(x)[2 * NDim + 3] = x.c
<1>0. NDim \in Nat /\ NDim >= 1
  BY LoopsAssumption
<1>1. ASSUME NEW l \in 1 .. NDim+1
      PROVE  2 * l - 1 \in 1 .. 2 * NDim + 3 /\ (2 * l - 1) % 2 = 1 /\ ((2 * l - 1) + 1) \div 2 = l
             /\ 2 * l - 1 # 2 * NDim + 2 /\ 2 * l - 1 # 2 * NDim + 3
  BY <1>0
<1>2. ASSUME NEW l \in Loops
      PROVE  2 * l \in 1 .. 2 * NDim + 3 /\ (2 * l) % 2 # 1 /\ (2 * l) \div 2 = l
             /\ 2 * l # 2 * NDim + 2 /\ 2 * l # 2 * NDim + 3
  BY <1>0 DEF Loops
<1>3. 2 * NDim + 2 \in 1 .. 2 * NDim + 3 /\ 2 * NDim + 3 \in 1 .. 2 * NDim + 3 /\ 2 * NDim + 2 # 2 * NDim + 3
  BY <1>0
<1>4. DOMAIN TimeAt(x) = 1 .. 2 * NDim + 3
  BY DEF TimeAt, Time
<1>5. \A i \in 1 .. 2 * NDim + 3 :
        TimeAt(x)[i] = IF i = 2 * NDim + 2 THEN x.n ELSE IF i = 2 * NDim + 3 THEN x.c
                       ELSE IF i % 2 = 1 THEN x.lex[(i+1) \div 2] ELSE x.at[i \div 2]
  BY DEF TimeAt, Time
<1>6. ASSUME NEW l \in 1 .. NDim+1 PROVE TimeAt(x)[2 * l - 1] = x.lex[l]
  <2>1. PICK i : i = 2 * l - 1
    OBVIOUS
  <2>2. i \in 1 .. 2 * NDim + 3 /\ i % 2 = 1 /\ (i + 1) \div 2 = l /\ i # 2 * NDim + 2 /\ i # 2 * NDim + 3
    BY <1>1, <2>1
  <2>3. TimeAt(x)[i] = x.lex[(i+1) \div 2]
    BY <1>5, <2>2
  <2> QED BY <2>1, <2>2, <2>3
<1>7. ASSUME NEW l \in Loops PROVE TimeAt(x)[2 * l] = x.at[l]
  <2>1. PICK i : i = 2 * l
    OBVIOUS
  <2>2. i \in 1 .. 2 * NDim + 3 /\ i % 2 # 1 /\ i \div 2 = l /\ i # 2 * NDim + 2 /\ i # 2 * NDim + 3
    BY <1>2, <2>1
  <2>3. TimeAt(x)[i] = x.at[i \div 2]
    BY <1>5, <2>2
  <2> QED BY <2>1, <2>2, <2>3
<1>8. TimeAt(x)[2 * NDim + 2] = x.n /\ TimeAt(x)[2 * NDim + 3] = x.c
  BY <1>3, <1>5
<1> QED BY <1>4, <1>6, <1>7, <1>8

\* The elements of a time
LEMMA TimeIndex ==
  ASSUME NEW i \in 1 .. 2 * NDim + 3
  PROVE  \/ \E l \in 1 .. NDim+1 : i = 2 * l - 1
         \/ \E l \in Loops : i = 2 * l
         \/ i = 2 * NDim + 2 \/ i = 2 * NDim + 3
<1>0. NDim \in Nat /\ NDim >= 1
  BY LoopsAssumption
<1>1. CASE i % 2 = 1 /\ i <= 2 * NDim + 1
  <2>1. (i + 1) \div 2 \in 1 .. NDim+1 /\ i = 2 * ((i + 1) \div 2) - 1
    BY <1>0, <1>1
  <2> QED BY <2>1
<1>2. CASE i % 2 # 1 /\ i <= 2 * NDim + 1
  <2>1. i \div 2 \in Loops /\ i = 2 * (i \div 2)
    BY <1>0, <1>2 DEF Loops
  <2> QED BY <2>1
<1> QED BY <1>0, <1>1, <1>2

\* Runs are alike down to a loop when their times begin alike.
LEMMA AlikeTime ==
  ASSUME NEW x, NEW y, NEW l \in 0 .. NDim
  PROVE  Alike(x, y, l) <=> \A k \in 1 .. 2 * l : TimeAt(x)[k] = TimeAt(y)[k]
<1>0. NDim \in Nat /\ NDim >= 1
  BY LoopsAssumption
<1>1. ASSUME Alike(x, y, l), NEW k \in 1 .. 2 * l PROVE TimeAt(x)[k] = TimeAt(y)[k]
  <2>1. k \in 1 .. 2 * NDim + 3 /\ k # 2 * NDim + 2 /\ k # 2 * NDim + 3
    BY <1>0
  <2>2. CASE \E h \in 1 .. NDim+1 : k = 2 * h - 1
    <3>1. PICK h \in 1 .. NDim+1 : k = 2 * h - 1
      BY <2>2
    <3>2. h \in 1 .. l
      BY <3>1
    <3>3. x.lex[h] = y.lex[h]
      BY <1>1, <3>2 DEF Alike
    <3> QED BY <3>1, <3>3, TimeParts
  <2>3. CASE \E h \in Loops : k = 2 * h
    <3>1. PICK h \in Loops : k = 2 * h
      BY <2>3
    <3>2. h \in 1 .. l
      BY <3>1 DEF Loops
    <3>3. x.at[h] = y.at[h]
      BY <1>1, <3>2 DEF Alike
    <3> QED BY <3>1, <3>3, TimeParts
  <2> QED BY <2>1, <2>2, <2>3, TimeIndex
<1>2. ASSUME \A k \in 1 .. 2 * l : TimeAt(x)[k] = TimeAt(y)[k], NEW k \in 1 .. l
      PROVE  x.lex[k] = y.lex[k] /\ x.at[k] = y.at[k]
  <2>1. k \in 1 .. NDim+1 /\ k \in Loops /\ 2 * k - 1 \in 1 .. 2 * l /\ 2 * k \in 1 .. 2 * l
    BY <1>0 DEF Loops
  <2>2. TimeAt(x)[2 * k - 1] = TimeAt(y)[2 * k - 1] /\ TimeAt(x)[2 * k] = TimeAt(y)[2 * k]
    BY <1>2, <2>1
  <2> QED BY <2>1, <2>2, TimeParts
<1> QED BY <1>1, <1>2 DEF Alike

\* Sooner is Less of the times.
LEMMA SoonerIsLess ==
  ASSUME NEW x, NEW y
  PROVE  Less(TimeAt(x), TimeAt(y)) <=> Sooner(x, y)
<1>0. NDim \in Nat /\ NDim >= 1
  BY LoopsAssumption
<1> DEFINE a == TimeAt(x)
           b == TimeAt(y)
           First(i) == i \in 1 .. 2 * NDim + 3 /\ a[i] < b[i] /\ \A k \in 1 .. i-1 : a[k] = b[k]
<1>1. Less(a, b) <=> \E i : First(i)
  BY TimeParts DEF Less
<1>2. /\ \A l \in 1 .. NDim+1 : a[2 * l - 1] = x.lex[l] /\ b[2 * l - 1] = y.lex[l]
      /\ \A l \in Loops : a[2 * l] = x.at[l] /\ b[2 * l] = y.at[l]
      /\ a[2 * NDim + 2] = x.n /\ a[2 * NDim + 3] = x.c /\ b[2 * NDim + 2] = y.n /\ b[2 * NDim + 3] = y.c
  BY TimeParts
<1>3. \A l \in 0 .. NDim : Alike(x, y, l) <=> \A k \in 1 .. 2 * l : a[k] = b[k]
  BY AlikeTime
<1> HIDE DEF a, b
<1>4. ASSUME NEW l \in 1 .. NDim+1
      PROVE  First(2 * l - 1) <=> Alike(x, y, l-1) /\ x.lex[l] < y.lex[l]
  <2>1. l-1 \in 0 .. NDim /\ (2 * l - 1) - 1 = 2 * (l-1) /\ 2 * l - 1 \in 1 .. 2 * NDim + 3
    BY <1>0
  <2>2. Alike(x, y, l-1) <=> \A k \in 1 .. (2 * l - 1) - 1 : a[k] = b[k]
    BY <1>3, <2>1
  <2> QED BY <1>2, <2>1, <2>2
<1>5. ASSUME NEW l \in Loops
      PROVE  First(2 * l) <=> Alike(x, y, l-1) /\ x.lex[l] = y.lex[l] /\ x.at[l] < y.at[l]
  <2>1. l-1 \in 0 .. NDim /\ l \in 1 .. NDim+1 /\ 1 .. (2 * l - 1) = (1 .. 2 * (l-1)) \union {2 * l - 1} /\ 2 * l \in 1 .. 2 * NDim + 3
    BY <1>0 DEF Loops
  <2>2. Alike(x, y, l-1) <=> \A k \in 1 .. 2 * (l-1) : a[k] = b[k]
    BY <1>3, <2>1
  <2>3. a[2 * l - 1] = x.lex[l] /\ b[2 * l - 1] = y.lex[l] /\ a[2 * l] = x.at[l] /\ b[2 * l] = y.at[l]
    BY <1>2, <2>1
  <2>4. (\A k \in 1 .. 2 * l - 1 : a[k] = b[k]) <=> Alike(x, y, l-1) /\ x.lex[l] = y.lex[l]
    BY <2>1, <2>2, <2>3
  <2> QED BY <2>1, <2>3, <2>4
<1>6. (\A k \in 1 .. 2 * NDim + 1 : a[k] = b[k]) <=> Alike(x, y, NDim) /\ x.lex[NDim+1] = y.lex[NDim+1]
  <2>1. NDim \in 0 .. NDim /\ NDim+1 \in 1 .. NDim+1 /\ 2 * (NDim+1) - 1 = 2 * NDim + 1
        /\ 1 .. (2 * NDim + 1) = (1 .. 2 * NDim) \union {2 * NDim + 1}
    BY <1>0
  <2>2. Alike(x, y, NDim) <=> \A k \in 1 .. 2 * NDim : a[k] = b[k]
    BY <1>3, <2>1
  <2>3. a[2 * NDim + 1] = x.lex[NDim+1] /\ b[2 * NDim + 1] = y.lex[NDim+1]
    BY <1>2, <2>1
  <2> QED BY <2>1, <2>2, <2>3
<1>7. First(2 * NDim + 2) <=> Alike(x, y, NDim) /\ x.lex[NDim+1] = y.lex[NDim+1] /\ x.n < y.n
  <2>1. (2 * NDim + 2) - 1 = 2 * NDim + 1 /\ 2 * NDim + 2 \in 1 .. 2 * NDim + 3
    BY <1>0
  <2> QED BY <1>2, <1>6, <2>1
<1>8. First(2 * NDim + 3) <=> Alike(x, y, NDim) /\ x.lex[NDim+1] = y.lex[NDim+1] /\ x.n = y.n /\ x.c < y.c
  <2>1. (2 * NDim + 3) - 1 = 2 * NDim + 2 /\ 2 * NDim + 3 \in 1 .. 2 * NDim + 3
        /\ 1 .. (2 * NDim + 2) = (1 .. 2 * NDim + 1) \union {2 * NDim + 2}
    BY <1>0
  <2> QED BY <1>2, <1>6, <2>1
<1>9. \A i : First(i) => i \in 1 .. 2 * NDim + 3
  OBVIOUS
<1> HIDE DEF First
<1>10. ASSUME NEW i, First(i) PROVE Sooner(x, y)
  <2>1. i \in 1 .. 2 * NDim + 3
    BY <1>9, <1>10
  <2>2. CASE \E l \in 1 .. NDim+1 : i = 2 * l - 1
    <3>1. PICK l \in 1 .. NDim+1 : i = 2 * l - 1
      BY <2>2
    <3>2. Alike(x, y, l-1) /\ x.lex[l] < y.lex[l]
      BY <1>4, <1>10, <3>1
    <3> QED BY <3>2 DEF Sooner
  <2>3. CASE \E l \in Loops : i = 2 * l
    <3>1. PICK l \in Loops : i = 2 * l
      BY <2>3
    <3>2. Alike(x, y, l-1) /\ x.lex[l] = y.lex[l] /\ x.at[l] < y.at[l]
      BY <1>5, <1>10, <3>1
    <3> QED BY <3>2 DEF Sooner
  <2>4. CASE i = 2 * NDim + 2 \/ i = 2 * NDim + 3
    <3>1. Alike(x, y, NDim) /\ x.lex[NDim+1] = y.lex[NDim+1] /\ (x.n < y.n \/ (x.n = y.n /\ x.c < y.c))
      BY <1>7, <1>8, <1>10, <2>4
    <3> QED BY <3>1 DEF Sooner
  <2> QED BY <2>1, <2>2, <2>3, <2>4, TimeIndex
<1>11. ASSUME Sooner(x, y) PROVE \E i : First(i)
  BY <1>4, <1>5, <1>7, <1>8, <1>11 DEF Sooner
<1> QED BY <1>1, <1>10, <1>11 DEF a, b

\* u is x with another iteration of the loop at level.
OtherIteration(x, u, level) ==
  /\ u.lex = x.lex /\ u.n = x.n /\ u.c = x.c
  /\ \A l \in Loops \ {level} : u.at[l] = x.at[l]

\* Runs that go on in the same order at the loop do so altogether.
LEMMA SoonerIteration ==
  ASSUME NEW x, NEW y, NEW u, NEW v, NEW level \in Loops,
         OtherIteration(x, u, level), OtherIteration(y, v, level),
         Alike(x, y, level-1) /\ x.lex[level] = y.lex[level] =>
           /\ x.at[level] < y.at[level] => u.at[level] < v.at[level]
           /\ x.at[level] = y.at[level] => u.at[level] = v.at[level],
         Sooner(x, y)
  PROVE  Sooner(u, v)
<1>0. NDim \in Nat /\ NDim >= 1 /\ level \in Nat /\ level >= 1 /\ level <= NDim
  BY LoopsAssumption DEF Loops
<1>1. ASSUME NEW l \in 0 .. NDim, Alike(x, y, l) PROVE Alike(u, v, l)
  <2>1. ASSUME NEW k \in 1 .. l PROVE u.lex[k] = v.lex[k] /\ u.at[k] = v.at[k]
    <3>1. x.lex[k] = y.lex[k] /\ x.at[k] = y.at[k] /\ k \in Loops
      BY <1>0, <1>1 DEF Alike, Loops
    <3>2. CASE k # level
      BY <3>1, <3>2 DEF OtherIteration
    <3>3. CASE k = level
      <4>1. Alike(x, y, level-1)
        BY <1>0, <1>1, <3>3 DEF Alike
      <4> QED BY <3>1, <3>3, <4>1 DEF OtherIteration
    <3> QED BY <3>2, <3>3
  <2> QED BY <2>1 DEF Alike
<1>2. CASE \E l \in 1 .. NDim+1 : Alike(x, y, l-1) /\ x.lex[l] < y.lex[l]
  <2>1. PICK l \in 1 .. NDim+1 : Alike(x, y, l-1) /\ x.lex[l] < y.lex[l]
    BY <1>2
  <2>2. Alike(u, v, l-1) /\ u.lex[l] < v.lex[l]
    <3>1. l-1 \in 0 .. NDim
      BY <1>0
    <3> QED BY <1>1, <2>1, <3>1 DEF OtherIteration
  <2> QED BY <2>2 DEF Sooner
<1>3. CASE \E l \in Loops : Alike(x, y, l-1) /\ x.lex[l] = y.lex[l] /\ x.at[l] < y.at[l]
  <2>1. PICK l \in Loops : Alike(x, y, l-1) /\ x.lex[l] = y.lex[l] /\ x.at[l] < y.at[l]
    BY <1>3
  <2>2. Alike(u, v, l-1) /\ u.lex[l] = v.lex[l]
    <3>1. l-1 \in 0 .. NDim
      BY <1>0 DEF Loops
    <3> QED BY <1>1, <2>1, <3>1 DEF OtherIteration
  <2>3. u.at[l] < v.at[l]
    BY <2>1 DEF OtherIteration
  <2> QED BY <2>2, <2>3 DEF Sooner
<1>4. CASE Alike(x, y, NDim) /\ x.lex[NDim+1] = y.lex[NDim+1] /\ (x.n < y.n \/ (x.n = y.n /\ x.c < y.c))
  <2>1. NDim \in 0 .. NDim
    BY <1>0
  <2>2. Alike(u, v, NDim) /\ u.lex[NDim+1] = v.lex[NDim+1] /\ (u.n < v.n \/ (u.n = v.n /\ u.c < v.c))
    BY <1>1, <1>4, <2>1 DEF OtherIteration
  <2> QED BY <2>2 DEF Sooner
<1> QED BY <1>2, <1>3, <1>4 DEF Sooner

\* u is x in another place at a level, maybe in another statement.
OtherPlace(x, u, level) ==
  /\ u.at = x.at /\ u.c = x.c
  /\ \A l \in 1 .. NDim+1 : l # level => u.lex[l] = x.lex[l]

\* Where loops keep their order, so do the runs.
LEMMA SoonerPlace ==
  ASSUME NEW x, NEW y, NEW u, NEW v, NEW level \in Loops,
         OtherPlace(x, u, level), OtherPlace(y, v, level),
         x.lex[level] \in Int, y.lex[level] \in Int,
         Alike(x, y, level-1) =>
           /\ x.lex[level] < y.lex[level] => u.lex[level] < v.lex[level]
           /\ x.lex[level] = y.lex[level] =>
                \/ u.lex[level] < v.lex[level]
                \/ u.lex[level] = v.lex[level] /\ (x.n < y.n => u.n < v.n) /\ (x.n = y.n => u.n = v.n),
         Sooner(x, y)
  PROVE  Sooner(u, v)
<1>0. NDim \in Nat /\ NDim >= 1 /\ level \in Nat /\ level >= 1 /\ level <= NDim /\ level \in 1 .. NDim+1
      /\ level-1 \in 0 .. NDim
  BY LoopsAssumption DEF Loops
<1>1. ASSUME NEW l \in 0 .. NDim, Alike(x, y, l), l < level \/ u.lex[level] = v.lex[level] PROVE Alike(u, v, l)
  <2>1. ASSUME NEW k \in 1 .. l PROVE u.lex[k] = v.lex[k] /\ u.at[k] = v.at[k]
    <3>1. x.lex[k] = y.lex[k] /\ x.at[k] = y.at[k] /\ k \in 1 .. NDim+1
      BY <1>0, <1>1 DEF Alike
    <3> QED BY <1>0, <1>1, <3>1 DEF OtherPlace
  <2> QED BY <2>1 DEF Alike
<1>2. CASE Alike(x, y, level-1) /\ u.lex[level] < v.lex[level]
  <2>1. Alike(u, v, level-1)
    BY <1>0, <1>1, <1>2
  <2> QED BY <1>0, <1>2, <2>1 DEF Sooner
<1>3. CASE ~(Alike(x, y, level-1) /\ u.lex[level] < v.lex[level])
  <2>1. ASSUME NEW l \in 0 .. NDim, Alike(x, y, l), l >= level
        PROVE  u.lex[level] = v.lex[level] /\ (x.n < y.n => u.n < v.n) /\ (x.n = y.n => u.n = v.n)
    <3>1. Alike(x, y, level-1) /\ x.lex[level] = y.lex[level]
      BY <1>0, <2>1 DEF Alike
    <3> QED BY <1>3, <3>1
  <2>2. CASE \E l \in 1 .. NDim+1 : Alike(x, y, l-1) /\ x.lex[l] < y.lex[l]
    <3>1. PICK l \in 1 .. NDim+1 : Alike(x, y, l-1) /\ x.lex[l] < y.lex[l]
      BY <2>2
    <3>2. l-1 \in 0 .. NDim /\ l \in Nat
      BY <1>0
    <3>3. l # level
      BY <1>3, <3>1
    <3>4. l-1 < level \/ u.lex[level] = v.lex[level]
      BY <1>0, <2>1, <3>1, <3>2
    <3>5. Alike(u, v, l-1)
      BY <1>1, <3>1, <3>2, <3>4
    <3>6. u.lex[l] < v.lex[l]
      BY <3>1, <3>3 DEF OtherPlace
    <3> QED BY <3>5, <3>6 DEF Sooner
  <2>3. CASE \E l \in Loops : Alike(x, y, l-1) /\ x.lex[l] = y.lex[l] /\ x.at[l] < y.at[l]
    <3>1. PICK l \in Loops : Alike(x, y, l-1) /\ x.lex[l] = y.lex[l] /\ x.at[l] < y.at[l]
      BY <2>3
    <3>2. l-1 \in 0 .. NDim /\ l \in Nat /\ l \in 1 .. NDim+1
      BY <1>0 DEF Loops
    <3>3. l = level => u.lex[level] = v.lex[level]
      BY <1>3, <3>1
    <3>4. l-1 < level \/ u.lex[level] = v.lex[level]
      BY <1>0, <2>1, <3>1, <3>2
    <3>5. Alike(u, v, l-1)
      BY <1>1, <3>1, <3>2, <3>4
    <3>6. u.lex[l] = v.lex[l] /\ u.at[l] < v.at[l]
      BY <3>1, <3>2, <3>3 DEF OtherPlace
    <3> QED BY <3>5, <3>6 DEF Sooner
  <2>4. CASE Alike(x, y, NDim) /\ x.lex[NDim+1] = y.lex[NDim+1] /\ (x.n < y.n \/ (x.n = y.n /\ x.c < y.c))
    <3>1. NDim \in 0 .. NDim /\ NDim+1 \in 1 .. NDim+1 /\ NDim+1 # level
      BY <1>0
    <3>2. u.lex[level] = v.lex[level] /\ (x.n < y.n => u.n < v.n) /\ (x.n = y.n => u.n = v.n)
      BY <1>0, <2>1, <2>4, <3>1
    <3>3. Alike(u, v, NDim)
      BY <1>1, <2>4, <3>1, <3>2
    <3>4. u.lex[NDim+1] = v.lex[NDim+1] /\ (u.n < v.n \/ (u.n = v.n /\ u.c < v.c))
      BY <2>4, <3>1, <3>2 DEF OtherPlace
    <3> QED BY <3>3, <3>4 DEF Sooner
  <2> QED BY <2>2, <2>3, <2>4 DEF Sooner
<1> QED BY <1>2, <1>3
-----------------------------------------------------------------------------
(* What vectors say of runs, and the invariant.                            *)

\* Vectors between the statements ss
Edges(ss) == [from : DOMAIN ss, to : DOMAIN ss, dv : Vectors]

\* How far apart two runs are, and a vector that covers that
Apart(x, y) == [k \in Before(NDim) |-> y.at[k+1] - x.at[k+1]]
Between(D, x, y) == \E e \in D : e.from = x.n /\ e.to = y.n /\ Covers(e.dv, Apart(x, y))

\* Runs of one iteration of one statement need no vector.
Explained(ss, D, r, t) == (r[1] = t[1] /\ r[3] = t[3]) \/ Between(D, View(ss, r), View(ss, t))

\* The instances that r and t compute are a pair of R.
Dependent(ss, R, r, t) == <<InstanceIn(ss, r), InstanceIn(ss, t)>> \in R

\* All dependent runs are explained, and in order.
AllExplained(ss, D, R) == \A r, t \in RunsIn(ss) : Dependent(ss, R, r, t) => Explained(ss, D, r, t)
AllSooner(ss, R) == \A r, t \in RunsIn(ss) : Dependent(ss, R, r, t) => Sooner(View(ss, r), View(ss, t))

\* The first loop around both statements in which a distance is not zero goes forward.
Forward(ss, D) == \A e \in D, l \in Loops : Together(ss[e.from], ss[e.to], l) => CarriedForward(e.dv, l)

\* The vectors describe the pairs of R as far as the commands have checked them.
Describes(ss, D, R, checked) ==
  /\ D \subseteq Edges(ss)
  /\ AllExplained(ss, D, R)
  /\ checked => AllSooner(ss, R) /\ Forward(ss, D)

\* The invariant: each instance runs once, and the vectors describe those that depend
CoverInv == OnceInv /\ dep \subseteq Edges(stmt) /\ (alive => Describes(stmt, dep, Depends, ~unchecked))

\* Pairs of runs go where the runs go.
LEMMA DependentFollows ==
  ASSUME NEW f, NEW old, NEW new, Follows(f, old, new), NEW R, NEW u \in RunsIn(new), NEW v \in RunsIn(new),
         Dependent(new, R, u, v)
  PROVE  \E r, t \in RunsIn(old) : f[r] = u /\ f[t] = v /\ Dependent(old, R, r, t)
<1>1. PICK r \in RunsIn(old) : f[r] = u
  BY DEF Follows
<1>2. PICK t \in RunsIn(old) : f[t] = v
  BY DEF Follows
<1>3. Dependent(old, R, r, t)
  BY <1>1, <1>2 DEF Follows, Dependent
<1> QED BY <1>1, <1>2, <1>3

\* So what holds of the old runs holds of the new ones.
LEMMA ExplainedFollows ==
  ASSUME NEW f, NEW old, NEW new, Follows(f, old, new), NEW R, NEW D,
         \A r, t \in RunsIn(old) : Dependent(old, R, r, t) => Explained(new, D, f[r], f[t])
  PROVE  AllExplained(new, D, R)
<1> SUFFICES ASSUME NEW u \in RunsIn(new), NEW v \in RunsIn(new), Dependent(new, R, u, v)
             PROVE  Explained(new, D, u, v)
  BY DEF AllExplained
<1>1. PICK r, t \in RunsIn(old) : f[r] = u /\ f[t] = v /\ Dependent(old, R, r, t)
  BY DependentFollows
<1> QED BY <1>1

LEMMA SoonerFollows ==
  ASSUME NEW f, NEW old, NEW new, Follows(f, old, new), NEW R,
         \A r, t \in RunsIn(old) : Dependent(old, R, r, t) => Sooner(View(new, f[r]), View(new, f[t]))
  PROVE  AllSooner(new, R)
<1> SUFFICES ASSUME NEW u \in RunsIn(new), NEW v \in RunsIn(new), Dependent(new, R, u, v)
             PROVE  Sooner(View(new, u), View(new, v))
  BY DEF AllSooner
<1>1. PICK r, t \in RunsIn(old) : f[r] = u /\ f[t] = v /\ Dependent(old, R, r, t)
  BY DependentFollows
<1> QED BY <1>1

\* Depends of program k
DependsOf(k) ==
  LET time(i) == Time(Programs[k].stmts[i[1]].lex, i[2], i[1], 1)
      meets(e, a, b) == /\ e.from = a[1] /\ e.to = b[1]
                        /\ Covers(e.dv, [l \in Before(NDim) |-> b[2][l+1] - a[2][l+1]])
  IN  {pair \in InstancesOf(k) \X InstancesOf(k) :
         /\ \E e \in Programs[k].vectors : meets(e, pair[1], pair[2])
         /\ Less(time(pair[1]), time(pair[2]))}

\* No command changes the dependent instances.
LEMMA DependsStays ==
  ASSUME program' = program
  PROVE  Depends' = Depends
<1>1. Depends = DependsOf(program)
  BY DEF Depends, DependsOf, Instances, InstancesOf
<1>2. Depends' = DependsOf(program')
  BY DEF Depends, DependsOf, Instances, InstancesOf
<1> QED BY <1>1, <1>2

\* A view of a run
LEMMA ViewIs ==
  ASSUME NEW ss, Proper(ss), NEW r \in RunsIn(ss)
  PROVE  /\ View(ss, r).lex = ss[r[1]].lex /\ View(ss, r).n = r[1] /\ View(ss, r).c = r[2]
         /\ View(ss, r).at = Position(ss[r[1]], r[3])
         /\ ss[r[1]].lex \in Lexes /\ Position(ss[r[1]], r[3]) \in Points
         /\ r[1] \in DOMAIN ss /\ r[3] \in ss[r[1]].IS
<1>1. r[1] \in DOMAIN ss /\ r[3] \in ss[r[1]].IS
  BY RunsAre
<1>2. Statement(ss[r[1]])
  BY <1>1 DEF Proper
<1>3. Position(ss[r[1]], r[3]) \in Points
  BY <1>1, <1>2, PositionIs DEF Statement
<1> QED BY <1>1, <1>2, <1>3 DEF View, Statement

LEMMA CoverInit == Init => CoverInv
<1> SUFFICES ASSUME Init PROVE CoverInv
  OBVIOUS
<1> DEFINE stmts == Programs[program].stmts
           D == Programs[program].vectors
<1>0. OnceInv
  BY OnceInit
<1>1. /\ program \in DOMAIN Programs /\ dep = D
      /\ stmt = [n \in DOMAIN stmts |->
                   [IS   |-> stmts[n].IS, code |-> <<[of |-> n, at |-> [p \in stmts[n].IS |-> p]]>>,
                    rows |-> Identity, lex  |-> stmts[n].lex]]
  BY DEF Init
<1>2. /\ D \subseteq [from : DOMAIN stmts, to : DOMAIN stmts, dv : Vectors]
      /\ \A e \in D, l \in Loops : Together(stmts[e.from], stmts[e.to], l) => CarriedForward(e.dv, l)
  <2>1. D \subseteq [from : DOMAIN stmts, to : DOMAIN stmts, dv : Vectors]
    BY <1>1, ProgramsAssumption
  <2>2. \A e \in D, l \in Loops : Together(stmts[e.from], stmts[e.to], l) => CarriedForward(e.dv, l)
    BY <1>1, VectorsAssumption
  <2> QED BY <2>1, <2>2
<1>3. PICK R : R = Depends
  OBVIOUS
<1>4. ASSUME NEW pair \in R
      PROVE  /\ \E e \in D : /\ e.from = pair[1][1] /\ e.to = pair[2][1]
                             /\ Covers(e.dv, [l \in Before(NDim) |-> pair[2][2][l+1] - pair[1][2][l+1]])
             /\ Less(Time(stmts[pair[1][1]].lex, pair[1][2], pair[1][1], 1), Time(stmts[pair[2][1]].lex, pair[2][2], pair[2][1], 1))
  BY <1>3, <1>4, Zenon DEF Depends
<1> HIDE DEF stmts, D
<1>5. DOMAIN stmt = DOMAIN stmts
  BY <1>1
<1>6. ASSUME NEW n \in DOMAIN stmts
      PROVE  /\ stmt[n].IS = stmts[n].IS /\ stmt[n].rows = Identity /\ stmt[n].lex = stmts[n].lex
             /\ DOMAIN stmt[n].code = {1} /\ stmt[n].code[1].of = n
             /\ \A p \in stmts[n].IS : stmt[n].code[1].at[p] = p
  <2> DEFINE copy == [of |-> n, at |-> [p \in stmts[n].IS |-> p]]
             code == <<copy>>
  <2>1. n \in DOMAIN stmt /\ stmt[n] = [IS |-> stmts[n].IS, code |-> code, rows |-> Identity, lex |-> stmts[n].lex]
    BY <1>1
  <2>2. copy.of = n /\ \A p \in stmts[n].IS : copy.at[p] = p
    OBVIOUS
  <2> HIDE DEF copy
  <2>3. DOMAIN code = {1} /\ code[1] = copy
    OBVIOUS
  <2> HIDE DEF code
  <2>4. stmt[n].IS = stmts[n].IS /\ stmt[n].rows = Identity /\ stmt[n].code = code /\ stmt[n].lex = stmts[n].lex
    BY <2>1
  <2> QED BY <2>2, <2>3, <2>4
<1>7. Proper(stmt)
  BY <1>0 DEF OnceInv, Sound
<1>8. ASSUME NEW r \in RunsIn(stmt)
      PROVE  /\ InstanceIn(stmt, r) = <<r[1], r[3]>> /\ View(stmt, r).n = r[1] /\ View(stmt, r).at = r[3]
             /\ TimeAt(View(stmt, r)) = Time(stmts[r[1]].lex, r[3], r[1], 1)
  <2>1. /\ View(stmt, r).lex = stmt[r[1]].lex /\ View(stmt, r).n = r[1] /\ View(stmt, r).c = r[2]
        /\ View(stmt, r).at = Position(stmt[r[1]], r[3])
        /\ r[1] \in DOMAIN stmt /\ r[3] \in stmt[r[1]].IS /\ r[2] \in DOMAIN stmt[r[1]].code
    BY <1>7, ViewIs, RunsAre
  <2>2. r[2] = 1 /\ stmt[r[1]].rows = Identity /\ stmt[r[1]].lex = stmts[r[1]].lex
    BY <1>5, <1>6, <2>1
  <2>3. r[3] \in Points
    BY <1>7, <2>1 DEF Proper, Statement
  <2>4. Position(stmt[r[1]], r[3]) = r[3]
    BY <2>2, <2>3, IdentityPosition
  <2>5. InstanceIn(stmt, r) = <<r[1], r[3]>>
    BY <1>5, <1>6, <2>1, <2>2 DEF InstanceIn
  <2> QED BY <2>1, <2>2, <2>4, <2>5 DEF TimeAt
<1>9. ASSUME NEW r \in RunsIn(stmt), NEW t \in RunsIn(stmt), Dependent(stmt, R, r, t)
      PROVE  Explained(stmt, dep, r, t) /\ Sooner(View(stmt, r), View(stmt, t))
  <2>1. PICK pair \in R : pair[1] = <<r[1], r[3]>> /\ pair[2] = <<t[1], t[3]>>
    BY <1>8, <1>9 DEF Dependent
  <2>2. PICK e \in D : /\ e.from = r[1] /\ e.to = t[1]
                       /\ Covers(e.dv, [l \in Before(NDim) |-> t[3][l+1] - r[3][l+1]])
    <3>1. pair[1][1] = r[1] /\ pair[1][2] = r[3] /\ pair[2][1] = t[1] /\ pair[2][2] = t[3]
      BY <2>1
    <3> QED BY <1>4, <3>1
  <2>3. Apart(View(stmt, r), View(stmt, t)) = [l \in Before(NDim) |-> t[3][l+1] - r[3][l+1]]
    BY <1>8 DEF Apart
  <2>4. Explained(stmt, dep, r, t)
    BY <1>1, <1>8, <2>2, <2>3 DEF Explained, Between
  <2>5. Less(TimeAt(View(stmt, r)), TimeAt(View(stmt, t)))
    <3>1. pair[1][1] = r[1] /\ pair[1][2] = r[3] /\ pair[2][1] = t[1] /\ pair[2][2] = t[3]
      BY <2>1
    <3> QED BY <1>4, <1>8, <3>1
  <2> QED BY <2>4, <2>5, SoonerIsLess
<1>10. AllExplained(stmt, dep, R) /\ AllSooner(stmt, R)
  BY <1>9 DEF AllExplained, AllSooner
<1>11. dep \subseteq Edges(stmt)
  BY <1>1, <1>2, <1>5 DEF Edges
<1>12. Forward(stmt, dep)
  <2> SUFFICES ASSUME NEW e \in dep, NEW l \in Loops, Together(stmt[e.from], stmt[e.to], l)
               PROVE  CarriedForward(e.dv, l)
    BY DEF Forward
  <2>1. e \in D /\ e.from \in DOMAIN stmts /\ e.to \in DOMAIN stmts
    BY <1>1, <1>2
  <2>2. Together(stmts[e.from], stmts[e.to], l)
    BY <1>6, <2>1 DEF Together
  <2> QED BY <1>2, <2>1, <2>2
<1>13. Describes(stmt, dep, Depends, ~unchecked)
  BY <1>3, <1>10, <1>11, <1>12 DEF Describes
<1> QED BY <1>0, <1>11, <1>13 DEF CoverInv

\* What the invariant says of the runs of an instance
LEMMA WhereIs ==
  ASSUME OnceInv, NEW pair \in Depends
  PROVE  /\ Where[pair[1]] \in RunsIn(stmt) /\ Where[pair[2]] \in RunsIn(stmt)
         /\ Dependent(stmt, Depends, Where[pair[1]], Where[pair[2]])
<1>1. pair \in Instances \X Instances
  BY Zenon DEF Depends
<1>2. Runs = RunsIn(stmt) /\ \A r : Instance(r) = InstanceIn(stmt, r)
  BY DEF Runs, RunsIn, Instance, InstanceIn
<1>3. ASSUME NEW i \in Instances PROVE Where[i] \in RunsIn(stmt) /\ InstanceIn(stmt, Where[i]) = i
  <2>1. \E r \in Runs : Instance(r) = i
    BY <1>2 DEF OnceInv, Sound, Once
  <2>2. Where[i] = CHOOSE r \in Runs : Instance(r) = i
    BY DEF Where
  <2> QED BY <1>2, <2>1, <2>2
<1>4. pair = <<pair[1], pair[2]>> /\ pair[1] \in Instances /\ pair[2] \in Instances
  BY <1>1
<1> QED BY <1>3, <1>4 DEF Dependent

\* The invariant implies both properties.
LEMMA CoverMeans == CoverInv => VectorsCoverDistances /\ OrderPreserved
<1> SUFFICES ASSUME CoverInv PROVE VectorsCoverDistances /\ OrderPreserved
  OBVIOUS
<1>0. OnceInv
  BY DEF CoverInv
<1>1. ASSUME alive, NEW pair \in Depends, NEW r, NEW t, r = Where[pair[1]], t = Where[pair[2]]
      PROVE  \/ r[1] = t[1] /\ r[3] = t[3]
             \/ \E e \in dep : e.from = r[1] /\ e.to = t[1] /\ Covers(e.dv, Distance(r, t))
  <2>1. Explained(stmt, dep, r, t)
    BY <1>0, <1>1, WhereIs DEF CoverInv, Describes, AllExplained
  <2>2. Apart(View(stmt, r), View(stmt, t)) = Distance(r, t)
    BY DEF Apart, Distance, PositionOf, View
  <2>3. View(stmt, r).n = r[1] /\ View(stmt, t).n = t[1]
    BY DEF View
  <2> QED BY <2>1, <2>2, <2>3 DEF Explained, Between
<1>2. ASSUME alive, ~unchecked, NEW pair \in Depends, NEW r, NEW t, r = Where[pair[1]], t = Where[pair[2]]
      PROVE  Less(TimeOf(r), TimeOf(t))
  <2>1. Sooner(View(stmt, r), View(stmt, t))
    BY <1>0, <1>2, WhereIs DEF CoverInv, Describes, AllSooner
  <2>2. Less(TimeAt(View(stmt, r)), TimeAt(View(stmt, t)))
    BY <2>1, SoonerIsLess
  <2>3. TimeAt(View(stmt, r)) = TimeOf(r) /\ TimeAt(View(stmt, t)) = TimeOf(t)
    BY DEF TimeAt, TimeOf, View, PositionOf
  <2> QED BY <2>2, <2>3
<1> QED BY <1>1, <1>2 DEF VectorsCoverDistances, OrderPreserved
-----------------------------------------------------------------------------
(* Dimensions, rows and bounds.                                            *)

\* The dimensions of vectors are the loops, numbered from 0.
LEMMA DimensionsAre ==
  /\ Before(NDim) \in SUBSET Nat /\ \A k \in Before(NDim) : k+1 \in Loops /\ k \in Nat
  /\ \A l \in Loops : DimOf(l) \in Before(NDim) /\ l \in Nat /\ DimOf(l) = l-1 /\ (l-1)+1 = l
                      /\ l \in 1 .. NDim+1 /\ l-1 \in 0 .. NDim /\ l >= 1 /\ l <= NDim
  /\ NDim \in Nat /\ NDim >= 1
BY LoopsAssumption DEF Before, Loops, DimOf

LEMMA VectorsAre == Vectors = VectorsOver(Before(NDim))
BY DEF Vectors, VectorsOver

\* The distance of two views
LEMMA ApartIs ==
  ASSUME NEW x, NEW y, x.at \in Points, y.at \in Points
  PROVE  /\ Apart(x, y) \in [Before(NDim) -> Int]
         /\ \A l \in Loops : Apart(x, y)[DimOf(l)] = y.at[l] - x.at[l]
         /\ \A k \in Before(NDim) : Apart(x, y)[k] = y.at[k+1] - x.at[k+1]
<1>1. \A l \in Loops : x.at[l] \in Int /\ y.at[l] \in Int
  BY DEF Points
<1>2. \A k \in Before(NDim) : k+1 \in Loops
  BY DimensionsAre
<1>3. \A l \in Loops : DimOf(l) \in Before(NDim) /\ DimOf(l) + 1 = l
  BY DimensionsAre
<1>4. PICK p, q : p = x.at /\ q = y.at
  OBVIOUS
<1>5. PICK d : d = Apart(x, y)
  OBVIOUS
<1>6. d = [k \in Before(NDim) |-> q[k+1] - p[k+1]]
  BY <1>4, <1>5 DEF Apart
<1>7. \A k \in Before(NDim) : q[k+1] - p[k+1] \in Int
  <2>1. ASSUME NEW k \in Before(NDim) PROVE q[k+1] - p[k+1] \in Int
    <3>1. PICK l : l = k+1
      OBVIOUS
    <3>2. l \in Loops
      BY <1>2, <3>1
    <3>3. p[l] \in Int /\ q[l] \in Int
      BY <1>1, <1>4, <3>2
    <3> QED BY <3>1, <3>3
  <2> QED BY <2>1
<1>8. d \in [Before(NDim) -> Int] /\ \A k \in Before(NDim) : d[k] = q[k+1] - p[k+1]
  BY <1>6, <1>7
<1>9. \A l \in Loops : d[DimOf(l)] = q[l] - p[l]
  BY <1>3, <1>8
<1> QED BY <1>4, <1>5, <1>8, <1>9

\* What a vector covers
LEMMA CoversIs ==
  ASSUME NEW dv \in Vectors, NEW d
  PROVE  Covers(dv, d) <=> \A i \in Before(NDim) : Above(dv.lb[i], d[i]) /\ Below(d[i], dv.ub[i])
BY DEF Covers, Vectors

\* A view of a run of which the statement has a new row for a loop
RowView(x, u, S, level, row) ==
  /\ u.lex = x.lex /\ u.n = x.n /\ u.c = x.c /\ x.at \in Points /\ u.at \in Points /\ x.lex \in Lexes
  /\ \A l \in Loops \ {level} : u.at[l] = x.at[l]
  /\ u.at[level] = IF x.n \in S THEN Affine(row, x.at) ELSE x.at[level]

\* What a new row in the loop at level does to all views
ComposedViewsShape(ss, S, level, row, new) ==
  /\ Follows([r \in RunsIn(ss) |-> r], ss, new)
  /\ \A r \in RunsIn(ss) : RowView(View(ss, r), View(new, r), S, level, row)

\* shift and skew keep all of a view but the iteration of their loop.
LEMMA ComposedViews ==
  ASSUME NEW ss, Proper(ss), NEW S \in SUBSET DOMAIN ss, NEW level \in Loops, NEW row \in Rows, row.coef[level] # 0,
         NEW new, new = ComposedIn(ss, S, level, row)
  PROVE  ComposedViewsShape(ss, S, level, row, new)
<1>1. Proper(new) /\ SameCode(ss, new) /\ \A n \in DOMAIN ss : new[n].lex = ss[n].lex
  BY ComposedStatements
<1>2. Follows([r \in RunsIn(ss) |-> r], ss, new)
  BY <1>1, SameRuns DEF SameCode
<1>3. ASSUME NEW r \in RunsIn(ss) PROVE RowView(View(ss, r), View(new, r), S, level, row)
  <2>1. r \in RunsIn(new)
    BY <1>2 DEF Follows
  <2>2. /\ View(ss, r).lex = ss[r[1]].lex /\ View(ss, r).n = r[1] /\ View(ss, r).c = r[2]
        /\ View(ss, r).at = Position(ss[r[1]], r[3])
        /\ ss[r[1]].lex \in Lexes /\ Position(ss[r[1]], r[3]) \in Points
        /\ r[1] \in DOMAIN ss /\ r[3] \in ss[r[1]].IS
    BY ViewIs
  <2>3. /\ View(new, r).lex = new[r[1]].lex /\ View(new, r).n = r[1] /\ View(new, r).c = r[2]
        /\ View(new, r).at = Position(new[r[1]], r[3])
        /\ new[r[1]].lex \in Lexes /\ Position(new[r[1]], r[3]) \in Points
    BY <1>1, <2>1, ViewIs
  <2>4. new[r[1]] = IF r[1] \in S THEN ComposedAt(ss[r[1]], level, row) ELSE ss[r[1]]
    BY <2>2 DEF ComposedIn
  <2>5. Statement(ss[r[1]])
    BY <2>2 DEF Proper
  <2>6. CASE r[1] \in S
    <3>1. /\ \A l \in Loops \ {level} : Position(new[r[1]], r[3])[l] = Position(ss[r[1]], r[3])[l]
          /\ Position(new[r[1]], r[3])[level] = Affine(row, Position(ss[r[1]], r[3]))
      <4>1. PICK s, n : s = ss[r[1]] /\ n = ComposedAt(s, level, row)
        OBVIOUS
      <4>2. Statement(s) /\ r[3] \in s.IS
        BY <2>2, <2>5, <4>1
      <4>3. /\ \A l \in Loops \ {level} : Position(n, r[3])[l] = Position(s, r[3])[l]
            /\ Position(n, r[3])[level] = Affine(row, Position(s, r[3]))
        BY <4>1, <4>2, ComposedAtIs
      <4>4. n = new[r[1]]
        BY <2>4, <2>6, <4>1
      <4> QED BY <4>1, <4>3, <4>4
    <3> QED BY <1>1, <2>2, <2>3, <2>6, <3>1 DEF RowView
  <2>7. CASE r[1] \notin S
    BY <2>2, <2>3, <2>4, <2>7 DEF RowView
  <2> QED BY <2>6, <2>7
<1> QED BY <1>2, <1>3 DEF ComposedViewsShape

\* Vectors that are the same down to a loop are carried the same there.
SameDown(dv, new, l) == \A i \in Before(l) : new.lb[i] = dv.lb[i] /\ new.ub[i] = dv.ub[i]

LEMMA CarriedSame ==
  ASSUME NEW l \in Nat, NEW dv, NEW new, SameDown(dv, new, l), CarriedForward(dv, l)
  PROVE  CarriedForward(new, l)
<1> SUFFICES ASSUME NEW i \in Before(l), \A k \in Before(i) : new.lb[k] = 0 /\ new.ub[k] = 0
             PROVE  new.lb[i] > 0 \/ (new.lb[i] = 0 /\ new.ub[i] = 0)
  BY DEF CarriedForward
<1>1. \A k \in Before(i) : k \in Before(l)
  BY DEF Before
<1>2. \A k \in Before(i) : dv.lb[k] = 0 /\ dv.ub[k] = 0
  BY <1>1 DEF SameDown
<1>3. dv.lb[i] > 0 \/ (dv.lb[i] = 0 /\ dv.ub[i] = 0)
  BY <1>2 DEF CarriedForward
<1> QED BY <1>3 DEF SameDown

\* Other bounds in one dimension
OtherBounds(dv, new, dim) ==
  /\ dv \in Vectors /\ new \in Vectors
  /\ \A i \in Before(NDim) : i # dim => new.lb[i] = dv.lb[i] /\ new.ub[i] = dv.ub[i]

\* Other distances in one dimension
OtherApart(d, new, dim) ==
  /\ d \in [Before(NDim) -> Int] /\ new \in [Before(NDim) -> Int]
  /\ \A i \in Before(NDim) : i # dim => new[i] = d[i]

\* Bounds of one dimension that cover its new distance
LEMMA OtherCovers ==
  ASSUME NEW dv, NEW new, NEW dim \in Before(NDim), OtherBounds(dv, new, dim),
         NEW d, NEW e, OtherApart(d, e, dim), Covers(dv, d), Above(new.lb[dim], e[dim]), Below(e[dim], new.ub[dim])
  PROVE  Covers(new, e)
<1>1. \A i \in Before(NDim) : Above(dv.lb[i], d[i]) /\ Below(d[i], dv.ub[i])
  BY CoversIs DEF OtherBounds
<1>2. ASSUME NEW i \in Before(NDim) PROVE Above(new.lb[i], e[i]) /\ Below(e[i], new.ub[i])
  <2>1. CASE i = dim
    BY <2>1
  <2>2. CASE i # dim
    BY <1>1, <2>2 DEF OtherBounds, OtherApart
  <2> QED BY <2>1, <2>2
<1> QED BY <1>2, CoversIs DEF OtherBounds

\* Below the dimension that changed the vector is carried as it was.
LEMMA OtherCarried ==
  ASSUME NEW dv, NEW new, NEW level \in Loops, OtherBounds(dv, new, DimOf(level)), NEW l \in Loops, l < level,
         CarriedForward(dv, l)
  PROVE  CarriedForward(new, l)
<1>1. \A i \in Before(l) : i \in Before(NDim) /\ i # DimOf(level)
  BY DimensionsAre DEF Before, DimOf
<1>2. SameDown(dv, new, l) /\ l \in Nat
  BY <1>1, DimensionsAre DEF SameDown, OtherBounds
<1> QED BY <1>2, CarriedSame

\* What jumbled and moved bounds are
LEMMA JumbledIs ==
  ASSUME NEW dv \in Vectors, NEW dim \in Before(NDim)
  PROVE  /\ OtherBounds(dv, Jumbled(dv, dim), dim)
         /\ \A x \in Int : Above(Jumbled(dv, dim).lb[dim], x) /\ Below(x, Jumbled(dv, dim).ub[dim])
<1> DEFINE new == Jumbled(dv, dim)
           lb == [dv.lb EXCEPT ![dim] = -Infinity]
           ub == [dv.ub EXCEPT ![dim] = Infinity]
<1>1. dv = [type |-> dv.type, quasi |-> dv.quasi, lb |-> dv.lb, ub |-> dv.ub]
      /\ dv.type \in STRING /\ dv.quasi \in BOOLEAN
      /\ dv.lb \in [Before(NDim) -> Int] /\ dv.ub \in [Before(NDim) -> Int] /\ Infinity \in Int
  BY InfinityAssumption DEF Vectors
<1>2. new = [dv EXCEPT !.lb = lb, !.ub = ub]
  BY <1>1 DEF Jumbled
<1>3. lb \in [Before(NDim) -> Int] /\ ub \in [Before(NDim) -> Int] /\ lb[dim] = -Infinity /\ ub[dim] = Infinity
      /\ \A i \in Before(NDim) : i # dim => lb[i] = dv.lb[i] /\ ub[i] = dv.ub[i]
  BY <1>1
<1> HIDE DEF lb, ub
<1>4. new = [type |-> dv.type, quasi |-> dv.quasi, lb |-> lb, ub |-> ub]
  BY <1>1, <1>2
<1> HIDE DEF new
<1>5. new \in Vectors /\ new.lb = lb /\ new.ub = ub
  BY <1>1, <1>3, <1>4 DEF Vectors
<1>6. OtherBounds(dv, new, dim)
  BY <1>3, <1>5 DEF OtherBounds
<1>7. \A x \in Int : Above(new.lb[dim], x) /\ Below(x, new.ub[dim])
  BY <1>3, <1>5 DEF Above, Below
<1> QED BY <1>6, <1>7 DEF new

\* MovedBy changes the bounds of one dimension.
LEMMA MovedByIs ==
  ASSUME NEW dv \in Vectors, NEW dim \in Before(NDim), NEW amount \in Int
  PROVE  OtherBounds(dv, MovedBy(dv, dim, amount), dim)
<1> DEFINE new == MovedBy(dv, dim, amount)
           lb == [dv.lb EXCEPT ![dim] = IF @ = -Infinity THEN @ ELSE @ + amount]
           ub == [dv.ub EXCEPT ![dim] = IF @ = Infinity THEN @ ELSE @ + amount]
<1>1. dv = [type |-> dv.type, quasi |-> dv.quasi, lb |-> dv.lb, ub |-> dv.ub]
      /\ dv.type \in STRING /\ dv.quasi \in BOOLEAN
      /\ dv.lb \in [Before(NDim) -> Int] /\ dv.ub \in [Before(NDim) -> Int] /\ Infinity \in Int
  BY InfinityAssumption DEF Vectors
<1>2. new = [dv EXCEPT !.lb = lb, !.ub = ub]
  BY <1>1 DEF MovedBy
<1>3. lb \in [Before(NDim) -> Int] /\ ub \in [Before(NDim) -> Int]
      /\ \A i \in Before(NDim) : i # dim => lb[i] = dv.lb[i] /\ ub[i] = dv.ub[i]
  BY <1>1
<1> HIDE DEF lb, ub
<1>4. new = [type |-> dv.type, quasi |-> dv.quasi, lb |-> lb, ub |-> ub]
  BY <1>1, <1>2
<1> HIDE DEF new
<1>5. new \in Vectors /\ new.lb = lb /\ new.ub = ub
  BY <1>1, <1>3, <1>4 DEF Vectors
<1> QED BY <1>3, <1>5 DEF OtherBounds, new
-----------------------------------------------------------------------------
(* shift: the vectors and the order.                                       *)

\* shift and skew: loops of which all statements are in S or none
Whole(ss, S, level) == \A t \in S : SameLoop(ss, t, level) \subseteq S

LEMMA WholeIs ==
  ASSUME NEW ss, NEW S \in SUBSET DOMAIN ss, NEW level \in Loops, Whole(ss, S, level),
         NEW r \in DOMAIN ss, NEW t \in DOMAIN ss, Together(ss[r], ss[t], level)
  PROVE  r \in S <=> t \in S
<1>1. t \in SameLoop(ss, r, level) /\ r \in SameLoop(ss, t, level)
  BY DEF Together, SameLoop
<1> QED BY <1>1 DEF Whole

\* Runs that are alike are in the same loops.
LEMMA AlikeTogether ==
  ASSUME NEW x, NEW y, NEW level \in Loops, Alike(x, y, level-1), x.lex[level] = y.lex[level],
         NEW s, NEW t, s.lex = x.lex, t.lex = y.lex
  PROVE  Together(s, t, level)
<1>0. level \in Nat
  BY DimensionsAre
<1>1. \A k \in 1 .. level : k = level \/ k \in 1 .. level-1
  BY <1>0
<1> QED BY <1>1 DEF Alike, Together

\* The row that shift adds to
LEMMA ShiftRow ==
  ASSUME NEW level \in Loops, NEW amount \in Int, NEW row, row = [UnitRow(level) EXCEPT !.const = amount]
  PROVE  /\ row \in Rows /\ row.coef[level] # 0
         /\ \A p \in Points : Affine(row, p) = p[level] + amount
<1> DEFINE unit == UnitRow(level)
<1>1. unit \in Rows /\ unit.coef[level] = 1 /\ unit.const = 0
  BY UnitRowIs DEF UnitRow
<1>2. unit = [coef |-> unit.coef, const |-> unit.const]
  BY DEF UnitRow
<1>3. \A p \in Points : Affine(unit, p) = p[level]
  BY UnitRowIs
<1> HIDE DEF unit
<1>4. row = [coef |-> unit.coef, const |-> amount]
  BY <1>2 DEF unit
<1>5. row \in Rows /\ row.coef = unit.coef /\ row.const = amount
  <2>1. PICK c : c = unit.coef
    OBVIOUS
  <2>2. c \in [Loops -> Int]
    BY <1>1, <2>1 DEF Rows
  <2>3. row = [coef |-> c, const |-> amount]
    BY <1>4, <2>1
  <2>4. PICK q : q = [coef |-> c, const |-> amount]
    OBVIOUS
  <2>5. q.coef = c /\ q.const = amount
    BY <2>4
  <2>6. q \in [coef : [Loops -> Int], const : Int]
    BY <2>2, <2>4
  <2>7. q = row
    BY <2>3, <2>4
  <2>8. row \in Rows
    BY <2>6, <2>7 DEF Rows
  <2> QED BY <2>1, <2>5, <2>7, <2>8
<1>6. ASSUME NEW p \in Points PROVE Affine(row, p) = p[level] + amount
  <2> DEFINE sum == Sum([k \in Loops |-> unit.coef[k] * p[k]])
  <2>1. Affine(unit, p) = 0 + sum /\ Affine(row, p) = amount + sum
    BY <1>1, <1>5 DEF Affine
  <2>2. sum \in Int
    BY <1>1, AffineIs, SumInt
  <2> HIDE DEF sum
  <2> QED BY <1>3, <2>1, <2>2
<1> QED BY <1>1, <1>5, <1>6

\* What shift makes of a vector
ShiftedVector(e, S, level, amount) ==
  IF e.from \in S /\ e.to \notin S THEN MovedBy(e.dv, DimOf(level), -amount)
  ELSE IF e.from \notin S /\ e.to \in S THEN MovedBy(e.dv, DimOf(level), amount)
  ELSE e.dv

\* e with another vector
WithVector(e, f, dv) == f.from = e.from /\ f.to = e.to /\ f.dv = dv

LEMMA EdgeIs ==
  ASSUME NEW ss, NEW e \in Edges(ss), NEW dv \in Vectors, NEW f, f = [e EXCEPT !.dv = dv]
  PROVE  f \in Edges(ss) /\ WithVector(e, f, dv)
BY DEF Edges, WithVector

\* Every vector after shift comes from one before, and every one before is one after.
LEMMA ShiftDepsAre ==
  ASSUME NEW ss, NEW D \in SUBSET Edges(ss), NEW S, NEW level \in Loops, NEW amount \in Int,
         NEW E, E = ShiftDeps(D, S, level, amount)
  PROVE  /\ E \subseteq Edges(ss)
         /\ \A e \in D : \E f \in E : WithVector(e, f, ShiftedVector(e, S, level, amount))
         /\ \A f \in E : \E e \in D : WithVector(e, f, ShiftedVector(e, S, level, amount))
<1> DEFINE new(e) == [e EXCEPT !.dv = ShiftedVector(e, S, level, amount)]
<1>1. ASSUME NEW e \in D PROVE new(e) \in Edges(ss) /\ WithVector(e, new(e), ShiftedVector(e, S, level, amount))
  <2>1. e \in Edges(ss) /\ e.dv \in Vectors
    BY DEF Edges
  <2>2. PICK dv : dv = ShiftedVector(e, S, level, amount)
    OBVIOUS
  <2>3. dv \in Vectors
    <3>1. DimOf(level) \in Before(NDim) /\ -amount \in Int
      BY DimensionsAre
    <3>2. MovedBy(e.dv, DimOf(level), -amount) \in Vectors /\ MovedBy(e.dv, DimOf(level), amount) \in Vectors
      BY <2>1, <3>1, MovedByIs DEF OtherBounds
    <3> QED BY <2>1, <2>2, <3>2 DEF ShiftedVector
  <2> QED BY <2>1, <2>2, <2>3, EdgeIs
<1>2. E = {new(e) : e \in D}
  <2>1. \A e \in D : [e EXCEPT !.dv = IF e.from \in S /\ e.to \notin S THEN MovedBy(@, DimOf(level), -amount)
                    ELSE IF e.from \notin S /\ e.to \in S THEN MovedBy(@, DimOf(level), amount)
                    ELSE @] = new(e)
    BY DEF ShiftedVector
  <2> QED BY <2>1 DEF ShiftDeps
<1> HIDE DEF new
<1> QED BY <1>1, <1>2

\* The views of two runs and their views when S has been shifted
ShiftView(x, u, S, level, amount) ==
  /\ u.lex = x.lex /\ u.n = x.n /\ u.c = x.c /\ x.at \in Points /\ u.at \in Points /\ x.lex \in Lexes
  /\ \A l \in Loops \ {level} : u.at[l] = x.at[l]
  /\ u.at[level] = IF x.n \in S THEN x.at[level] + amount ELSE x.at[level]

\* The vectors cover how far apart the runs are after shift.
LEMMA ShiftedCovers ==
  ASSUME NEW ss, NEW e \in Edges(ss), NEW S, NEW level \in Loops, NEW amount \in Int,
         NEW x, NEW y, NEW u, NEW v, ShiftView(x, u, S, level, amount), ShiftView(y, v, S, level, amount),
         e.from = x.n, e.to = y.n, Covers(e.dv, Apart(x, y))
  PROVE  Covers(ShiftedVector(e, S, level, amount), Apart(u, v))
<1> DEFINE by == (IF y.n \in S THEN amount ELSE 0) - (IF x.n \in S THEN amount ELSE 0)
           dim == DimOf(level)
<1>1. x.at \in Points /\ y.at \in Points /\ u.at \in Points /\ v.at \in Points
  BY DEF ShiftView
<1>2. PICK d, g : d = Apart(x, y) /\ g = Apart(u, v)
  OBVIOUS
<1>3. /\ d \in [Before(NDim) -> Int] /\ g \in [Before(NDim) -> Int]
      /\ \A k \in Before(NDim) : d[k] = y.at[k+1] - x.at[k+1] /\ g[k] = v.at[k+1] - u.at[k+1]
  BY <1>1, <1>2, ApartIs
<1>4. dim \in Before(NDim) /\ \A k \in Before(NDim) : k+1 \in Loops /\ (k # dim => k+1 # level) /\ dim+1 = level
  BY DimensionsAre DEF DimOf
<1>5. \A k \in Before(NDim) : k # dim => g[k] = d[k]
  <2>1. ASSUME NEW k \in Before(NDim), k # dim PROVE g[k] = d[k]
    <3>1. PICK l : l = k+1
      OBVIOUS
    <3>2. l \in Loops \ {level}
      BY <1>4, <2>1, <3>1
    <3>3. u.at[l] = x.at[l] /\ v.at[l] = y.at[l]
      BY <3>2 DEF ShiftView
    <3> QED BY <1>3, <3>1, <3>3
  <2> QED BY <2>1
<1>6. g[dim] = d[dim] + by /\ by \in Int
  <2>1. x.at[level] \in Int /\ y.at[level] \in Int
    BY <1>1 DEF Points
  <2>2. d[dim] = y.at[level] - x.at[level] /\ g[dim] = v.at[level] - u.at[level]
    BY <1>1, <1>2, ApartIs
  <2>3. /\ u.at[level] = IF x.n \in S THEN x.at[level] + amount ELSE x.at[level]
        /\ v.at[level] = IF y.n \in S THEN y.at[level] + amount ELSE y.at[level]
    BY DEF ShiftView
  <2>4. CASE x.n \in S /\ y.n \in S
    BY <2>1, <2>2, <2>3, <2>4
  <2>5. CASE x.n \in S /\ y.n \notin S
    BY <2>1, <2>2, <2>3, <2>5
  <2>6. CASE x.n \notin S /\ y.n \in S
    BY <2>1, <2>2, <2>3, <2>6
  <2>7. CASE x.n \notin S /\ y.n \notin S
    BY <2>1, <2>2, <2>3, <2>7
  <2> QED BY <2>4, <2>5, <2>6, <2>7
<1> HIDE DEF by, dim
<1>7. PICK h : h = [d EXCEPT ![dim] = @ + by]
  OBVIOUS
<1>8. g = h
  <2>1. h \in [Before(NDim) -> Int] /\ h[dim] = d[dim] + by /\ \A k \in Before(NDim) : k # dim => h[k] = d[k]
    <3>0. d[dim] \in Int
      BY <1>3, <1>4
    <3> DEFINE z == d[dim] + by
    <3>1. z \in Int /\ h = [d EXCEPT ![dim] = z]
      BY <1>6, <1>7, <3>0
    <3> HIDE DEF z
    <3>2. h \in [Before(NDim) -> Int] /\ h[dim] = z /\ \A k \in Before(NDim) : k # dim => h[k] = d[k]
      BY <1>3, <1>4, <3>1
    <3> QED BY <3>2 DEF z
  <2>2. \A k \in Before(NDim) : g[k] = h[k]
    BY <1>5, <1>6, <2>1
  <2> QED BY <1>3, <2>1, <2>2
<1>9. e.dv \in VectorsOver(Before(NDim)) /\ Before(NDim) \in SUBSET Nat
  BY VectorsAre, DimensionsAre DEF Edges
<1>10. Covers(MovedBy(e.dv, dim, by), g)
  <2>1. PICK dv, B : dv = e.dv /\ B = Before(NDim)
    OBVIOUS
  <2>2. B \in SUBSET Nat /\ dv \in VectorsOver(B) /\ d \in [B -> Int] /\ dim \in B /\ by \in Int /\ Covers(dv, d)
    BY <1>2, <1>3, <1>4, <1>6, <1>9, <2>1
  <2>3. Covers(MovedBy(dv, dim, by), [d EXCEPT ![dim] = @ + by])
    BY <2>2, ShiftCovers
  <2> QED BY <1>7, <1>8, <2>1, <2>3
<1>11. CASE by = 0
  <2>1. h = d
    <3>1. d[dim] \in Int
      BY <1>3, <1>4
    <3>2. ASSUME NEW k \in Before(NDim) PROVE g[k] = d[k]
      <4>1. g[dim] = d[dim]
        BY <1>6, <1>11, <3>1
      <4> QED BY <1>5, <4>1
    <3> QED BY <1>3, <1>8, <3>2
  <2>2. Covers(e.dv, g)
    BY <1>2, <1>8, <2>1
  <2>3. ShiftedVector(e, S, level, amount) = e.dv \/ ShiftedVector(e, S, level, amount) = MovedBy(e.dv, dim, by)
    <3>1. CASE amount = 0
      BY <1>11, <3>1 DEF ShiftedVector, dim
    <3>2. CASE amount # 0
      BY <1>11, <3>2 DEF ShiftedVector, dim, by
    <3> QED BY <3>1, <3>2
  <2> QED BY <1>2, <1>10, <2>2, <2>3
<1>12. CASE by # 0
  <2>1. ShiftedVector(e, S, level, amount) = MovedBy(e.dv, dim, by)
    BY <1>12 DEF ShiftedVector, dim, by
  <2> QED BY <1>2, <1>10, <2>1
<1> QED BY <1>11, <1>12

\* Where all statements of a loop get the same, or none does
LEMMA MonotoneSooner ==
  ASSUME NEW ss, Proper(ss), NEW S \in SUBSET DOMAIN ss, NEW level \in Loops, Whole(ss, S, level),
         NEW row \in Rows, row.coef[level] # 0, NEW new, new = ComposedIn(ss, S, level, row),
         NEW r \in RunsIn(ss), NEW t \in RunsIn(ss), NEW x, x = View(ss, r), NEW y, y = View(ss, t), Sooner(x, y),
         x.n \in S /\ Alike(x, y, level-1) /\ x.lex[level] = y.lex[level] =>
           /\ x.at[level] < y.at[level] => Affine(row, x.at) < Affine(row, y.at)
           /\ x.at[level] = y.at[level] => Affine(row, x.at) = Affine(row, y.at)
  PROVE  Sooner(View(new, r), View(new, t))
<1>1. PICK u, v : u = View(new, r) /\ v = View(new, t)
  OBVIOUS
<1>2. ComposedViewsShape(ss, S, level, row, new)
  BY ComposedViews
<1>3. RowView(x, u, S, level, row) /\ RowView(y, v, S, level, row)
  BY <1>1, <1>2 DEF ComposedViewsShape
<1>4. OtherIteration(x, u, level) /\ OtherIteration(y, v, level)
  BY <1>3 DEF RowView, OtherIteration
<1>5. ASSUME Alike(x, y, level-1), x.lex[level] = y.lex[level]
      PROVE  /\ x.at[level] < y.at[level] => u.at[level] < v.at[level]
             /\ x.at[level] = y.at[level] => u.at[level] = v.at[level]
  <2>1. x.lex = ss[r[1]].lex /\ y.lex = ss[t[1]].lex /\ x.n = r[1] /\ y.n = t[1] /\ r[1] \in DOMAIN ss /\ t[1] \in DOMAIN ss
    BY ViewIs
  <2>2. Together(ss[r[1]], ss[t[1]], level)
    BY <1>5, <2>1, AlikeTogether
  <2>3. x.n \in S <=> y.n \in S
    BY <2>1, <2>2, WholeIs
  <2>4. CASE x.n \in S
    BY <1>3, <1>5, <2>3, <2>4 DEF RowView
  <2>5. CASE x.n \notin S
    BY <1>3, <1>5, <2>3, <2>5 DEF RowView
  <2> QED BY <2>4, <2>5
<1>6. Sooner(u, v)
  BY <1>4, <1>5, SoonerIteration
<1> QED BY <1>1, <1>6

\* shift: the vectors say how far apart the runs are, and runs stay in order when
\* loops are shifted as a whole.
LEMMA ShiftDescribes ==
  ASSUME NEW ss, Proper(ss), NEW D, NEW R, NEW checked \in BOOLEAN, Describes(ss, D, R, checked),
         NEW S \in SUBSET DOMAIN ss, NEW level \in Loops, NEW amount \in Int,
         NEW new, new = ShiftStatements(ss, S, level, amount), NEW E, E = ShiftDeps(D, S, level, amount)
  PROVE  Describes(new, E, R, checked /\ Whole(ss, S, level))
<1>1. PICK row : row = [UnitRow(level) EXCEPT !.const = amount]
  OBVIOUS
<1>2. row \in Rows /\ row.coef[level] # 0 /\ \A p \in Points : Affine(row, p) = p[level] + amount
  BY <1>1, ShiftRow
<1>3. new = ComposedIn(ss, S, level, row)
  BY <1>1 DEF ShiftStatements, ComposedIn
<1>4. ComposedViewsShape(ss, S, level, row, new)
  BY <1>2, <1>3, ComposedViews
<1>5. Proper(new) /\ DOMAIN new = DOMAIN ss /\ \A n \in DOMAIN ss : new[n].lex = ss[n].lex
  <2>1. Proper(new) /\ SameCode(ss, new) /\ \A n \in DOMAIN ss : new[n].lex = ss[n].lex
    BY <1>2, <1>3, ComposedStatements
  <2> QED BY <2>1 DEF SameCode
<1>6. PICK f : f = [r \in RunsIn(ss) |-> r]
  OBVIOUS
<1>7. Follows(f, ss, new) /\ \A r \in RunsIn(ss) : f[r] = r
  BY <1>4, <1>6 DEF ComposedViewsShape
<1>8. ASSUME NEW r \in RunsIn(ss) PROVE ShiftView(View(ss, r), View(new, r), S, level, amount)
  <2>1. RowView(View(ss, r), View(new, r), S, level, row)
    BY <1>4 DEF ComposedViewsShape
  <2> QED BY <1>2, <2>1 DEF RowView, ShiftView
<1>9. D \subseteq Edges(ss) /\ AllExplained(ss, D, R)
  BY DEF Describes
<1>10. /\ E \subseteq Edges(ss)
       /\ \A e \in D : \E g \in E : WithVector(e, g, ShiftedVector(e, S, level, amount))
       /\ \A g \in E : \E e \in D : WithVector(e, g, ShiftedVector(e, S, level, amount))
  BY <1>9, ShiftDepsAre
<1>11. ASSUME NEW r \in RunsIn(ss), NEW t \in RunsIn(ss), Dependent(ss, R, r, t)
       PROVE  Explained(new, E, f[r], f[t])
  <2>1. CASE r[1] = t[1] /\ r[3] = t[3]
    BY <1>7, <2>1 DEF Explained
  <2>2. CASE ~(r[1] = t[1] /\ r[3] = t[3])
    <3>1. Between(D, View(ss, r), View(ss, t))
      BY <1>9, <1>11, <2>2 DEF AllExplained, Explained
    <3>2. PICK x, y, u, v : x = View(ss, r) /\ y = View(ss, t) /\ u = View(new, r) /\ v = View(new, t)
      OBVIOUS
    <3>3. ShiftView(x, u, S, level, amount) /\ ShiftView(y, v, S, level, amount)
      BY <1>8, <3>2
    <3>4. PICK e \in D : e.from = x.n /\ e.to = y.n /\ Covers(e.dv, Apart(x, y))
      BY <3>1, <3>2 DEF Between
    <3>5. Covers(ShiftedVector(e, S, level, amount), Apart(u, v))
      BY <1>9, <3>3, <3>4, ShiftedCovers
    <3>6. PICK g \in E : WithVector(e, g, ShiftedVector(e, S, level, amount))
      BY <1>10
    <3>7. g.from = u.n /\ g.to = v.n /\ Covers(g.dv, Apart(u, v))
      BY <3>3, <3>4, <3>5, <3>6 DEF WithVector, ShiftView
    <3> QED BY <1>7, <3>2, <3>7 DEF Explained, Between
  <2> QED BY <2>1, <2>2
<1>12. AllExplained(new, E, R)
  BY <1>7, <1>11, ExplainedFollows
<1>13. ASSUME checked, Whole(ss, S, level) PROVE AllSooner(new, R)
  <2>1. ASSUME NEW r \in RunsIn(ss), NEW t \in RunsIn(ss), Dependent(ss, R, r, t)
        PROVE  Sooner(View(new, f[r]), View(new, f[t]))
    <3>1. PICK x, y : x = View(ss, r) /\ y = View(ss, t)
      OBVIOUS
    <3>2. Sooner(x, y)
      BY <1>13, <2>1, <3>1 DEF Describes, AllSooner
    <3>3. x.at \in Points /\ y.at \in Points
      BY <1>8, <3>1 DEF ShiftView
    <3>4. x.at[level] \in Int /\ y.at[level] \in Int
      BY <3>3 DEF Points
    <3>5. Affine(row, x.at) = x.at[level] + amount /\ Affine(row, y.at) = y.at[level] + amount
      BY <1>2, <3>3
    <3>6. Sooner(View(new, r), View(new, t))
      BY <1>2, <1>3, <1>13, <3>1, <3>2, <3>4, <3>5, MonotoneSooner
    <3> QED BY <1>7, <3>6
  <2> QED BY <1>7, <2>1, SoonerFollows
<1>14. ASSUME checked, Whole(ss, S, level) PROVE Forward(new, E)
  <2> SUFFICES ASSUME NEW g \in E, NEW l \in Loops, Together(new[g.from], new[g.to], l)
               PROVE  CarriedForward(g.dv, l)
    BY DEF Forward
  <2>1. PICK e \in D : WithVector(e, g, ShiftedVector(e, S, level, amount))
    BY <1>10
  <2>2. e.from \in DOMAIN ss /\ e.to \in DOMAIN ss /\ e.dv \in Vectors /\ g.from = e.from /\ g.to = e.to
    BY <1>9, <2>1 DEF Edges, WithVector
  <2>3. Together(ss[e.from], ss[e.to], l)
    BY <1>5, <2>2 DEF Together
  <2>4. CarriedForward(e.dv, l)
    BY <1>14, <2>3 DEF Describes, Forward
  <2>5. CASE e.from \in S <=> e.to \in S
    <3>1. g.dv = e.dv
      BY <2>1, <2>5 DEF WithVector, ShiftedVector
    <3> QED BY <2>4, <3>1
  <2>6. CASE ~(e.from \in S <=> e.to \in S)
    <3>1. ~Together(ss[e.from], ss[e.to], level)
      BY <1>14, <2>2, <2>6, WholeIs
    <3>2. l < level
      BY <2>3, <3>1, DimensionsAre DEF Together
    <3>3. OtherBounds(e.dv, g.dv, DimOf(level))
      <4>1. -amount \in Int /\ DimOf(level) \in Before(NDim)
        BY DimensionsAre
      <4>2. g.dv = MovedBy(e.dv, DimOf(level), -amount) \/ g.dv = MovedBy(e.dv, DimOf(level), amount)
        BY <2>1, <2>6 DEF WithVector, ShiftedVector
      <4> QED BY <2>2, <4>1, <4>2, MovedByIs
    <3> QED BY <2>4, <3>2, <3>3, OtherCarried
  <2> QED BY <2>5, <2>6
<1>15. E \subseteq Edges(new)
  BY <1>5, <1>10 DEF Edges
<1> QED BY <1>12, <1>13, <1>14, <1>15 DEF Describes
-----------------------------------------------------------------------------
(* skew: the bounds.                                                       *)

\* The sums that skew and nonsingular compute, and the first of them
Sums == [lb : Int, ub : Int]
NoSum == [lb |-> 0, ub |-> 0]

\* A turn of skew leaves two numbers.
LEMMA SkewTurnIs ==
  ASSUME NEW sum \in Sums, NEW dv \in Vectors, NEW dim \in Before(NDim), NEW amount \in Int
  PROVE  SkewTurn(sum, dv, dim, amount) \in Sums
<1> DEFINE low == Low(dv, dim, amount)
           high == High(dv, dim, amount)
           zero == dv.lb[dim] = 0 /\ dv.ub[dim] = 0
           l == IF sum.lb # -Infinity /\ low # -Far(amount) THEN sum.lb + amount * low
                ELSE IF zero THEN sum.lb ELSE -Infinity
           u == IF sum.ub # Infinity /\ high # Far(amount) THEN sum.ub + amount * high
                ELSE IF zero THEN sum.ub ELSE Infinity
<1>1. dv.lb[dim] \in Int /\ dv.ub[dim] \in Int /\ Infinity \in Int /\ sum.lb \in Int /\ sum.ub \in Int
  BY InfinityAssumption DEF Vectors, Sums
<1>2. low \in Int /\ high \in Int
  BY <1>1 DEF Low, High
<1>3. SkewTurn(sum, dv, dim, amount) = IF amount = 0 THEN sum ELSE [lb |-> l, ub |-> u]
  BY DEF SkewTurn
<1> HIDE DEF low, high, zero
<1>4. amount * low \in Int /\ amount * high \in Int
  BY <1>2
<1>5. l \in Int /\ u \in Int
  BY <1>1, <1>4
<1> HIDE DEF l, u
<1> QED BY <1>3, <1>5 DEF Sums

\* What the recursion of skew computes, turn by turn
IsSkewing(turn, dv, amounts) ==
  /\ turn \in [0 .. NDim -> Sums] /\ turn[0] = NoSum
  /\ \A l \in Loops : turn[l] = SkewTurn(turn[l-1], dv, DimOf(l), amounts[l])

\* dv with other bounds in a dimension
BoundsAt(dv, new, dim, sum) ==
  OtherBounds(dv, new, dim) /\ new.lb[dim] = sum.lb /\ new.ub[dim] = sum.ub

LEMMA BoundsAtIs ==
  ASSUME NEW dv \in Vectors, NEW dim \in Before(NDim), NEW sum \in Sums,
         NEW new, new = [dv EXCEPT !.lb[dim] = sum.lb, !.ub[dim] = sum.ub]
  PROVE  BoundsAt(dv, new, dim, sum)
<1> DEFINE lb == [dv.lb EXCEPT ![dim] = sum.lb]
           ub == [dv.ub EXCEPT ![dim] = sum.ub]
<1>1. dv = [type |-> dv.type, quasi |-> dv.quasi, lb |-> dv.lb, ub |-> dv.ub]
      /\ dv.type \in STRING /\ dv.quasi \in BOOLEAN
      /\ dv.lb \in [Before(NDim) -> Int] /\ dv.ub \in [Before(NDim) -> Int] /\ sum.lb \in Int /\ sum.ub \in Int
  BY DEF Vectors, Sums
<1>2. new = [dv EXCEPT !.lb = lb, !.ub = ub]
  BY <1>1
<1>3. lb \in [Before(NDim) -> Int] /\ ub \in [Before(NDim) -> Int] /\ lb[dim] = sum.lb /\ ub[dim] = sum.ub
      /\ \A i \in Before(NDim) : i # dim => lb[i] = dv.lb[i] /\ ub[i] = dv.ub[i]
  BY <1>1
<1> HIDE DEF lb, ub
<1>4. new = [type |-> dv.type, quasi |-> dv.quasi, lb |-> lb, ub |-> ub]
  BY <1>1, <1>2
<1>5. PICK w : w = [type |-> dv.type, quasi |-> dv.quasi, lb |-> lb, ub |-> ub]
  OBVIOUS
<1>6. w \in Vectors /\ w.lb = lb /\ w.ub = ub
  BY <1>1, <1>3, <1>5 DEF Vectors
<1>7. new = w
  BY <1>4, <1>5
<1> QED BY <1>3, <1>6, <1>7 DEF BoundsAt, OtherBounds

\* skew writes what its last turn computes.
LEMMA SkewedTurns ==
  ASSUME NEW dv \in Vectors, NEW level \in Loops, NEW amounts \in [Loops -> Int],
         NEW new, new = Skewed(dv, level, amounts)
  PROVE  \E turn : IsSkewing(turn, dv, amounts) /\ BoundsAt(dv, new, DimOf(level), turn[NDim])
<1> DEFINE step == [i \in 1 .. NDim |-> [x \in Sums |-> SkewTurn(x, dv, DimOf(i), amounts[i])]]
           P(g) == g = [l \in 0 .. NDim |-> IF l = 0 THEN [lb |-> 0, ub |-> 0]
                                            ELSE SkewTurn(g[l-1], dv, DimOf(l), amounts[l])]
           turn == CHOOSE g : P(g)
<1>1. ASSUME NEW i \in 1 .. NDim, NEW x \in Sums PROVE SkewTurn(x, dv, DimOf(i), amounts[i]) \in Sums
  <2>1. i \in Loops /\ DimOf(i) \in Before(NDim) /\ amounts[i] \in Int
    BY DimensionsAre DEF Loops
  <2> QED BY <2>1, SkewTurnIs
<1>2. step \in [1 .. NDim -> [Sums -> Sums]]
  BY <1>1
<1>3. \A i \in 1 .. NDim : \A x \in Sums : step[i][x] = SkewTurn(x, dv, DimOf(i), amounts[i])
  OBVIOUS
<1> HIDE DEF step
<1>4. NoSum \in Sums
  BY DEF NoSum, Sums
<1>5. NDim \in Nat
  BY DimensionsAre
<1>6. PICK h \in [0 .. NDim -> Sums] : IsRecursion(h, NoSum, NDim, step)
  BY <1>2, <1>4, <1>5, RecursionExists
<1>7. h[0] = NoSum /\ \A i \in 1 .. NDim : h[i] = step[i][h[i-1]]
  BY <1>6 DEF IsRecursion
<1>8. ASSUME NEW i \in 0 .. NDim
      PROVE  h[i] = IF i = 0 THEN [lb |-> 0, ub |-> 0] ELSE SkewTurn(h[i-1], dv, DimOf(i), amounts[i])
  <2>1. CASE i = 0
    BY <1>7, <2>1 DEF NoSum
  <2>2. CASE i # 0
    <3>1. i \in 1 .. NDim /\ i-1 \in 0 .. NDim
      BY <1>5, <2>2
    <3>2. h[i-1] \in Sums
      BY <1>6, <3>1
    <3> QED BY <1>3, <1>7, <2>2, <3>1, <3>2
  <2> QED BY <2>1, <2>2
<1>9. P(h)
  <2>1. h = [i \in 0 .. NDim |-> h[i]]
    BY <1>6
  <2> QED BY <1>8, <2>1
<1>10. P(turn)
  BY <1>9
<1>11. new = [dv EXCEPT !.lb[DimOf(level)] = turn[NDim].lb, !.ub[DimOf(level)] = turn[NDim].ub]
  BY DEF Skewed
<1> HIDE DEF turn
<1>12. turn[0] = NoSum
  BY <1>5, <1>10 DEF NoSum
<1>13. ASSUME NEW l \in Loops PROVE turn[l] = SkewTurn(turn[l-1], dv, DimOf(l), amounts[l])
  <2>1. l \in 0 .. NDim /\ l # 0
    BY DimensionsAre
  <2> QED BY <1>10, <2>1
<1>14. turn \in [0 .. NDim -> Sums]
  <2> DEFINE T == {i \in 0 .. NDim : turn[i] \in Sums}
  <2>1. 0 \in T
    BY <1>4, <1>5, <1>12
  <2>2. ASSUME NEW i \in 1 .. NDim, i-1 \in T PROVE i \in T
    <3>1. i \in Loops /\ i \in 0 .. NDim /\ turn[i-1] \in Sums
      BY <1>5, <2>2 DEF Loops
    <3>2. turn[i] \in Sums
      BY <1>1, <1>13, <3>1
    <3> QED BY <3>1, <3>2
  <2> HIDE DEF T
  <2>3. \A i \in 0 .. NDim : i \in T
    BY <1>5, <2>1, <2>2, UpTo
  <2>4. turn = [i \in 0 .. NDim |-> turn[i]]
    BY <1>10
  <2> QED BY <2>3, <2>4 DEF T
<1>15. turn[NDim] \in Sums
  BY <1>5, <1>14
<1>16. PICK sum : sum = turn[NDim]
  OBVIOUS
<1>17. BoundsAt(dv, new, DimOf(level), sum)
  <2>1. new = [dv EXCEPT !.lb[DimOf(level)] = sum.lb, !.ub[DimOf(level)] = sum.ub]
    BY <1>11, <1>16
  <2>2. DimOf(level) \in Before(NDim) /\ sum \in Sums
    BY <1>15, <1>16, DimensionsAre
  <2> QED BY <2>1, <2>2, BoundsAtIs
<1> QED BY <1>12, <1>13, <1>14, <1>16, <1>17 DEF IsSkewing

\* The terms of the new distance of skew
Terms(amounts, d) == [l \in Loops |-> amounts[l] * d[DimOf(l)]]

LEMMA TermsAre ==
  ASSUME NEW amounts \in [Loops -> Int], NEW d \in [Before(NDim) -> Int]
  PROVE  Terms(amounts, d) \in Points /\ \A l \in Loops : Terms(amounts, d)[l] = amounts[l] * d[DimOf(l)]
<1>1. \A l \in Loops : DimOf(l) \in Before(NDim)
  BY DimensionsAre
<1>2. \A l \in Loops : amounts[l] * d[DimOf(l)] \in Int
  BY <1>1
<1> QED BY <1>2 DEF Terms, Points

\* The bounds of skew cover the new distance.
LEMMA SkewedCovers ==
  ASSUME NEW dv \in Vectors, NEW level \in Loops, NEW amounts \in [Loops -> Int],
         NEW new, new = Skewed(dv, level, amounts), NEW d \in [Before(NDim) -> Int], Covers(dv, d)
  PROVE  /\ OtherBounds(dv, new, DimOf(level))
         /\ Above(new.lb[DimOf(level)], Sum(Terms(amounts, d))) /\ Below(Sum(Terms(amounts, d)), new.ub[DimOf(level)])
<1>1. PICK turn : IsSkewing(turn, dv, amounts) /\ BoundsAt(dv, new, DimOf(level), turn[NDim])
  BY SkewedTurns
<1>2. PICK f : f = Terms(amounts, d)
  OBVIOUS
<1>3. f \in Points /\ \A l \in Loops : f[l] = amounts[l] * d[DimOf(l)]
  BY <1>2, TermsAre
<1>4. PICK g \in [0 .. NDim -> Int] : Partial(f, g) /\ Sum(f) = g[NDim]
  BY <1>3, SumIsPartial
<1> DEFINE T == {i \in 0 .. NDim : SumCovers(turn[i], g[i])}
<1>5. 0 \in T
  <2>1. turn[0] = NoSum /\ g[0] = 0 /\ 0 \in 0 .. NDim
    BY <1>1, <1>4, DimensionsAre DEF IsSkewing, Partial
  <2>2. SumCovers(NoSum, 0)
    BY InfinityAssumption DEF SumCovers, NoSum, Above, Below
  <2> QED BY <2>1, <2>2
<1>6. ASSUME NEW i \in 1 .. NDim, i-1 \in T PROVE i \in T
  <2>1. i \in Loops /\ i \in 0 .. NDim /\ i-1 \in 0 .. NDim
    BY DimensionsAre DEF Loops
  <2>2. turn[i] = SkewTurn(turn[i-1], dv, DimOf(i), amounts[i]) /\ turn[i-1] \in [lb : Int, ub : Int]
    BY <1>1, <2>1 DEF IsSkewing, Sums
  <2>3. g[i] = g[i-1] + amounts[i] * d[DimOf(i)] /\ g[i-1] \in Int
    BY <1>3, <1>4, <2>1 DEF Partial
  <2>4. SumCovers(turn[i-1], g[i-1])
    BY <1>6
  <2>5. PICK B, dim, sum, x, amount : /\ B = Before(NDim) /\ dim = DimOf(i) /\ sum = turn[i-1] /\ x = g[i-1] /\ amount = amounts[i]
    OBVIOUS
  <2>6. /\ B \in SUBSET Nat /\ dv \in VectorsOver(B) /\ d \in [B -> Int] /\ dim \in B /\ amount \in Int /\ x \in Int
        /\ sum \in [lb : Int, ub : Int] /\ SumCovers(sum, x) /\ Covers(dv, d)
    BY <2>1, <2>2, <2>3, <2>4, <2>5, VectorsAre, DimensionsAre
  <2>7. SumCovers(SkewTurn(sum, dv, dim, amount), x + amount * d[dim])
    BY <2>6, SkewTurnCovers
  <2> QED BY <2>1, <2>2, <2>3, <2>5, <2>7
<1> HIDE DEF T
<1>7. NDim \in T
  <2>1. \A i \in 0 .. NDim : i \in T
    BY <1>5, <1>6, UpTo, DimensionsAre
  <2> QED BY <2>1, DimensionsAre
<1>8. SumCovers(turn[NDim], Sum(f))
  BY <1>4, <1>7 DEF T
<1> QED BY <1>1, <1>2, <1>8 DEF BoundsAt, SumCovers

\* An affine function of two points that differ, as far as it sees, in one loop
LEMMA AffineAlong ==
  ASSUME NEW row \in Rows, NEW level \in Loops, NEW p \in Points, NEW q \in Points,
         \A l \in Loops \ {level} : row.coef[l] = 0 \/ q[l] = p[l]
  PROVE  Affine(row, q) = Affine(row, p) + row.coef[level] * (q[level] - p[level])
<1> DEFINE f == [k \in Loops |-> row.coef[k] * p[k]]
           h == [k \in Loops |-> row.coef[k] * q[k]]
<1>1. f \in Points /\ h \in Points
  BY AffineIs
<1>2. ASSUME NEW l \in Loops \ {level} PROVE h[l] = f[l]
  <2>1. p[l] \in Int /\ q[l] \in Int
    BY DEF Points
  <2>2. CASE row.coef[l] = 0
    <3>1. h[l] = 0 * q[l] /\ f[l] = 0 * p[l]
      BY <2>2
    <3> HIDE DEF h, f
    <3> QED BY <2>1, <3>1
  <2>3. CASE q[l] = p[l]
    BY <2>3
  <2> QED BY <2>2, <2>3
<1>3. f[level] = row.coef[level] * p[level] /\ h[level] = row.coef[level] * q[level]
  OBVIOUS
<1>4. Affine(row, p) = row.const + Sum(f) /\ Affine(row, q) = row.const + Sum(h)
  BY DEF Affine
<1> HIDE DEF f, h
<1>5. Sum(h) = Sum(f) + (h[level] - f[level])
  BY <1>1, <1>2, SumExcept
<1>6. Sum(f) \in Int /\ row.const \in Int /\ row.coef[level] \in Int /\ p[level] \in Int /\ q[level] \in Int
  BY <1>1, SumInt DEF Rows, Points
<1>7. row.coef[level] * (q[level] - p[level]) = row.coef[level] * q[level] - row.coef[level] * p[level]
  BY <1>6, SMT
<1> QED BY <1>3, <1>4, <1>5, <1>6, <1>7

\* An affine function of two positions differs by its terms of the distance.
LEMMA AffineApart ==
  ASSUME NEW row \in Rows, NEW x, NEW y, x.at \in Points, y.at \in Points
  PROVE  /\ Affine(row, x.at) \in Int /\ Affine(row, y.at) \in Int
         /\ Affine(row, y.at) - Affine(row, x.at) = Sum(Terms(row.coef, Apart(x, y)))
<1>1. PICK c, p, q, d : c = row.coef /\ p = x.at /\ q = y.at /\ d = Apart(x, y)
  OBVIOUS
<1>2. c \in [Loops -> Int] /\ p \in Points /\ q \in Points
  BY <1>1 DEF Rows
<1>3. d \in [Before(NDim) -> Int] /\ \A l \in Loops : d[DimOf(l)] = q[l] - p[l]
  BY <1>1, ApartIs
<1> DEFINE f == [k \in Loops |-> row.coef[k] * p[k]]
           h == [k \in Loops |-> row.coef[k] * q[k]]
<1>4. f \in Points /\ h \in Points
  BY <1>2, AffineIs
<1>5. Affine(row, p) = row.const + Sum(f) /\ Affine(row, q) = row.const + Sum(h)
  BY DEF Affine
<1>6. PICK t : t = Terms(c, d)
  OBVIOUS
<1>7. t \in Points /\ \A l \in Loops : t[l] = c[l] * d[DimOf(l)]
  BY <1>2, <1>3, <1>6, TermsAre
<1>8. ASSUME NEW k \in Loops PROVE f[k] + t[k] = h[k]
  <2>1. PICK a, v, w : a = c[k] /\ v = p[k] /\ w = q[k]
    OBVIOUS
  <2>2. a \in Int /\ v \in Int /\ w \in Int
    BY <1>2, <2>1 DEF Points
  <2>3. t[k] = a * (w - v)
    BY <1>3, <1>7, <2>1
  <2>4. f[k] = a * v /\ h[k] = a * w
    BY <1>1, <2>1
  <2>5. a * v + a * (w - v) = a * w
    BY <2>2, SMT
  <2> HIDE DEF f, h
  <2> QED BY <2>3, <2>4, <2>5
<1>9. Sum([k \in Loops |-> f[k] + t[k]]) = Sum(f) + Sum(t)
  <2> HIDE DEF f
  <2> QED BY <1>4, <1>7, SumAdd
<1>10. [k \in Loops |-> f[k] + t[k]] = h
  <2>1. [k \in Loops |-> f[k] + t[k]] = [k \in Loops |-> h[k]]
    BY <1>8
  <2>2. h = [k \in Loops |-> h[k]]
    OBVIOUS
  <2> HIDE DEF f, h
  <2> QED BY <2>1, <2>2
<1> HIDE DEF f, h
<1>11. Sum(f) \in Int /\ Sum(h) \in Int /\ Sum(t) \in Int /\ row.const \in Int
  BY <1>4, <1>7, SumInt DEF Rows
<1> QED BY <1>1, <1>5, <1>6, <1>9, <1>10, <1>11

\* The new dimension of skew where the loops around have distance zero and the
\* loops inside do not count
LEMMA SkewedFirst ==
  ASSUME NEW dv \in Vectors, NEW level \in Loops, NEW amounts \in [Loops -> Int], amounts[level] # 0,
         \A l \in level+1 .. NDim : amounts[l] = 0,
         NEW new, new = Skewed(dv, level, amounts), NEW dim, dim = DimOf(level),
         \A i \in Before(dim) : dv.lb[i] = 0 /\ dv.ub[i] = 0
  PROVE  /\ dv.lb[dim] = 0 /\ dv.ub[dim] = 0 => new.lb[dim] = 0 /\ new.ub[dim] = 0
         /\ dv.lb[dim] > 0 /\ amounts[level] > 0 => new.lb[dim] > 0
         /\ dv.lb[dim] > 0 /\ amounts[level] < 0 => new.ub[dim] < 0
<1>1. PICK turn : IsSkewing(turn, dv, amounts) /\ BoundsAt(dv, new, DimOf(level), turn[NDim])
  BY SkewedTurns
<1>0. NDim \in Nat /\ level \in Nat /\ level >= 1 /\ level <= NDim /\ level-1 \in 0 .. NDim /\ level \in 0 .. NDim /\ dim \in Before(NDim)
  BY DimensionsAre
<1> DEFINE T == {i \in 0 .. NDim : i < level => turn[i] = NoSum}
           U == {i \in 0 .. NDim : i >= level => turn[i] = turn[level]}
<1>2. 0 \in T /\ 0 \in U
  BY <1>0, <1>1 DEF IsSkewing
<1>3. ASSUME NEW i \in 1 .. NDim, i-1 \in T PROVE i \in T
  <2>1. i \in 0 .. NDim /\ i \in Loops
    BY DEF Loops
  <2>2. CASE i < level
    <3>1. turn[i-1] = NoSum /\ turn[i] = SkewTurn(turn[i-1], dv, DimOf(i), amounts[i])
      BY <1>0, <1>1, <1>3, <2>1, <2>2 DEF IsSkewing
    <3>2. DimOf(i) \in Before(dim)
      BY <1>0, <2>1, <2>2 DEF DimOf, Before
    <3>3. dv.lb[DimOf(i)] = 0 /\ dv.ub[DimOf(i)] = 0 /\ amounts[i] \in Int /\ amounts[i] * 0 = 0
      BY <2>1, <3>2
    <3>4. SkewTurn(NoSum, dv, DimOf(i), amounts[i]) = NoSum
      <4>1. Infinity \in Int /\ Infinity > 0
        BY InfinityAssumption
      <4>2. Low(dv, DimOf(i), amounts[i]) = 0 /\ High(dv, DimOf(i), amounts[i]) = 0
        BY <3>3 DEF Low, High
      <4>3. Far(amounts[i]) # 0 /\ -Far(amounts[i]) # 0 /\ -Infinity # 0
        BY <4>1 DEF Far
      <4> QED BY <3>3, <4>1, <4>2, <4>3 DEF SkewTurn, NoSum
    <3> QED BY <2>1, <3>1, <3>4
  <2>3. CASE ~(i < level)
    BY <2>1, <2>3
  <2> QED BY <2>2, <2>3
<1>4. ASSUME NEW i \in 1 .. NDim, i-1 \in U PROVE i \in U
  <2>1. i \in 0 .. NDim /\ i \in Loops
    BY DEF Loops
  <2>2. CASE i > level
    <3>1. turn[i-1] = turn[level] /\ turn[i] = SkewTurn(turn[i-1], dv, DimOf(i), amounts[i])
      BY <1>0, <1>1, <1>4, <2>1, <2>2 DEF IsSkewing
    <3>2. amounts[i] = 0
      BY <1>0, <2>1, <2>2
    <3>3. turn[i] = turn[i-1]
      BY <3>1, <3>2 DEF SkewTurn
    <3> QED BY <2>1, <3>1, <3>3
  <2>3. CASE ~(i > level)
    BY <1>0, <2>1, <2>3
  <2> QED BY <2>2, <2>3
<1> HIDE DEF T, U
<1>5. \A i \in 0 .. NDim : i \in T
  BY <1>0, <1>2, <1>3, UpTo
<1>6. \A i \in 0 .. NDim : i \in U
  BY <1>0, <1>2, <1>4, UpTo
<1>7. turn[level-1] = NoSum
  BY <1>0, <1>5 DEF T
<1>8. turn[NDim] = turn[level]
  BY <1>0, <1>6 DEF U
<1>9. turn[level] = SkewTurn(NoSum, dv, dim, amounts[level])
  BY <1>1, <1>7 DEF IsSkewing
<1>10. PICK a, lb, ub, sum : a = amounts[level] /\ lb = dv.lb[dim] /\ ub = dv.ub[dim] /\ sum = turn[level]
  OBVIOUS
<1>11. a \in Int /\ a # 0 /\ lb \in Int /\ ub \in Int /\ Infinity \in Int /\ Infinity > 0
  BY <1>0, <1>10, InfinityAssumption DEF Vectors
<1>12. new.lb[dim] = sum.lb /\ new.ub[dim] = sum.ub
  BY <1>1, <1>8, <1>10 DEF BoundsAt
<1>13. Low(dv, dim, a) = (IF a > 0 THEN lb ELSE ub) /\ High(dv, dim, a) = (IF a > 0 THEN ub ELSE lb)
  BY <1>10 DEF Low, High
<1>14. sum = [lb |-> IF Low(dv, dim, a) # -Far(a) THEN 0 + a * Low(dv, dim, a)
                   ELSE IF lb = 0 /\ ub = 0 THEN 0 ELSE -Infinity,
            ub |-> IF High(dv, dim, a) # Far(a) THEN 0 + a * High(dv, dim, a)
                   ELSE IF lb = 0 /\ ub = 0 THEN 0 ELSE Infinity]
  <2>1. -Infinity # 0 /\ Infinity # 0
    BY <1>11
  <2>2. NoSum.lb = 0 /\ NoSum.ub = 0
    BY DEF NoSum
  <2> QED BY <1>9, <1>10, <1>11, <2>1, <2>2 DEF SkewTurn
<1>15. CASE lb = 0 /\ ub = 0
  <2>1. Low(dv, dim, a) = 0 /\ High(dv, dim, a) = 0 /\ a * 0 = 0
    BY <1>11, <1>13, <1>15
  <2> QED BY <1>10, <1>12, <1>14, <1>15, <2>1
<1>16. CASE lb > 0 /\ a > 0
  <2>1. Low(dv, dim, a) = lb /\ Far(a) = Infinity /\ lb # -Infinity
    BY <1>11, <1>13, <1>16 DEF Far
  <2>2. a * lb > 0
    BY <1>11, <1>16, SMT
  <2>3. sum.lb = 0 + a * lb
    BY <1>14, <2>1
  <2>4. a * lb \in Int
    BY <1>11
  <2> QED BY <1>10, <1>11, <1>12, <1>16, <2>2, <2>3, <2>4
<1>17. CASE lb > 0 /\ a < 0
  <2>1. High(dv, dim, a) = lb /\ Far(a) = -Infinity /\ lb # -Infinity
    BY <1>11, <1>13, <1>17 DEF Far
  <2>2. a * lb < 0
    <3>1. (-a) * lb > 0
      BY <1>11, <1>17, SMT
    <3>2. (-a) * lb = -(a * lb)
      BY <1>11, SMT
    <3>3. a * lb \in Int
      BY <1>11
    <3> QED BY <3>1, <3>2, <3>3
  <2>3. sum.ub = 0 + a * lb
    BY <1>14, <2>1
  <2>4. a * lb \in Int
    BY <1>11
  <2> QED BY <1>10, <1>11, <1>12, <1>17, <2>2, <2>3, <2>4
<1> QED BY <1>10, <1>11, <1>15, <1>16, <1>17
-----------------------------------------------------------------------------
(* skew: the vectors and the order.                                        *)

\* What skew makes of a vector
SkewedVector(e, S, level, amounts) ==
  IF e.from \in S /\ e.to \in S THEN Skewed(e.dv, level, amounts)
  ELSE IF e.from \in S \/ e.to \in S THEN Jumbled(e.dv, DimOf(level))
  ELSE e.dv

LEMMA SkewedVectorIs ==
  ASSUME NEW ss, NEW e \in Edges(ss), NEW S, NEW level \in Loops, NEW amounts \in [Loops -> Int],
         NEW new, new = SkewedVector(e, S, level, amounts)
  PROVE  OtherBounds(e.dv, new, DimOf(level))
<1>1. e.dv \in Vectors /\ DimOf(level) \in Before(NDim)
  BY DimensionsAre DEF Edges
<1>2. CASE e.from \in S /\ e.to \in S
  <2>1. new = Skewed(e.dv, level, amounts)
    BY <1>2 DEF SkewedVector
  <2>2. PICK turn : BoundsAt(e.dv, new, DimOf(level), turn[NDim])
    BY <1>1, <2>1, SkewedTurns
  <2> QED BY <2>2 DEF BoundsAt
<1>3. CASE ~(e.from \in S /\ e.to \in S) /\ (e.from \in S \/ e.to \in S)
  <2>1. new = Jumbled(e.dv, DimOf(level))
    BY <1>3 DEF SkewedVector
  <2> QED BY <1>1, <2>1, JumbledIs
<1>4. CASE e.from \notin S /\ e.to \notin S
  <2>1. new = e.dv
    BY <1>4 DEF SkewedVector
  <2> QED BY <1>1, <2>1 DEF OtherBounds
<1> QED BY <1>2, <1>3, <1>4

\* When skew refuses nothing, every vector is updated and none is illegal.
LEMMA SkewDepsAre ==
  ASSUME NEW ss, NEW D \in SUBSET Edges(ss), NEW S, NEW level \in Loops, NEW amounts \in [Loops -> Int],
         NEW P, P = SkewDeps(D, S, level, amounts)
  PROVE  /\ P.dep \subseteq Edges(ss)
         /\ ~P.refused =>
              /\ \A e \in D : \E f \in P.dep : WithVector(e, f, SkewedVector(e, S, level, amounts))
              /\ \A f \in P.dep : \E e \in D : WithVector(e, f, SkewedVector(e, S, level, amounts))
              /\ \A e \in D : e.from \in S /\ e.to \in S => ~SkewIllegal(SkewedVector(e, S, level, amounts), level)
<1> DEFINE inside(e)  == e.from \in S /\ e.to \in S
           new(e)     == Skewed(e.dv, level, amounts)
           updated(e) == CASE inside(e) -> [e EXCEPT !.dv = new(e)]
                           [] (e.from \in S) # (e.to \in S) -> [e EXCEPT !.dv = Jumbled(@, DimOf(level))]
                           [] OTHER -> e
           illegal == {e \in D : inside(e) /\ SkewIllegal(new(e), level)}
           reached(e) == \A i \in illegal : e.from < i.from \/ (e.from = i.from /\ e.to < i.to)
           done(e) == IF e.from \in S THEN reached(e) ELSE illegal = {}
           with(e) == [e EXCEPT !.dv = SkewedVector(e, S, level, amounts)]
<1>1. ASSUME NEW e \in D PROVE with(e) \in Edges(ss) /\ WithVector(e, with(e), SkewedVector(e, S, level, amounts))
  <2>1. PICK dv : dv = SkewedVector(e, S, level, amounts)
    OBVIOUS
  <2>2. dv \in Vectors
    BY <2>1, SkewedVectorIs DEF OtherBounds
  <2> QED BY <2>1, <2>2, EdgeIs
<1>2. ASSUME NEW e \in D PROVE updated(e) = with(e)
  <2>1. CASE e.from \in S /\ e.to \in S
    BY <2>1 DEF SkewedVector
  <2>2. CASE ~(e.from \in S /\ e.to \in S) /\ (e.from \in S \/ e.to \in S)
    BY <2>2 DEF SkewedVector
  <2>3. CASE e.from \notin S /\ e.to \notin S
    <3>1. updated(e) = e
      BY <2>3
    <3>2. SkewedVector(e, S, level, amounts) = e.dv
      BY <2>3 DEF SkewedVector
    <3>3. [e EXCEPT !.dv = e.dv] = e
      BY DEF Edges
    <3> QED BY <3>1, <3>2, <3>3
  <2> QED BY <2>1, <2>2, <2>3
<1>3. P = [refused |-> illegal # {}, dep |-> {IF done(e) THEN updated(e) ELSE e : e \in D}]
  BY DEF SkewDeps
<1> HIDE DEF updated, with
<1>4. P.dep = {IF done(e) THEN updated(e) ELSE e : e \in D} /\ (P.refused <=> illegal # {})
  <2>1. PICK W, Q : W = {IF done(e) THEN updated(e) ELSE e : e \in D} /\ Q = illegal
    OBVIOUS
  <2>2. P = [refused |-> Q # {}, dep |-> W]
    BY <1>3, <2>1, Zenon
  <2>3. PICK b \in BOOLEAN : b = (Q # {})
    OBVIOUS
  <2>4. P = [refused |-> b, dep |-> W]
    BY <2>2, <2>3, Zenon
  <2>5. P.dep = W /\ P.refused = b
    BY <2>4
  <2> HIDE DEF done, illegal
  <2> QED BY <2>1, <2>3, <2>5
<1>5. P.dep \subseteq Edges(ss)
  <2> HIDE DEF done
  <2> QED BY <1>1, <1>2, <1>4
<1>6. ASSUME ~P.refused
      PROVE  /\ \A e \in D : \E f \in P.dep : WithVector(e, f, SkewedVector(e, S, level, amounts))
             /\ \A f \in P.dep : \E e \in D : WithVector(e, f, SkewedVector(e, S, level, amounts))
             /\ \A e \in D : e.from \in S /\ e.to \in S => ~SkewIllegal(SkewedVector(e, S, level, amounts), level)
  <2>1. illegal = {}
    BY <1>4, <1>6
  <2>2. \A e \in D : done(e)
    BY <2>1
  <2> HIDE DEF done
  <2>3. P.dep = {with(e) : e \in D}
    BY <1>2, <1>4, <2>2
  <2>4. \A e \in D : e.from \in S /\ e.to \in S => ~SkewIllegal(SkewedVector(e, S, level, amounts), level)
    BY <2>1 DEF SkewedVector
  <2> HIDE DEF illegal
  <2> QED BY <1>1, <2>3, <2>4
<1> HIDE DEF illegal, done
<1> QED BY <1>5, <1>6

\* A distance whose outer part is zero is not carried outside.
LEMMA ZeroOutside ==
  ASSUME NEW dv \in Vectors, NEW l \in Loops, CarriedForward(dv, l), NEW dim, dim = DimOf(l),
         NEW d \in [Before(NDim) -> Int], Covers(dv, d), \A k \in Before(dim) : d[k] = 0, d[dim] # 0
  PROVE  /\ \A k \in Before(dim) : dv.lb[k] = 0 /\ dv.ub[k] = 0
         /\ dv.lb[dim] > 0
<1>0. dim \in Before(NDim) /\ dim \in Nat /\ dim+1 = l /\ Infinity \in Int /\ Infinity > 0
      /\ \A k \in Before(dim) : k \in Before(l) /\ k \in Before(NDim) /\ k \in Nat
  BY DimensionsAre, InfinityAssumption DEF Before, DimOf
<1>1. \A k \in Before(NDim) : Above(dv.lb[k], d[k]) /\ Below(d[k], dv.ub[k]) /\ dv.lb[k] \in Int /\ dv.ub[k] \in Int
  BY CoversIs DEF Vectors
<1> DEFINE Z(k) == dv.lb[k] = 0 /\ dv.ub[k] = 0
           T == {n \in 0 .. dim : \A k \in Before(n) : Z(k)}
<1>2. 0 \in T
  BY <1>0 DEF Before
<1>3. ASSUME NEW i \in 1 .. dim, i-1 \in T PROVE i \in T
  <2>1. PICK k : k = i-1
    OBVIOUS
  <2>2. k \in Before(dim) /\ \A j \in Before(k) : Z(j)
    BY <1>0, <1>3, <2>1 DEF Before
  <2>3. dv.lb[k] > 0 \/ (dv.lb[k] = 0 /\ dv.ub[k] = 0)
    <3>1. \A j \in Before(k) : dv.lb[j] = 0 /\ dv.ub[j] = 0
      BY <2>2
    <3> QED BY <1>0, <2>2, <3>1 DEF CarriedForward
  <2>4. ~(dv.lb[k] > 0)
    <3>1. d[k] = 0 /\ Above(dv.lb[k], d[k]) /\ dv.lb[k] \in Int
      BY <1>0, <1>1, <2>2
    <3> QED BY <1>0, <3>1 DEF Above
  <2>5. \A j \in Before(i) : j \in Before(k) \/ j = k
    BY <1>0, <2>1 DEF Before
  <2> HIDE DEF Z
  <2>6. \A j \in Before(i) : Z(j)
    BY <2>2, <2>3, <2>4, <2>5 DEF Z
  <2> QED BY <1>0, <2>6
<1> HIDE DEF T
<1>4. \A i \in 0 .. dim : i \in T
  BY <1>0, <1>2, <1>3, UpTo
<1>5. \A k \in Before(dim) : dv.lb[k] = 0 /\ dv.ub[k] = 0
  <2>1. dim \in 0 .. dim
    BY <1>0
  <2>2. \A k \in Before(dim) : Z(k)
    BY <1>4, <2>1 DEF T
  <2> QED BY <2>2
<1>6. dv.lb[dim] > 0 \/ (dv.lb[dim] = 0 /\ dv.ub[dim] = 0)
  <2>1. dim \in Before(l)
    BY <1>0 DEF Before
  <2> QED BY <1>5, <2>1 DEF CarriedForward
<1>7. ~(dv.lb[dim] = 0 /\ dv.ub[dim] = 0)
  <2>1. Above(dv.lb[dim], d[dim]) /\ Below(d[dim], dv.ub[dim]) /\ d[dim] \in Int
    BY <1>0, <1>1
  <2> QED BY <1>0, <2>1 DEF Above, Below
<1> QED BY <1>5, <1>6, <1>7

\* A vector that skew does not refuse goes forward as before.
LEMMA SkewedForward ==
  ASSUME NEW dv \in Vectors, NEW level \in Loops, NEW amounts \in [Loops -> Int], amounts[level] # 0,
         \A l \in level+1 .. NDim : amounts[l] = 0,
         NEW new, new = Skewed(dv, level, amounts), ~SkewIllegal(new, level),
         NEW l \in Loops, level <= l, CarriedForward(dv, l)
  PROVE  CarriedForward(new, l)
<1>1. PICK dim : dim = DimOf(level)
  OBVIOUS
<1>0. /\ dim \in Before(NDim) /\ dim \in Nat /\ dim+1 = level /\ l \in Nat /\ level \in Nat
      /\ \A k \in Before(dim) : k \in Before(NDim) /\ k # dim
      /\ \A k \in Before(l) : k \in Before(NDim) /\ k \in Nat
      /\ dim \in Before(l)
  BY <1>1, DimensionsAre DEF Before, DimOf
<1>2. OtherBounds(dv, new, dim)
  <2>1. PICK turn : BoundsAt(dv, new, DimOf(level), turn[NDim])
    BY SkewedTurns
  <2> QED BY <1>1, <2>1 DEF BoundsAt
<1>3. new.lb[dim] \in Int /\ new.ub[dim] \in Int /\ amounts[level] \in Int
  BY <1>0, <1>2 DEF OtherBounds, Vectors
<1>4. ASSUME \A k \in Before(dim) : dv.lb[k] = 0 /\ dv.ub[k] = 0
      PROVE  \/ dv.lb[dim] > 0 /\ new.lb[dim] > 0
             \/ dv.lb[dim] = 0 /\ dv.ub[dim] = 0 /\ new.lb[dim] = 0 /\ new.ub[dim] = 0
  <2>1. dv.lb[dim] > 0 \/ (dv.lb[dim] = 0 /\ dv.ub[dim] = 0)
    BY <1>0, <1>4 DEF CarriedForward
  <2>2. /\ dv.lb[dim] = 0 /\ dv.ub[dim] = 0 => new.lb[dim] = 0 /\ new.ub[dim] = 0
        /\ dv.lb[dim] > 0 /\ amounts[level] > 0 => new.lb[dim] > 0
        /\ dv.lb[dim] > 0 /\ amounts[level] < 0 => new.ub[dim] < 0
    BY <1>1, <1>4, SkewedFirst
  <2>3. IsCarried(new, dim)
    <3>1. \A i \in Before(dim) : new.lb[i] = 0 /\ new.ub[i] = 0
      BY <1>0, <1>2, <1>4 DEF OtherBounds
    <3>2. dim \in DOMAIN new.lb
      BY <1>0, <1>2 DEF OtherBounds, Vectors
    <3>3. \A i \in Before(dim) : new.lb[i] <= 0 /\ new.ub[i] >= 0
      <4>1. \A z : z = 0 => z <= 0 /\ z >= 0
        OBVIOUS
      <4> QED BY <3>1, <4>1, Zenon
    <3>4. (IF dim \in DOMAIN new.lb THEN Before(dim) ELSE DOMAIN new.lb) = Before(dim)
      BY <3>2
    <3> QED BY <3>3, <3>4, Zenon DEF IsCarried
  <2>4. ~(new.ub[dim] < 0)
    BY <1>1, <2>3 DEF SkewIllegal, HasNegative
  <2> QED BY <1>3, <2>1, <2>2, <2>4
<1> SUFFICES ASSUME NEW i \in Before(l), \A k \in Before(i) : new.lb[k] = 0 /\ new.ub[k] = 0
             PROVE  new.lb[i] > 0 \/ (new.lb[i] = 0 /\ new.ub[i] = 0)
  BY DEF CarriedForward
<1>5. i \in Nat /\ i \in Before(NDim)
  BY <1>0
<1>6. CASE i < dim
  <2>1. \A k \in Before(i) : k \in Before(NDim) /\ k # dim
    BY <1>0, <1>5, <1>6 DEF Before
  <2>2. \A k \in Before(i) : dv.lb[k] = 0 /\ dv.ub[k] = 0
    BY <1>2, <2>1 DEF OtherBounds
  <2>3. dv.lb[i] > 0 \/ (dv.lb[i] = 0 /\ dv.ub[i] = 0)
    BY <2>2 DEF CarriedForward
  <2> QED BY <1>0, <1>2, <1>5, <1>6, <2>3 DEF OtherBounds
<1>7. CASE i = dim
  <2>1. \A k \in Before(dim) : dv.lb[k] = 0 /\ dv.ub[k] = 0
    BY <1>0, <1>2, <1>7 DEF OtherBounds
  <2> QED BY <1>4, <1>7, <2>1
<1>8. CASE i > dim
  <2>1. \A k \in Before(dim) : k \in Before(i)
    BY <1>0, <1>5, <1>8 DEF Before
  <2>2. \A k \in Before(dim) : dv.lb[k] = 0 /\ dv.ub[k] = 0
    BY <1>0, <1>2, <2>1 DEF OtherBounds
  <2>3. dim \in Before(i)
    BY <1>0, <1>5, <1>8 DEF Before
  <2>4. new.lb[dim] = 0 /\ new.ub[dim] = 0
    BY <2>3
  <2>5. dv.lb[dim] = 0 /\ dv.ub[dim] = 0
    BY <1>4, <2>2, <2>4
  <2>6. \A k \in Before(i) : k \in Before(NDim)
    BY <1>5, DimensionsAre DEF Before
  <2>7. \A k \in Before(i) : dv.lb[k] = 0 /\ dv.ub[k] = 0
    BY <1>2, <2>5, <2>6 DEF OtherBounds
  <2>8. dv.lb[i] > 0 \/ (dv.lb[i] = 0 /\ dv.ub[i] = 0)
    BY <2>7 DEF CarriedForward
  <2> QED BY <1>0, <1>2, <1>5, <1>8, <2>8 DEF OtherBounds
<1> QED BY <1>0, <1>5, <1>6, <1>7, <1>8

\* A new row for a loop changes distances in its dimension.
LEMMA RowApart ==
  ASSUME NEW S, NEW level \in Loops, NEW row,
         NEW x, NEW y, NEW u, NEW v, RowView(x, u, S, level, row), RowView(y, v, S, level, row)
  PROVE  /\ OtherApart(Apart(x, y), Apart(u, v), DimOf(level))
         /\ Apart(u, v)[DimOf(level)] = v.at[level] - u.at[level]
         /\ Apart(x, y)[DimOf(level)] = y.at[level] - x.at[level]
         /\ v.at[level] \in Int /\ u.at[level] \in Int /\ y.at[level] \in Int /\ x.at[level] \in Int
<1>1. x.at \in Points /\ y.at \in Points /\ u.at \in Points /\ v.at \in Points
  BY DEF RowView
<1>2. PICK d, g : d = Apart(x, y) /\ g = Apart(u, v)
  OBVIOUS
<1>3. /\ d \in [Before(NDim) -> Int] /\ g \in [Before(NDim) -> Int]
      /\ \A k \in Before(NDim) : d[k] = y.at[k+1] - x.at[k+1] /\ g[k] = v.at[k+1] - u.at[k+1]
      /\ d[DimOf(level)] = y.at[level] - x.at[level] /\ g[DimOf(level)] = v.at[level] - u.at[level]
  BY <1>1, <1>2, ApartIs
<1>4. ASSUME NEW k \in Before(NDim), k # DimOf(level) PROVE g[k] = d[k]
  <2>1. PICK l : l = k+1
    OBVIOUS
  <2>2. l \in Loops \ {level}
    BY <1>4, <2>1, DimensionsAre DEF DimOf
  <2>3. u.at[l] = x.at[l] /\ v.at[l] = y.at[l]
    BY <2>2 DEF RowView
  <2> QED BY <1>3, <2>1, <2>3
<1>5. v.at[level] \in Int /\ u.at[level] \in Int /\ y.at[level] \in Int /\ x.at[level] \in Int
  BY <1>1 DEF Points
<1> QED BY <1>2, <1>3, <1>4, <1>5 DEF OtherApart

\* The row that skew puts in
SkewRow(amounts) == [coef |-> amounts, const |-> 0]

LEMMA SkewRowIs ==
  ASSUME NEW amounts \in [Loops -> Int]
  PROVE  SkewRow(amounts) \in Rows /\ SkewRow(amounts).coef = amounts
<1>1. PICK row : row = SkewRow(amounts)
  OBVIOUS
<1>2. row.coef = amounts /\ row \in Rows
  BY <1>1 DEF SkewRow, Rows
<1> QED BY <1>1, <1>2

\* The vectors cover how far apart the runs are after skew.
LEMMA SkewedVectorCovers ==
  ASSUME NEW ss, NEW e \in Edges(ss), NEW S, NEW level \in Loops, NEW amounts \in [Loops -> Int],
         NEW x, NEW y, NEW u, NEW v, RowView(x, u, S, level, SkewRow(amounts)), RowView(y, v, S, level, SkewRow(amounts)),
         e.from = x.n, e.to = y.n, Covers(e.dv, Apart(x, y))
  PROVE  Covers(SkewedVector(e, S, level, amounts), Apart(u, v))
<1>1. PICK d, g, new, dim : d = Apart(x, y) /\ g = Apart(u, v) /\ new = SkewedVector(e, S, level, amounts) /\ dim = DimOf(level)
  OBVIOUS
<1>2. OtherBounds(e.dv, new, dim)
  BY <1>1, SkewedVectorIs
<1>3. /\ OtherApart(d, g, dim) /\ g[dim] = v.at[level] - u.at[level] /\ d[dim] = y.at[level] - x.at[level]
      /\ v.at[level] \in Int /\ u.at[level] \in Int /\ y.at[level] \in Int /\ x.at[level] \in Int
  BY <1>1, RowApart
<1>4. dim \in Before(NDim) /\ e.dv \in Vectors /\ g[dim] \in Int /\ d \in [Before(NDim) -> Int] /\ g \in [Before(NDim) -> Int]
  BY <1>1, <1>2, <1>3, DimensionsAre DEF OtherBounds, OtherApart
<1>5. CASE e.from \in S /\ e.to \in S
  <2>1. new = Skewed(e.dv, level, amounts)
    BY <1>1, <1>5 DEF SkewedVector
  <2>2. Above(new.lb[dim], Sum(Terms(amounts, d))) /\ Below(Sum(Terms(amounts, d)), new.ub[dim])
    BY <1>1, <1>4, <2>1, SkewedCovers
  <2>3. u.at[level] = Affine(SkewRow(amounts), x.at) /\ v.at[level] = Affine(SkewRow(amounts), y.at)
        /\ x.at \in Points /\ y.at \in Points
    BY <1>5 DEF RowView
  <2>4. Affine(SkewRow(amounts), y.at) - Affine(SkewRow(amounts), x.at) = Sum(Terms(amounts, d))
    <3>1. PICK row : row = SkewRow(amounts)
      OBVIOUS
    <3>2. row \in Rows /\ row.coef = amounts
      BY <3>1, SkewRowIs
    <3>3. Affine(row, y.at) - Affine(row, x.at) = Sum(Terms(row.coef, Apart(x, y)))
      BY <2>3, <3>2, AffineApart
    <3> QED BY <1>1, <3>1, <3>2, <3>3
  <2>5. g[dim] = Sum(Terms(amounts, d))
    BY <1>3, <2>3, <2>4
  <2> QED BY <1>1, <1>2, <1>3, <1>4, <2>2, <2>5, OtherCovers
<1>6. CASE ~(e.from \in S /\ e.to \in S) /\ (e.from \in S \/ e.to \in S)
  <2>1. new = Jumbled(e.dv, dim)
    BY <1>1, <1>6 DEF SkewedVector
  <2>2. Above(new.lb[dim], g[dim]) /\ Below(g[dim], new.ub[dim])
    BY <1>4, <2>1, JumbledIs
  <2> QED BY <1>1, <1>2, <1>3, <1>4, <2>2, OtherCovers
<1>7. CASE e.from \notin S /\ e.to \notin S
  <2>1. new = e.dv
    BY <1>1, <1>7 DEF SkewedVector
  <2>2. u.at[level] = x.at[level] /\ v.at[level] = y.at[level]
    BY <1>7 DEF RowView
  <2>3. g[dim] = d[dim]
    BY <1>3, <2>2
  <2>4. Above(e.dv.lb[dim], d[dim]) /\ Below(d[dim], e.dv.ub[dim])
    BY <1>1, <1>4, CoversIs
  <2> QED BY <1>1, <1>2, <1>3, <1>4, <2>1, <2>3, <2>4, OtherCovers
<1> QED BY <1>5, <1>6, <1>7

\* Runs in one loop, alike outside, at another iteration of it
LEMMA AlikeApart ==
  ASSUME NEW x, NEW y, x.at \in Points, y.at \in Points, NEW level \in Loops, Alike(x, y, level-1),
         NEW d, d = Apart(x, y), NEW dim, dim = DimOf(level)
  PROVE  d \in [Before(NDim) -> Int] /\ (\A k \in Before(dim) : d[k] = 0) /\ d[dim] = y.at[level] - x.at[level]
<1>1. /\ d \in [Before(NDim) -> Int] /\ d[dim] = y.at[level] - x.at[level]
      /\ \A k \in Before(NDim) : d[k] = y.at[k+1] - x.at[k+1]
  BY ApartIs
<1>2. ASSUME NEW k \in Before(dim) PROVE d[k] = 0
  <2>1. PICK l : l = k+1
    OBVIOUS
  <2>2. l \in 1 .. level-1 /\ l \in Loops /\ k \in Before(NDim)
    BY <1>2, <2>1, DimensionsAre DEF Before, DimOf, Loops
  <2>3. x.at[l] = y.at[l] /\ x.at[l] \in Int
    BY <2>2 DEF Alike, Points
  <2> QED BY <1>1, <2>1, <2>2, <2>3
<1> QED BY <1>1, <1>2

\* skew: the vectors say how far apart the runs are, and runs stay in order when
\* loops are skewed as a whole and nothing is refused.
LEMMA SkewDescribes ==
  ASSUME NEW ss, Proper(ss), NEW D, NEW R, NEW checked \in BOOLEAN, Describes(ss, D, R, checked),
         NEW S \in SUBSET DOMAIN ss, NEW level \in Loops, NEW amounts \in [Loops -> Int], amounts[level] # 0,
         \A l \in level+1 .. NDim : amounts[l] = 0,
         NEW new, new = SkewStatements(ss, S, level, amounts),
         NEW P, P = SkewDeps(D, S, level, amounts), ~P.refused, NEW E, E = P.dep
  PROVE  Describes(new, E, R, checked /\ Whole(ss, S, level))
<1>1. PICK row : row = SkewRow(amounts)
  OBVIOUS
<1>2. row \in Rows /\ row.coef = amounts /\ row.coef[level] # 0
  BY <1>1, SkewRowIs
<1>3. new = ComposedIn(ss, S, level, row)
  BY <1>1 DEF SkewStatements, ComposedIn, SkewRow
<1>4. ComposedViewsShape(ss, S, level, row, new)
  BY <1>2, <1>3, ComposedViews
<1>5. Proper(new) /\ DOMAIN new = DOMAIN ss /\ \A n \in DOMAIN ss : new[n].lex = ss[n].lex
  <2>1. Proper(new) /\ SameCode(ss, new) /\ \A n \in DOMAIN ss : new[n].lex = ss[n].lex
    BY <1>2, <1>3, ComposedStatements
  <2> QED BY <2>1 DEF SameCode
<1>6. PICK f : f = [r \in RunsIn(ss) |-> r]
  OBVIOUS
<1>7. Follows(f, ss, new) /\ \A r \in RunsIn(ss) : f[r] = r
  BY <1>4, <1>6 DEF ComposedViewsShape
<1>8. ASSUME NEW r \in RunsIn(ss) PROVE RowView(View(ss, r), View(new, r), S, level, row)
  BY <1>4 DEF ComposedViewsShape
<1>9. D \subseteq Edges(ss) /\ AllExplained(ss, D, R)
  BY DEF Describes
<1>10. /\ E \subseteq Edges(ss)
       /\ \A e \in D : \E g \in E : WithVector(e, g, SkewedVector(e, S, level, amounts))
       /\ \A g \in E : \E e \in D : WithVector(e, g, SkewedVector(e, S, level, amounts))
       /\ \A e \in D : e.from \in S /\ e.to \in S => ~SkewIllegal(SkewedVector(e, S, level, amounts), level)
  BY <1>9, SkewDepsAre
<1>11. ASSUME NEW r \in RunsIn(ss), NEW t \in RunsIn(ss), Dependent(ss, R, r, t)
       PROVE  Explained(new, E, f[r], f[t])
  <2>1. CASE r[1] = t[1] /\ r[3] = t[3]
    BY <1>7, <2>1 DEF Explained
  <2>2. CASE ~(r[1] = t[1] /\ r[3] = t[3])
    <3>1. Between(D, View(ss, r), View(ss, t))
      BY <1>9, <1>11, <2>2 DEF AllExplained, Explained
    <3>2. PICK x, y, u, v : x = View(ss, r) /\ y = View(ss, t) /\ u = View(new, r) /\ v = View(new, t)
      OBVIOUS
    <3>3. RowView(x, u, S, level, SkewRow(amounts)) /\ RowView(y, v, S, level, SkewRow(amounts))
      BY <1>1, <1>8, <3>2
    <3>4. PICK e \in D : e.from = x.n /\ e.to = y.n /\ Covers(e.dv, Apart(x, y))
      BY <3>1, <3>2 DEF Between
    <3>5. Covers(SkewedVector(e, S, level, amounts), Apart(u, v))
      BY <1>9, <3>3, <3>4, SkewedVectorCovers
    <3>6. PICK g \in E : WithVector(e, g, SkewedVector(e, S, level, amounts))
      BY <1>10
    <3>7. g.from = u.n /\ g.to = v.n /\ Covers(g.dv, Apart(u, v))
      BY <3>3, <3>4, <3>5, <3>6 DEF WithVector, RowView
    <3> QED BY <1>7, <3>2, <3>7 DEF Explained, Between
  <2> QED BY <2>1, <2>2
<1>12. AllExplained(new, E, R)
  BY <1>7, <1>11, ExplainedFollows
<1>13. ASSUME checked, Whole(ss, S, level) PROVE AllSooner(new, R)
  <2>1. ASSUME NEW r \in RunsIn(ss), NEW t \in RunsIn(ss), Dependent(ss, R, r, t)
        PROVE  Sooner(View(new, f[r]), View(new, f[t]))
    <3>1. PICK x, y : x = View(ss, r) /\ y = View(ss, t)
      OBVIOUS
    <3>2. Sooner(x, y)
      BY <1>13, <2>1, <3>1 DEF Describes, AllSooner
    <3>3. x.at \in Points /\ y.at \in Points
      BY <1>8, <3>1 DEF RowView
    <3>4. ASSUME x.n \in S, Alike(x, y, level-1), x.lex[level] = y.lex[level]
          PROVE  /\ x.at[level] < y.at[level] => Affine(row, x.at) < Affine(row, y.at)
                 /\ x.at[level] = y.at[level] => Affine(row, x.at) = Affine(row, y.at)
      <4>1. \A l \in Loops \ {level} : row.coef[l] = 0 \/ y.at[l] = x.at[l]
        <5>1. \A l \in Loops \ {level} : l \in level+1 .. NDim \/ l \in 1 .. level-1
          BY DimensionsAre DEF Loops
        <5> QED BY <1>2, <3>4, <5>1 DEF Alike
      <4>2. PICK a, p, q : a = row.coef[level] /\ p = x.at[level] /\ q = y.at[level]
        OBVIOUS
      <4>3. Affine(row, y.at) = Affine(row, x.at) + a * (q - p)
        BY <1>2, <3>3, <4>1, <4>2, AffineAlong
      <4>4. a \in Int /\ p \in Int /\ q \in Int /\ Affine(row, x.at) \in Int /\ a = amounts[level]
        BY <1>2, <3>3, <4>2, AffineApart DEF Rows, Points
      <4>5. CASE p = q
        <5>1. a * (q - p) = 0
          BY <4>4, <4>5
        <5> QED BY <4>2, <4>3, <4>4, <4>5, <5>1
      <4>6. CASE p < q
        <5>1. a > 0
          <6>1. Explained(ss, D, r, t)
            BY <1>9, <2>1 DEF AllExplained
          <6>2. ~(r[1] = t[1] /\ r[3] = t[3])
            BY <3>1, <4>2, <4>4, <4>6 DEF View
          <6>3. PICK e \in D : e.from = x.n /\ e.to = y.n /\ Covers(e.dv, Apart(x, y))
            BY <3>1, <6>1, <6>2 DEF Explained, Between
          <6>4. x.lex = ss[r[1]].lex /\ y.lex = ss[t[1]].lex /\ x.n = r[1] /\ y.n = t[1] /\ r[1] \in DOMAIN ss /\ t[1] \in DOMAIN ss
            BY <3>1, ViewIs
          <6>5. Together(ss[r[1]], ss[t[1]], level)
            BY <3>4, <6>4, AlikeTogether
          <6>6. y.n \in S
            BY <1>13, <3>4, <6>4, <6>5, WholeIs
          <6>7. CarriedForward(e.dv, level) /\ e.dv \in Vectors
            BY <1>9, <1>13, <6>3, <6>4, <6>5 DEF Describes, Forward, Edges
          <6>8. PICK d, dim, dv, new2 : d = Apart(x, y) /\ dim = DimOf(level) /\ dv = e.dv /\ new2 = Skewed(e.dv, level, amounts)
            OBVIOUS
          <6>9. d \in [Before(NDim) -> Int] /\ (\A k \in Before(dim) : d[k] = 0) /\ d[dim] = q - p
            BY <3>3, <3>4, <4>2, <6>8, AlikeApart
          <6>10. d[dim] # 0
            BY <4>4, <4>6, <6>9
          <6>11. (\A k \in Before(dim) : dv.lb[k] = 0 /\ dv.ub[k] = 0) /\ dv.lb[dim] > 0
            BY <6>3, <6>7, <6>8, <6>9, <6>10, ZeroOutside
          <6>12. a < 0 => new2.ub[dim] < 0
            BY <4>4, <6>7, <6>8, <6>11, SkewedFirst
          <6>13. \A k \in Before(dim) : new2.lb[k] = 0 /\ new2.ub[k] = 0
            <7>1. PICK turn : BoundsAt(dv, new2, dim, turn[NDim])
              BY <6>7, <6>8, SkewedTurns
            <7>2. \A k \in Before(dim) : k \in Before(NDim) /\ k # dim
              BY <6>8, DimensionsAre DEF Before, DimOf
            <7> QED BY <6>11, <7>1, <7>2 DEF BoundsAt, OtherBounds
          <6>14. IsCarried(new2, dim)
            <7>1. \A z : z = 0 => z <= 0 /\ z >= 0
              OBVIOUS
            <7>2. \A k \in Before(dim) : new2.lb[k] <= 0 /\ new2.ub[k] >= 0
              BY <6>13, <7>1, Zenon
            <7>3. dim \in DOMAIN new2.lb
              <8>1. PICK turn : BoundsAt(dv, new2, dim, turn[NDim])
                BY <6>7, <6>8, SkewedTurns
              <8> QED BY <6>8, <8>1, DimensionsAre DEF BoundsAt, OtherBounds, Vectors
            <7>4. (IF dim \in DOMAIN new2.lb THEN Before(dim) ELSE DOMAIN new2.lb) = Before(dim)
              BY <7>3
            <7> QED BY <7>2, <7>4, Zenon DEF IsCarried
          <6>15. ~SkewIllegal(new2, level)
            <7>1. SkewedVector(e, S, level, amounts) = new2
              BY <3>4, <6>3, <6>6, <6>8 DEF SkewedVector
            <7> QED BY <1>10, <3>4, <6>3, <6>6, <7>1
          <6>16. ~(a < 0)
            BY <6>8, <6>12, <6>14, <6>15 DEF SkewIllegal, HasNegative
          <6> QED BY <4>4, <6>16
        <5>2. a * (q - p) > 0 /\ a * (q - p) \in Int
          <6>1. PICK z : z = q - p
            OBVIOUS
          <6>2. z \in Int /\ z > 0
            BY <4>4, <4>6, <6>1
          <6>3. a * z > 0 /\ a * z \in Int
            BY <4>4, <5>1, <6>2, SMT
          <6> QED BY <6>1, <6>3
        <5> QED BY <4>2, <4>3, <4>4, <4>6, <5>2
      <4> QED BY <4>2, <4>4, <4>5, <4>6
    <3>5. Sooner(View(new, r), View(new, t))
      BY <1>2, <1>3, <1>13, <3>1, <3>2, <3>4, MonotoneSooner
    <3> QED BY <1>7, <3>5
  <2> QED BY <1>7, <2>1, SoonerFollows
<1>14. ASSUME checked, Whole(ss, S, level) PROVE Forward(new, E)
  <2> SUFFICES ASSUME NEW g \in E, NEW l \in Loops, Together(new[g.from], new[g.to], l)
               PROVE  CarriedForward(g.dv, l)
    BY DEF Forward
  <2>1. PICK e \in D : WithVector(e, g, SkewedVector(e, S, level, amounts))
    BY <1>10
  <2>2. e.from \in DOMAIN ss /\ e.to \in DOMAIN ss /\ e.dv \in Vectors /\ g.from = e.from /\ g.to = e.to
        /\ g.dv = SkewedVector(e, S, level, amounts)
    BY <1>9, <2>1 DEF Edges, WithVector
  <2>3. Together(ss[e.from], ss[e.to], l)
    BY <1>5, <2>2 DEF Together
  <2>4. CarriedForward(e.dv, l)
    BY <1>14, <2>3 DEF Describes, Forward
  <2>5. CASE l < level
    <3>1. OtherBounds(e.dv, g.dv, DimOf(level))
      BY <1>9, <2>2, SkewedVectorIs
    <3> QED BY <2>4, <2>5, <3>1, OtherCarried
  <2>6. CASE level <= l
    <3>1. Together(ss[e.from], ss[e.to], level)
      <4>1. l \in Nat /\ level \in Nat
        BY DimensionsAre
      <4>2. \A k \in 1 .. level : k \in 1 .. l
        BY <2>6, <4>1
      <4> QED BY <2>3, <4>2 DEF Together
    <3>2. e.from \in S <=> e.to \in S
      BY <1>14, <2>2, <3>1, WholeIs
    <3>3. CASE e.from \in S
      <4>1. g.dv = Skewed(e.dv, level, amounts)
        BY <2>2, <3>2, <3>3 DEF SkewedVector
      <4>2. ~SkewIllegal(g.dv, level)
        BY <1>10, <2>2, <3>2, <3>3
      <4> QED BY <2>2, <2>4, <2>6, <4>1, <4>2, SkewedForward
    <3>4. CASE e.from \notin S
      <4>1. g.dv = e.dv
        BY <2>2, <3>2, <3>4 DEF SkewedVector
      <4> QED BY <2>4, <4>1
    <3> QED BY <3>3, <3>4
  <2>7. l < level \/ level <= l
    BY DimensionsAre
  <2> QED BY <2>5, <2>6, <2>7
<1>15. E \subseteq Edges(new)
  BY <1>5, <1>10 DEF Edges
<1> QED BY <1>12, <1>13, <1>14, <1>15 DEF Describes
-----------------------------------------------------------------------------
(* nonsingular: the vectors.                                               *)

\* A turn of nonsingular leaves two numbers.
LEMMA MultiplyTurnIs ==
  ASSUME NEW sum \in Sums, NEW dv \in Vectors, NEW dim \in Before(NDim), NEW amount \in Int
  PROVE  MultiplyTurn(sum, dv, dim, amount) \in Sums
<1> DEFINE low == Low(dv, dim, amount)
           high == High(dv, dim, amount)
           l == IF sum.lb = -Infinity \/ low = -Far(amount) THEN -Infinity ELSE sum.lb + amount * low
           u == IF sum.ub = Infinity \/ high = Far(amount) THEN Infinity ELSE sum.ub + amount * high
<1>1. dv.lb[dim] \in Int /\ dv.ub[dim] \in Int /\ Infinity \in Int /\ sum.lb \in Int /\ sum.ub \in Int
  BY InfinityAssumption DEF Vectors, Sums
<1>2. low \in Int /\ high \in Int
  BY <1>1 DEF Low, High
<1>3. MultiplyTurn(sum, dv, dim, amount) = IF amount = 0 THEN sum ELSE [lb |-> l, ub |-> u]
  BY DEF MultiplyTurn
<1> HIDE DEF low, high
<1>4. amount * low \in Int /\ amount * high \in Int
  BY <1>2
<1>5. l \in Int /\ u \in Int
  BY <1>1, <1>4
<1> HIDE DEF l, u
<1> QED BY <1>3, <1>5 DEF Sums

\* The bounds that nonsingular computes for one row of the matrix
RowBounds(dv, c, const) ==
  LET turn[q \in 0 .. NDim] ==
        IF q = 0 THEN [lb |-> 0, ub |-> 0]
        ELSE MultiplyTurn(turn[q-1], dv, DimOf(q), c[q])
  IN  PlusConstant(turn[NDim], const)

\* What the recursion of nonsingular computes, turn by turn
IsMultiplying(turn, dv, c) ==
  /\ turn \in [0 .. NDim -> Sums] /\ turn[0] = NoSum
  /\ \A l \in Loops : turn[l] = MultiplyTurn(turn[l-1], dv, DimOf(l), c[l])

\* nonsingular writes what its last turn computes.
LEMMA MultiplyTurns ==
  ASSUME NEW dv \in Vectors, NEW c \in [Loops -> Int], NEW b, b = RowBounds(dv, c, 0)
  PROVE  \E turn : IsMultiplying(turn, dv, c) /\ b = turn[NDim] /\ b \in Sums
<1> DEFINE step == [i \in 1 .. NDim |-> [x \in Sums |-> MultiplyTurn(x, dv, DimOf(i), c[i])]]
           P(g) == g = [q \in 0 .. NDim |-> IF q = 0 THEN [lb |-> 0, ub |-> 0]
                                            ELSE MultiplyTurn(g[q-1], dv, DimOf(q), c[q])]
           turn == CHOOSE g : P(g)
<1>1. ASSUME NEW i \in 1 .. NDim, NEW x \in Sums PROVE MultiplyTurn(x, dv, DimOf(i), c[i]) \in Sums
  <2>1. i \in Loops /\ DimOf(i) \in Before(NDim) /\ c[i] \in Int
    BY DimensionsAre DEF Loops
  <2> QED BY <2>1, MultiplyTurnIs
<1>2. step \in [1 .. NDim -> [Sums -> Sums]]
  BY <1>1
<1>3. \A i \in 1 .. NDim : \A x \in Sums : step[i][x] = MultiplyTurn(x, dv, DimOf(i), c[i])
  OBVIOUS
<1> HIDE DEF step
<1>4. NoSum \in Sums
  BY DEF NoSum, Sums
<1>5. NDim \in Nat
  BY DimensionsAre
<1>6. PICK h \in [0 .. NDim -> Sums] : IsRecursion(h, NoSum, NDim, step)
  BY <1>2, <1>4, <1>5, RecursionExists
<1>7. h[0] = NoSum /\ \A i \in 1 .. NDim : h[i] = step[i][h[i-1]]
  BY <1>6 DEF IsRecursion
<1>8. ASSUME NEW i \in 0 .. NDim
      PROVE  h[i] = IF i = 0 THEN [lb |-> 0, ub |-> 0] ELSE MultiplyTurn(h[i-1], dv, DimOf(i), c[i])
  <2>1. CASE i = 0
    BY <1>7, <2>1 DEF NoSum
  <2>2. CASE i # 0
    <3>1. i \in 1 .. NDim /\ i-1 \in 0 .. NDim
      BY <1>5, <2>2
    <3>2. h[i-1] \in Sums
      BY <1>6, <3>1
    <3> QED BY <1>3, <1>7, <2>2, <3>1, <3>2
  <2> QED BY <2>1, <2>2
<1>9. P(h)
  <2>1. h = [i \in 0 .. NDim |-> h[i]]
    BY <1>6
  <2> QED BY <1>8, <2>1
<1>10. P(turn)
  BY <1>9
<1>11. b = PlusConstant(turn[NDim], 0)
  BY DEF RowBounds
<1> HIDE DEF turn
<1>12. turn[0] = NoSum
  BY <1>5, <1>10 DEF NoSum
<1>13. ASSUME NEW l \in Loops PROVE turn[l] = MultiplyTurn(turn[l-1], dv, DimOf(l), c[l])
  <2>1. l \in 0 .. NDim /\ l # 0
    BY DimensionsAre
  <2> QED BY <1>10, <2>1
<1>14. turn \in [0 .. NDim -> Sums]
  <2> DEFINE T == {i \in 0 .. NDim : turn[i] \in Sums}
  <2>1. 0 \in T
    BY <1>4, <1>5, <1>12
  <2>2. ASSUME NEW i \in 1 .. NDim, i-1 \in T PROVE i \in T
    <3>1. i \in Loops /\ i \in 0 .. NDim /\ turn[i-1] \in Sums
      BY <1>5, <2>2 DEF Loops
    <3>2. turn[i] \in Sums
      BY <1>1, <1>13, <3>1
    <3> QED BY <3>1, <3>2
  <2> HIDE DEF T
  <2>3. \A i \in 0 .. NDim : i \in T
    BY <1>5, <2>1, <2>2, UpTo
  <2>4. turn = [i \in 0 .. NDim |-> turn[i]]
    BY <1>10
  <2> QED BY <2>3, <2>4 DEF T
<1>15. turn[NDim] \in Sums
  BY <1>5, <1>14
<1>16. b = turn[NDim]
  <2>1. PICK sum : sum = turn[NDim]
    OBVIOUS
  <2>2. sum = [lb |-> sum.lb, ub |-> sum.ub] /\ sum.lb \in Int /\ sum.ub \in Int
    BY <1>15, <2>1 DEF Sums
  <2>3. PlusConstant(sum, 0) = [lb |-> sum.lb, ub |-> sum.ub]
    BY <2>2 DEF PlusConstant
  <2> QED BY <1>11, <2>1, <2>2, <2>3
<1> QED BY <1>12, <1>13, <1>14, <1>15, <1>16 DEF IsMultiplying

\* The bounds of a row cover the new distance.
LEMMA RowBoundsCover ==
  ASSUME NEW dv \in Vectors, NEW c \in [Loops -> Int], NEW b, b = RowBounds(dv, c, 0),
         NEW d \in [Before(NDim) -> Int], Covers(dv, d)
  PROVE  Above(b.lb, Sum(Terms(c, d))) /\ Below(Sum(Terms(c, d)), b.ub)
<1>1. PICK turn : IsMultiplying(turn, dv, c) /\ b = turn[NDim]
  BY MultiplyTurns
<1>2. PICK f : f = Terms(c, d)
  OBVIOUS
<1>3. f \in Points /\ \A l \in Loops : f[l] = c[l] * d[DimOf(l)]
  BY <1>2, TermsAre
<1>4. PICK g \in [0 .. NDim -> Int] : Partial(f, g) /\ Sum(f) = g[NDim]
  BY <1>3, SumIsPartial
<1> DEFINE T == {i \in 0 .. NDim : SumCovers(turn[i], g[i])}
<1>5. 0 \in T
  <2>1. turn[0] = NoSum /\ g[0] = 0 /\ 0 \in 0 .. NDim
    BY <1>1, <1>4, DimensionsAre DEF IsMultiplying, Partial
  <2>2. SumCovers(NoSum, 0)
    BY InfinityAssumption DEF SumCovers, NoSum, Above, Below
  <2> QED BY <2>1, <2>2
<1>6. ASSUME NEW i \in 1 .. NDim, i-1 \in T PROVE i \in T
  <2>1. i \in Loops /\ i \in 0 .. NDim /\ i-1 \in 0 .. NDim
    BY DimensionsAre DEF Loops
  <2>2. turn[i] = MultiplyTurn(turn[i-1], dv, DimOf(i), c[i]) /\ turn[i-1] \in [lb : Int, ub : Int]
    BY <1>1, <2>1 DEF IsMultiplying, Sums
  <2>3. g[i] = g[i-1] + c[i] * d[DimOf(i)] /\ g[i-1] \in Int
    BY <1>3, <1>4, <2>1 DEF Partial
  <2>4. SumCovers(turn[i-1], g[i-1])
    BY <1>6
  <2>5. PICK B, dim, sum, x, amount : /\ B = Before(NDim) /\ dim = DimOf(i) /\ sum = turn[i-1] /\ x = g[i-1] /\ amount = c[i]
    OBVIOUS
  <2>6. /\ B \in SUBSET Nat /\ dv \in VectorsOver(B) /\ d \in [B -> Int] /\ dim \in B /\ amount \in Int /\ x \in Int
        /\ sum \in [lb : Int, ub : Int] /\ SumCovers(sum, x) /\ Covers(dv, d)
    BY <2>1, <2>2, <2>3, <2>4, <2>5, VectorsAre, DimensionsAre
  <2>7. SumCovers(MultiplyTurn(sum, dv, dim, amount), x + amount * d[dim])
    BY <2>6, MultiplyTurnCovers
  <2> QED BY <2>1, <2>2, <2>3, <2>5, <2>7
<1> HIDE DEF T
<1>7. NDim \in T
  <2>1. \A i \in 0 .. NDim : i \in T
    BY <1>5, <1>6, UpTo, DimensionsAre
  <2> QED BY <2>1, DimensionsAre
<1>8. SumCovers(turn[NDim], Sum(f))
  BY <1>4, <1>7 DEF T
<1> QED BY <1>1, <1>2, <1>8 DEF SumCovers

\* All dimensions at once
Constantless(T) == T \in [Loops -> Rows] /\ \A l \in Loops : T[l].const = 0

LEMMA MultipliedIs ==
  ASSUME NEW dv \in Vectors, NEW T, Constantless(T), NEW new, new = Multiplied(dv, T)
  PROVE  /\ new \in Vectors
         /\ \A k \in Before(NDim) : /\ new.lb[k] = RowBounds(dv, T[k+1].coef, 0).lb
                                    /\ new.ub[k] = RowBounds(dv, T[k+1].coef, 0).ub
<1> DEFINE bounds(p) == RowBounds(dv, T[p].coef, T[p].const)
           lb == [i \in Before(NDim) |-> bounds(i+1).lb]
           ub == [i \in Before(NDim) |-> bounds(i+1).ub]
<1>1. dv = [type |-> dv.type, quasi |-> dv.quasi, lb |-> dv.lb, ub |-> dv.ub]
      /\ dv.type \in STRING /\ dv.quasi \in BOOLEAN
      /\ dv.lb \in [Before(NDim) -> Int] /\ dv.ub \in [Before(NDim) -> Int]
  BY DEF Vectors
<1>2. new = [dv EXCEPT !.lb = [i \in DOMAIN @ |-> bounds(i+1).lb], !.ub = [i \in DOMAIN @ |-> bounds(i+1).ub]]
  BY DEF Multiplied, RowBounds
<1>3. ASSUME NEW k \in Before(NDim)
      PROVE  bounds(k+1) \in Sums /\ bounds(k+1) = RowBounds(dv, T[k+1].coef, 0)
  <2>1. PICK l : l = k+1
    OBVIOUS
  <2>2. l \in Loops
    BY <2>1, DimensionsAre
  <2>3. T[l] \in Rows /\ T[l].const = 0
    BY <2>2 DEF Constantless
  <2>4. T[l].coef \in [Loops -> Int]
    BY <2>3 DEF Rows
  <2>5. bounds(l) = RowBounds(dv, T[l].coef, 0)
    BY <2>3
  <2>6. bounds(l) \in Sums
    <3>1. PICK b, c : b = bounds(l) /\ c = T[l].coef
      OBVIOUS
    <3>2. b = RowBounds(dv, c, 0) /\ c \in [Loops -> Int]
      BY <2>4, <2>5, <3>1
    <3>3. b \in Sums
      BY <3>2, MultiplyTurns
    <3> QED BY <3>1, <3>3
  <2> QED BY <2>1, <2>5, <2>6
<1> HIDE DEF bounds
<1>4. lb \in [Before(NDim) -> Int] /\ ub \in [Before(NDim) -> Int]
  BY <1>3 DEF Sums
<1>5. \A k \in Before(NDim) : lb[k] = bounds(k+1).lb /\ ub[k] = bounds(k+1).ub
  OBVIOUS
<1>6. new = [type |-> dv.type, quasi |-> dv.quasi, lb |-> lb, ub |-> ub]
  BY <1>1, <1>2
<1> HIDE DEF lb, ub
<1>7. PICK w : w = [type |-> dv.type, quasi |-> dv.quasi, lb |-> lb, ub |-> ub]
  OBVIOUS
<1>8. w \in Vectors /\ w.lb = lb /\ w.ub = ub
  BY <1>1, <1>4, <1>7 DEF Vectors
<1>9. new = w
  BY <1>6, <1>7
<1> QED BY <1>3, <1>5, <1>8, <1>9

\* All rows together
LEMMA MultipliedCovers ==
  ASSUME NEW dv \in Vectors, NEW T, Constantless(T), NEW new, new = Multiplied(dv, T),
         NEW d \in [Before(NDim) -> Int], Covers(dv, d),
         NEW g, \A k \in Before(NDim) : g[k] = Sum(Terms(T[k+1].coef, d))
  PROVE  Covers(new, g)
<1>1. /\ new \in Vectors
      /\ \A k \in Before(NDim) : /\ new.lb[k] = RowBounds(dv, T[k+1].coef, 0).lb
                                 /\ new.ub[k] = RowBounds(dv, T[k+1].coef, 0).ub
  BY MultipliedIs
<1>2. ASSUME NEW k \in Before(NDim) PROVE Above(new.lb[k], g[k]) /\ Below(g[k], new.ub[k])
  <2>1. PICK l, c, b : l = k+1 /\ c = T[l].coef /\ b = RowBounds(dv, c, 0)
    OBVIOUS
  <2>2. l \in Loops
    BY <2>1, DimensionsAre
  <2>3. T[l] \in Rows
    BY <2>2 DEF Constantless
  <2>4. c \in [Loops -> Int]
    BY <2>1, <2>3 DEF Rows
  <2>5. Above(b.lb, Sum(Terms(c, d))) /\ Below(Sum(Terms(c, d)), b.ub)
    BY <2>1, <2>4, RowBoundsCover
  <2>6. new.lb[k] = b.lb /\ new.ub[k] = b.ub /\ g[k] = Sum(Terms(c, d))
    BY <1>1, <2>1
  <2> QED BY <2>5, <2>6
<1> QED BY <1>1, <1>2, CoversIs

LEMMA TimesPosition ==
  ASSUME NEW s, Statement(s), NEW T \in [Loops -> Rows], NEW new, new = TimesMatrix(s, T), NEW p \in s.IS, NEW l \in Loops
  PROVE  Position(new, p)[l] = Affine(T[l], Position(s, p))
<1> DEFINE rows == [k \in Loops |-> Composed(s.rows, T[k])]
           lex == [k \in DOMAIN s.lex |-> 0]
<1>1. s = [IS |-> s.IS, code |-> s.code, rows |-> s.rows, lex |-> s.lex] /\ s.IS \in SUBSET Points /\ s.rows \in [Loops -> Rows]
  BY DEF Statement
<1>2. rows[l] = Composed(s.rows, T[l])
  OBVIOUS
<1>3. new = [IS |-> s.IS, code |-> s.code, rows |-> rows, lex |-> lex]
  BY <1>1 DEF MultiplyStatement, TimesMatrix
<1> HIDE DEF rows, lex
<1>4. Position(new, p)[l] = Affine(rows[l], p)
  BY <1>3 DEF Position
<1>5. Affine(Composed(s.rows, T[l]), p) = Affine(T[l], [k \in Loops |-> Affine(s.rows[k], p)])
  BY <1>1, ComposedAffine
<1> QED BY <1>2, <1>4, <1>5 DEF Position

\* What nonsingular makes of the program and of the vectors
TimesProgram(ss, T) == <<TimesMatrix(ss[1], T)>>
TimesDeps(D, T) == {[e EXCEPT !.dv = Multiplied(@, T)] : e \in D}

\* The program is one statement.
Single(ss) == Len(ss) = 1

\* nonsingular: the vectors say how far apart the runs are.
LEMMA NonsingularDescribes ==
  ASSUME NEW ss, Proper(ss), Single(ss), NEW D, NEW R, NEW checked \in BOOLEAN, Describes(ss, D, R, checked),
         NEW T, Constantless(T), Regular(T),
         NEW new, new = TimesProgram(ss, T), NEW E, E = TimesDeps(D, T)
  PROVE  E \subseteq Edges(new) /\ AllExplained(new, E, R)
<1>1. PICK s, one : s = ss[1] /\ one = TimesMatrix(s, T)
  OBVIOUS
<1>2. DOMAIN ss = {1} /\ Statement(s) /\ Spread(s) /\ T \in [Loops -> Rows]
  BY <1>1 DEF Proper, SeqLike, Constantless, Single
<1>3. TimesShape(s, one)
  BY <1>1, <1>2, MultiplyIs
<1>4. DOMAIN new = {1} /\ new[1] = one /\ SeqLike(new)
  <2>1. new = <<one>>
    BY <1>1 DEF TimesProgram
  <2> QED BY <2>1 DEF SeqLike
<1>5. Proper(new)
  BY <1>3, <1>4 DEF Proper, TimesShape
<1>6. SameCode(ss, new)
  BY <1>1, <1>2, <1>3, <1>4 DEF TimesShape, SameCode
<1>7. PICK f : f = [r \in RunsIn(ss) |-> r]
  OBVIOUS
<1>8. Follows(f, ss, new) /\ \A r \in RunsIn(ss) : f[r] = r /\ r \in RunsIn(new)
  <2>1. Follows([r \in RunsIn(ss) |-> r], ss, new)
    BY <1>6, SameRuns DEF SameCode
  <2> QED BY <1>7, <2>1 DEF Follows
<1>9. ASSUME NEW r \in RunsIn(ss)
      PROVE  /\ View(new, r).n = View(ss, r).n /\ View(ss, r).n = r[1]
             /\ View(ss, r).at \in Points /\ View(new, r).at \in Points
             /\ \A l \in Loops : View(new, r).at[l] = Affine(T[l], View(ss, r).at)
  <2>1. /\ View(ss, r).n = r[1] /\ View(ss, r).at = Position(ss[r[1]], r[3]) /\ Position(ss[r[1]], r[3]) \in Points
        /\ r[1] \in DOMAIN ss /\ r[3] \in ss[r[1]].IS
    BY ViewIs
  <2>2. View(new, r).n = r[1] /\ View(new, r).at = Position(new[r[1]], r[3]) /\ Position(new[r[1]], r[3]) \in Points
    BY <1>5, <1>8, ViewIs
  <2>3. r[1] = 1
    BY <1>2, <2>1
  <2>4. \A l \in Loops : Position(one, r[3])[l] = Affine(T[l], Position(s, r[3]))
    BY <1>1, <1>2, <2>1, <2>3, TimesPosition
  <2> QED BY <1>1, <1>4, <2>1, <2>2, <2>3, <2>4
<1>10. D \subseteq Edges(ss) /\ AllExplained(ss, D, R)
  BY DEF Describes
<1>11. ASSUME NEW e \in D
       PROVE  [e EXCEPT !.dv = Multiplied(@, T)] \in Edges(ss) /\ WithVector(e, [e EXCEPT !.dv = Multiplied(@, T)], Multiplied(e.dv, T))
  <2>1. e.dv \in Vectors /\ e \in Edges(ss)
    BY <1>10 DEF Edges
  <2>2. PICK dv : dv = Multiplied(e.dv, T)
    OBVIOUS
  <2>3. dv \in Vectors
    BY <2>1, <2>2, MultipliedIs
  <2>4. [e EXCEPT !.dv = dv] \in Edges(ss) /\ WithVector(e, [e EXCEPT !.dv = dv], dv)
    BY <2>1, <2>3, EdgeIs
  <2> QED BY <2>2, <2>4
<1>12. ASSUME NEW r \in RunsIn(ss), NEW t \in RunsIn(ss), Dependent(ss, R, r, t)
       PROVE  Explained(new, E, f[r], f[t])
  <2>1. CASE r[1] = t[1] /\ r[3] = t[3]
    BY <1>8, <2>1 DEF Explained
  <2>2. CASE ~(r[1] = t[1] /\ r[3] = t[3])
    <3>1. Between(D, View(ss, r), View(ss, t))
      BY <1>10, <1>12, <2>2 DEF AllExplained, Explained
    <3>2. PICK x, y, u, v : x = View(ss, r) /\ y = View(ss, t) /\ u = View(new, r) /\ v = View(new, t)
      OBVIOUS
    <3>3. /\ u.n = x.n /\ v.n = y.n /\ x.at \in Points /\ y.at \in Points /\ u.at \in Points /\ v.at \in Points
          /\ \A l \in Loops : u.at[l] = Affine(T[l], x.at) /\ v.at[l] = Affine(T[l], y.at)
      BY <1>9, <3>2
    <3>4. PICK e \in D : e.from = x.n /\ e.to = y.n /\ Covers(e.dv, Apart(x, y))
      BY <3>1, <3>2 DEF Between
    <3>5. PICK d, g, dv, dw : d = Apart(x, y) /\ g = Apart(u, v) /\ dv = e.dv /\ dw = Multiplied(e.dv, T)
      OBVIOUS
    <3>6. d \in [Before(NDim) -> Int] /\ \A k \in Before(NDim) : g[k] = v.at[k+1] - u.at[k+1]
      BY <3>3, <3>5, ApartIs
    <3>7. ASSUME NEW k \in Before(NDim) PROVE g[k] = Sum(Terms(T[k+1].coef, d))
      <4>1. PICK l, row : l = k+1 /\ row = T[l]
        OBVIOUS
      <4>2. l \in Loops /\ row \in Rows
        BY <1>2, <4>1, DimensionsAre
      <4>3. Affine(row, y.at) - Affine(row, x.at) = Sum(Terms(row.coef, d))
        BY <3>3, <3>5, <4>2, AffineApart
      <4>4. u.at[l] = Affine(row, x.at) /\ v.at[l] = Affine(row, y.at)
        BY <3>3, <4>1, <4>2
      <4> QED BY <3>6, <4>1, <4>3, <4>4
    <3>8. dv \in Vectors
      BY <1>10, <3>5 DEF Edges
    <3>9. Covers(dw, g)
      BY <3>4, <3>5, <3>6, <3>7, <3>8, MultipliedCovers
    <3>10. PICK h : h = [e EXCEPT !.dv = Multiplied(@, T)]
      OBVIOUS
    <3>11. h \in E /\ WithVector(e, h, dw)
      BY <1>11, <3>5, <3>10 DEF TimesDeps
    <3>12. h.from = u.n /\ h.to = v.n /\ Covers(h.dv, Apart(u, v))
      BY <3>3, <3>4, <3>5, <3>9, <3>11 DEF WithVector
    <3> QED BY <1>8, <3>2, <3>11, <3>12 DEF Explained, Between
  <2> QED BY <2>1, <2>2
<1>13. AllExplained(new, E, R)
  BY <1>8, <1>12, ExplainedFollows
<1>14. E \subseteq Edges(new)
  BY <1>2, <1>4, <1>11 DEF Edges, TimesDeps
<1> QED BY <1>13, <1>14
-----------------------------------------------------------------------------
(* What apply_xform and cuts keep.                                         *)

\* split cuts the statements in the order of their numbers.
LEMMA CutIncreases ==
  ASSUME NEW ss, Proper(ss), NEW same, Among(ss, same), NEW con, NEW cut, cut = Cut(ss, same, con)
  PROVE  \A i, j \in DOMAIN cut : (cut[i] < cut[j] => i < j) /\ (cut[i] = cut[j] => i = j)
<1> DEFINE T == {t \in same : Part2(ss[t], con) # {}}
<1>1. DOMAIN ss = 1 .. Len(ss) /\ Len(ss) \in Nat
  BY DEF Proper, SeqLike
<1>2. IsFiniteSet(1 .. Len(ss))
  BY <1>1, FS_Interval
<1>3. T \in SUBSET Nat /\ IsFiniteSet(T)
  <2>1. T \subseteq 1 .. Len(ss)
    BY <1>1 DEF Among
  <2>2. 1 .. Len(ss) \subseteq Nat
    BY <1>1
  <2> HIDE DEF T
  <2>3. IsFiniteSet(T)
    BY <1>2, <2>1, FS_Subset
  <2> QED BY <2>1, <2>2, <2>3
<1>4. cut = Sorted(T, <)
  BY DEF Cut
<1> HIDE DEF T
<1>5. /\ SeqLike(cut) /\ DOMAIN cut = 1 .. Len(cut)
      /\ \A i \in DOMAIN cut : cut[i] \in T
      /\ \A i, j \in DOMAIN cut : cut[i] = cut[j] => i = j
      /\ \A i, j \in DOMAIN cut : i < j => cut[i] < cut[j]
  BY <1>3, <1>4, SortedNumbers
<1>6. Len(cut) \in Nat
  BY <1>5 DEF SeqLike
<1> SUFFICES ASSUME NEW i \in DOMAIN cut, NEW j \in DOMAIN cut
             PROVE  (cut[i] < cut[j] => i < j) /\ (cut[i] = cut[j] => i = j)
  OBVIOUS
<1>7. i \in Nat /\ j \in Nat /\ cut[i] \in Nat /\ cut[j] \in Nat
  <2>1. \A k \in 1 .. Len(cut) : k \in Nat
    BY <1>6
  <2>2. cut[i] \in T /\ cut[j] \in T
    BY <1>5
  <2> QED BY <1>3, <1>5, <2>1, <2>2
<1>8. (i < j => cut[i] < cut[j]) /\ (j < i => cut[j] < cut[i]) /\ (cut[i] = cut[j] => i = j)
  BY <1>5
<1> QED BY <1>7, <1>8

\* apply_xform leaves every run where it is.
LEMMA XformViews ==
  ASSUME NEW ss, Proper(ss), NEW active \in SUBSET DOMAIN ss, NEW new, new = ApplyXform(ss, active),
         NEW f, f = XformSent(ss, active), NEW r \in RunsIn(ss)
  PROVE  View(new, f[r]) = View(ss, r)
<1>1. XformShape(ss, active, new)
  BY ApplyXformIs
<1>2. r = <<r[1], r[2], r[3]>> /\ r[1] \in DOMAIN ss /\ r[2] \in DOMAIN ss[r[1]].code /\ r[3] \in ss[r[1]].IS
  BY RunsAre
<1>3. CASE r[1] \in active
  <2>1. PICK s, q : s = ss[r[1]] /\ q = Position(s, r[3])
    OBVIOUS
  <2>2. f[r] = <<r[1], r[2], q>>
    BY <1>3, <2>1 DEF XformSent
  <2>3. Statement(s) /\ Spread(s)
    BY <1>2, <2>1 DEF Proper
  <2>4. new[r[1]] = Applied(s)
    BY <1>1, <1>2, <1>3, <2>1 DEF XformShape
  <2>5. PICK a : a = Applied(s)
    OBVIOUS
  <2>6. a.lex = s.lex /\ a.IS = Positions(s) /\ \A p \in a.IS : Position(a, p) = p
    BY <2>3, <2>5, AppliedIs
  <2>7. q \in a.IS
    BY <1>2, <2>1, <2>3, <2>6, PositionsAre
  <2>8. Position(a, q) = q
    BY <2>6, <2>7
  <2> QED BY <2>1, <2>2, <2>4, <2>5, <2>6, <2>8 DEF View
<1>4. CASE r[1] \notin active
  <2>1. f[r] = r /\ new[r[1]] = ss[r[1]]
    BY <1>1, <1>2, <1>4 DEF XformSent, XformShape
  <2> QED BY <2>1 DEF View
<1> QED BY <1>3, <1>4

\* apply_xform moves no run: it only renames the points.
LEMMA XformDescribes ==
  ASSUME NEW ss, Proper(ss), NEW active \in SUBSET DOMAIN ss, NEW new, new = ApplyXform(ss, active),
         NEW D, NEW R, NEW checked \in BOOLEAN, Describes(ss, D, R, checked)
  PROVE  Describes(new, D, R, checked) /\ \A n \in DOMAIN ss : new[n].lex = ss[n].lex
<1>1. PICK f : f = XformSent(ss, active)
  OBVIOUS
<1>2. XformShape(ss, active, new)
  BY ApplyXformIs
<1>3. Follows(f, ss, new) /\ DOMAIN new = DOMAIN ss
  BY <1>1, <1>2 DEF XformShape
<1>4. \A n \in DOMAIN ss : new[n].lex = ss[n].lex
  <2>1. \A n \in DOMAIN ss : Statement(ss[n]) /\ Spread(ss[n])
    BY DEF Proper
  <2>2. \A n \in DOMAIN ss : new[n] = IF n \in active THEN Applied(ss[n]) ELSE ss[n]
    BY <1>2 DEF XformShape
  <2>3. \A n \in DOMAIN ss : Applied(ss[n]).lex = ss[n].lex
    BY <2>1, AppliedIs
  <2> QED BY <2>2, <2>3
<1>5. D \subseteq Edges(new) /\ (checked => Forward(new, D))
  <2>1. D \subseteq Edges(ss) /\ (checked => Forward(ss, D))
    BY DEF Describes
  <2>2. D \subseteq Edges(new)
    BY <1>3, <2>1 DEF Edges
  <2>3. \A e \in D, l \in Loops : Together(new[e.from], new[e.to], l) => Together(ss[e.from], ss[e.to], l)
    <3>1. \A e \in D : e.from \in DOMAIN ss /\ e.to \in DOMAIN ss
      BY <2>1 DEF Edges
    <3> QED BY <1>4, <3>1 DEF Together
  <2> QED BY <2>1, <2>2, <2>3 DEF Forward
<1>6. ASSUME NEW r \in RunsIn(ss), NEW t \in RunsIn(ss), Dependent(ss, R, r, t)
      PROVE  Explained(new, D, f[r], f[t])
  <2>1. View(new, f[r]) = View(ss, r) /\ View(new, f[t]) = View(ss, t)
    BY <1>1, XformViews
  <2>2. CASE r[1] = t[1] /\ r[3] = t[3]
    <3>1. f[r] = (IF r[1] \in active THEN <<r[1], r[2], Position(ss[r[1]], r[3])>> ELSE r)
          /\ f[t] = (IF t[1] \in active THEN <<t[1], t[2], Position(ss[t[1]], t[3])>> ELSE t)
      BY <1>1 DEF XformSent
    <3>2. f[r][1] = f[t][1] /\ f[r][3] = f[t][3]
      BY <2>2, <3>1
    <3> QED BY <3>2 DEF Explained
  <2>3. CASE ~(r[1] = t[1] /\ r[3] = t[3])
    <3>1. Between(D, View(ss, r), View(ss, t))
      BY <1>6, <2>3 DEF Describes, AllExplained, Explained
    <3> QED BY <2>1, <3>1 DEF Explained
  <2> QED BY <2>2, <2>3
<1>7. AllExplained(new, D, R)
  BY <1>3, <1>6, ExplainedFollows
<1>8. checked => AllSooner(new, R)
  <2> SUFFICES ASSUME checked PROVE AllSooner(new, R)
    OBVIOUS
  <2>1. ASSUME NEW r \in RunsIn(ss), NEW t \in RunsIn(ss), Dependent(ss, R, r, t)
        PROVE  Sooner(View(new, f[r]), View(new, f[t]))
    <3>1. View(new, f[r]) = View(ss, r) /\ View(new, f[t]) = View(ss, t)
      BY <1>1, XformViews
    <3>2. Sooner(View(ss, r), View(ss, t))
      BY <2>1 DEF Describes, AllSooner
    <3> QED BY <3>1, <3>2
  <2> QED BY <1>3, <2>1, SoonerFollows
<1> QED BY <1>4, <1>5, <1>7, <1>8 DEF Describes

\* MaxLevel is the innermost loop that a constraint is about.
LEMMA MaxLevelIs ==
  ASSUME NEW con \in Rows
  PROVE  /\ MaxLevel(con) \in Nat /\ MaxLevel(con) <= NDim
         /\ \A l \in Loops : l > MaxLevel(con) => con.coef[l] = 0
         /\ MaxLevel(con) # 0 => MaxLevel(con) \in Loops /\ con.coef[MaxLevel(con)] # 0
<1> DEFINE S == {0} \union {l \in Loops : con.coef[l] # 0}
<1>0. NDim \in Nat /\ Loops = 1 .. NDim
  BY DimensionsAre DEF Loops
<1>1. S \subseteq 0 .. NDim
  BY <1>0
<1>2. S \in SUBSET Int /\ IsFiniteSet(S) /\ S # {}
  <2>1. IsFiniteSet(0 .. NDim)
    BY <1>0, FS_Interval
  <2>2. 0 \in S
    OBVIOUS
  <2> HIDE DEF S
  <2>3. IsFiniteSet(S)
    BY <1>1, <2>1, FS_Subset
  <2> QED BY <1>0, <1>1, <2>2, <2>3
<1>3. Max(S) \in S /\ \A y \in S : Max(S) >= y
  <2> HIDE DEF S
  <2> QED BY <1>2, Extremes
<1>4. MaxLevel(con) = Max(S)
  BY DEF MaxLevel
<1>5. PICK m : m = Max(S)
  OBVIOUS
<1>6. m \in Nat /\ m <= NDim /\ (m # 0 => m \in Loops /\ con.coef[m] # 0)
  BY <1>0, <1>1, <1>3, <1>5
<1>7. \A l \in Loops : l > m => con.coef[l] = 0
  BY <1>0, <1>3, <1>5, <1>6
<1> QED BY <1>4, <1>5, <1>6, <1>7

\* What a loop runs first stays with the half that runs first.
LEMMA PartsInOrder ==
  ASSUME NEW con \in Rows, NEW level \in Loops, MaxLevel(con) <= level,
         NEW p \in Points, NEW q \in Points, \A k \in 1 .. level-1 : p[k] = q[k], p[level] <= q[level]
  PROVE  /\ PlaceAfter(con) => (Holds(con, q) => Holds(con, p))
         /\ ~PlaceAfter(con) => (Holds(con, p) => Holds(con, q))
<1>1. PICK m : m = MaxLevel(con)
  OBVIOUS
<1>2. /\ m \in Nat /\ m <= NDim /\ (\A l \in Loops : l > m => con.coef[l] = 0)
      /\ (m # 0 => m \in Loops /\ con.coef[m] # 0) /\ m <= level
  BY <1>1, MaxLevelIs
<1>3. PICK a : a = con.coef[level]
  OBVIOUS
<1>4. a \in Int /\ p[level] \in Int /\ q[level] \in Int /\ level \in Nat
  BY <1>3, DimensionsAre DEF Rows, Points
<1>5. \A l \in Loops \ {level} : con.coef[l] = 0 \/ q[l] = p[l]
  <2>1. \A l \in Loops \ {level} : l \in 1 .. level-1 \/ l > level
    BY DimensionsAre DEF Loops
  <2>2. \A l \in Loops : l > level => l > m
    BY <1>2, <1>4, DimensionsAre
  <2> QED BY <1>2, <2>1, <2>2
<1>6. PICK x, y, d : x = Affine(con, p) /\ y = Affine(con, q) /\ d = q[level] - p[level]
  OBVIOUS
<1>7. y = x + a * d
  BY <1>3, <1>5, <1>6, AffineAlong
<1>8. x \in Int /\ d \in Int /\ d >= 0
  <2>1. Affine(con, p) \in Int
    BY AffineIs DEF Rows
  <2> QED BY <1>4, <1>6, <2>1
<1>9. m # level => a = 0
  BY <1>2, <1>3, <1>4
<1>10. PlaceAfter(con) => a <= 0
  <2>1. PlaceAfter(con) => m = 0 \/ con.coef[m] < 0
    BY <1>1 DEF PlaceAfter
  <2>2. CASE m = level
    BY <1>2, <1>3, <1>4, <2>1, <2>2, DimensionsAre
  <2>3. CASE m # level
    BY <1>4, <1>9, <2>3
  <2> QED BY <2>2, <2>3
<1>11. ~PlaceAfter(con) => a >= 0
  <2>1. ~PlaceAfter(con) => ~(con.coef[m] < 0)
    BY <1>1 DEF PlaceAfter
  <2> QED BY <1>3, <1>4, <1>9, <2>1
<1>12. (a <= 0 => a * d <= 0) /\ (a >= 0 => a * d >= 0) /\ a * d \in Int
  <2>1. a * d \in Int
    BY <1>4, <1>8
  <2>2. a >= 0 => a * d >= 0
    BY <1>4, <1>8, SMT
  <2>3. a <= 0 => a * d <= 0
    <3> SUFFICES ASSUME a <= 0 PROVE a * d <= 0
      OBVIOUS
    <3>1. (-a) * d >= 0
      BY <1>4, <1>8, SMT
    <3>2. (-a) * d = -(a * d)
      BY <1>4, <1>8, SMT
    <3> QED BY <2>1, <3>1, <3>2
  <2> QED BY <2>1, <2>2, <2>3
<1>13. PlaceAfter(con) => (y >= 0 => x >= 0)
  BY <1>7, <1>8, <1>10, <1>12
<1>14. ~PlaceAfter(con) => (x >= 0 => y >= 0)
  BY <1>7, <1>8, <1>11, <1>12
<1> QED BY <1>6, <1>13, <1>14 DEF Holds

\* So no dependence leads from the half that runs later to the other.
LEMMA NeverBack ==
  ASSUME NEW x, NEW y, x.at \in Points, y.at \in Points, x.lex \in Lexes, y.lex \in Lexes,
         NEW level \in Loops, Alike(x, y, level-1), x.lex[level] = y.lex[level], Sooner(x, y),
         NEW con \in Rows, MaxLevel(con) <= level
  PROVE  /\ PlaceAfter(con) => (Holds(con, y.at) => Holds(con, x.at))
         /\ ~PlaceAfter(con) => (Holds(con, x.at) => Holds(con, y.at))
<1>0. /\ level \in Nat /\ level >= 1 /\ level <= NDim /\ NDim \in Nat
      /\ \A l \in Loops : x.at[l] \in Int /\ y.at[l] \in Int /\ l \in Nat /\ l >= 1
  BY DimensionsAre DEF Points
<1>1. x.at[level] <= y.at[level]
  <2>1. CASE \E l \in 1 .. NDim+1 : Alike(x, y, l-1) /\ x.lex[l] < y.lex[l]
    <3>1. PICK l \in 1 .. NDim+1 : Alike(x, y, l-1) /\ x.lex[l] < y.lex[l]
      BY <2>1
    <3>2. CASE l > level
      <4>1. level \in 1 .. l-1
        BY <1>0, <3>2
      <4>2. x.at[level] = y.at[level]
        BY <3>1, <4>1 DEF Alike
      <4> QED BY <1>0, <4>2
    <3>3. CASE l < level
      <4>1. l \in 1 .. level-1
        BY <1>0, <3>3
      <4>2. x.lex[l] = y.lex[l] /\ x.at[l] = y.at[l]
        BY <4>1 DEF Alike
      <4>3. x.lex[l] \in Int
        BY DEF Lexes
      <4> QED BY <3>1, <4>2, <4>3
    <3>4. CASE l = level
      <4>1. x.lex[l] \in Int /\ y.lex[l] = x.lex[l]
        BY <3>4 DEF Lexes
      <4> QED BY <3>1, <4>1
    <3> QED BY <1>0, <3>2, <3>3, <3>4
  <2>2. CASE \E l \in Loops : Alike(x, y, l-1) /\ x.lex[l] = y.lex[l] /\ x.at[l] < y.at[l]
    <3>1. PICK l \in Loops : Alike(x, y, l-1) /\ x.at[l] < y.at[l]
      BY <2>2
    <3>2. CASE l > level
      <4>1. level \in 1 .. l-1
        BY <1>0, <3>2
      <4>2. x.at[level] = y.at[level]
        BY <3>1, <4>1 DEF Alike
      <4> QED BY <1>0, <4>2
    <3>3. CASE l < level
      <4>1. l \in 1 .. level-1
        BY <1>0, <3>3
      <4>2. x.at[l] = y.at[l]
        BY <4>1 DEF Alike
      <4> QED BY <1>0, <3>1, <4>2
    <3>4. CASE l = level
      BY <1>0, <3>1, <3>4
    <3> QED BY <1>0, <3>2, <3>3, <3>4
  <2>3. CASE Alike(x, y, NDim)
    <3>1. level \in 1 .. NDim
      BY <1>0
    <3>2. x.at[level] = y.at[level]
      BY <2>3, <3>1 DEF Alike
    <3> QED BY <1>0, <3>2
  <2> QED BY <2>1, <2>2, <2>3 DEF Sooner
<1>2. \A k \in 1 .. level-1 : x.at[k] = y.at[k]
  BY DEF Alike
<1>3. PICK p, q : p = x.at /\ q = y.at
  OBVIOUS
<1> QED BY <1>1, <1>2, <1>3, PartsInOrder

\* Loops beside a cut keep their order.
LEMMA MovedOrder ==
  ASSUME NEW a, NEW b, NEW base, NEW level, NEW d \in {1, -1}, NEW m, NEW n,
         MovedShape(a, base, level, d, m), MovedShape(b, base, level, d, n),
         Around(a, base, level) <=> Around(b, base, level)
  PROVE  /\ a[level] \in Int /\ b[level] \in Int /\ m[level] \in Int /\ n[level] \in Int
         /\ a[level] < b[level] => m[level] < n[level]
         /\ a[level] = b[level] <=> m[level] = n[level]
<1>1. PICK x, y, z, g, h : x = a[level] /\ y = b[level] /\ z = base[level] /\ g = m[level] /\ h = n[level]
  OBVIOUS
<1>2. PICK c \in BOOLEAN : c = Around(a, base, level)
  BY DEF Around
<1>3. c <=> Around(b, base, level)
  BY <1>2
<1>4. /\ x \in Int /\ y \in Int /\ z \in Int
      /\ g = IF c /\ IF d = 1 THEN x >= z + 1 ELSE x <= z - 1 THEN x + d ELSE x
      /\ h = IF c /\ IF d = 1 THEN y >= z + 1 ELSE y <= z - 1 THEN y + d ELSE y
  BY <1>1, <1>2, <1>3 DEF MovedShape
<1>5. g \in Int /\ h \in Int /\ (x < y => g < h) /\ (x = y <=> g = h)
  <2>1. CASE d = 1
    BY <1>4, <2>1
  <2>2. CASE d = -1
    BY <1>4, <2>2
  <2> QED BY <2>1, <2>2
<1> QED BY <1>1, <1>4, <1>5

\* Where the place next to the loop is free, they keep their order with the new half.
LEMMA MovedBeside ==
  ASSUME NEW a, NEW base, NEW level, NEW d \in {1, -1}, NEW m, MovedShape(a, base, level, d, m),
         Around(a, base, level), a[level] # base[level] + d
  PROVE  /\ a[level] < base[level] => m[level] < base[level] + 2 * d
         /\ a[level] > base[level] => m[level] > base[level] + 2 * d
         /\ a[level] = base[level] => m[level] = base[level]
         /\ m[level] # base[level] + 2 * d
         /\ \A e \in {1, -1} : m[level] = base[level] + e => a[level] = base[level] + e
<1>1. PICK x, z, g : x = a[level] /\ z = base[level] /\ g = m[level]
  OBVIOUS
<1>2. /\ x \in Int /\ z \in Int /\ x # z + d
      /\ g = IF IF d = 1 THEN x >= z + 1 ELSE x <= z - 1 THEN x + d ELSE x
  BY <1>1 DEF MovedShape
<1>3. /\ (x < z => g < z + 2 * d) /\ (x > z => g > z + 2 * d) /\ (x = z => g = z) /\ g # z + 2 * d
      /\ (g = z + 1 => x = z + 1) /\ (g = z - 1 => x = z - 1)
  <2>1. CASE d = 1
    BY <1>2, <2>1
  <2>2. CASE d = -1
    BY <1>2, <2>2
  <2> QED BY <2>1, <2>2
<1>4. z + (-1) = z - 1
  BY <1>2
<1>5. \A e \in {1, -1} : e = 1 \/ e = -1
  OBVIOUS
<1>6. \A e \in {1, -1} : g = z + e => x = z + e
  BY <1>3, <1>4, <1>5
<1> QED BY <1>1, <1>3, <1>6
-----------------------------------------------------------------------------
(* Where the halves of a cut run.                                          *)

\* The view of a run whose statement is cut, where it goes to the new half and
\* where it does not: base is the place of the loop, d the side of the new half.
NewHalf(x, u, base, level, d, cut, first) ==
  /\ OtherPlace(x, u, level) /\ x.at \in Points /\ x.lex \in Lexes /\ u.lex \in Lexes
  /\ Around(x.lex, base, level) /\ x.lex[level] = base[level] /\ u.lex[level] = base[level] + 2 * d
  /\ \E i \in DOMAIN cut : cut[i] = x.n /\ u.n = first + i

OldHalf(x, u, base, level, d) ==
  /\ OtherPlace(x, u, level) /\ x.at \in Points /\ x.lex \in Lexes /\ u.lex \in Lexes
  /\ u.n = x.n /\ MovedShape(x.lex, base, level, d, u.lex)

\* The views of all runs before and after
SplitViewsShape(ss, same, level, con, base, cut, f, new) ==
  \A r \in RunsIn(ss) :
    IF r[1] \in same /\ ~Holds(con, View(ss, r).at)
    THEN NewHalf(View(ss, r), View(new, f[r]), base, level, Step(con), cut, Len(ss))
    ELSE OldHalf(View(ss, r), View(new, f[r]), base, level, Step(con))

\* A statement of a loop
LEMMA SameLoopIs ==
  ASSUME NEW ss, NEW s \in DOMAIN ss, NEW level \in Loops, NEW t \in DOMAIN ss
  PROVE  t \in SameLoop(ss, s, level) <=> Around(ss[t].lex, ss[s].lex, level) /\ ss[t].lex[level] = ss[s].lex[level]
<1>0. level \in Nat /\ level >= 1
  BY DimensionsAre
<1>1. \A k : k \in 1 .. level <=> k \in 1 .. level-1 \/ k = level
  BY <1>0
<1> QED BY <1>1 DEF SameLoop, Around

\* A piece of a statement has its positions.
LEMMA PiecePosition ==
  ASSUME NEW m, NEW s, NEW P, Piece(m, s, P), NEW p
  PROVE  Position(m, p) = Position(s, p)
BY DEF Piece, Position

\* Lexical orders that differ at most at one level
LEMMA OneLevel ==
  ASSUME NEW lex, NEW old, old \in Lexes, NEW level \in Loops, NEW d, NEW place, NEW new,
         \A l \in 1 .. NDim+1 : l # level => old[l] = lex[l], new = Moved(old, place, level, d)
  PROVE  \A l \in 1 .. NDim+1 : l # level => new[l] = lex[l]
BY DimensionsAre DEF Moved, Lexes

\* The places of the statements after a cut: those there were move, and the new
\* halves are two places from the loop.
CutPlacesShape(ss, base, level, d, cut, new) ==
  /\ \A t \in DOMAIN ss : /\ ss[t].lex \in Lexes /\ MovedShape(ss[t].lex, base, level, d, new[t].lex)
                          /\ \A l \in 1 .. NDim+1 : l # level => new[t].lex[l] = ss[t].lex[l]
  /\ \A i \in DOMAIN cut : /\ new[Len(ss) + i].lex \in Lexes /\ new[Len(ss) + i].lex[level] = base[level] + 2 * d
                           /\ \A l \in 1 .. NDim+1 : l # level => new[Len(ss) + i].lex[l] = ss[cut[i]].lex[l]
  /\ DOMAIN ss = 1 .. Len(ss) /\ DOMAIN cut = 1 .. Len(cut) /\ Len(ss) \in Nat /\ Len(cut) \in Nat
  /\ DOMAIN new = 1 .. (Len(ss) + Len(cut))
  /\ \A i \in DOMAIN cut : Len(ss) + i \in DOMAIN new /\ Len(ss) + i \notin DOMAIN ss

\* split moves the places of a loop as CutPlacesShape says.
LEMMA CutPlaces ==
  ASSUME NEW ss, Proper(ss), NEW s \in DOMAIN ss, NEW level \in Loops, NEW loop, loop = LoopOf(ss, s, level),
         NEW con, NEW cut, cut = Cut(ss, loop.same, con), NEW base, base = ss[s].lex,
         NEW new, new = SplitStatements(ss, loop, con), NEW d, d = Step(con)
  PROVE  CutPlacesShape(ss, base, level, d, cut, new)
<1>1. PICK place, same : place = Place(loop, con) /\ same = loop.same
  OBVIOUS
<1>2. /\ CutOnce(ss, same, level, con, place, new) /\ CutShape(ss, same, con, cut)
      /\ SplitShape(ss, loop, con, cut, place, new) /\ loop.level = level
  BY <1>1, SplitCuts
<1>3. same = SameLoop(ss, s, level) /\ place = Place(LoopOf(ss, s, level), con)
  BY <1>1 DEF LoopOf
<1>4. d \in {1, -1} /\ d \in Int
  BY StepIs
<1>5. /\ \A t \in DOMAIN ss : ss[t].lex \in Lexes /\ MovedShape(ss[t].lex, base, level, d, new[t].lex)
      /\ \A t \in DOMAIN new : t \notin DOMAIN ss =>
           new[t].lex \in Lexes /\ new[t].lex[level] = base[level] + 2 * d
  BY <1>2, <1>3, LoopStays
<1>6. /\ DOMAIN ss = 1 .. Len(ss) /\ Len(ss) \in Nat /\ DOMAIN new = 1 .. (Len(ss) + Len(cut))
      /\ \A n \in DOMAIN ss : new[n].lex = Moved(ss[n].lex, place, level, d)
      /\ \A i \in DOMAIN cut : new[Len(ss) + i].lex = Moved([ss[cut[i]].lex EXCEPT ![level] = place[level]], place, level, d)
  BY <1>2 DEF SplitShape, Proper, SeqLike
<1>7. /\ DOMAIN cut = 1 .. Len(cut) /\ Len(cut) \in Nat /\ \A i \in DOMAIN cut : cut[i] \in DOMAIN ss
  BY <1>2, <1>3 DEF CutShape, SameLoop
<1>8. ASSUME NEW t \in DOMAIN ss, NEW l \in 1 .. NDim+1, l # level
      PROVE  new[t].lex[l] = ss[t].lex[l]
  <2>1. PICK a, b : a = ss[t].lex /\ b = new[t].lex
    OBVIOUS
  <2>2. b = Moved(a, place, level, d) /\ a \in Lexes
    BY <1>5, <1>6, <2>1
  <2>3. \A k \in 1 .. NDim+1 : k # level => b[k] = a[k]
    BY <2>2, OneLevel
  <2> QED BY <1>8, <2>1, <2>3
<1>9. place[level] = base[level] + d /\ base[level] \in Int
  <2>1. base \in Lexes
    BY <1>5
  <2> QED BY <1>3, <2>1, DimensionsAre DEF Place, LoopOf, Lexes
<1>10. ASSUME NEW i \in DOMAIN cut, NEW l \in 1 .. NDim+1, l # level
       PROVE  new[Len(ss) + i].lex[l] = ss[cut[i]].lex[l]
  <2>1. PICK a, b : a = ss[cut[i]].lex /\ b = new[Len(ss) + i].lex
    OBVIOUS
  <2>2. PICK z, o : z = place[level] /\ o = [a EXCEPT ![level] = z]
    OBVIOUS
  <2>3. b = Moved(o, place, level, d) /\ a \in Lexes
    BY <1>5, <1>6, <1>7, <2>1, <2>2
  <2>4. o \in Lexes /\ \A k \in 1 .. NDim+1 : k # level => o[k] = a[k]
    <3>1. z \in Int
      BY <1>4, <1>9, <2>2
    <3> QED BY <2>2, <2>3, <3>1, DimensionsAre DEF Lexes
  <2>5. \A k \in 1 .. NDim+1 : k # level => b[k] = a[k]
    BY <2>3, <2>4, OneLevel
  <2> QED BY <1>10, <2>1, <2>5
<1>11. \A i \in DOMAIN cut : Len(ss) + i \in DOMAIN new /\ Len(ss) + i \notin DOMAIN ss
  BY <1>6, <1>7
<1>12. \A i \in DOMAIN cut : new[Len(ss) + i].lex \in Lexes /\ new[Len(ss) + i].lex[level] = base[level] + 2 * d
  BY <1>5, <1>11
<1> QED BY <1>5, <1>6, <1>7, <1>8, <1>10, <1>11, <1>12 DEF CutPlacesShape

\* split sends the runs to the halves as SplitViewsShape says.
LEMMA SplitViews ==
  ASSUME NEW ss, Proper(ss), NEW s \in DOMAIN ss, NEW level \in Loops, NEW loop, loop = LoopOf(ss, s, level),
         NEW same, same = loop.same, \A t \in same : ss[t].rows = Identity,
         NEW con, NEW cut, cut = Cut(ss, same, con), NEW base, base = ss[s].lex,
         NEW new, new = SplitStatements(ss, loop, con), NEW f, f = [r \in RunsIn(ss) |-> Sent(ss, same, con, r)]
  PROVE  SplitViewsShape(ss, same, level, con, base, cut, f, new)
<1>1. PICK place : place = Place(loop, con)
  OBVIOUS
<1>2. /\ CutOnce(ss, same, level, con, place, new) /\ CutShape(ss, same, con, cut)
      /\ SplitShape(ss, loop, con, cut, place, new) /\ LoopIn(ss, loop) /\ loop.level = level
  BY <1>1, SplitCuts
<1>3. same = SameLoop(ss, s, level) /\ place = Place(LoopOf(ss, s, level), con)
  BY <1>1 DEF LoopOf
<1>4. PICK d : d = Step(con)
  OBVIOUS
<1>5. d \in {1, -1} /\ d \in Int
  BY <1>4, StepIs
<1>6. CutPlacesShape(ss, base, level, d, cut, new)
  BY <1>4, CutPlaces
<1>7. /\ \A n \in DOMAIN ss : Piece(new[n], ss[n], Staying(ss, same, con, n))
      /\ \A i \in DOMAIN cut : Piece(new[Len(ss) + i], ss[cut[i]], Part2(ss[cut[i]], con))
  BY <1>2 DEF SplitShape
<1>8. /\ DOMAIN cut = 1 .. Len(cut) /\ Len(cut) \in Nat
      /\ \A t \in same : Part2(ss[t], con) # {} => \E i \in DOMAIN cut : cut[i] = t /\ Half(ss, cut, t) = Len(ss) + i
  BY <1>2 DEF CutShape
<1>9. same \subseteq DOMAIN ss
  BY <1>3 DEF SameLoop
<1> SUFFICES ASSUME NEW r \in RunsIn(ss)
             PROVE  IF r[1] \in same /\ ~Holds(con, View(ss, r).at)
                    THEN NewHalf(View(ss, r), View(new, f[r]), base, level, d, cut, Len(ss))
                    ELSE OldHalf(View(ss, r), View(new, f[r]), base, level, d)
  BY <1>4 DEF SplitViewsShape
<1>10. PICK x : x = View(ss, r)
  OBVIOUS
<1>11. /\ x.lex = ss[r[1]].lex /\ x.n = r[1] /\ x.c = r[2] /\ x.at = Position(ss[r[1]], r[3])
       /\ x.lex \in Lexes /\ x.at \in Points /\ r[1] \in DOMAIN ss /\ r[3] \in ss[r[1]].IS
  BY <1>10, ViewIs
<1>12. f[r] = IF r[1] \in same /\ r[3] \in Part2(ss[r[1]], con) THEN <<Half(ss, cut, r[1]), r[2], r[3]>> ELSE r
  BY DEF Sent
<1>13. r[1] \in same => x.at = r[3]
  <2>1. r[3] \in Points
    BY <1>11 DEF Proper, Statement
  <2> QED BY <1>11, <2>1, IdentityPosition
<1>14. r[1] \in same => (r[3] \in Part2(ss[r[1]], con) <=> ~Holds(con, x.at))
  BY <1>11, <1>13 DEF Part2
<1>15. CASE r[1] \in same /\ ~Holds(con, x.at)
  <2>1. PICK i \in DOMAIN cut : cut[i] = r[1] /\ Half(ss, cut, r[1]) = Len(ss) + i
    BY <1>8, <1>14, <1>15
  <2>2. PICK t : t = Len(ss) + i
    OBVIOUS
  <2>3. f[r] = <<t, r[2], r[3]>>
    BY <1>12, <1>14, <1>15, <2>1, <2>2
  <2>5. Piece(new[t], ss[r[1]], Part2(ss[r[1]], con))
    BY <1>7, <2>1, <2>2
  <2>6. PICK u : u = View(new, f[r])
    OBVIOUS
  <2>7. u.lex = new[t].lex /\ u.at = Position(new[t], r[3]) /\ u.n = t /\ u.c = r[2]
    BY <2>3, <2>6 DEF View
  <2>8. u.at = x.at
    BY <1>11, <2>5, <2>7, PiecePosition
  <2>9. /\ u.lex \in Lexes /\ u.lex[level] = base[level] + 2 * d
        /\ \A l \in 1 .. NDim+1 : l # level => u.lex[l] = x.lex[l]
    BY <1>6, <1>11, <2>1, <2>2, <2>7 DEF CutPlacesShape
  <2>11. Around(x.lex, base, level) /\ x.lex[level] = base[level]
    BY <1>3, <1>11, <1>15, SameLoopIs
  <2>12. OtherPlace(x, u, level)
    BY <1>11, <2>7, <2>8, <2>9 DEF OtherPlace
  <2>13. NewHalf(x, u, base, level, d, cut, Len(ss))
    BY <1>11, <2>1, <2>2, <2>7, <2>9, <2>11, <2>12 DEF NewHalf
  <2> QED BY <1>10, <1>15, <2>6, <2>13
<1>16. CASE ~(r[1] \in same /\ ~Holds(con, x.at))
  <2>1. f[r] = r
    BY <1>12, <1>14, <1>16
  <2>2. PICK u : u = View(new, f[r])
    OBVIOUS
  <2>3. u.lex = new[r[1]].lex /\ u.at = Position(new[r[1]], r[3]) /\ u.n = r[1] /\ u.c = r[2]
    BY <2>1, <2>2 DEF View
  <2>4. Piece(new[r[1]], ss[r[1]], Staying(ss, same, con, r[1]))
    BY <1>7, <1>11
  <2>5. u.at = x.at
    BY <1>11, <2>3, <2>4, PiecePosition
  <2>6. MovedShape(x.lex, base, level, d, u.lex) /\ \A l \in 1 .. NDim+1 : l # level => u.lex[l] = x.lex[l]
    BY <1>6, <1>11, <2>3 DEF CutPlacesShape
  <2>7. u.lex \in Lexes
    BY <2>6 DEF MovedShape
  <2>9. OldHalf(x, u, base, level, d)
    BY <1>11, <2>3, <2>5, <2>6, <2>7 DEF OldHalf, OtherPlace
  <2> QED BY <1>10, <1>16, <2>2, <2>9
<1> QED BY <1>10, <1>15, <1>16

\* A run of the loop that is cut
InLoop(x, base, level) == Around(x.lex, base, level) /\ x.lex[level] = base[level]

\* The view of a run before and after a cut for which there is place
CutView(x, u, base, level, con, cut, first) ==
  /\ Around(x.lex, base, level) => x.lex[level] # base[level] + Step(con)
  /\ IF InLoop(x, base, level) /\ ~Holds(con, x.at)
     THEN NewHalf(x, u, base, level, Step(con), cut, first)
     ELSE OldHalf(x, u, base, level, Step(con))

\* The statements of cut are in the order of their numbers.
Increasing(cut) ==
  /\ DOMAIN cut \in SUBSET Nat
  /\ \A i, j \in DOMAIN cut : (cut[i] < cut[j] => i < j) /\ (cut[i] = cut[j] => i = j)

\* Runs alike down to the loop that is cut
LEMMA AlikeAround ==
  ASSUME NEW x, NEW y, NEW level, Alike(x, y, level-1), NEW base
  PROVE  Around(x.lex, base, level) <=> Around(y.lex, base, level)
BY DEF Alike, Around

\* A cut keeps the order of all runs.
LEMMA CutSooner ==
  ASSUME NEW base \in Lexes, NEW level \in Loops, NEW con \in Rows, MaxLevel(con) <= level, NEW cut, Increasing(cut), NEW first \in Nat,
         NEW x, NEW y, NEW u, NEW v, Sooner(x, y),
         CutView(x, u, base, level, con, cut, first), CutView(y, v, base, level, con, cut, first)
  PROVE  Sooner(u, v)
<1>1. PICK d, b : d = Step(con) /\ b = base[level]
  OBVIOUS
<1>2. d \in {1, -1} /\ b \in Int
  BY <1>1, StepIs, DimensionsAre DEF Lexes
<1>3. (d = 1 <=> PlaceAfter(con)) /\ (d = -1 <=> ~PlaceAfter(con))
  BY <1>1 DEF Step
<1>4. PICK hx \in BOOLEAN, hy \in BOOLEAN : hx = (InLoop(x, base, level) /\ ~Holds(con, x.at))
                                          /\ hy = (InLoop(y, base, level) /\ ~Holds(con, y.at))
  BY DEF InLoop, Holds, Around
<1>5. /\ hx => NewHalf(x, u, base, level, d, cut, first)
      /\ ~hx => OldHalf(x, u, base, level, d)
      /\ hy => NewHalf(y, v, base, level, d, cut, first)
      /\ ~hy => OldHalf(y, v, base, level, d)
      /\ Around(x.lex, base, level) => x.lex[level] # base[level] + d
      /\ Around(y.lex, base, level) => y.lex[level] # base[level] + d
  BY <1>1, <1>4 DEF CutView
<1>6. /\ OtherPlace(x, u, level) /\ OtherPlace(y, v, level)
      /\ x.at \in Points /\ y.at \in Points /\ x.lex \in Lexes /\ y.lex \in Lexes /\ u.lex \in Lexes /\ v.lex \in Lexes
  BY <1>5 DEF NewHalf, OldHalf
<1>7. x.lex[level] \in Int /\ y.lex[level] \in Int /\ u.lex[level] \in Int /\ v.lex[level] \in Int
  BY <1>6, DimensionsAre DEF Lexes
<1>8. ASSUME Alike(x, y, level-1)
      PROVE  /\ x.lex[level] < y.lex[level] => u.lex[level] < v.lex[level]
             /\ x.lex[level] = y.lex[level] =>
                  \/ u.lex[level] < v.lex[level]
                  \/ u.lex[level] = v.lex[level] /\ (x.n < y.n => u.n < v.n) /\ (x.n = y.n => u.n = v.n)
  <2>1. Around(x.lex, base, level) <=> Around(y.lex, base, level)
    BY <1>8, AlikeAround
  <2>2. CASE ~hx /\ ~hy
    <3>1. MovedShape(x.lex, base, level, d, u.lex) /\ MovedShape(y.lex, base, level, d, v.lex) /\ u.n = x.n /\ v.n = y.n
      BY <1>5, <2>2 DEF OldHalf
    <3>2. /\ x.lex[level] < y.lex[level] => u.lex[level] < v.lex[level]
          /\ x.lex[level] = y.lex[level] <=> u.lex[level] = v.lex[level]
      BY <1>2, <2>1, <3>1, MovedOrder
    <3> QED BY <3>1, <3>2
  <2>3. CASE hx /\ ~hy
    <3>1. x.lex[level] = b /\ Around(x.lex, base, level) /\ u.lex[level] = b + 2 * d
      BY <1>1, <1>5, <2>3 DEF NewHalf
    <3>2. MovedShape(y.lex, base, level, d, v.lex)
      BY <1>5, <2>3 DEF OldHalf
    <3>3. /\ y.lex[level] > b => v.lex[level] > b + 2 * d
          /\ y.lex[level] = b => v.lex[level] = b
      BY <1>1, <1>2, <1>5, <2>1, <3>1, <3>2, MovedBeside
    <3>4. x.lex[level] = y.lex[level] => d = -1
      <4> SUFFICES ASSUME x.lex[level] = y.lex[level], PlaceAfter(con) PROVE FALSE
        BY <1>2, <1>3
      <4>1. ~Holds(con, x.at)
        BY <1>4, <2>3
      <4>2. InLoop(y, base, level)
        BY <1>1, <2>1, <3>1 DEF InLoop
      <4>3. Holds(con, y.at)
        BY <1>4, <2>3, <4>2
      <4> QED BY <1>6, <1>8, <4>1, <4>3, NeverBack
    <3> QED BY <1>2, <1>7, <3>1, <3>3, <3>4
  <2>4. CASE ~hx /\ hy
    <3>1. y.lex[level] = b /\ Around(y.lex, base, level) /\ v.lex[level] = b + 2 * d
      BY <1>1, <1>5, <2>4 DEF NewHalf
    <3>2. MovedShape(x.lex, base, level, d, u.lex)
      BY <1>5, <2>4 DEF OldHalf
    <3>3. /\ x.lex[level] < b => u.lex[level] < b + 2 * d
          /\ x.lex[level] = b => u.lex[level] = b
      BY <1>1, <1>2, <1>5, <2>1, <3>1, <3>2, MovedBeside
    <3>4. x.lex[level] = y.lex[level] => d = 1
      <4> SUFFICES ASSUME x.lex[level] = y.lex[level], ~PlaceAfter(con) PROVE FALSE
        BY <1>2, <1>3
      <4>1. ~Holds(con, y.at)
        BY <1>4, <2>4
      <4>2. InLoop(x, base, level)
        BY <1>1, <2>1, <3>1 DEF InLoop
      <4>3. Holds(con, x.at)
        BY <1>4, <2>4, <4>2
      <4> QED BY <1>6, <1>8, <4>1, <4>3, NeverBack
    <3> QED BY <1>2, <1>7, <3>1, <3>3, <3>4
  <2>5. CASE hx /\ hy
    <3>1. x.lex[level] = b /\ u.lex[level] = b + 2 * d /\ y.lex[level] = b /\ v.lex[level] = b + 2 * d
      BY <1>1, <1>5, <2>5 DEF NewHalf
    <3>2. PICK i \in DOMAIN cut : cut[i] = x.n /\ u.n = first + i
      BY <1>5, <2>5 DEF NewHalf
    <3>3. PICK j \in DOMAIN cut : cut[j] = y.n /\ v.n = first + j
      BY <1>5, <2>5 DEF NewHalf
    <3>4. (x.n < y.n => i < j) /\ (x.n = y.n => i = j) /\ i \in Nat /\ j \in Nat
      BY <3>2, <3>3 DEF Increasing
    <3>5. (x.n < y.n => u.n < v.n) /\ (x.n = y.n => u.n = v.n)
      BY <3>2, <3>3, <3>4
    <3> QED BY <1>2, <3>1, <3>5
  <2> QED BY <2>2, <2>3, <2>4, <2>5
<1> QED BY <1>6, <1>7, <1>8, SoonerPlace
-----------------------------------------------------------------------------
(* The vectors between the halves of a cut.                                *)

\* A vector from f to t
EdgeOf(f, t, dv) == [from |-> f, to |-> t, dv |-> dv]

\* The new half of statement n is h.
Halved(n, h, cut, first) == \E i \in DOMAIN cut : cut[i] = n /\ h = first + i

\* split makes f of e: between halves in the same order as before, to or from
\* the half that runs later, and to or from statements that are not cut.
Arises(e, f, same, level, con, cut, first) ==
  LET inside == e.from \in same /\ e.to \in same
  IN  /\ f = EdgeOf(f.from, f.to, f.dv)
      /\ \/ /\ inside /\ f.dv = e.dv
            /\ Halved(e.from, f.from, cut, first) /\ Halved(e.to, f.to, cut, first)
         \/ /\ inside /\ f.dv = Jumbled(e.dv, DimOf(level)) /\ PlaceAfter(con)
            /\ f.from = e.from /\ Halved(e.to, f.to, cut, first)
         \/ /\ inside /\ f.dv = Jumbled(e.dv, DimOf(level)) /\ ~PlaceAfter(con)
            /\ Halved(e.from, f.from, cut, first) /\ f.to = e.to
         \/ ~inside /\ f.dv = e.dv /\ Halved(e.from, f.from, cut, first) /\ f.to = e.to
         \/ ~inside /\ f.dv = e.dv /\ f.from = e.from /\ Halved(e.to, f.to, cut, first)

\* The new halves of statement t
HalvesOf(ss, cut, t) == IF t \in Range(cut) THEN {Half(ss, cut, t)} ELSE {}

\* What split makes of one vector
SplitEdges(e, ss, same, level, con, cut) ==
  IF {e.from, e.to} \subseteq same
  THEN {EdgeOf(f, t, e.dv) : f \in HalvesOf(ss, cut, e.from), t \in HalvesOf(ss, cut, e.to)}
       \union IF PlaceAfter(con) THEN {EdgeOf(e.from, t, Jumbled(e.dv, DimOf(level))) : t \in HalvesOf(ss, cut, e.to)}
                                 ELSE {EdgeOf(f, e.to, Jumbled(e.dv, DimOf(level))) : f \in HalvesOf(ss, cut, e.from)}
  ELSE {EdgeOf(f, e.to, e.dv) : f \in HalvesOf(ss, cut, e.from)} \union {EdgeOf(e.from, t, e.dv) : t \in HalvesOf(ss, cut, e.to)}

LEMMA HalvesAre ==
  ASSUME NEW ss, NEW same, NEW con, NEW cut, CutShape(ss, same, con, cut), NEW t, NEW h
  PROVE  h \in HalvesOf(ss, cut, t) <=> Halved(t, h, cut, Len(ss))
<1>1. \A i \in DOMAIN cut : Half(ss, cut, cut[i]) = Len(ss) + i
  BY DEF CutShape
<1>2. t \in Range(cut) <=> \E i \in DOMAIN cut : cut[i] = t
  BY DEF Range
<1> QED BY <1>1, <1>2 DEF HalvesOf, Halved

LEMMA SplitEdgesAre ==
  ASSUME NEW ss, NEW same, NEW level, NEW con, NEW cut, CutShape(ss, same, con, cut), NEW e, NEW f
  PROVE  f \in SplitEdges(e, ss, same, level, con, cut) <=> Arises(e, f, same, level, con, cut, Len(ss))
<1>1. PICK in \in BOOLEAN : in = (e.from \in same /\ e.to \in same)
  OBVIOUS
<1>2. PICK pa \in BOOLEAN : pa = PlaceAfter(con)
  BY DEF PlaceAfter
<1>3. PICK hf, ht, j : hf = HalvesOf(ss, cut, e.from) /\ ht = HalvesOf(ss, cut, e.to) /\ j = Jumbled(e.dv, DimOf(level))
  OBVIOUS
<1>4. PICK ff, ft, fd : ff = f.from /\ ft = f.to /\ fd = f.dv
  OBVIOUS
<1>5. PICK ef, et, ed : ef = e.from /\ et = e.to /\ ed = e.dv
  OBVIOUS
<1>6. /\ ff \in hf <=> Halved(ef, ff, cut, Len(ss))
      /\ ft \in ht <=> Halved(et, ft, cut, Len(ss))
  BY <1>3, <1>4, <1>5, HalvesAre
<1>7. Arises(e, f, same, level, con, cut, Len(ss)) <=>
        /\ f = EdgeOf(ff, ft, fd)
        /\ \/ in /\ fd = ed /\ ff \in hf /\ ft \in ht
           \/ in /\ fd = j /\ pa /\ ff = ef /\ ft \in ht
           \/ in /\ fd = j /\ ~pa /\ ff \in hf /\ ft = et
           \/ ~in /\ fd = ed /\ ff \in hf /\ ft = et
           \/ ~in /\ fd = ed /\ ff = ef /\ ft \in ht
  BY <1>1, <1>2, <1>3, <1>4, <1>5, <1>6 DEF Arises
<1>8. SplitEdges(e, ss, same, level, con, cut) =
        IF in THEN {EdgeOf(a, t, ed) : a \in hf, t \in ht}
                   \union IF pa THEN {EdgeOf(ef, t, j) : t \in ht} ELSE {EdgeOf(a, et, j) : a \in hf}
        ELSE {EdgeOf(a, et, ed) : a \in hf} \union {EdgeOf(ef, t, ed) : t \in ht}
  <2>1. {e.from, e.to} \subseteq same <=> in
    BY <1>1
  <2> QED BY <2>1, <1>2, <1>3, <1>5 DEF SplitEdges
<1>9. \A a, t, w : f = EdgeOf(a, t, w) <=> f = EdgeOf(ff, ft, fd) /\ ff = a /\ ft = t /\ fd = w
  BY <1>4 DEF EdgeOf
<1>10. CASE in
  <2>1. f \in SplitEdges(e, ss, same, level, con, cut) <=>
          \/ \E a \in hf, t \in ht : f = EdgeOf(a, t, ed)
          \/ pa /\ \E t \in ht : f = EdgeOf(ef, t, j)
          \/ ~pa /\ \E a \in hf : f = EdgeOf(a, et, j)
    BY <1>8, <1>10
  <2> QED BY <1>7, <1>9, <1>10, <2>1
<1>11. CASE ~in
  <2>1. f \in SplitEdges(e, ss, same, level, con, cut) <=>
          (\E a \in hf : f = EdgeOf(a, et, ed)) \/ (\E t \in ht : f = EdgeOf(ef, t, ed))
    BY <1>8, <1>11
  <2> QED BY <1>7, <1>9, <1>11, <2>1
<1> QED BY <1>10, <1>11

\* The vectors after one cut: the old ones, and those that arise from them
SplitDepsShape(D, same, level, con, cut, first, E) ==
  /\ D \subseteq E
  /\ \A e \in D : \A f : Arises(e, f, same, level, con, cut, first) => f \in E
  /\ \A f \in E : f \in D \/ \E e \in D : Arises(e, f, same, level, con, cut, first)

\* split makes the vectors of SplitDepsShape.
LEMMA SplitDepsAre ==
  ASSUME NEW ss, NEW loop, NEW D, NEW con, NEW same, same = loop.same, NEW level, level = loop.level,
         NEW cut, cut = Cut(ss, same, con), CutShape(ss, same, con, cut), NEW E, E = SplitDeps(D, ss, loop, con)
  PROVE  SplitDepsShape(D, same, level, con, cut, Len(ss), E)
<1>1. E = D \union UNION {SplitEdges(e, ss, same, level, con, cut) : e \in D}
  BY DEF SplitDeps, SplitEdges, EdgeOf, HalvesOf
<1>2. \A e, f : f \in SplitEdges(e, ss, same, level, con, cut) <=> Arises(e, f, same, level, con, cut, Len(ss))
  BY SplitEdgesAre
<1>3. \A f : f \in E <=> f \in D \/ \E e \in D : f \in SplitEdges(e, ss, same, level, con, cut)
  BY <1>1
<1> QED BY <1>2, <1>3 DEF SplitDepsShape

\* The distances of a loop are zero in the loops around it.
NoneOutside(dv, level) == \A k \in Before(DimOf(level)) : dv.lb[k] = 0 /\ dv.ub[k] = 0

\* Then runs of it that are so far apart are alike outside.
LEMMA InsideAlike ==
  ASSUME NEW x, NEW y, x.at \in Points, y.at \in Points, NEW level \in Loops, NEW base,
         Around(x.lex, base, level), Around(y.lex, base, level),
         NEW dv \in Vectors, NoneOutside(dv, level), Covers(dv, Apart(x, y))
  PROVE  Alike(x, y, level-1)
<1> SUFFICES ASSUME NEW l \in 1 .. level-1 PROVE x.lex[l] = y.lex[l] /\ x.at[l] = y.at[l]
  BY DEF Alike
<1>1. level \in Nat /\ level >= 1 /\ level <= NDim /\ NDim \in Nat
  BY DimensionsAre
<1>2. l \in Loops /\ l \in Nat /\ l >= 1 /\ l <= level-1
  BY <1>1 DEF Loops
<1>3. PICK k : k = l-1
  OBVIOUS
<1>4. k \in Before(NDim) /\ k \in Before(DimOf(level)) /\ k+1 = l
  BY <1>1, <1>2, <1>3 DEF Before, DimOf
<1>5. PICK d : d = Apart(x, y)
  OBVIOUS
<1>6. d \in [Before(NDim) -> Int] /\ d[k] = y.at[k+1] - x.at[k+1]
  BY <1>4, <1>5, ApartIs
<1>7. Above(dv.lb[k], d[k]) /\ Below(d[k], dv.ub[k])
  BY <1>4, <1>5, CoversIs
<1>8. dv.lb[k] = 0 /\ dv.ub[k] = 0
  BY <1>4 DEF NoneOutside
<1>9. d[k] \in Int
  BY <1>4, <1>6
<1>10. d[k] = 0
  BY <1>7, <1>8, <1>9, InfinityAssumption DEF Above, Below
<1>11. x.at[l] \in Int /\ y.at[l] \in Int
  BY <1>2 DEF Points
<1>12. x.at[l] = y.at[l]
  BY <1>4, <1>6, <1>10, <1>11
<1>13. x.lex[l] = base[l] /\ y.lex[l] = base[l]
  BY DEF Around
<1> QED BY <1>12, <1>13

\* After a cut the vectors still say how far apart the runs are.
LEMMA CutCovers ==
  ASSUME NEW base \in Lexes, NEW level \in Loops, NEW con \in Rows, MaxLevel(con) <= level, NEW cut, NEW first,
         NEW D, NEW E, NEW same, SplitDepsShape(D, same, level, con, cut, first, E),
         NEW x, NEW y, NEW u, NEW v, Sooner(x, y),
         CutView(x, u, base, level, con, cut, first), CutView(y, v, base, level, con, cut, first),
         x.n \in same <=> InLoop(x, base, level), y.n \in same <=> InLoop(y, base, level),
         NEW e \in D, e.dv \in Vectors, e.from = x.n, e.to = y.n, Covers(e.dv, Apart(x, y)),
         x.n \in same /\ y.n \in same => NoneOutside(e.dv, level)
  PROVE  Between(E, u, v)
<1>1. PICK d : d = Step(con)
  OBVIOUS
<1>3. d \in {1, -1} /\ (d = 1 <=> PlaceAfter(con)) /\ (d = -1 <=> ~PlaceAfter(con))
  BY <1>1 DEF Step
<1>4. PICK hx \in BOOLEAN, hy \in BOOLEAN : hx = (InLoop(x, base, level) /\ ~Holds(con, x.at))
                                          /\ hy = (InLoop(y, base, level) /\ ~Holds(con, y.at))
  BY DEF InLoop, Holds, Around
<1>5. /\ hx => NewHalf(x, u, base, level, d, cut, first)
      /\ ~hx => OldHalf(x, u, base, level, d)
      /\ hy => NewHalf(y, v, base, level, d, cut, first)
      /\ ~hy => OldHalf(y, v, base, level, d)
  BY <1>1, <1>4 DEF CutView
<1>6. /\ u.at = x.at /\ v.at = y.at
      /\ x.at \in Points /\ y.at \in Points /\ x.lex \in Lexes /\ y.lex \in Lexes
      /\ ~hx => u.n = x.n
      /\ ~hy => v.n = y.n
      /\ hx => Halved(x.n, u.n, cut, first)
      /\ hy => Halved(y.n, v.n, cut, first)
  BY <1>5 DEF NewHalf, OldHalf, OtherPlace, Halved
<1>7. Apart(u, v) = Apart(x, y)
  BY <1>6 DEF Apart
<1>8. PICK g : g = Apart(x, y)
  OBVIOUS
<1>9. ASSUME NEW f, Arises(e, f, same, level, con, cut, first), f.from = u.n, f.to = v.n, Covers(f.dv, g)
      PROVE  Between(E, u, v)
  <2>1. f \in E
    BY <1>9 DEF SplitDepsShape
  <2> QED BY <1>7, <1>8, <1>9, <2>1 DEF Between
<1>10. PICK j : j = Jumbled(e.dv, DimOf(level))
  OBVIOUS
<1>11. Covers(j, g)
  <2>1. PICK dim : dim = DimOf(level) /\ dim \in Before(NDim)
    BY DimensionsAre
  <2>2. OtherBounds(e.dv, j, dim) /\ \A z \in Int : Above(j.lb[dim], z) /\ Below(z, j.ub[dim])
    BY <1>10, <2>1, JumbledIs
  <2>3. g \in [Before(NDim) -> Int]
    BY <1>6, <1>8, ApartIs
  <2>4. OtherApart(g, g, dim) /\ g[dim] \in Int
    BY <2>1, <2>3 DEF OtherApart
  <2>5. Covers(e.dv, g)
    BY <1>8
  <2> QED BY <2>1, <2>2, <2>4, <2>5, OtherCovers
<1>12. Covers(e.dv, g)
  BY <1>8
<1>13. x.n \in same /\ y.n \in same => Alike(x, y, level-1) /\ x.lex[level] = y.lex[level]
  <2> SUFFICES ASSUME x.n \in same, y.n \in same PROVE Alike(x, y, level-1) /\ x.lex[level] = y.lex[level]
    OBVIOUS
  <2>1. Around(x.lex, base, level) /\ Around(y.lex, base, level) /\ x.lex[level] = y.lex[level]
    BY DEF InLoop
  <2> QED BY <1>6, <2>1, InsideAlike
<1>14. x.n \in same /\ y.n \in same =>
         /\ PlaceAfter(con) => (Holds(con, y.at) => Holds(con, x.at))
         /\ ~PlaceAfter(con) => (Holds(con, x.at) => Holds(con, y.at))
  BY <1>6, <1>13, NeverBack
<1>15. (hx <=> x.n \in same /\ ~Holds(con, x.at)) /\ (hy <=> y.n \in same /\ ~Holds(con, y.at))
  BY <1>4
<1>16. \A f, t, w : EdgeOf(f, t, w).from = f /\ EdgeOf(f, t, w).to = t /\ EdgeOf(f, t, w).dv = w
  BY DEF EdgeOf
<1>17. CASE ~hx /\ ~hy
  <2>1. e \in E
    BY DEF SplitDepsShape
  <2> QED BY <1>6, <1>7, <1>17, <2>1 DEF Between
<1>18. CASE hx /\ hy
  <2>1. PICK f : f = EdgeOf(u.n, v.n, e.dv)
    OBVIOUS
  <2>2. f.from = u.n /\ f.to = v.n /\ f.dv = e.dv
    BY <1>16, <2>1
  <2>3. Arises(e, f, same, level, con, cut, first)
    BY <1>6, <1>15, <1>18, <2>1, <2>2 DEF Arises
  <2> QED BY <1>9, <1>12, <2>2, <2>3
<1>19. CASE (hx /\ ~hy /\ y.n \notin same) \/ (~hx /\ hy /\ x.n \notin same)
  <2>1. PICK f : f = EdgeOf(u.n, v.n, e.dv)
    OBVIOUS
  <2>2. f.from = u.n /\ f.to = v.n /\ f.dv = e.dv
    BY <1>16, <2>1
  <2>3. Arises(e, f, same, level, con, cut, first)
    BY <1>6, <1>15, <1>19, <2>1, <2>2 DEF Arises
  <2> QED BY <1>9, <1>12, <2>2, <2>3
<1>20. CASE (hx /\ ~hy /\ y.n \in same) \/ (~hx /\ hy /\ x.n \in same)
  <2>1. PICK f : f = EdgeOf(u.n, v.n, j)
    OBVIOUS
  <2>2. f.from = u.n /\ f.to = v.n /\ f.dv = j
    BY <1>16, <2>1
  <2>3. (hx => ~PlaceAfter(con)) /\ (hy => PlaceAfter(con))
    BY <1>14, <1>15, <1>20
  <2>4. Arises(e, f, same, level, con, cut, first)
    BY <1>6, <1>10, <1>15, <1>20, <2>1, <2>2, <2>3 DEF Arises
  <2> QED BY <1>9, <1>11, <2>2, <2>4
<1> QED BY <1>15, <1>17, <1>18, <1>19, <1>20
-----------------------------------------------------------------------------
(* The loops around the halves of a cut.                                   *)

\* No loop has the place next to the loop of base.
PlaceFree(ss, base, level, d) ==
  \A t \in DOMAIN ss : Around(ss[t].lex, base, level) => ss[t].lex[level] # base[level] + d

\* The statements of the loop of base
LoopAt(ss, base, level, same) ==
  /\ same \subseteq DOMAIN ss
  /\ \A t \in DOMAIN ss : t \in same <=> Around(ss[t].lex, base, level) /\ ss[t].lex[level] = base[level]

LEMMA TogetherBack ==
  ASSUME NEW s, NEW t, NEW l, Together(s, t, l)
  PROVE  Together(t, s, l)
BY DEF Together

\* The loops that statements share after a cut they shared before.  A new half
\* shares the loops outside the one that was cut.
LEMMA CutTogether ==
  ASSUME NEW ss, NEW base, NEW level \in Loops, NEW d \in {1, -1}, NEW cut, NEW new,
         CutPlacesShape(ss, base, level, d, cut, new), PlaceFree(ss, base, level, d),
         NEW same, LoopAt(ss, base, level, same), \A i \in DOMAIN cut : cut[i] \in same, NEW l \in Loops
  PROVE  /\ \A t, w \in DOMAIN ss : Together(new[t], new[w], l) => Together(ss[t], ss[w], l)
         /\ \A i, j \in DOMAIN cut : Together(new[Len(ss) + i], new[Len(ss) + j], l) => Together(ss[cut[i]], ss[cut[j]], l)
         /\ \A i \in DOMAIN cut, t \in DOMAIN ss : Together(new[Len(ss) + i], new[t], l) =>
              l < level /\ Together(ss[cut[i]], ss[t], l)
<1>1. /\ level \in Nat /\ level >= 1 /\ l \in Nat /\ l >= 1 /\ l <= NDim /\ NDim \in Nat /\ level <= NDim
  BY DimensionsAre
<1>2. \A k \in 1 .. l : k \in 1 .. NDim+1
  BY <1>1
<1>3. l < level \/ level \in 1 .. l
  BY <1>1
<1>4. level \in 1 .. l => \A k \in 1 .. level-1 : k \in 1 .. l /\ k # level /\ k \in 1 .. NDim+1
  BY <1>1
<1>5. l < level => \A k \in 1 .. l : k # level
  BY <1>1
<1>6. \A i \in DOMAIN cut : cut[i] \in DOMAIN ss /\ Around(ss[cut[i]].lex, base, level) /\ ss[cut[i]].lex[level] = base[level]
  BY DEF LoopAt
<1>7. ASSUME NEW t \in DOMAIN ss, NEW w \in DOMAIN ss, Together(new[t], new[w], l)
      PROVE  Together(ss[t], ss[w], l)
  <2>1. PICK a, b, m, n : a = ss[t].lex /\ b = ss[w].lex /\ m = new[t].lex /\ n = new[w].lex
    OBVIOUS
  <2>2. /\ \A k \in 1 .. l : m[k] = n[k]
        /\ \A k \in 1 .. NDim+1 : k # level => m[k] = a[k] /\ n[k] = b[k]
        /\ MovedShape(a, base, level, d, m) /\ MovedShape(b, base, level, d, n)
    BY <1>7, <2>1 DEF Together, CutPlacesShape
  <2>3. \A k \in 1 .. l : k # level => a[k] = b[k]
    BY <1>2, <2>2
  <2>4. level \in 1 .. l => a[level] = b[level]
    <3> SUFFICES ASSUME level \in 1 .. l PROVE a[level] = b[level]
      OBVIOUS
    <3>1. \A k \in 1 .. level-1 : a[k] = b[k]
      BY <1>4, <2>3
    <3>2. Around(a, base, level) <=> Around(b, base, level)
      BY <3>1 DEF Around
    <3>3. a[level] = b[level] <=> m[level] = n[level]
      BY <2>2, <3>2, MovedOrder
    <3> QED BY <2>2, <3>3
  <2>5. \A k \in 1 .. l : a[k] = b[k]
    BY <2>3, <2>4
  <2> QED BY <2>1, <2>5 DEF Together
<1>8. ASSUME NEW i \in DOMAIN cut, NEW j \in DOMAIN cut, Together(new[Len(ss) + i], new[Len(ss) + j], l)
      PROVE  Together(ss[cut[i]], ss[cut[j]], l)
  <2>1. PICK a, b, m, n : a = ss[cut[i]].lex /\ b = ss[cut[j]].lex /\ m = new[Len(ss) + i].lex /\ n = new[Len(ss) + j].lex
    OBVIOUS
  <2>2. /\ \A k \in 1 .. l : m[k] = n[k]
        /\ \A k \in 1 .. NDim+1 : k # level => m[k] = a[k] /\ n[k] = b[k]
    BY <1>8, <2>1 DEF Together, CutPlacesShape
  <2>3. a[level] = b[level]
    BY <1>6, <2>1
  <2>4. \A k \in 1 .. l : a[k] = b[k]
    BY <1>2, <2>2, <2>3
  <2> QED BY <2>1, <2>4 DEF Together
<1>9. ASSUME NEW i \in DOMAIN cut, NEW t \in DOMAIN ss, Together(new[Len(ss) + i], new[t], l)
      PROVE  l < level /\ Together(ss[cut[i]], ss[t], l)
  <2>1. PICK a, b, m, n : a = ss[cut[i]].lex /\ b = ss[t].lex /\ m = new[Len(ss) + i].lex /\ n = new[t].lex
    OBVIOUS
  <2>2. /\ \A k \in 1 .. l : m[k] = n[k]
        /\ \A k \in 1 .. NDim+1 : k # level => m[k] = a[k] /\ n[k] = b[k]
        /\ m[level] = base[level] + 2 * d /\ MovedShape(b, base, level, d, n)
    BY <1>9, <2>1 DEF Together, CutPlacesShape
  <2>3. \A k \in 1 .. l : k # level => a[k] = b[k]
    BY <1>2, <2>2
  <2>4. l < level
    <3> SUFFICES ASSUME level \in 1 .. l PROVE FALSE
      BY <1>3
    <3>1. \A k \in 1 .. level-1 : b[k] = base[k]
      BY <1>4, <1>6, <2>1, <2>3 DEF Around
    <3>2. Around(b, base, level) /\ b[level] # base[level] + d
      BY <2>1, <3>1 DEF Around, PlaceFree
    <3>3. n[level] # base[level] + 2 * d
      BY <2>2, <3>2, MovedBeside
    <3> QED BY <2>2, <3>3
  <2>5. \A k \in 1 .. l : a[k] = b[k]
    BY <1>5, <2>3, <2>4
  <2> QED BY <2>1, <2>4, <2>5 DEF Together
<1> QED BY <1>7, <1>8, <1>9

\* After a cut distances go forward as before.
LEMMA CutForward ==
  ASSUME NEW ss, NEW base, NEW level \in Loops, NEW con, NEW d, d = Step(con), NEW cut, NEW new,
         CutPlacesShape(ss, base, level, d, cut, new), PlaceFree(ss, base, level, d),
         NEW same, LoopAt(ss, base, level, same), \A i \in DOMAIN cut : cut[i] \in same,
         NEW D, D \subseteq Edges(ss), Forward(ss, D),
         NEW E, SplitDepsShape(D, same, level, con, cut, Len(ss), E)
  PROVE  E \subseteq Edges(new) /\ Forward(new, E)
<1>1. d \in {1, -1}
  BY StepIs
<1>2. /\ DOMAIN ss \subseteq DOMAIN new /\ \A i \in DOMAIN cut : Len(ss) + i \in DOMAIN new
  BY DEF CutPlacesShape
<1>3. ASSUME NEW f \in E
      PROVE  f \in Edges(new) /\ \A l \in Loops : Together(new[f.from], new[f.to], l) => CarriedForward(f.dv, l)
  <2>1. CASE f \in D
    <3>1. f \in Edges(ss) /\ f.from \in DOMAIN ss /\ f.to \in DOMAIN ss
      BY <2>1 DEF Edges
    <3>2. f \in Edges(new)
      BY <1>2, <3>1 DEF Edges
    <3>3. ASSUME NEW l \in Loops, Together(new[f.from], new[f.to], l) PROVE CarriedForward(f.dv, l)
      <4>1. Together(ss[f.from], ss[f.to], l)
        BY <1>1, <3>1, <3>3, CutTogether
      <4> QED BY <2>1, <4>1 DEF Forward
    <3> QED BY <3>2, <3>3
  <2>2. CASE \E e \in D : Arises(e, f, same, level, con, cut, Len(ss))
    <3>1. PICK e \in D : Arises(e, f, same, level, con, cut, Len(ss))
      BY <2>2
    <3>2. e \in Edges(ss) /\ e.from \in DOMAIN ss /\ e.to \in DOMAIN ss /\ e.dv \in Vectors
      BY DEF Edges
    <3>3. PICK j : j = Jumbled(e.dv, DimOf(level))
      OBVIOUS
    <3>4. OtherBounds(e.dv, j, DimOf(level)) /\ j \in Vectors
      BY <3>2, <3>3, DimensionsAre, JumbledIs DEF OtherBounds
    <3>5. /\ f.from = e.from \/ \E i \in DOMAIN cut : cut[i] = e.from /\ f.from = Len(ss) + i
          /\ f.to = e.to \/ \E i \in DOMAIN cut : cut[i] = e.to /\ f.to = Len(ss) + i
          /\ f.dv = e.dv \/ f.dv = j
          /\ f = EdgeOf(f.from, f.to, f.dv)
      BY <3>1, <3>3 DEF Arises, Halved
    <3>6. f \in Edges(new)
      BY <1>2, <3>2, <3>4, <3>5 DEF Edges, EdgeOf
    <3>7. ASSUME NEW l \in Loops, Together(new[f.from], new[f.to], l) PROVE CarriedForward(f.dv, l)
      <4>1. \A i, k \in DOMAIN cut : Together(new[Len(ss) + i], new[Len(ss) + k], l) => Together(ss[cut[i]], ss[cut[k]], l)
        BY <1>1, CutTogether
      <4>2. \A i \in DOMAIN cut, t \in DOMAIN ss : Together(new[Len(ss) + i], new[t], l) =>
              l < level /\ Together(ss[cut[i]], ss[t], l)
        BY <1>1, CutTogether
      <4>3. \A i \in DOMAIN cut, t \in DOMAIN ss : Together(new[t], new[Len(ss) + i], l) =>
              l < level /\ Together(ss[t], ss[cut[i]], l)
        BY <4>2, TogetherBack
      <4>4. Together(ss[e.from], ss[e.to], l) => CarriedForward(e.dv, l)
        BY DEF Forward
      <4>5. l < level /\ CarriedForward(e.dv, l) => CarriedForward(j, l)
        BY <3>4, OtherCarried
      <4>6. CASE \E i, k \in DOMAIN cut : cut[i] = e.from /\ f.from = Len(ss) + i /\ cut[k] = e.to /\ f.to = Len(ss) + k /\ f.dv = e.dv
        BY <3>7, <4>1, <4>4, <4>6
      <4>7. CASE f.from = e.from /\ \E i \in DOMAIN cut : cut[i] = e.to /\ f.to = Len(ss) + i
        <5>1. l < level /\ Together(ss[e.from], ss[e.to], l)
          BY <3>2, <3>7, <4>3, <4>7
        <5> QED BY <3>5, <4>4, <4>5, <5>1
      <4>8. CASE f.to = e.to /\ \E i \in DOMAIN cut : cut[i] = e.from /\ f.from = Len(ss) + i
        <5>1. l < level /\ Together(ss[e.from], ss[e.to], l)
          BY <3>2, <3>7, <4>2, <4>8
        <5> QED BY <3>5, <4>4, <4>5, <5>1
      <4> QED BY <3>1, <4>6, <4>7, <4>8 DEF Arises, Halved
    <3> QED BY <3>6, <3>7
  <2> QED BY <2>1, <2>2 DEF SplitDepsShape
<1> QED BY <1>3 DEF Forward
-----------------------------------------------------------------------------
(* One cut: the vectors and the order.                                     *)

\* What a cut of the loop of s asks for: free places, and no distance outside it
Cuttable(ss, D, s, level, steps) ==
  /\ s \in DOMAIN ss
  /\ \A step \in steps : PlaceFree(ss, ss[s].lex, level, step)
  /\ \A e \in D : e.from \in SameLoop(ss, s, level) /\ e.to \in SameLoop(ss, s, level) => NoneOutside(e.dv, level)

\* After a cut the loop can be cut again.
LEMMA StaysCuttable ==
  ASSUME NEW ss, Proper(ss), NEW D, D \subseteq Edges(ss), NEW s, NEW level \in Loops, NEW steps \in SUBSET {1, -1}, Cuttable(ss, D, s, level, steps),
         NEW loop, loop = LoopOf(ss, s, level), NEW same, same = loop.same, NEW con, NEW d, d = Step(con), d \in steps,
         NEW cut, cut = Cut(ss, same, con), NEW new, new = SplitStatements(ss, loop, con),
         NEW E, SplitDepsShape(D, same, level, con, cut, Len(ss), E)
  PROVE  Cuttable(new, E, s, level, steps) /\ LoopOf(new, s, level) = loop
<1>1. s \in DOMAIN ss /\ \A step \in steps : PlaceFree(ss, ss[s].lex, level, step)
  BY DEF Cuttable
<1>2. PICK place, base : place = Place(loop, con) /\ base = ss[s].lex
  OBVIOUS
<1>3. CutOnce(ss, same, level, con, place, new) /\ CutShape(ss, same, con, cut)
  BY <1>1, <1>2, SplitCuts
<1>4. CutPlacesShape(ss, base, level, d, cut, new)
  BY <1>1, <1>2, CutPlaces
<1>5. same = SameLoop(ss, s, level) /\ place = Place(LoopOf(ss, s, level), con)
  BY <1>2 DEF LoopOf
<1>6. SameLoop(new, s, level) = same /\ \A t \in same : new[t].lex = ss[t].lex
  BY <1>1, <1>3, <1>5, LoopStays DEF SameShape
<1>7. s \in same
  BY <1>1, <1>5 DEF SameLoop
<1>8. new[s].lex = base
  BY <1>2, <1>6, <1>7
<1>9. LoopOf(new, s, level) = loop
  BY <1>2, <1>5, <1>6, <1>8 DEF LoopOf
<1>10. d \in {1, -1} /\ base[level] \in Int
  <2>1. base \in Lexes
    BY <1>1, <1>2, <1>4 DEF CutPlacesShape
  <2> QED BY <2>1, StepIs, DimensionsAre DEF Lexes
<1>11. ASSUME NEW step \in steps, NEW t \in DOMAIN new, Around(new[t].lex, base, level)
       PROVE  new[t].lex[level] # base[level] + step
  <2>1. CASE t \in DOMAIN ss
    <3>1. MovedShape(ss[t].lex, base, level, d, new[t].lex)
      BY <1>4, <2>1 DEF CutPlacesShape
    <3>2. Around(ss[t].lex, base, level)
      BY <1>11, <3>1 DEF MovedShape, Around
    <3>3. ss[t].lex[level] # base[level] + d /\ ss[t].lex[level] # base[level] + step
      BY <1>1, <1>2, <2>1, <3>2 DEF PlaceFree
    <3>4. step \in {1, -1}
      OBVIOUS
    <3> QED BY <1>10, <3>1, <3>2, <3>3, <3>4, MovedBeside
  <2>2. CASE t \notin DOMAIN ss
    <3>1. \E i \in DOMAIN cut : t = Len(ss) + i
      <4>1. DOMAIN ss = 1 .. Len(ss) /\ DOMAIN cut = 1 .. Len(cut) /\ Len(ss) \in Nat /\ Len(cut) \in Nat
            /\ DOMAIN new = 1 .. (Len(ss) + Len(cut))
        BY <1>4 DEF CutPlacesShape
      <4>2. t - Len(ss) \in DOMAIN cut /\ t = Len(ss) + (t - Len(ss))
        BY <2>2, <4>1
      <4> QED BY <4>2
    <3>2. new[t].lex[level] = base[level] + 2 * d
      BY <1>4, <3>1 DEF CutPlacesShape
    <3>3. step = 1 \/ step = -1
      OBVIOUS
    <3> QED BY <1>10, <3>2, <3>3
  <2> QED BY <2>1, <2>2
<1>12. ASSUME NEW f \in E, f.from \in same, f.to \in same
       PROVE  NoneOutside(f.dv, level)
  <2>1. same \subseteq DOMAIN ss
    BY <1>5 DEF SameLoop
  <2>2. f \in D
    <3> SUFFICES ASSUME NEW e \in D, Arises(e, f, same, level, con, cut, Len(ss)) PROVE FALSE
      BY DEF SplitDepsShape
    <3>1. \E i \in DOMAIN cut : f.from = Len(ss) + i \/ f.to = Len(ss) + i
      BY DEF Arises, Halved
    <3>2. \A i \in DOMAIN cut : Len(ss) + i \notin DOMAIN ss
      BY <1>4 DEF CutPlacesShape
    <3> QED BY <1>12, <2>1, <3>1, <3>2
  <2> QED BY <1>5, <1>12, <2>2 DEF Cuttable
<1>13. s \in DOMAIN new
  BY <1>1, <1>3 DEF CutOnce
<1> QED BY <1>6, <1>8, <1>9, <1>11, <1>12, <1>13 DEF Cuttable, PlaceFree

\* The vectors describe the pairs of R, and no pair runs backwards.
Preserves(ss, D, R) == Describes(ss, D, R, TRUE)

\* The loop variables of the statements are the points.
AtPoints(ss, same) == \A t \in same : ss[t].rows = Identity

\* One cut: the vectors say how far apart the runs are, and their order is kept.
LEMMA CutDescribes ==
  ASSUME NEW ss, Proper(ss), NEW D, NEW R, Preserves(ss, D, R),
         NEW s, NEW level \in Loops, NEW steps \in SUBSET {1, -1}, Cuttable(ss, D, s, level, steps),
         NEW loop, loop = LoopOf(ss, s, level), AtPoints(ss, loop.same),
         NEW con \in Rows, MaxLevel(con) <= level, Step(con) \in steps,
         NEW new, new = SplitStatements(ss, loop, con), NEW E, E = SplitDeps(D, ss, loop, con)
  PROVE  Preserves(new, E, R) /\ Cuttable(new, E, s, level, steps) /\ LoopOf(new, s, level) = loop
<1>1. s \in DOMAIN ss /\ \A step \in steps : PlaceFree(ss, ss[s].lex, level, step)
  BY DEF Cuttable
<1>2. PICK same, cut, base, d : same = loop.same /\ cut = Cut(ss, same, con) /\ base = ss[s].lex /\ d = Step(con)
  OBVIOUS
<1>3. PICK first, f : first = Len(ss) /\ f = [r \in RunsIn(ss) |-> Sent(ss, same, con, r)]
  OBVIOUS
<1>4. CutShape(ss, same, con, cut) /\ LoopIn(ss, loop) /\ loop.level = level
  <2>1. PICK place : place = Place(loop, con)
    OBVIOUS
  <2> QED BY <1>1, <1>2, <2>1, SplitCuts
<1>5. same = SameLoop(ss, s, level)
  BY <1>2 DEF LoopOf
<1>6. LoopAt(ss, base, level, same) /\ \A i \in DOMAIN cut : cut[i] \in same
  <2>1. same \subseteq DOMAIN ss
    BY <1>5 DEF SameLoop
  <2> QED BY <1>1, <1>2, <1>4, <1>5, <2>1, SameLoopIs DEF LoopAt, CutShape
<1>7. D \subseteq Edges(ss) /\ AllExplained(ss, D, R) /\ AllSooner(ss, R) /\ Forward(ss, D)
  BY DEF Preserves, Describes
<1>8. SplitDepsShape(D, same, level, con, cut, first, E)
  BY <1>2, <1>3, <1>4, SplitDepsAre
<1>9. Cuttable(new, E, s, level, steps) /\ LoopOf(new, s, level) = loop
  BY <1>2, <1>3, <1>7, <1>8, StaysCuttable
<1>10. CutPlacesShape(ss, base, level, d, cut, new) /\ PlaceFree(ss, base, level, d)
  BY <1>1, <1>2, CutPlaces
<1>11. E \subseteq Edges(new) /\ Forward(new, E)
  <2>1. SplitDepsShape(D, same, level, con, cut, Len(ss), E) /\ d = Step(con)
    BY <1>2, <1>3, <1>8
  <2>2. \A i \in DOMAIN cut : cut[i] \in same
    BY <1>6
  <2>3. LoopAt(ss, base, level, same) /\ D \subseteq Edges(ss) /\ Forward(ss, D)
    BY <1>6, <1>7
  <2> QED BY <1>10, <2>1, <2>2, <2>3, CutForward
<1>12. Follows(f, ss, new)
  BY <1>2, <1>3, <1>4, SplitFollows
<1>13. SplitViewsShape(ss, same, level, con, base, cut, f, new)
  BY <1>1, <1>2, <1>3, SplitViews DEF AtPoints
<1>14. Increasing(cut)
  <2>1. DOMAIN cut \in SUBSET Nat
    BY <1>10 DEF CutPlacesShape
  <2> QED BY <1>2, <1>4, <2>1, CutIncreases DEF Increasing, LoopIn
<1>15. base \in Lexes /\ first \in Nat
  BY <1>1, <1>2, <1>3, <1>10 DEF CutPlacesShape
<1>16. ASSUME NEW r \in RunsIn(ss)
       PROVE  /\ CutView(View(ss, r), View(new, f[r]), base, level, con, cut, first)
              /\ r[1] \in same <=> InLoop(View(ss, r), base, level)
  <2>1. View(ss, r).lex = ss[r[1]].lex /\ r[1] \in DOMAIN ss
    BY ViewIs
  <2>2. r[1] \in same <=> InLoop(View(ss, r), base, level)
    BY <1>6, <2>1 DEF LoopAt, InLoop
  <2>3. Around(View(ss, r).lex, base, level) => View(ss, r).lex[level] # base[level] + d
    BY <1>10, <2>1 DEF PlaceFree
  <2> QED BY <1>2, <1>3, <1>13, <2>2, <2>3 DEF CutView, SplitViewsShape
<1>17. ASSUME NEW r \in RunsIn(ss), NEW t \in RunsIn(ss), Dependent(ss, R, r, t)
       PROVE  Sooner(View(new, f[r]), View(new, f[t])) /\ Explained(new, E, f[r], f[t])
  <2>1. PICK x, y, u, v : x = View(ss, r) /\ y = View(ss, t) /\ u = View(new, f[r]) /\ v = View(new, f[t])
    OBVIOUS
  <2>2. Sooner(x, y)
    BY <1>7, <1>17, <2>1 DEF AllSooner
  <2>3. /\ CutView(x, u, base, level, con, cut, first) /\ CutView(y, v, base, level, con, cut, first)
        /\ (r[1] \in same <=> InLoop(x, base, level)) /\ (t[1] \in same <=> InLoop(y, base, level))
    BY <1>16, <2>1
  <2>4. Sooner(u, v)
    BY <1>14, <1>15, <2>2, <2>3, CutSooner
  <2>5. CASE r[1] = t[1] /\ r[3] = t[3]
    <3>1. /\ f[r] = IF r[1] \in same /\ r[3] \in Part2(ss[r[1]], con) THEN <<Half(ss, Cut(ss, same, con), r[1]), r[2], r[3]>> ELSE r
          /\ f[t] = IF t[1] \in same /\ t[3] \in Part2(ss[t[1]], con) THEN <<Half(ss, Cut(ss, same, con), t[1]), t[2], t[3]>> ELSE t
      BY <1>3 DEF Sent
    <3>2. f[r][1] = f[t][1] /\ f[r][3] = f[t][3]
      BY <2>5, <3>1
    <3> QED BY <2>1, <2>4, <3>2 DEF Explained
  <2>6. CASE ~(r[1] = t[1] /\ r[3] = t[3])
    <3>1. Between(D, x, y)
      BY <1>7, <1>17, <2>1, <2>6 DEF AllExplained, Explained
    <3>2. PICK e \in D : e.from = x.n /\ e.to = y.n /\ Covers(e.dv, Apart(x, y))
      BY <3>1 DEF Between
    <3>3. x.n = r[1] /\ y.n = t[1]
      BY <2>1 DEF View
    <3>4. e.dv \in Vectors
      BY <1>7 DEF Edges
    <3>5. x.n \in same /\ y.n \in same => NoneOutside(e.dv, level)
      BY <1>5, <3>2 DEF Cuttable
    <3>6. Between(E, u, v)
      BY <1>8, <1>15, <2>2, <2>3, <3>2, <3>3, <3>4, <3>5, CutCovers
    <3> QED BY <2>1, <2>4, <3>6 DEF Explained
  <2> QED BY <2>5, <2>6
<1>18. AllExplained(new, E, R)
  BY <1>12, <1>17, ExplainedFollows
<1>19. AllSooner(new, R)
  BY <1>12, <1>17, SoonerFollows
<1> QED BY <1>9, <1>11, <1>18, <1>19 DEF Preserves, Describes
-----------------------------------------------------------------------------
(* split: the vectors and the order.                                       *)

\* The program while split cuts the loop of s
CutState(P, R, s, level, steps) ==
  Proper(P.stmt) /\ Preserves(P.stmt, P.dep, R) /\ Cuttable(P.stmt, P.dep, s, level, steps)

\* A constraint that split can cut along
CutBy(con, level, steps) == con \in Rows /\ MaxLevel(con) <= level /\ Step(con) \in steps

\* Statements with the same places have the same loops.
LEMMA SamePlaces ==
  ASSUME NEW ss, NEW new, DOMAIN new = DOMAIN ss, \A n \in DOMAIN ss : new[n].lex = ss[n].lex,
         NEW s \in DOMAIN ss, NEW level, NEW D, NEW steps
  PROVE  /\ SameLoop(new, s, level) = SameLoop(ss, s, level) /\ LoopOf(new, s, level) = LoopOf(ss, s, level)
         /\ Cuttable(ss, D, s, level, steps) => Cuttable(new, D, s, level, steps)
<1>1. SameLoop(new, s, level) = SameLoop(ss, s, level)
  BY DEF SameLoop
<1>2. LoopOf(new, s, level) = LoopOf(ss, s, level)
  BY <1>1 DEF LoopOf
<1>3. ASSUME NEW step, PlaceFree(ss, ss[s].lex, level, step) PROVE PlaceFree(new, new[s].lex, level, step)
  BY <1>3 DEF PlaceFree
<1>4. Cuttable(ss, D, s, level, steps) => Cuttable(new, D, s, level, steps)
  BY <1>1, <1>3 DEF Cuttable
<1> QED BY <1>1, <1>2, <1>4

\* One constraint of split
LEMMA SplitByKeeps ==
  ASSUME NEW P, NEW R, NEW s, NEW level \in Loops, NEW steps \in SUBSET {1, -1}, CutState(P, R, s, level, steps),
         NEW loop, loop = LoopOf(P.stmt, s, level), NEW con, CutBy(con, level, steps), NEW Q, Q = SplitBy(P, loop, con)
  PROVE  CutState(Q, R, s, level, steps) /\ LoopOf(Q.stmt, s, level) = loop
<1>1. PICK old, D, ss, same : old = P.stmt /\ D = P.dep /\ same = loop.same /\ ss = ApplyXform(old, same)
  OBVIOUS
<1>2. Proper(old) /\ Preserves(old, D, R) /\ Cuttable(old, D, s, level, steps) /\ s \in DOMAIN old
  BY <1>1 DEF CutState, Cuttable
<1>3. same = SameLoop(old, s, level) /\ same \in SUBSET DOMAIN old
  BY <1>1 DEF LoopOf, SameLoop
<1>4. XformShape(old, same, ss)
  BY <1>1, <1>2, <1>3, ApplyXformIs
<1>5. Proper(ss) /\ DOMAIN ss = DOMAIN old /\ \A n \in DOMAIN old : ss[n] = IF n \in same THEN Applied(old[n]) ELSE old[n]
  BY <1>4 DEF XformShape
<1>6. Preserves(ss, D, R) /\ \A n \in DOMAIN old : ss[n].lex = old[n].lex
  <2>1. PICK c \in BOOLEAN : c = TRUE
    OBVIOUS
  <2>2. Describes(old, D, R, c)
    BY <1>2, <2>1 DEF Preserves
  <2>3. Describes(ss, D, R, c) /\ \A n \in DOMAIN old : ss[n].lex = old[n].lex
    BY <1>1, <1>2, <1>3, <2>2, XformDescribes
  <2> QED BY <2>1, <2>3 DEF Preserves
<1>7. LoopOf(ss, s, level) = LoopOf(old, s, level) /\ Cuttable(ss, D, s, level, steps)
  BY <1>2, <1>5, <1>6, SamePlaces
<1>8. \A t \in same : ss[t].rows = Identity
  <2> SUFFICES ASSUME NEW t \in same PROVE ss[t].rows = Identity
    OBVIOUS
  <2>1. Statement(old[t]) /\ Spread(old[t]) /\ ss[t] = Applied(old[t])
    BY <1>2, <1>3, <1>5 DEF Proper
  <2> QED BY <2>1, AppliedIs
<1>9. Q.stmt = SplitStatements(ss, loop, con) /\ Q.dep = SplitDeps(D, ss, loop, con)
  BY <1>1 DEF SplitBy
<1>10. loop = LoopOf(ss, s, level) /\ AtPoints(ss, loop.same)
  BY <1>1, <1>7, <1>8 DEF AtPoints
<1>11. PICK new, E : new = Q.stmt /\ E = Q.dep
  OBVIOUS
<1>12. new = SplitStatements(ss, loop, con) /\ E = SplitDeps(D, ss, loop, con)
  BY <1>9, <1>11
<1>13. con \in Rows /\ MaxLevel(con) <= level /\ Step(con) \in steps
  BY DEF CutBy
<1>14. Preserves(new, E, R) /\ Cuttable(new, E, s, level, steps) /\ LoopOf(new, s, level) = loop
  <2>1. Proper(ss) /\ Preserves(ss, D, R) /\ Cuttable(ss, D, s, level, steps)
    BY <1>5, <1>6, <1>7
  <2> QED BY <1>10, <1>12, <1>13, <2>1, CutDescribes
<1>15. Proper(new)
  <2>1. LoopIn(ss, loop)
    BY <1>2, <1>5, <1>10, LoopOfIs
  <2> QED BY <1>5, <1>12, <2>1, SplitFollows
<1> QED BY <1>11, <1>14, <1>15 DEF CutState

\* All constraints of split
LEMMA SplitAllKeeps ==
  ASSUME NEW P, NEW R, NEW s, NEW level \in Loops, NEW steps \in SUBSET {1, -1}, CutState(P, R, s, level, steps),
         NEW cons, Len(cons) \in Nat, \A i \in 1 .. Len(cons) : CutBy(cons[i], level, steps),
         NEW Q, Q = SplitAll(P, s, level, cons)
  PROVE  CutState(Q, R, s, level, steps)
<1>1. PICK loop : loop = LoopOf(P.stmt, s, level)
  OBVIOUS
<1>2. PICK after : SplitSteps(after, P, loop, cons, Len(cons)) /\ Q = after[Len(cons)]
  BY <1>1, SplitAllSteps
<1> DEFINE T == {n \in 0 .. Len(cons) : CutState(after[n], R, s, level, steps) /\ LoopOf(after[n].stmt, s, level) = loop}
<1>3. 0 \in T
  BY <1>1, <1>2 DEF SplitSteps
<1>4. ASSUME NEW n \in 1 .. Len(cons), n-1 \in T PROVE n \in T
  <2>1. PICK p, q : p = after[n-1] /\ q = after[n]
    OBVIOUS
  <2>2. CutState(p, R, s, level, steps) /\ LoopOf(p.stmt, s, level) = loop
    BY <1>4, <2>1
  <2>3. q = SplitBy(p, loop, cons[n])
    BY <1>2, <2>1 DEF SplitSteps
  <2>4. CutState(q, R, s, level, steps) /\ LoopOf(q.stmt, s, level) = loop
    BY <2>2, <2>3, SplitByKeeps
  <2>5. n \in 0 .. Len(cons)
    OBVIOUS
  <2> QED BY <2>1, <2>4, <2>5
<1> HIDE DEF T
<1>5. Len(cons) \in T
  <2>1. \A i \in 0 .. Len(cons) : i \in T
    BY <1>3, <1>4, UpTo
  <2> QED BY <2>1
<1> QED BY <1>2, <1>5 DEF T
-----------------------------------------------------------------------------
(* peel: the vectors and the order.                                        *)

\* The values of a loop that runs are finitely many numbers.
LEMMA PeelValuesAre ==
  ASSUME NEW ss, Proper(ss), NEW s, NEW level \in Loops, SubLoopNest(ss, s, level) # {}, NEW v, v = PeelValues(ss, s, level)
  PROVE  v \in SUBSET Int /\ IsFiniteSet(v) /\ v # {}
<1> DEFINE nest == SubLoopNest(ss, s, level)
           all == {Positions(ss[t]) : t \in nest}
           points == UNION all
<1>1. IsFiniteSet(nest) /\ nest \subseteq DOMAIN ss /\ nest # {} /\ \A t \in nest : Statement(ss[t]) /\ ss[t].IS # {}
  <2>1. nest \subseteq DOMAIN ss /\ \A t \in nest : ss[t].IS # {}
    BY DEF SubLoopNest, SameLoop
  <2>2. DOMAIN ss = 1 .. Len(ss) /\ Len(ss) \in Nat
    BY DEF Proper, SeqLike
  <2>3. IsFiniteSet(DOMAIN ss)
    BY <2>2, FS_Interval
  <2> HIDE DEF nest
  <2>4. IsFiniteSet(nest)
    BY <2>1, <2>3, FS_Subset
  <2>5. nest # {}
    BY DEF nest
  <2> QED BY <2>1, <2>4, <2>5 DEF Proper
<1> HIDE DEF nest
<1>2. IsFiniteSet(all) /\ \A x \in all : IsFiniteSet(x) /\ x \in SUBSET Points
  <2> DEFINE g == [t \in nest |-> Positions(ss[t])]
  <2>1. g \in [nest -> all] /\ \A x \in all : \E t \in nest : g[t] = x
    OBVIOUS
  <2>2. \A x \in all : IsFiniteSet(x) /\ x \in SUBSET Points
    BY <1>1, PositionsAre
  <2> HIDE DEF g, all
  <2> QED BY <1>1, <2>1, <2>2, ImageFinite
<1>3. points # {}
  <2>1. PICK t \in nest : TRUE
    BY <1>1
  <2>2. PICK p \in ss[t].IS : TRUE
    BY <1>1
  <2>3. Position(ss[t], p) \in Positions(ss[t])
    BY DEF Positions
  <2> QED BY <2>3
<1>4. IsFiniteSet(points) /\ points \in SUBSET Points
  <2> HIDE DEF all
  <2>1. points \in SUBSET Points
    BY <1>2
  <2>2. IsFiniteSet(points)
    BY <1>2, FS_UNION
  <2> QED BY <2>1, <2>2
<1>5. v = {q[level] : q \in points}
  BY DEF PeelValues, nest
<1> HIDE DEF points, all
<1>6. IsFiniteSet(v)
  <2> DEFINE g == [q \in points |-> q[level]]
  <2>1. g \in [points -> v] /\ \A x \in v : \E q \in points : g[q] = x
    BY <1>5
  <2> HIDE DEF g
  <2> QED BY <1>4, <2>1, ImageFinite
<1>7. v \in SUBSET Int
  BY <1>4, <1>5 DEF Points
<1>8. v # {}
  BY <1>3, <1>5
<1> QED BY <1>6, <1>7, <1>8

\* On which side peel puts the iterations it takes off
PeelStep(amount) == IF amount > 0 THEN -1 ELSE 1

\* Each bound of peel is one that split can cut along, on that side.
LEMMA PeelBoundIs ==
  ASSUME NEW v \in SUBSET Int, IsFiniteSet(v), v # {}, NEW level \in Loops, NEW amount \in Int, NEW i \in Nat,
         NEW con, con = PeelBound(v, level, amount, i)
  PROVE  CutBy(con, level, {PeelStep(amount)})
<1>1. PICK lo, hi : lo = Min(v) + i /\ hi = Max(v) - i
  OBVIOUS
<1>2. lo \in Int /\ hi \in Int
  BY <1>1, Extremes
<1>3. level <= level
  BY DimensionsAre
<1>4. CASE amount > 0
  <2>1. con = Bound(level, 1, lo)
    BY <1>1, <1>4 DEF PeelBound
  <2>2. con \in Rows /\ MaxLevel(con) = level /\ Step(con) = -1
    BY <1>2, <2>1, BoundIs
  <2> QED BY <1>3, <1>4, <2>2 DEF CutBy, PeelStep
<1>5. CASE ~(amount > 0)
  <2>1. con = Bound(level, -1, hi)
    BY <1>1, <1>5 DEF PeelBound
  <2>2. con \in Rows /\ MaxLevel(con) = level /\ Step(con) = 1
    BY <1>2, <2>1, BoundIs
  <2> QED BY <1>3, <1>5, <2>2 DEF CutBy, PeelStep
<1> QED BY <1>4, <1>5

\* All cuts of peel
LEMMA PeeledKeeps ==
  ASSUME NEW P, NEW R, NEW s, NEW level \in Loops, NEW amount \in Int, NEW steps, steps = {PeelStep(amount)},
         CutState(P, R, s, level, steps), SubLoopNest(P.stmt, s, level) # {}, NEW Q, Q = Peeled(P, s, level, amount)
  PROVE  CutState(Q, R, s, level, steps)
<1> DEFINE N == Amount(amount)
<1>0. N \in Nat
  BY AmountIs
<1>1. PICK v : v = PeelValues(P.stmt, s, level)
  OBVIOUS
<1>2. v \in SUBSET Int /\ IsFiniteSet(v) /\ v # {}
  <2>1. Proper(P.stmt)
    BY DEF CutState
  <2> QED BY <1>1, <2>1, PeelValuesAre
<1>3. PICK after, con : /\ PeelSteps(after, P, s, level, con, N)
                        /\ PeelBounds(con, v, level, amount, N)
                        /\ Q = after[N]
  BY <1>1, PeeledSteps
<1> HIDE DEF N
<1>4. steps \in SUBSET {1, -1}
  BY DEF PeelStep
<1> DEFINE T == {n \in 0 .. N : CutState(after[n], R, s, level, steps)}
<1>5. 0 \in T
  BY <1>0, <1>3 DEF PeelSteps
<1>6. ASSUME NEW n \in 1 .. N, n-1 \in T PROVE n \in T
  <2>1. PICK p, q, c, cons : p = after[n-1] /\ q = after[n] /\ c = PeelBound(v, level, amount, n) /\ cons = con[n]
    OBVIOUS
  <2>2. CutState(p, R, s, level, steps)
    BY <1>6, <2>1
  <2>3. q = SplitAll(p, s, level, cons) /\ cons = <<c>>
    BY <1>3, <2>1 DEF PeelSteps, PeelBounds
  <2>4. CutBy(c, level, steps)
    <3>1. n \in Nat
      BY <1>0
    <3> QED BY <1>2, <2>1, <3>1, PeelBoundIs
  <2>5. Len(cons) = 1 /\ cons[1] = c
    BY <2>3
  <2>6. Len(cons) \in Nat /\ \A i \in 1 .. Len(cons) : CutBy(cons[i], level, steps)
    BY <2>4, <2>5
  <2>7. CutState(q, R, s, level, steps)
    BY <1>4, <2>2, <2>3, <2>6, SplitAllKeeps
  <2>8. n \in 0 .. N
    BY <1>0
  <2> QED BY <2>1, <2>7, <2>8
<1> HIDE DEF T
<1>7. N \in T
  <2>1. \A i \in 0 .. N : i \in T
    BY <1>0, <1>5, <1>6, UpTo
  <2> QED BY <1>0, <2>1
<1> QED BY <1>3, <1>7 DEF T
-----------------------------------------------------------------------------
(* The vectors and the order of the program.                               *)

\* What was checked of more was checked of less.
LEMMA DescribesLess ==
  ASSUME NEW ss, NEW D, NEW R, NEW c, NEW d, Describes(ss, D, R, c), d => c
  PROVE  Describes(ss, D, R, d)
BY DEF Describes

\* What a command leaves to show
LEMMA CoverStep ==
  ASSUME OnceInv', program' = program, dep' \subseteq Edges(stmt'),
         NEW checked, alive' /\ ~unchecked' => checked,
         alive' => Describes(stmt', dep', Depends, checked)
  PROVE  CoverInv'
<1>1. Depends' = Depends
  BY DependsStays
<1>2. PICK ss, D, R : ss = stmt' /\ D = dep' /\ R = Depends
  OBVIOUS
<1>3. ASSUME alive' PROVE Describes(ss, D, R, ~unchecked')
  <2>1. Describes(ss, D, R, checked)
    BY <1>2, <1>3
  <2> QED BY <1>3, <2>1, DescribesLess
<1>4. alive' => Describes(stmt', dep', Depends', ~unchecked')
  BY <1>1, <1>2, <1>3
<1>5. CoverInv' <=> OnceInv' /\ dep' \subseteq Edges(stmt') /\ (alive' => Describes(stmt', dep', Depends', ~unchecked'))
  BY DEF CoverInv
<1> QED BY <1>4, <1>5

\* What holds before a command
LEMMA CoverBefore ==
  ASSUME CoverInv, alive, NEW checked, checked = ~unchecked
  PROVE  Proper(stmt) /\ Describes(stmt, dep, Depends, checked)
<1>1. Proper(stmt)
  BY DEF CoverInv, OnceInv, Sound
<1>2. Describes(stmt, dep, Depends, ~unchecked)
  BY DEF CoverInv
<1> QED BY <1>1, <1>2

\* Whole is what the commands look at.
LEMMA WholeLoop ==
  ASSUME NEW S, NEW level
  PROVE  Whole(stmt, S, level) <=> ~PartOfLoop(S, level)
BY DEF Whole, PartOfLoop

\* shift
LEMMA CoverShift ==
  ASSUME CoverInv, OnceInv', program' = program,
         NEW S \in SUBSET DOMAIN stmt, NEW level \in Loops, NEW amount \in ShiftAmounts, Shift(S, level, amount)
  PROVE  CoverInv'
<1>1. amount \in Int
  BY AmountsAssumption
<1>2. PICK c \in BOOLEAN : c = ~unchecked
  OBVIOUS
<1>3. PICK ss, D, R : ss = stmt /\ D = dep /\ R = Depends
  OBVIOUS
<1>4. Proper(ss) /\ Describes(ss, D, R, c) /\ S \in SUBSET DOMAIN ss
  <2>1. alive
    BY DEF Shift, Command
  <2> QED BY <1>2, <1>3, <2>1, CoverBefore
<1>5. PICK new, E : new = ShiftStatements(ss, S, level, amount) /\ E = ShiftDeps(D, S, level, amount)
  OBVIOUS
<1>6. stmt' = new /\ dep' = E
  BY <1>3, <1>5 DEF Shift, Becomes
<1>7. Describes(new, E, R, c /\ Whole(ss, S, level))
  BY <1>1, <1>4, <1>5, ShiftDescribes
<1>8. ~unchecked' => c /\ Whole(ss, S, level)
  BY <1>2, <1>3, WholeLoop DEF Shift
<1>9. E \subseteq Edges(new)
  BY <1>7 DEF Describes
<1> QED BY <1>3, <1>6, <1>7, <1>8, <1>9, CoverStep

\* skew: when it stops at an illegal vector the script ends.
LEMMA CoverSkew ==
  ASSUME CoverInv, OnceInv', program' = program, Interactive = FALSE,
         {"skew by an inner loop", "skew by other loops only"} \subseteq LeftOut,
         NEW S \in SUBSET DOMAIN stmt, NEW level \in Loops, NEW amounts \in SkewAmounts, Skew(S, level, amounts)
  PROVE  CoverInv'
<1>1. amounts \in [Loops -> Int] /\ amounts[level] # 0 /\ \A l \in level+1 .. NDim : amounts[l] = 0
  BY AmountsAssumption DEF Skew, Tried
<1>2. PICK c \in BOOLEAN : c = ~unchecked
  OBVIOUS
<1>3. PICK ss, D, R : ss = stmt /\ D = dep /\ R = Depends
  OBVIOUS
<1>4. Proper(ss) /\ Describes(ss, D, R, c) /\ S \in SUBSET DOMAIN ss
  <2>1. alive
    BY DEF Skew, Command
  <2> QED BY <1>2, <1>3, <2>1, CoverBefore
<1>5. PICK P, new, E : P = SkewDeps(D, S, level, amounts) /\ new = SkewStatements(ss, S, level, amounts) /\ E = P.dep
  OBVIOUS
<1>6. stmt' = new /\ dep' = E /\ (P.refused => ~alive')
  BY <1>3, <1>5 DEF Skew, Throw
<1>7. ASSUME ~P.refused PROVE Describes(new, E, R, c /\ Whole(ss, S, level))
  BY <1>1, <1>4, <1>5, <1>7, SkewDescribes
<1>8. ~unchecked' => c /\ Whole(ss, S, level)
  BY <1>2, <1>3, WholeLoop DEF Skew
<1>9. E \subseteq Edges(new)
  <2>1. D \in SUBSET Edges(ss)
    BY <1>4 DEF Describes
  <2>2. E \subseteq Edges(ss)
    BY <1>1, <1>5, <2>1, SkewDepsAre
  <2>3. DOMAIN new = DOMAIN ss
    BY <1>5 DEF SkewStatements
  <2> QED BY <2>2, <2>3 DEF Edges
<1>10. alive' => Describes(stmt', dep', Depends, c /\ Whole(ss, S, level))
  BY <1>3, <1>6, <1>7
<1> QED BY <1>6, <1>8, <1>9, <1>10, CoverStep

\* nonsingular
LEMMA CoverNonsingular ==
  ASSUME CoverInv, OnceInv', program' = program, "matrix with constants" \in LeftOut,
         NEW T \in Matrices, Regular(T), Nonsingular(T)
  PROVE  CoverInv'
<1>1. Constantless(T)
  BY AmountsAssumption DEF Nonsingular, Tried, Constantless
<1>2. PICK c \in BOOLEAN : c = ~unchecked
  OBVIOUS
<1>3. PICK ss, D, R : ss = stmt /\ D = dep /\ R = Depends
  OBVIOUS
<1>4. Proper(ss) /\ Describes(ss, D, R, c) /\ Single(ss)
  <2>1. alive /\ Single(stmt)
    BY DEF Nonsingular, Command, Single
  <2> QED BY <1>2, <1>3, <2>1, CoverBefore
<1>5. PICK new, E : new = TimesProgram(ss, T) /\ E = TimesDeps(D, T)
  OBVIOUS
<1>6. stmt' = new /\ dep' = E /\ unchecked' = TRUE
  BY <1>3, <1>5 DEF Nonsingular, Becomes, TimesMatrix, TimesDeps, TimesProgram
<1>7. E \subseteq Edges(new) /\ AllExplained(new, E, R)
  <2>1. Regular(T)
    OBVIOUS
  <2> QED BY <1>1, <1>2, <1>3, <1>4, <1>5, <2>1, NonsingularDescribes
<1>8. PICK none \in BOOLEAN : none = FALSE
  OBVIOUS
<1>9. E \subseteq Edges(new) /\ Describes(new, E, R, none)
  BY <1>7, <1>8 DEF Describes
<1> QED BY <1>3, <1>6, <1>9, CoverStep

\* The loop can be cut when MayCut says so.
LEMMA MayCutMeans ==
  ASSUME CoverInv, alive, NEW s \in DOMAIN stmt, NEW level \in Loops, NEW steps, MayCut(s, level, steps),
         {"cut after a command without a check", "cut inside the loop that carries", "cut beside another loop"} \subseteq LeftOut
  PROVE  CutState(Program, Depends, s, level, steps)
<1>1. ~unchecked /\ ~CarriedOutside(s, level) /\ \A step \in steps : ~PlaceTaken(s, level, step)
  BY DEF MayCut, Tried
<1>2. Program.stmt = stmt /\ Program.dep = dep
  BY DEF Program
<1>3. Proper(stmt) /\ Preserves(stmt, dep, Depends)
  <2>1. PICK c \in BOOLEAN : c = ~unchecked
    OBVIOUS
  <2>2. Proper(stmt) /\ Describes(stmt, dep, Depends, c) /\ c
    BY <1>1, <2>1, CoverBefore
  <2> QED BY <2>2, DescribesLess DEF Preserves
<1>4. ASSUME NEW step \in steps PROVE PlaceFree(stmt, stmt[s].lex, level, step)
  BY <1>1, <1>4 DEF PlaceTaken, PlaceFree, SameLoop, Around
<1>5. ASSUME NEW e \in dep, e.from \in SameLoop(stmt, s, level), e.to \in SameLoop(stmt, s, level)
      PROVE  NoneOutside(e.dv, level)
  BY <1>1, <1>5 DEF CarriedOutside, Inside, NoneOutside
<1>6. Cuttable(stmt, dep, s, level, steps)
  BY <1>4, <1>5 DEF Cuttable
<1> QED BY <1>2, <1>3, <1>6 DEF CutState

\* What a cut leaves
LEMMA CutLeaves ==
  ASSUME OnceInv', program' = program, NEW Q, NEW s, NEW level, NEW steps, CutState(Q, Depends, s, level, steps), Becomes(Q)
  PROVE  CoverInv'
<1>1. PICK c \in BOOLEAN : c = TRUE
  OBVIOUS
<1>2. PICK new, E, R : new = Q.stmt /\ E = Q.dep /\ R = Depends
  OBVIOUS
<1>3. Describes(new, E, R, c)
  BY <1>1, <1>2 DEF CutState, Preserves
<1>4. E \subseteq Edges(new)
  BY <1>3 DEF Describes
<1>5. stmt' = new /\ dep' = E
  BY <1>2 DEF Becomes
<1> QED BY <1>1, <1>2, <1>3, <1>4, <1>5, CoverStep

\* split
LEMMA CoverSplit ==
  ASSUME CoverInv, OnceInv', program' = program,
         {"cut after a command without a check", "cut inside the loop that carries", "cut beside another loop"} \subseteq LeftOut,
         NEW s \in DOMAIN stmt, NEW level \in Loops, NEW cons \in Conditions, Split(s, level, cons)
  PROVE  CoverInv'
<1>1. PICK steps : steps = {Step(cons[n]) : n \in DOMAIN cons}
  OBVIOUS
<1>2. Len(cons) \in Nat /\ DOMAIN cons = 1 .. Len(cons) /\ \A n \in DOMAIN cons : cons[n] \in Rows
  <2>1. cons \in Seq(Rows)
    BY AmountsAssumption
  <2> QED BY <2>1, LenProperties, ElementOfSeq
<1>3. CutState(Program, Depends, s, level, steps)
  <2>1. MayCut(s, level, steps) /\ alive
    BY <1>1 DEF Split, Command
  <2> QED BY <2>1, MayCutMeans
<1>4. steps \in SUBSET {1, -1}
  BY <1>1, StepIs
<1>5. \A i \in 1 .. Len(cons) : CutBy(cons[i], level, steps)
  BY <1>1, <1>2 DEF CutBy, Split
<1>6. PICK P, R, Q : P = Program /\ R = Depends /\ Q = SplitAll(P, s, level, cons)
  OBVIOUS
<1>7. CutState(Q, R, s, level, steps)
  <2>1. CutState(P, R, s, level, steps)
    BY <1>3, <1>6
  <2> QED BY <1>2, <1>4, <1>5, <1>6, <2>1, SplitAllKeeps
<1>8. Becomes(Q)
  BY <1>6 DEF Split
<1> QED BY <1>6, <1>7, <1>8, CutLeaves

\* peel
LEMMA CoverPeel ==
  ASSUME CoverInv, OnceInv', program' = program, Interactive = FALSE,
         {"cut after a command without a check", "cut inside the loop that carries", "cut beside another loop"} \subseteq LeftOut,
         NEW s \in DOMAIN stmt, NEW level \in Loops, NEW amount \in PeelAmounts, Peel(s, level, amount)
  PROVE  CoverInv'
<1>0. amount \in Int
  BY AmountsAssumption
<1>1. PICK steps : steps = {PeelStep(amount)}
  OBVIOUS
<1>2. CutState(Program, Depends, s, level, steps)
  <2>1. MayCut(s, level, steps) /\ alive
    BY <1>1 DEF Peel, Command, PeelStep
  <2> QED BY <2>1, MayCutMeans
<1>3. PICK P, R, Q : P = Program /\ R = Depends /\ Q = Peeled(P, s, level, amount)
  OBVIOUS
<1>4. SubLoopNest(P.stmt, s, level) # {}
  BY <1>3 DEF Peel, Program
<1>5. CutState(Q, R, s, level, steps)
  <2>1. CutState(P, R, s, level, steps)
    BY <1>2, <1>3
  <2> QED BY <1>0, <1>1, <1>3, <1>4, <2>1, PeeledKeeps
<1>6. CASE Becomes(Q)
  BY <1>3, <1>5, <1>6, CutLeaves
<1>7. CASE Throw /\ UNCHANGED <<stmt, dep>>
  <2>1. CoverInv' <=> OnceInv' /\ dep' \subseteq Edges(stmt') /\ (alive' => Describes(stmt', dep', Depends', ~unchecked'))
    BY DEF CoverInv
  <2>2. ~alive'
    BY <1>7 DEF Throw
  <2> QED BY <1>7, <2>1, <2>2 DEF CoverInv
<1> QED BY <1>3, <1>6, <1>7 DEF Peel

\* Scripts of shift, skew, nonsingular, split and peel that end at the first
\* error, without the commands of which the code checks too little
Checked ==
  /\ UnrollAmounts = {} /\ Interactive = FALSE /\ \A T \in Matrices : Regular(T)
  /\ {"cut after a command without a check", "cut inside the loop that carries", "cut beside another loop"} \subseteq LeftOut
  /\ {"skew by an inner loop", "skew by other loops only"} \subseteq LeftOut /\ "matrix with constants" \in LeftOut

\* Every step keeps the vectors and the order.
LEMMA CoverInductive ==
  ASSUME Checked, CoverInv, [Next]_vars
  PROVE  CoverInv'
<1>1. program' = program
  BY DEF Next, vars, Command, Known, GetCode, Shift, Skew, Nonsingular, Split, Peel, Unroll
<1>2. OnceInv'
  BY OnceInductive DEF Checked, CoverInv
<1>3. CASE Known \/ GetCode \/ UNCHANGED vars
  <2>1. UNCHANGED <<stmt, dep, unchecked, alive>>
    BY <1>3 DEF Known, GetCode, vars
  <2>2. CoverInv' <=> OnceInv' /\ dep' \subseteq Edges(stmt') /\ (alive' => Describes(stmt', dep', Depends', ~unchecked'))
    BY DEF CoverInv
  <2>3. Depends' = Depends
    BY <1>1, DependsStays
  <2> QED BY <1>2, <2>1, <2>2, <2>3 DEF CoverInv
<1>4. ASSUME NEW S \in SUBSET DOMAIN stmt \ {{}}, NEW level \in Loops,
             \/ \E amount \in ShiftAmounts : Shift(S, level, amount)
             \/ \E amounts \in SkewAmounts : Skew(S, level, amounts)
      PROVE  CoverInv'
  BY <1>1, <1>2, <1>4, CoverShift, CoverSkew DEF Checked
<1>5. CASE \E T \in Matrices : Nonsingular(T)
  BY <1>1, <1>2, <1>5, CoverNonsingular DEF Checked
<1>6. ASSUME NEW s \in DOMAIN stmt, NEW level \in Loops,
             \/ \E cons \in Conditions : Split(s, level, cons)
             \/ \E amount \in PeelAmounts : Peel(s, level, amount)
      PROVE  CoverInv'
  BY <1>1, <1>2, <1>6, CoverSplit, CoverPeel DEF Checked
<1>7. UnrollAmounts = {}
  BY DEF Checked
<1> QED BY <1>3, <1>4, <1>5, <1>6, <1>7 DEF Next

\* Whatever the programs, the number of loops and the amounts, infinite bounds
\* included: what shift (loop_basic.cc:1085), skew (loop_basic.cc:917),
\* nonsingular (loop.cc:2582), split (loop_basic.cc:500) and peel
\* (loop_extra.cc:72) do to the loops they do to the vectors.  Of two dependent
\* instances there is a vector, between the statements that now compute them,
\* that covers how far apart they now run.
THEOREM DistancesCovered ==
  ASSUME Checked
  PROVE  Spec => []VectorsCoverDistances
<1>1. Init => CoverInv
  BY CoverInit
<1>2. CoverInv /\ [Next]_vars => CoverInv'
  BY CoverInductive
<1>3. CoverInv => VectorsCoverDistances
  BY CoverMeans
<1> QED BY <1>1, <1>2, <1>3, PTL DEF Spec

\* In the same scripts no dependence runs backwards as long as the commands are
\* those that check: skew refuses what it must (loop_basic.cc:1029), shift moves
\* whole loops, and the two halves of a cut come one after the other
\* (loop_basic.cc:819) in every loop that carries nothing outside.
THEOREM OrderIsPreserved ==
  ASSUME Checked
  PROVE  Spec => []OrderPreserved
<1>1. Init => CoverInv
  BY CoverInit
<1>2. CoverInv /\ [Next]_vars => CoverInv'
  BY CoverInductive
<1>3. CoverInv => OrderPreserved
  BY CoverMeans
<1> QED BY <1>1, <1>2, <1>3, PTL DEF Spec
=============================================================================

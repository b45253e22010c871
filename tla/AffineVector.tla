---------------------------- MODULE AffineVector ----------------------------
(***************************************************************************)
(* What shift, skew, nonsingular, split and unroll make of the bounds of a *)
(* vector.  Infinity is the code's posInfinity.                            *)
(***************************************************************************)
EXTENDS DepVector

CONSTANT Infinity

ASSUME InfinityAssumption == Infinity \in Nat \ {0}

\* shift: the sink (amount > 0) or the source (amount < 0) of the dependence
\* moves, if the bound is finite.
MovedBy(dv, dim, amount) ==
  [dv EXCEPT !.lb[dim] = IF @ = -Infinity THEN @ ELSE @ + amount,
             !.ub[dim] = IF @ = Infinity THEN @ ELSE @ + amount]

\* The distance of the dimension is not known any more.
Jumbled(dv, dim) == [dv EXCEPT !.lb[dim] = -Infinity, !.ub[dim] = Infinity]

\* The bound of a dimension that gives the lower bound of amount times it, and
\* the infinity that bounds nothing there; for the upper bound the other ones
Low(dv, dim, amount)  == IF amount > 0 THEN dv.lb[dim] ELSE dv.ub[dim]
High(dv, dim, amount) == IF amount > 0 THEN dv.ub[dim] ELSE dv.lb[dim]
Far(amount) == IF amount > 0 THEN Infinity ELSE -Infinity

\* One turn of the loop of skew: the bounds of what is summed so far and of
\* amount times a dimension of dv.  Where the dimension is known to be zero the
\* else branch leaves the sum alone.
SkewTurn(sum, dv, dim, amount) ==
  LET low  == Low(dv, dim, amount)
      high == High(dv, dim, amount)
      zero == dv.lb[dim] = 0 /\ dv.ub[dim] = 0
  IN  IF amount = 0 THEN sum
      ELSE [lb |-> IF sum.lb # -Infinity /\ low # -Far(amount) THEN sum.lb + amount * low
                   ELSE IF zero THEN sum.lb ELSE -Infinity,
            ub |-> IF sum.ub # Infinity /\ high # Far(amount) THEN sum.ub + amount * high
                   ELSE IF zero THEN sum.ub ELSE Infinity]

\* One turn of the loop of nonsingular
MultiplyTurn(sum, dv, dim, amount) ==
  LET low  == Low(dv, dim, amount)
      high == High(dv, dim, amount)
  IN  IF amount = 0 THEN sum
      ELSE [lb |-> IF sum.lb = -Infinity \/ low = -Far(amount) THEN -Infinity ELSE sum.lb + amount * low,
            ub |-> IF sum.ub = Infinity \/ high = Far(amount) THEN Infinity ELSE sum.ub + amount * high]

PlusConstant(sum, const) ==
  [lb |-> IF sum.lb = -Infinity THEN sum.lb ELSE sum.lb + const,
   ub |-> IF sum.ub = Infinity THEN sum.ub ELSE sum.ub + const]

Floor(a, b) == a \div b
CeilTruncates(a, b) == a \div b
Ceil(a, b) == -((-a) \div b)

\* The vectors between the statements that stay (1) and the copies (2), in
\* steps of the new stride
Lumped(dv, dim, step, stride) ==
  LET range(lb, ub) == [dv EXCEPT !.lb[dim] = IF @ = -Infinity THEN @ ELSE lb * step,
                                  !.ub[dim] = IF @ = Infinity THEN @ ELSE ub * step]
      some(v) == IF v.ub[dim] >= v.lb[dim] THEN {v} ELSE {}
      lb == dv.lb[dim]
      ub == dv.ub[dim]
  IN  IF lb = ub /\ lb % step = 0
      THEN [dvs11 |-> {dv}, dvs12 |-> {}, dvs21 |-> {}, dvs22 |-> {dv}]
      ELSE [dvs11 |-> some(range(Ceil(lb, step), Floor(ub, step))),
            dvs21 |-> some(range(Ceil(lb, step), Ceil(ub, step))),
            dvs12 |-> some(range(Floor(lb, step), Floor(ub - stride, step))),
            dvs22 |-> some(range(Floor(lb, step), Ceil(ub - stride, step)))]

\* A bound of infinity on its side bounds nothing.
Above(lb, x) == lb = -Infinity \/ lb <= x
Below(x, ub) == ub = Infinity \/ x <= ub
Covers(dv, d) == \A i \in DOMAIN dv.lb : Above(dv.lb[i], d[i]) /\ Below(d[i], dv.ub[i])
=============================================================================

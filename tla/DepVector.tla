----------------------------- MODULE DepVector -----------------------------
(***************************************************************************)
(* Dependence vectors, the queries on them and the operations of dep.cc    *)
(* that Loop uses.  A vector is a record with a type, a lower and an upper *)
(* bound for each dimension (numbered from 0, as in the code) and the flag *)
(* quasi.  It stands for the distances that lie within its bounds.  The    *)
(* flag is_scalar_dependence, which no code sets, is left out, and so are  *)
(* control dependences, which only unrolling creates.                      *)
(***************************************************************************)
EXTENDS Integers

\* The dimensions of a vector or of a distance before dimension dim.
Before(dim) == 0 .. dim-1

HasDistance(dv, d) == \A i \in DOMAIN dv.lb : dv.lb[i] <= d[i] /\ d[i] <= dv.ub[i]

\* The sign of the first of the dimensions 0 .. n-1 in which d is not zero.
LexSign(d, n) ==
  IF \A i \in 0 .. n-1 : d[i] = 0 THEN 0
  ELSE IF \E i \in 0 .. n-1 : d[i] > 0 /\ \A k \in Before(i) : d[k] = 0 THEN 1
  ELSE -1

Negated(d) == [i \in DOMAIN d |-> -d[i]]

-----------------------------------------------------------------------------
(* Queries.                                                                *)

\* An outer dimension has a distance that cannot be zero.
HasBeenCarriedBefore(dv, dim) ==
  \E i \in Before(dim) \intersect DOMAIN dv.lb : dv.lb[i] > 0 \/ dv.ub[i] < 0

HasBeenCarriedAt(dv, dim) ==
  /\ dim \in DOMAIN dv.lb
  /\ ~HasBeenCarriedBefore(dv, dim)
  /\ dv.lb[dim] # 0 \/ dv.ub[dim] # 0

HasNegativeBeenCarriedAt(dv, dim) ==
  /\ dim \in DOMAIN dv.lb
  /\ ~HasBeenCarriedBefore(dv, dim)
  /\ dv.lb[dim] < 0

HasPositive(dv, dim) == dv.lb[dim] > 0
HasNegative(dv, dim) == dv.ub[dim] < 0

\* isCarried with the default distance, infinity.  The comparison of the
\* signed dim with the unsigned size makes -1 the dimension after the last.
IsCarried(dv, dim) ==
  \A i \in (IF dim \in DOMAIN dv.lb THEN Before(dim) ELSE DOMAIN dv.lb) :
     dv.lb[i] <= 0 /\ dv.ub[i] >= 0

-----------------------------------------------------------------------------
(* Operations.                                                             *)

ReversedType(type) == CASE type = "W2R" -> "R2W"
                        [] type = "R2W" -> "W2R"
                        [] OTHER        -> type

Reversed(dv) == [dv EXCEPT !.type  = ReversedType(@),
                          !.lb    = Negated(dv.ub),
                          !.ub    = Negated(dv.lb),
                          !.quasi = TRUE]

\* permute: dimension i of the result is dimension pi[i] of dv.
Permuted(dv, pi) == [dv EXCEPT !.lb = [i \in DOMAIN @ |-> dv.lb[pi[i]]],
                               !.ub = [i \in DOMAIN @ |-> dv.ub[pi[i]]]]

\* permute throws "dependence violation": a distance that may be negative
\* comes before any that must be positive.
Violated(dv, pi) ==
  LET p == Permuted(dv, pi)
  IN  /\ ~dv.quasi
      /\ \E i \in DOMAIN p.lb : /\ p.lb[i] < 0
                                /\ \A k \in Before(i) : p.lb[k] <= 0
=============================================================================

------------------------------- MODULE Eager --------------------------------
(***************************************************************************)
(* Values computed once.  TLC evaluates a definition, or the argument of   *)
(* an operator, wherever it is used; what is bound by a quantifier or a    *)
(* set constructor it evaluates where it is bound.  None of these          *)
(* operators means anything the plain form does not.                       *)
(***************************************************************************)
EXTENDS Integers, FiniteSets, Sequences, TLC
LOCAL INSTANCE SequencesExt
LOCAL INSTANCE FiniteSetsExt

\* F(x)
With(x, F(_)) == CHOOSE y \in {F(v) : v \in {x}} : TRUE

\* f
Table(f) == f @@ <<>>

\* FlattenSeq(seqs)
Flatten(seqs) == With(Table(seqs), FlattenSeq)

\* FoldSet(op, base, S) and FoldLeft(op, base, s)
FoldAll(op(_,_), base, S) ==
  With(S, LAMBDA T : FoldSet(LAMBDA x, y : With(y, LAMBDA v : op(x, v)), base, T))
FoldAlong(op(_,_), base, s) ==
  With(s, LAMBDA t : FoldLeft(LAMBDA y, x : With(y, LAMBDA v : op(v, x)), base, t))

\* Max(S) and Min(S)
Greatest(S) == With(S, Max)
Smallest(S) == With(S, Min)

\* The elements of S in some order, and in the order op
AsSeq(S) == FoldAll(LAMBDA x, s : Append(s, x), <<>>, S)
Sorted(S, op(_,_)) == SortSeq(AsSeq(S), op)
=============================================================================

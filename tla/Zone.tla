-------------------------------- MODULE Zone --------------------------------
(***************************************************************************)
(* The integer sets of the code generator.  The Omega library keeps        *)
(* conjunctions of affine constraints; here a constraint <<i, j, c>> says  *)
(* that dimension i minus dimension j is at most c.  Dimension 0 is the    *)
(* constant 0, dimension 1 the symbolic parameter of the program and       *)
(* dimension l + 1 the loop variable of level l: the order in which        *)
(* SimpleHull puts them.  A relation ("zone") is the table of the tightest *)
(* bound known of every difference, Inf where there is none; a guard or a  *)
(* list of loop bounds is a set of constraints.  Strides and wildcards,    *)
(* and coefficients other than one, are left out.                          *)
(***************************************************************************)
EXTENDS Eager
LOCAL INSTANCE SequencesExt

CONSTANTS
  Levels,   \* number of loop levels of the generated code
  Inf       \* larger than every bound that can be computed

ASSUME ZoneAssumption == Levels \in Nat \ {0} /\ Inf \in Nat

LastDim == Levels + 1
Dims == 0 .. LastDim
Pairs == Dims \X Dims
DimOf(level) == level + 1

Least(a, b) == IF a <= b THEN a ELSE b
Plus(a, b) == IF Inf \in {a, b} THEN Inf ELSE a + b

Whole == [p \in Pairs |-> IF p[1] = p[2] THEN 0 ELSE Inf]

\* A table of tightest bounds with one constraint more
Tighten(z, con) ==
  With(<<z, con>>, LAMBDA a :
    LET y == a[1]
        c == a[2]
    IN  Table([p \in Pairs |-> Least(y[p], Plus(y[<<p[1], c[1]>>], Plus(c[3], y[<<c[2], p[2]>>])))]))

And(z, cons) == FoldAll(LAMBDA c, y : Tighten(y, c), z, cons)
ZoneOf(cons) == And(Whole, cons)

Intersection(z1, z2) ==
  With(<<z1, z2>>, LAMBDA a : And(a[1], {<<p[1], p[2], a[2][p]>> : p \in {q \in Pairs : a[2][q] < a[1][q]}}))

\* Relation::is_upper_bound_satisfiable
Sat(z) == \A y \in {z} : \A i \in Dims : y[<<i, i>>] >= 0

\* Complement of a single constraint
Complement(con) == <<con[2], con[1], -con[3] - 1>>

Project(z, d) ==
  With(z, LAMBDA y : Table([p \in Pairs |-> IF d \in {p[1], p[2]} /\ p[1] # p[2] THEN Inf ELSE y[p]]))

\* What is left of z after the dimensions behind d are projected away
UpTo(z, d) ==
  With(z, LAMBDA y : Table([p \in Pairs |-> IF (p[1] > d \/ p[2] > d) /\ p[1] # p[2] THEN Inf ELSE y[p]]))

ImpliesAll(z, cons) == \A y \in {z} : ~Sat(y) \/ \A c \in cons : y[<<c[1], c[2]>>] <= c[3]
Implies(z, con) == ImpliesAll(z, {con})

\* Must_Be_Subset
Subset(z1, z2) == \A y \in {z1}, z \in {z2} : ~Sat(y) \/ \A p \in Pairs : y[p] <= z[p]

Constraints(z) ==
  With(z, LAMBDA y : {<<p[1], p[2], y[p]>> : p \in {q \in Pairs : q[1] # q[2] /\ y[q] < Inf}})

\* The order in which a conjunct lists its constraints is the library's own.
Listed(cons) == AsSeq(cons)

\* Of the listed constraints, those that known and the later ones do not imply
DropImplied(todo, known) ==
  FoldAlong(LAMBDA kept, c : IF Implies(And(known, kept \ {c}), c) THEN kept \ {c} ELSE kept,
            ToSet(todo), todo)

Contradiction == {<<0, 0, -1>>}

\* What z says beyond known, without redundant constraints: {} is a tautology.
Gist(z, known) ==
  With(known, LAMBDA k :
    IF ~Sat(k) THEN {}
    ELSE IF ~Sat(Intersection(z, k)) THEN Contradiction
    ELSE With(Listed({c \in Constraints(z) : ~Implies(k, c)}), LAMBDA new : DropImplied(new, k)))

Simplify(z) == Gist(z, Whole)

IsEquality(con, cons) == <<con[2], con[1], -con[3]>> \in cons

Uppers(cons, d) == {c \in cons : c[1] = d}
Lowers(cons, d) == {c \in cons : c[2] = d}
-----------------------------------------------------------------------------
(***************************************************************************)
(* SimpleHull: one conjunction that contains all the given ones.  It takes *)
(* the bounds of each of them that the others satisfy as well, dimension   *)
(* by dimension, and where a side of a dimension is left without one it    *)
(* projects other dimensions out of a conjunct until a common bound shows. *)
(***************************************************************************)

\* Of two conjuncts one of which contains the other the larger stays; each is
\* compared with the first of the list for which this is so.
AddConjunct(zs, z) ==
  With({j \in DOMAIN zs : Subset(z, zs[j]) \/ Subset(zs[j], z)}, LAMBDA near :
    IF near = {} THEN Append(zs, z)
    ELSE IF Subset(z, zs[Smallest(near)]) THEN zs
    ELSE Append(RemoveAt(zs, Smallest(near)), z))
Conjuncts(zs) == FoldAlong(AddConjunct, <<>>, SelectSeq(zs, Sat))

\* A conjunct says something of the parameter.
Symbolic(zs) == \E i \in DOMAIN zs : \E p \in Pairs : p[1] # p[2] /\ 1 \in {p[1], p[2]} /\ zs[i][p] < Inf

\* Bounds of dimension d in z, in terms of the dimensions before it
BoundsOf(z, d) ==
  With(z, LAMBDA y : {c \in Gist(UpTo(y, d), UpTo(y, d - 1)) : d \in {c[1], c[2]}})

\* A bound of d is an upper one (side 1) or a lower one (side 2).
Side(c, d) == IF c[1] = d THEN 1 ELSE 2
Other(c, d) == c[3 - Side(c, d)]

Common(zs, j, c) == \A k \in DOMAIN zs \ {j} : Implies(zs[k], c)

\* One bound of conjunct j.  st has the hull so far, the sides on which it has a
\* bound taken as it is stated (has), the sides of d that are still looked at
\* (open) and those on which conjunct j has a bound that is not common (missing).
TryBound(zs, j, d, st, c) ==
  IF j # 1 /\ Len(zs) > 2 /\ Implies(st.hull, c) THEN st
  ELSE IF Common(zs, j, c) THEN [st EXCEPT !.hull = Tighten(@, c), !.has = @ \cup {<<d, Side(c, d)>>}]
  ELSE [st EXCEPT !.missing = @ \cup {Side(c, d)}]

\* The conjuncts in turn, on each side up to the first without a bound that is
\* not common
CommonBounds(zs, of, d, st0) ==
  LET try(st, j) == FoldAlong(LAMBDA s, c : TryBound(zs, j, d, s, c), [st EXCEPT !.missing = {}],
                              Listed({c \in of[j] : Side(c, d) \in st.open}))
  IN  FoldAlong(LAMBDA st, j : With(try(st, j), LAMBDA s : [s EXCEPT !.open = @ \cap s.missing]),
                [st0 EXCEPT !.open = {1, 2}], [j \in DOMAIN zs |-> j])

\* The other dimension in c can be projected out: on the side on which c needs
\* it the hull has a bound, or another one of the bounds is.
Removable(c, d, bounds, has) ==
  LET o == Other(c, d)
      side == Side(c, d)
  IN  o # 0 /\ (<<o, side>> \in has \/ \E e \in bounds \ {c} : e[side] = o)

\* The bounds of conjunct j without the dimensions gone, and if none of them is
\* common (got) without one dimension more
RECURSIVE Approach(_, _, _, _, _, _)
Approach(zs, j, d, side, st, gone) ==
  LET try(s, c) == IF Implies(s.hull, c) \/ ~Common(zs, j, c) THEN s
                   ELSE [s EXCEPT !.hull = Tighten(@, c), !.got = TRUE]
  IN  With(BoundsOf(FoldAll(LAMBDA k, z : Project(z, k), zs[j], gone), d), LAMBDA bounds :
        With(Listed({c \in bounds : c[side] = d}), LAMBDA cons :
          With(<<FoldAlong(try, st, cons), SelectSeq(cons, LAMBDA c : Removable(c, d, bounds, st.has))>>, LAMBDA a :
            IF a[1].got \/ a[2] = <<>> THEN a[1]
            ELSE Approach(zs, j, d, side, a[1], gone \cup {Other(Head(a[2]), d)}))))

\* A side that is still open: conjunct by conjunct, with each removable dimension
\* projected out, up to a conjunct that gives a common bound
ApproximateBounds(zs, of, d, side, st0) ==
  LET dims(st, j) == Sorted({Other(c, d) : c \in {e \in of[j] : e[side] = d /\ Removable(e, d, of[j], st.has)}}, <)
  IN  IF side \notin st0.open THEN st0
      ELSE FoldAlong(LAMBDA st, j : IF st.got THEN st
                       ELSE FoldAlong(LAMBDA s, k : Approach(zs, j, d, side, s, {k}), st, dims(st, j)),
                     [st0 EXCEPT !.got = FALSE], [j \in DOMAIN zs |-> j])

HullOf(zs) ==
  LET start == [hull |-> Whole, has |-> {}, open |-> {}, missing |-> {}, got |-> FALSE]
      bounded(st, d) ==
        With(Table([j \in DOMAIN zs |-> BoundsOf(zs[j], d)]), LAMBDA of :
          With(CommonBounds(zs, of, d, st), LAMBDA common :
            ApproximateBounds(zs, of, d, 1, ApproximateBounds(zs, of, d, 2, common))))
  IN  CASE zs = <<>> -> ZoneOf(Contradiction)
        [] Len(zs) = 1 -> zs[1]
        [] OTHER -> FoldAlong(bounded, start, [d \in 1 .. LastDim |-> d]).hull

\* SimpleHull(Rs), which calls itself with the parameter as a dimension
SimpleHull(relations) ==
  With(Conjuncts(Table(relations)), LAMBDA zs :
    With(IF Len(zs) > 1 /\ Symbolic(zs) THEN Conjuncts(zs) ELSE zs, HullOf))
=============================================================================

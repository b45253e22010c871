------------------------------ MODULE CodeTree ------------------------------
(***************************************************************************)
(* The tree of loops the code generator builds from iteration spaces       *)
(* (codegen.cc) and the passes over it (CG.cc).  A node is a leaf, a loop  *)
(* or a split: the clauses of a split run one after the other, over the    *)
(* parts of the iteration space its restrictions cut, and the split itself *)
(* prints no test.  Null is an empty subtree, Failure one whose            *)
(* construction throws codegen_error or fails an assertion.                *)
(*                                                                         *)
(* sp is projected_IS_: sp[s] is the transformed space of statement s.     *)
(***************************************************************************)
EXTENDS Zone
LOCAL INSTANCE SequencesExt

Null    == [kind |-> "null"]
Failure == [kind |-> "failure"]

Leaf(active) == [kind |-> "leaf", active |-> active, known |-> Whole, guards |-> <<>>]

Loop(active, level, body) ==
  [kind |-> "loop", active |-> active, level |-> level, body |-> body,
   known |-> Whole, restriction |-> Whole, needLoop |-> TRUE,
   bounds |-> {}, guard |-> {}, depth |-> 0]

Split(active, restrictions, clauses) ==
  [kind |-> "split", active |-> active, restrictions |-> restrictions, clauses |-> clauses]

\* The spaces of statement s at a level: projected_IS_[level-1][s]
At(sp, level, s) == UpTo(sp[s], DimOf(level))

\* The statements of a set in ascending order, as BoolSet's iterators give them
Ascending(S) == Sorted(S, <)
-----------------------------------------------------------------------------
(***************************************************************************)
(* CodeGen::buildAST(level, active, split_on_const, restriction)           *)
(***************************************************************************)

\* The constant bounds a relation states of a variable, <<least, greatest>>
ConstantBounds(z, d) ==
  With(Simplify(z), LAMBDA cons :
    <<Greatest({-Inf} \cup {-c[3] : c \in {e \in cons : e[1] = 0 /\ e[2] = d}}),
      Smallest({Inf} \cup {c[3] : c \in {e \in cons : e[1] = d /\ e[2] = 0}})>>)

\* Statements whose intervals overlap, directly or through others, stay together.
Grouped(groups, b) ==
  Front(groups) \o <<[stmts |-> Last(groups).stmts \cup {b[3]}, ub |-> Greatest({Last(groups).ub, b[2]})]>>

GroupsTouching(bounds) ==
  FoldAlong(LAMBDA groups, b : IF groups # <<>> /\ b[1] < Last(groups).ub THEN Grouped(groups, b)
                               ELSE Append(groups, [stmts |-> {b[3]}, ub |-> b[2]]),
            <<>>, bounds)
Groups(bounds) ==
  FoldAlong(LAMBDA groups, b : IF groups # <<>> /\ b[1] <= Last(groups).ub THEN Grouped(groups, b)
                               ELSE Append(groups, [stmts |-> {b[3]}, ub |-> b[2]]),
            <<>>, bounds)

Earlier(b, c) == \/ b[1] < c[1]
                 \/ b[1] = c[1] /\ b[2] < c[2]
                 \/ b[1] = c[1] /\ b[2] = c[2] /\ b[3] < c[3]

\* A constraint e of statement s that can cut the others: the statements before
\* the cut, those behind it and the condition that holds before it.
Cut(s, e, d, rs) ==
  LET cond    == IF e[2] = d THEN Complement(e) ELSE e
      meet(c) == {j \in DOMAIN rs \ {s} : Sat(And(rs[j], {c}))}
  IN  With(<<meet(cond), meet(Complement(cond))>>, LAMBDA m :
        [cond   |-> cond,
         proper |-> m[1] \cap m[2] = {},
         first  |-> m[1] \cup (IF e[2] = d THEN {} ELSE {s}),
         second |-> (m[2] \ m[1]) \cup (IF e[2] = d THEN {s} ELSE {})])

Cuts(active, level, rs) ==
  LET d == DimOf(level)
      of(s, hull) == With(Listed({c \in Gist(rs[s], hull) : d \in {c[1], c[2]}}), LAMBDA cons :
                       [k \in DOMAIN cons |-> Cut(s, cons[k], d, rs)])
      all(order, hull) == Flatten([i \in DOMAIN order |-> of(order[i], hull)])
  IN  With(Ascending(active), LAMBDA order :
        With(SimpleHull([i \in DOMAIN order |-> rs[order[i]]]), LAMBDA hull :
          SelectSeq(all(order, hull), LAMBDA c : c.proper /\ c.first # {} /\ c.second # {})))

RECURSIVE Build(_, _, _, _, _)

\* split_on_const: one part for each group of statements
BuildGroups(sp, level, rs, active, restriction) ==
  LET d == DimOf(level)
      within(groups, k) ==
        (IF k = 1 THEN {} ELSE {<<0, d, -(groups[k-1].ub) - 1>>}) \cup
        (IF k = Len(groups) \/ groups[k].ub = Inf THEN {} ELSE {<<d, 0, groups[k].ub>>})
      part(groups, k) ==
        With(within(groups, k), LAMBDA w :
          <<w, Build(sp, level, groups[k].stmts, FALSE, And(restriction, w))>>)
      joined(parts) ==
        CASE Len(parts) = 0 -> Null
          [] Len(parts) = 1 -> parts[1][2]
          [] OTHER -> Split(active, [k \in DOMAIN parts |-> parts[k][1]], [k \in DOMAIN parts |-> parts[k][2]])
  IN  With({s \in active : Sat(rs[s])}, LAMBDA inside :
        IF inside = {} THEN Failure          \* bounds[0] of an empty vector
        ELSE With(Groups(Sorted({ConstantBounds(rs[s], d) \o <<s>> : s \in inside}, Earlier)), LAMBDA groups :
               With(SelectSeq(Table([k \in DOMAIN groups |-> part(groups, k)]), LAMBDA p : p[2] # Null),
                    joined)))

\* Otherwise the first cut, if there is one
BuildCut(sp, level, rs, active, restriction) ==
  LET half(stmts, cond) == Build(sp, level, stmts, FALSE, ZoneOf({cond}))
      joined(cond, before, behind) ==
        CASE before = Null -> behind
          [] before # Null /\ behind = Null -> before
          [] OTHER -> Split(active, <<{cond}, {Complement(cond)}>>, <<before, behind>>)
  IN  With(Cuts(active, level, rs), LAMBDA cuts :
        IF cuts = <<>> THEN Loop(active, level, Build(sp, level + 1, active, TRUE, restriction))
        ELSE With(cuts[1], LAMBDA cut :
               With(<<half(cut.first, cut.cond), half(cut.second, Complement(cut.cond))>>, LAMBDA h :
                 joined(cut.cond, h[1], h[2]))))

Build(sp, level, active, split_on_const, restriction) ==
  CASE level > Levels -> Leaf(active)
    [] level <= Levels /\ active = {} -> Null
    [] level <= Levels /\ Cardinality(active) = 1 ->
         Loop(active, level, Build(sp, level + 1, active, TRUE, restriction))
    [] level <= Levels /\ Cardinality(active) > 1 ->
         With(restriction, LAMBDA res :
           With(Table([s \in active |-> Intersection(At(sp, level, s), res)]), LAMBDA rs :
             IF split_on_const THEN BuildGroups(sp, level, rs, active, res)
                               ELSE BuildCut(sp, level, rs, active, res)))

RECURSIVE Fails(_)
Fails(t) == \/ t.kind = "failure"
            \/ t.kind = "loop" /\ Fails(t.body)
            \/ t.kind = "split" /\ \E k \in DOMAIN t.clauses : Fails(t.clauses[k])
-----------------------------------------------------------------------------
(***************************************************************************)
(* recompute: what each node knows when it is reached, which statements it *)
(* still holds, and the bounds and guard of each loop.                     *)
(***************************************************************************)

\* find_simplest_assignment: the loop variable is another dimension plus a constant
Determined(z, d) ==
  {j \in Dims \ {d} : z[<<d, j>>] < Inf /\ z[<<j, d>>] < Inf /\ z[<<d, j>>] + z[<<j, d>>] = 0}
Assignment(z, d) ==
  With(CHOOSE j \in Determined(z, d) : TRUE, LAMBDA j : {<<d, j, z[<<d, j>>]>>, <<j, d, z[<<j, d>>]>>})

StatedBounds(rs, d, side) ==
  Flatten([i \in DOMAIN rs |->
    With(Simplify(rs[i]), LAMBDA cons : Listed({c \in cons : c[side] = d /\ ~IsEquality(c, cons)}))])
StatedEqualities(rs, d) ==
  Flatten([i \in DOMAIN rs |->
    With(Simplify(rs[i]), LAMBDA cons : Listed({c \in cons : d \in {c[1], c[2]} /\ IsEquality(c, cons)}))])

FirstBoundPure(rs, d, side) == StatedBounds(rs, d, side)
\* The lower (side 2) or upper (side 1) bounds the relations state, in order; after
\* them the equalities, each first as the inequality its sign in the library makes it.
FirstBound(rs, d, side) == StatedBounds(rs, d, side) \o StatedEqualities(rs, d)

RECURSIVE Recompute(_, _, _, _, _)

RecomputeLeafAsLoop(sp, t, active0, known, restriction) ==
  With({s \in active0 : Sat(Intersection(sp[s], restriction))}, LAMBDA active :
    With(Table([s \in active |-> Gist(Intersection(sp[s], restriction), known)]), LAMBDA left :
      IF active = {} THEN Null
      ELSE [t EXCEPT !.active = active, !.known = And(known, UNION {left[s] : s \in active}),
                     !.guards = Table([s \in {a \in active : left[a] # {}} |-> left[s]])]))
RecomputeLeaf(sp, t, active0, known, restriction) ==
  With({s \in active0 : Sat(Intersection(sp[s], restriction))}, LAMBDA active :
    With(Table([s \in active |-> Gist(Intersection(sp[s], restriction), known)]), LAMBDA left :
      IF active = {} THEN Null
      ELSE [t EXCEPT !.active = active, !.known = known,
                     !.guards = Table([s \in {a \in active : left[a] # {}} |-> left[s]])]))

\* A split prints no test: its clauses know no more than the split.
RecomputeSplit(sp, t, active0, known, restriction) ==
  LET part(k) == <<t.restrictions[k],
                   Recompute(sp, t.clauses[k], active0, known, And(restriction, t.restrictions[k]))>>
  IN  With(SelectSeq(Table([k \in DOMAIN t.clauses |-> part(k)]), LAMBDA p : p[2] # Null), LAMBDA live :
        IF active0 = {} \/ live = <<>> THEN Null
        ELSE Split(active0, [k \in DOMAIN live |-> live[k][1]], [k \in DOMAIN live |-> live[k][2]]))

\* The loop with its hull, the bounds the hull states (or the assignment it
\* amounts to) and the guard that is left
Bounded(t, active, hull, stated, known, restriction) ==
  LET d        == DimOf(t.level)
      needLoop == Determined(hull, d) = {}
      guard(inside) == Gist(Project(ZoneOf(Gist(hull, inside)), d), inside)
  IN  With(IF needLoop THEN stated ELSE Assignment(hull, d), LAMBDA bounds :
        [t EXCEPT !.active = active, !.known = known, !.restriction = restriction,
                  !.needLoop = needLoop, !.bounds = bounds,
                  !.guard = IF needLoop THEN With(And(known, bounds), guard) ELSE {}])

RecomputeBody(sp, self) ==
  With(Recompute(sp, self.body, self.active, And(self.known, self.bounds \cup self.guard),
                 And(self.restriction, self.bounds \cup self.guard)), LAMBDA body :
    IF body = Null THEN Null ELSE [self EXCEPT !.body = body])

\* A loop without a lower (side 2) or upper (side 1) bound is split at the first
\* bound of one of its statements, the part below the cut first.
SplitAtBound(sp, self, rs, side) ==
  With(FirstBound(rs, DimOf(self.level), side), LAMBDA cut :
    IF cut = <<>> THEN Failure            \* can't find lower (upper) bound
    ELSE LET pair == IF cut[1][2] = DimOf(self.level) THEN <<{Complement(cut[1])}, {cut[1]}>>
                                                      ELSE <<{cut[1]}, {Complement(cut[1])}>>
         IN  Recompute(sp, Split(self.active, pair, <<self, self>>),
                       self.active, self.known, self.restriction))

RecomputeLoop(sp, t, active0, known, restriction) ==
  LET d       == DimOf(t.level)
      part(s) == Intersection(restriction, At(sp, t.level, s))
      bounded(self, rs) ==
        CASE self.needLoop /\ Lowers(self.bounds, d) = {} -> SplitAtBound(sp, self, rs, 2)
          [] self.needLoop /\ Lowers(self.bounds, d) # {} /\ Uppers(self.bounds, d) = {} ->
               SplitAtBound(sp, self, rs, 1)
          [] OTHER -> RecomputeBody(sp, self)
      loop(active, rs) ==
        With(SimpleHull(rs), LAMBDA hull :
          With({c \in Gist(hull, known) : d \in {c[1], c[2]}}, LAMBDA stated :
            With(Bounded(t, active, hull, stated, known, restriction), LAMBDA self : bounded(self, rs))))
  IN  With({s \in active0 : Sat(part(s))}, LAMBDA active :
        IF active = {} THEN Null
        ELSE With(Ascending(active), LAMBDA order :
               With(Table([i \in DOMAIN order |-> part(order[i])]), LAMBDA rs : loop(active, rs))))

Recompute(sp, t0, parent_active, known0, restriction0) ==
  With(<<t0, known0, restriction0>>, LAMBDA a :
    LET t       == a[1]
        active0 == t.active \cap parent_active
    IN  CASE t.kind = "leaf"  -> RecomputeLeaf(sp, t, active0, a[2], a[3])
          [] t.kind = "split" -> RecomputeSplit(sp, t, active0, a[2], a[3])
          [] t.kind = "loop"  -> RecomputeLoop(sp, t, active0, a[2], a[3]))

\* The depth populateDepth computes of a node
RECURSIVE DepthOf(_)
DepthOf(t) == CASE t.kind = "leaf" -> 0
                [] t.kind = "loop" -> t.depth
                [] t.kind = "split" -> Greatest({DepthOf(t.clauses[k]) : k \in DOMAIN t.clauses})

RECURSIVE PopulateDepth(_)
PopulateDepth(t) ==
  CASE t.kind = "leaf" -> t
    [] t.kind = "split" -> [t EXCEPT !.clauses = [k \in DOMAIN t.clauses |-> PopulateDepth(t.clauses[k])]]
    [] t.kind = "loop" ->
         With(PopulateDepth(t.body), LAMBDA body :
           [t EXCEPT !.body = body, !.depth = DepthOf(body) + (IF t.needLoop THEN 1 ELSE 0)])
-----------------------------------------------------------------------------
(***************************************************************************)
(* liftOverhead(depth, propagate_up): the tests inside a nest of at most   *)
(* depth loops are taken out of it by splitting the loops around them.     *)
(* The result is the new node and the test still to be placed above it, {} *)
(* for none.                                                               *)
(***************************************************************************)

\* pick_one_guard: an inequality if there is one; of an equality, one half
PickOneGuard(cons) ==
  With(cons, LAMBDA C :
    LET pure == {c \in C : ~IsEquality(c, C)}
    IN  IF C = {} THEN {} ELSE {Head(Listed(IF pure # {} THEN pure ELSE C))})

\* The test in terms of the dimensions before d, whose value the bounds fix
Substitute(cond, bounds, d) == Simplify(Project(ZoneOf(cond \cup bounds), d))

\* The part of the split that runs first: the one below an upper bound
UpperFirst(con) == (con[1] > con[2] /\ con[1] > 1) \/ (con[1] <= 1 /\ con[2] <= 1)
InnermostDim(con) == Greatest({con[1], con[2]})

RECURSIVE LiftOverhead(_, _, _, _), LiftClauses(_, _, _, _, _)

\* The loop self is split by the test con.
LiftSplit(sp, self, con, depth, propagate_up) ==
  LET parts == IF UpperFirst(con) THEN <<{con}, {Complement(con)}>> ELSE <<{Complement(con)}, {con}>>
  IN  With(Recompute(sp, Split(self.active, parts, <<self, self>>), self.active, self.known, self.restriction),
           LAMBDA new :
             IF Fails(new) \/ new = Null THEN <<Failure, {}>>
             ELSE IF Len(new.clauses) = 1 THEN <<PopulateDepth(new), {}>>
             ELSE LiftOverhead(sp, PopulateDepth(new), depth, propagate_up))

LiftLoop(sp, t, depth, propagate_up) ==
  LET d == DimOf(t.level)
      place(inner, self) ==
        With(IF t.needLoop THEN inner[2] ELSE Substitute(inner[2], t.bounds, d), LAMBDA cond :
          IF Fails(inner[1]) \/ Cardinality(cond) # 1 THEN <<Failure, {}>>
          ELSE With(CHOOSE c \in cond : TRUE, LAMBDA con :
                 IF propagate_up /\ InnermostDim(con) # d THEN <<self, cond>>
                 ELSE LiftSplit(sp, self, con, depth, propagate_up)))
  IN  IF t.depth > depth /\ propagate_up THEN <<Failure, {}>>
      ELSE IF t.depth <= depth /\ propagate_up /\ t.guard # {} THEN <<t, PickOneGuard(t.guard)>>
      ELSE With(LiftOverhead(sp, t.body, depth, t.depth <= depth /\ (propagate_up \/ t.needLoop)),
                LAMBDA inner :
                  With([t EXCEPT !.body = inner[1]], LAMBDA self :
                    IF t.depth > depth \/ inner[2] = {} THEN <<self, {}>> ELSE place(inner, self)))

LiftOverhead(sp, t0, depth, propagate_up) ==
  With(t0, LAMBDA t :
    LET tests == {s \in DOMAIN t.guards : t.guards[s] # {}}
    IN  CASE t.kind = "leaf" ->
               <<t, IF depth = 0 \/ tests = {} THEN {} ELSE PickOneGuard(t.guards[Smallest(tests)])>>
          [] t.kind = "split" -> LiftClauses(sp, t, depth, propagate_up, 1)
          [] t.kind = "loop"  -> LiftLoop(sp, t, depth, propagate_up))

LiftClausesFirst(sp, t, depth, propagate_up, k) ==
  With(LiftOverhead(sp, t.clauses[k], depth, propagate_up), LAMBDA r :
    <<[t EXCEPT !.clauses[k] = r[1]], r[2]>>)
\* CG_split::liftOverhead: clause by clause, up to the first with a test to place
LiftClauses(sp, t, depth, propagate_up, k) ==
  IF k > Len(t.clauses) THEN <<t, {}>>
  ELSE With(LiftOverhead(sp, t.clauses[k], depth, propagate_up), LAMBDA r :
         With([t EXCEPT !.clauses[k] = r[1]], LAMBDA next :
           IF r[2] # {} THEN <<next, r[2]>> ELSE LiftClauses(sp, next, depth, propagate_up, k + 1)))
-----------------------------------------------------------------------------
(***************************************************************************)
(* hoistGuard and removeGuard: what every branch below a node tests is     *)
(* tested once, above.                                                     *)
(***************************************************************************)
RECURSIVE RemoveGuard(_, _)
RemoveGuard(t, test) ==
  With(IF t.kind = "split" THEN Whole ELSE And(t.known, test), LAMBDA known :
    CASE t.kind = "split" ->
           [t EXCEPT !.clauses = Table([k \in DOMAIN t.clauses |-> RemoveGuard(t.clauses[k], test)])]
      [] t.kind = "loop" ->
           [t EXCEPT !.known = known, !.guard = Gist(ZoneOf(t.guard), known)]
      [] t.kind = "leaf" ->
           With(Table([s \in DOMAIN t.guards |-> Gist(ZoneOf(t.guards[s]), known)]), LAMBDA left :
             [t EXCEPT !.known = known,
                       !.guards = Table([s \in {a \in DOMAIN left : left[a] # {}} |-> left[s]])]))

LeafGuard(t) ==
  IF \E s \in t.active : s \notin DOMAIN t.guards THEN Whole
  ELSE SimpleHull([i \in 1 .. Cardinality(t.active) |-> ZoneOf(t.guards[Ascending(t.active)[i]])])

\* A loop takes the test of its body over.
TakeOver(t, body, test0) ==
  With(test0, LAMBDA test :
    With(IF test = {} THEN t.guard ELSE Simplify(And(ZoneOf(t.guard), test)), LAMBDA up :
      <<[t EXCEPT !.body = IF test = {} THEN body ELSE RemoveGuard(body, test), !.guard = up], ZoneOf(up)>>))

\* What the body reports, with the value of a variable that is assigned
Reported(t, guard) == IF t.needLoop THEN guard ELSE And(guard, t.bounds)

\* The node afterwards and the guard it reports
RECURSIVE HoistGuard(_)
HoistGuard(t) ==
  CASE t.kind = "leaf"  -> <<t, LeafGuard(t)>>
    [] t.kind = "split" ->
         With(Table([k \in DOMAIN t.clauses |-> HoistGuard(t.clauses[k])]), LAMBDA r :
           <<[t EXCEPT !.clauses = [k \in DOMAIN r |-> r[k][1]]], SimpleHull([k \in DOMAIN r |-> r[k][2]])>>)
    [] t.kind = "loop"  ->
         With(HoistGuard(t.body), LAMBDA r :
           TakeOver(t, r[1], Gist(Project(Reported(t, r[2]), DimOf(t.level)), t.known)))
=============================================================================

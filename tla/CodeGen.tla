------------------------------- MODULE CodeGen -------------------------------
(***************************************************************************)
(* The code generator, from the iteration spaces of the statements to the  *)
(* text of the loops: the constructor of CodeGen, buildAST(effort) with    *)
(* its passes, and printRepr, one action each.                             *)
(***************************************************************************)
EXTENDS CodeText
LOCAL INSTANCE SequencesExt

CONSTANTS
  Programs,    \* sequences of statements; a statement is the sequence of the
               \* conjuncts (sets of constraints) of its iteration space
  Knowns,      \* the conditions on the parameter that may be known
  Efforts,     \* the depths up to which tests are lifted
  Parameters,  \* the values of the parameter the result is run for
  Values       \* contains every value of a loop variable in those runs

VARIABLES program, known, effort,   \* the arguments; effort from when it is first read
          sp, remap,                \* projected_IS_ and the statements they are of
          tree,                     \* the tree
          text,                     \* the code
          phase

vars == <<program, known, effort, sp, remap, tree, text, phase>>

\* Difference of a union of conjuncts and one conjunct
Difference(zs, z) ==
  LET without(y, cons) == SelectSeq(Table([k \in DOMAIN cons |-> And(y, {Complement(cons[k])})]), Sat)
  IN  With(Listed(Simplify(z)), LAMBDA cons : Flatten([k \in DOMAIN zs |-> without(zs[k], cons)]))

\* The conjuncts of a union made disjoint: the first, then what the others have beyond it
RECURSIVE Disjoint(_)
Disjoint(union) ==
  With(union, LAMBDA zs :
    IF zs = <<>> THEN <<>> ELSE <<Head(zs)>> \o Disjoint(Difference(Tail(zs), Head(zs))))

Spaces(s) ==
  Disjoint(SelectSeq(Table([k \in DOMAIN program[s] |-> And(ZoneOf(known), program[s][k])]), Sat))

Init == /\ program \in Programs
        /\ known \in Knowns
        /\ effort = 0
        /\ sp = <<>> /\ remap = <<>> /\ tree = Null /\ text = <<>>
        /\ phase = "start"

Construct ==
  /\ phase = "start"
  /\ \E spaces \in {Table([s \in DOMAIN program |-> Spaces(s)])} :
       /\ sp' = Flatten(spaces)
       /\ remap' = Flatten([s \in DOMAIN program |-> [k \in DOMAIN spaces[s] |-> s]])
  /\ phase' = "constructed"
  /\ UNCHANGED <<program, known, effort, tree, text>>

\* A pass that throws leaves no code.
Becomes(tree0, next) ==
  /\ \E new \in {tree0} :
       /\ tree' = new
       /\ phase' = IF new = Null THEN "empty" ELSE IF Fails(new) THEN "failed" ELSE next
  /\ UNCHANGED <<program, known, sp, remap, text>>

BuildTree ==
  /\ phase = "constructed"
  /\ UNCHANGED effort
  /\ Becomes(Build(sp, 1, DOMAIN sp, TRUE, Whole), "built")

RecomputeTree ==
  /\ phase = "built"
  /\ UNCHANGED effort
  /\ Becomes(Recompute(sp, tree, DOMAIN sp, ZoneOf(known), ZoneOf(known)), "recomputed")

Lift ==
  /\ phase = "recomputed"
  /\ \E e \in Efforts, t \in {PopulateDepth(tree)} :
       /\ effort' = e
       /\ Becomes(LiftOverhead(sp, t, Least(e, DepthOf(t)), FALSE)[1], "lifted")

Hoist ==
  /\ phase = "lifted"
  /\ UNCHANGED effort
  /\ Becomes(HoistGuard(tree)[1], "hoisted")

PrintText ==
  /\ phase = "hoisted"
  /\ text' = PrintRepr(tree)
  /\ phase' = "printed"
  /\ UNCHANGED <<program, known, effort, sp, remap, tree>>

Next == Construct \/ BuildTree \/ RecomputeTree \/ Lift \/ Hoist \/ PrintText

Spec == Init /\ [][Next]_vars
-----------------------------------------------------------------------------
Code == IF phase = "printed" THEN text ELSE Plain(tree)

HasCode == phase \in {"recomputed", "lifted", "hoisted", "printed"}

At0(n) == [d \in Dims |-> IF d = 1 THEN n ELSE 0]
Runs == {n \in Parameters : Holds(known, At0(n))}

\* The point of the original iteration space with these loop values
Env(n, p) == [d \in Dims |-> IF d = 0 THEN 0 ELSE IF d = 1 THEN n ELSE p[d - 1]]

Instances(n) ==
  {<<p, s>> \in [1 .. Levels -> Values] \X DOMAIN program :
     \E k \in DOMAIN program[s] : Holds(program[s][k], Env(n, p))}

LexLeq(p, q) == p = q \/ \E l \in 1 .. Levels : p[l] < q[l] /\ \A m \in 1 .. l-1 : p[m] = q[m]

\* Whatever the parameter, the code runs every instance of every statement, no
\* other and none twice, in the order of the loop values: after every pass, and
\* when it is printed.  An instance in two conjuncts of an iteration space is
\* still one instance.
ScansEveryInstanceOnce ==
  HasCode =>
    \A n \in Runs : \A ran \in {Trace(Code, At0(n))}, instances \in {Instances(n)} :
      /\ {<<ran[k][1], remap[ran[k][2]]>> : k \in DOMAIN ran} = instances
      /\ Cardinality(instances) = Len(ran)
      /\ \A k \in 1 .. Len(ran) - 1 : LexLeq(ran[k][1], ran[k+1][1])

RECURSIVE KnownAt(_, _)
KnownAt(t, v) ==
  CASE t.kind = "split" -> \A k \in DOMAIN t.clauses : KnownAt(t.clauses[k], v)
    [] t.kind = "leaf"  -> Holds(Constraints(t.known), v)
    [] t.kind = "loop"  ->
         LET d    == DimOf(t.level)
             low  == LowerValue(t.bounds, d, v)
             high == IF t.needLoop THEN UpperValue(t.bounds, d, v) ELSE low
         IN  /\ Holds(Constraints(t.known), v)
             /\ Holds(t.guard, v) =>
                  \A i \in low .. high : \A w \in {[v EXCEPT ![d] = i]} : KnownAt(t.body, w)

\* What a node takes for known, and leaves untested, does hold whenever the node
\* is reached.
KnownHolds == HasCode => \A n \in Runs : \A v \in {Table(At0(n))} : KnownAt(tree, v)

RECURSIVE Tests(_)
Tests(t) ==
  CASE t.kind = "split" -> UNION {Tests(t.clauses[k]) : k \in DOMAIN t.clauses}
    [] t.kind = "leaf"  -> UNION {t.guards[s] : s \in DOMAIN t.guards}
    [] t.kind = "loop"  -> t.guard \cup Tests(t.body)

RECURSIVE Nests(_)
Nests(t) ==
  CASE t.kind = "split" -> UNION {Nests(t.clauses[k]) : k \in DOMAIN t.clauses}
    [] t.kind = "leaf"  -> {}
    [] t.kind = "loop"  -> {t} \cup Nests(t.body)

\* No test is left inside a nest of at most effort loops.
OverheadLifted ==
  phase = "lifted" =>
    \A t \in Nests(tree) : t.needLoop /\ t.depth <= effort => Tests(t.body) = {}

\* A bound is found for every loop: the generator refuses no program.
NeverFails == phase # "failed"
=============================================================================

------------------------------ MODULE CodeText ------------------------------
(***************************************************************************)
(* What printRepr makes of the tree: nested loops, assignments and tests,  *)
(* with neighbouring loops (statements) that share a test put under one if *)
(* and complementary ones into its two branches; and what such a text does *)
(* when it runs.  A text is a sequence of items.                           *)
(***************************************************************************)
EXTENDS CodeTree

If(test, yes, no)         == [op |-> "if", test |-> test, yes |-> yes, no |-> no]
For(level, bounds, body)  == [op |-> "for", level |-> level, bounds |-> bounds, body |-> body]
Let(level, bounds, body)  == [op |-> "let", level |-> level, bounds |-> bounds, body |-> body]
Run(stmt)                 == [op |-> "run", stmt |-> stmt]

\* A test around a text; no test at all is {}
Guarded(test, text) == IF test = {} THEN text ELSE <<If(test, text, <<>>)>>

\* The number of leading elements of zs inside z
Leading(zs, z) == Smallest({Len(zs)} \cup {k - 1 : k \in {i \in DOMAIN zs : ~Subset(zs[i], z)}})
From(s, k) == SubSeq(s, k, Len(s))

\* The guards a condition decides: those it holds under, those its complement does
LoopCost(con, guards) ==
  With(Leading(guards, ZoneOf({con})), LAMBDA first :
    <<first, Leading(From(guards, first + 1), ZoneOf({Complement(con)}))>>)
LeafCost(con, guards) ==
  LET yes == {k \in DOMAIN guards : Subset(guards[k], ZoneOf({con}))}
      no  == {k \in DOMAIN guards : Subset(guards[k], ZoneOf({Complement(con)}))}
  IN  <<Cardinality(yes), Cardinality(no \ yes)>>

\* find_best_guard: of the conditions of r, picked one by one, the first of
\* those that decide most
RECURSIVE FindBestGuard(_, _, _, _, _)
FindBestGuard(r, guards, ofLoops, best, bestCost) ==
  LET better(cost) == cost[1] > bestCost[1] \/ (cost[1] = bestCost[1] /\ cost[2] > bestCost[2])
      next(cond, cost) ==
        With(Gist(ZoneOf(r), ZoneOf(cond)), LAMBDA rest :
          FindBestGuard(rest, guards, ofLoops, IF better(cost) THEN cond ELSE best,
                        IF better(cost) THEN cost ELSE bestCost))
  IN  IF r = {} THEN best
      ELSE With(CHOOSE c \in PickOneGuard(r) : TRUE, LAMBDA con :
             With(IF ofLoops THEN LoopCost(con, guards) ELSE LeafCost(con, guards), LAMBDA cost :
               next({con}, cost)))

RECURSIVE FindNextLevel(_)
FindNextLevel(t) ==
  Flatten([k \in DOMAIN t.clauses |-> IF t.clauses[k].kind = "split"
                                      THEN FindNextLevel(t.clauses[k]) ELSE <<t.clauses[k]>>])

\* leaf_print_repr: test is the condition read so far and not printed yet
RECURSIVE LeafPrint(_, _, _, _)

LeafPart(S, guards, con, test, known) ==
  With(Table([s \in S |-> Gist(ZoneOf(guards[s]), ZoneOf({con}))]), LAMBDA g :
    LeafPrint(S, Table([s \in {a \in S : g[a] # {}} |-> g[s]]), test, And(known, {con})))

LeafTest(active, guards, test, known, con) ==
  LET other    == Complement(con)
      under(S, c) == {s \in S : Subset(ZoneOf(guards[s]), ZoneOf({c}))}
      indep(yes, no) == active \ (yes \cup no)
      rest(yes, no)  == LeafPrint(indep(yes, no), guards, {}, known)
      branches(yes, no) == If({con}, LeafPart(yes, guards, con, {}, known), LeafPart(no, guards, other, {}, known))
      print(yes, no) ==
        CASE no = {} /\ indep(yes, no) = {} -> LeafPart(yes, guards, con, test \cup {con}, known)
          [] no = {} /\ indep(yes, no) # {} ->
               Guarded(test, LeafPart(yes, guards, con, {con}, known) \o rest(yes, no))
          [] no # {} -> Guarded(test, <<branches(yes, no)>> \o rest(yes, no))
  IN  With(under(active, con), LAMBDA yes :
        With(under(active \ yes, other), LAMBDA no : print(yes, no)))

LeafPrint(active, guards0, test, known0) ==
  With(<<guards0, known0, Ascending(active)>>, LAMBDA a :
    LET guards == a[1]
        known  == a[2]
        order  == a[3]
        free   == {s \in active : s \in DOMAIN guards => ImpliesAll(known, guards[s])}
        run(S) == With(Ascending(S), LAMBDA o :
                    Guarded(test, [k \in DOMAIN o |-> Run(o[k])] \o LeafPrint(active \ S, guards, {}, known)))
        best   == FindBestGuard(guards[order[1]], Table([k \in DOMAIN order |-> ZoneOf(guards[order[k]])]),
                                FALSE, {}, <<0, 0>>)
    IN  IF active = {} THEN <<>>
        ELSE IF free # {} THEN run(free)
        ELSE With(CHOOSE c \in best : TRUE, LAMBDA con : LeafTest(active, guards, test, known, con)))

\* loop_print_repr, for the loops of one level that follow each other, and
\* printRepr of the nodes; Body is CG_loop::printRepr without its guard
RECURSIVE LoopPrint(_, _, _), PrintRepr(_)
Body(t) == <<IF t.needLoop THEN For(t.level, t.bounds, PrintRepr(t.body))
                           ELSE Let(t.level, t.bounds, PrintRepr(t.body))>>

\* The first loops, up to i, run under con, those behind them, up to j, under
\* its complement.
LoopTest(loops, guard, test, con, i, j) ==
  LET other == Complement(con)
      yes(t) == LoopPrint(SubSeq(loops, 1, i), And(guard, {con}), t)
      no     == LoopPrint(SubSeq(loops, i + 1, j), And(guard, {other}), {})
      rest   == LoopPrint(From(loops, j + 1), guard, {})
  IN  CASE j = Len(loops) /\ i = j -> yes(test \cup {con})
        [] j < Len(loops) /\ i = j -> Guarded(test, yes({con}) \o rest)
        [] i < j -> Guarded(test, <<If({con}, yes({}), no)>> \o rest)

LoopPrint(loops, guard0, test) ==
  LET gist(k, guard) == Gist(ZoneOf(loops[k].guard), guard)
      free(guard) == Smallest({Len(loops)} \cup {k - 1 : k \in {i \in 2 .. Len(loops) : gist(i, guard) # {}}})
      under(guards, con, guard) ==
        With(Leading(guards, ZoneOf({con})), LAMBDA i :
          With(i + Leading(From(guards, i + 1), ZoneOf({Complement(con)})), LAMBDA j :
            LoopTest(loops, guard, test, con, i, j)))
      bodies(n, guard) ==
        Guarded(test, Flatten([k \in 1 .. n |-> Body(loops[k])]) \o LoopPrint(From(loops, n + 1), guard, {}))
      choose(R, guards, guard) ==
        With(CHOOSE c \in FindBestGuard(R, guards, TRUE, {}, <<0, 0>>) : TRUE, LAMBDA con :
          under(guards, con, guard))
  IN  IF loops = <<>> THEN <<>>
      ELSE With(guard0, LAMBDA guard : With(gist(1, guard), LAMBDA R :
             IF ImpliesAll(Intersection(loops[1].known, guard), R)
             THEN With(free(guard), LAMBDA n : bodies(n, guard))
             ELSE With(Table([k \in DOMAIN loops |-> ZoneOf(loops[k].guard)]), LAMBDA guards :
                    choose(R, guards, guard))))

PrintRepr(t) ==
  CASE t.kind = "leaf"  -> LeafPrint(t.active, t.guards, {}, t.known)
    [] t.kind = "split" -> LoopPrint(FindNextLevel(t), Whole, {})
    [] t.kind = "loop"  -> Guarded(t.guard, Body(t))
-----------------------------------------------------------------------------
(***************************************************************************)
(* The meaning of a tree, before and after it is printed                   *)
(***************************************************************************)

\* The text a tree stands for, every test where its node is
RECURSIVE Plain(_)
Plain(t) ==
  CASE t.kind = "leaf"  ->
         With(Ascending(t.active), LAMBDA order :
           Flatten([k \in DOMAIN order |->
             Guarded(IF order[k] \in DOMAIN t.guards THEN t.guards[order[k]] ELSE {}, <<Run(order[k])>>)]))
    [] t.kind = "split" -> Flatten([k \in DOMAIN t.clauses |-> Plain(t.clauses[k])])
    [] t.kind = "loop"  ->
         Guarded(t.guard, <<IF t.needLoop THEN For(t.level, t.bounds, Plain(t.body))
                                          ELSE Let(t.level, t.bounds, Plain(t.body))>>)

Holds(cons, v) == \A c \in cons : v[c[1]] - v[c[2]] <= c[3]

LowerValue(bounds, d, v) == Greatest({v[c[1]] - c[3] : c \in Lowers(bounds, d)})
UpperValue(bounds, d, v) == Smallest({v[c[2]] + c[3] : c \in Uppers(bounds, d)})

\* The statement instances a text runs, in order, as <<values, statement>>
RECURSIVE Trace(_, _)

TraceItem(x, v) ==
  LET d == DimOf(x.level)
      at(i) == With([v EXCEPT ![d] = i], LAMBDA w : Trace(x.body, w))
      range(low, high) == Flatten([i \in 1 .. (high - low + 1) |-> at(low + i - 1)])
  IN  CASE x.op = "run" -> <<<<[l \in 1 .. Levels |-> v[DimOf(l)]], x.stmt>>>>
        [] x.op = "if"  -> IF Holds(x.test, v) THEN Trace(x.yes, v) ELSE Trace(x.no, v)
        [] x.op = "for" -> With(<<LowerValue(x.bounds, d, v), UpperValue(x.bounds, d, v)>>, LAMBDA b :
                             range(b[1], b[2]))
        [] x.op = "let" -> at(LowerValue(x.bounds, d, v))

Trace(text, v) == Flatten([k \in DOMAIN text |-> TraceItem(text[k], v)])
=============================================================================

---------------------------- MODULE LexicalOrder ----------------------------
(***************************************************************************)
(* Loop::original and setLexicalOrder: the text order of the statements is *)
(* rebuilt from the dependences alone.  Level by level, the statements in  *)
(* one loop so far are sorted by the loops of the source program they      *)
(* stand in, those loops are fused where no dependence forbids it          *)
(* (typed_fusion, of which what FusionPlan promises is used), and the      *)
(* order is set within each of the new loops.                              *)
(*                                                                         *)
(* The program is as the constructor leaves it: every statement has one    *)
(* original loop for each level, where a statement of a shallower nest has *)
(* loops of its own, and its source node.  A call is one of                *)
(* setLexicalOrder(2 * level - 2, active, order).                          *)
(***************************************************************************)
EXTENDS DepVector, Sequences, SequencesExt, FiniteSetsExt, Reachability

CONSTANTS N,            \* stmt.size(); the numbers follow the text
          Depth,        \* num_dep_dim
          Nests,        \* the loops of the programs considered
          Dependences   \* the sets of edges considered

Stmts  == 0 .. N-1
Levels == 1 .. Depth

ASSUME ShapeAssumption == N \in Nat \ {0} /\ Depth \in Nat

\* nest[a][l] is the loop of level l around a: two statements share one only
\* within one loop of every level outside, and with the statements between.
ASSUME NestsAssumption ==
  \A nest \in Nests :
    /\ nest \in [Stmts -> [Levels -> Nat]]
    /\ \A a, b \in Stmts, l \in Levels : a < b /\ nest[a][l] = nest[b][l] =>
          /\ \A k \in 1 .. l : nest[a][k] = nest[b][k]
          /\ \A m \in a .. b : nest[m][l] = nest[a][l]
ASSUME DependencesAssumption ==
  \A D \in Dependences : \A e \in D :
    /\ e.from \in Stmts /\ e.to \in Stmts
    /\ e.dv.lb \in [0 .. Depth-1 -> Int] /\ e.dv.ub \in [0 .. Depth-1 -> Int]
    /\ \A k \in 0 .. Depth-1 : e.dv.lb[k] <= e.dv.ub[k]

VARIABLES loop, dep,    \* the program
          lex,          \* lex[a][l]: component 2 * l - 1 of getLexicalOrder(a)
          calls,        \* the calls of setLexicalOrder still to be made
          pc            \* "order" or "refused"

vars == <<loop, dep, lex, calls, pc>>

Call(level, active, order) == [level |-> level, active |-> active, order |-> order]

\* What DepBuild guarantees of an edge: a loop around both statements runs the
\* source first, or the text does.
Forward(e) ==
  LET common == {k \in 0 .. Depth-1 : loop[e.from][k+1] = loop[e.to][k+1]}
      zero(k) == e.dv.lb[k] = 0 /\ e.dv.ub[k] = 0
  IN  \/ \E k \in common : e.dv.lb[k] > 0 /\ \A h \in Before(k) : zero(h)
      \/ (\A k \in common : zero(k)) /\ e.from < e.to

Init == /\ loop \in Nests
        /\ dep \in Dependences /\ \A e \in dep : Forward(e)
        /\ lex = [a \in Stmts |-> [l \in 1 .. Depth+1 |-> 0]]
        /\ calls = <<Call(1, Stmts, 0)>>
        /\ pc = "order"

\* The call made next.
Calls(c) == pc = "order" /\ c = Head(calls)

-----------------------------------------------------------------------------
(* One call for a level with loops.                                        *)

\* sort_by_same_loops.
SameLoops(c) ==
  {{b \in c.active : loop[b][c.level] = loop[a][c.level]} : a \in c.active}

\* construct_induced_graph_at_level, with get_dep_dim_of(ref_stmt_num, level).
DepDim(c) == c.level - 1
Vectors(S, T) == {e.dv : e \in {d \in dep : d.from \in S /\ d.to \in T}}
CarriedAgain(c, S, T) == \E dv \in Vectors(S, T) : dv.lb[DepDim(c)] # 0 \/ dv.ub[DepDim(c)] # 0
Carried(c, S, T) == \E dv \in Vectors(S, T) : HasBeenCarriedAt(dv, DepDim(c))
NegativeDefinite(c, S, T) ==
  \E dv \in Vectors(S, T) : HasBeenCarriedAt(dv, DepDim(c)) /\ HasNegative(dv, DepDim(c))
Negative(c, S, T) == \E dv \in Vectors(S, T) : HasNegativeBeenCarriedAt(dv, DepDim(c))

\* typed_fusion with every type true puts each loop into the first group its
\* dependences allow (FusionPlan's AfterBad, AfterGood and Earliest), unless
\* there is a cycle.
IsPlan(num, edges, bad) ==
  \A m \in DOMAIN num :
    num[m] = Max({1} \union {num[p[1]] : p \in {e \in edges : e[2] = m}}
                     \union {num[p[1]]+1 : p \in {e \in bad : e[2] = m}})

\* The numbers of the loops of the source program in a call, the edges between
\* them and the groups they are fused into.
Nodes(c) == 0 .. Cardinality(SameLoops(c))-1
Source(c, m) == SetToSeq(SameLoops(c))[m+1]
Edges(c) == {p \in Nodes(c) \X Nodes(c) : p[1] # p[2] /\ Carried(c, Source(c, p[1]), Source(c, p[2]))}
Bad(c) == {p \in Edges(c) : Negative(c, Source(c, p[1]), Source(c, p[2]))}
Dag(c) == Acyclic(Cardinality(SameLoops(c)), Edges(c))
Groups(c) ==
  LET num == CHOOSE f \in [Nodes(c) -> 1 .. N] : IsPlan(f, Edges(c), Bad(c))
  IN  [k \in 1 .. Max(Range(num)) |-> UNION {Source(c, m) : m \in {n \in Nodes(c) : num[n] = k}}]

\* The value of "order" for group k of a call, incremented after each group.
StartingOrderSame(c, k) == c.order
StartingOrder(c, k) == c.order + k-1

\* assign_const for every group, and a call for the level below it; with a
\* cycle, "Graph input for fusion has cycles", an exception that leaves all calls.
Refuse == pc' = "refused" /\ UNCHANGED <<lex, calls>>
SetOrder(c, group) ==
  /\ lex' = [a \in Stmts |->
               IF a \in c.active
               THEN [lex[a] EXCEPT ![c.level] = StartingOrder(c, CHOOSE k \in DOMAIN group : a \in group[k])]
               ELSE lex[a]]
  /\ calls' = [k \in DOMAIN group |-> Call(c.level+1, group[k], c.order + k-1)] \o Tail(calls)
  /\ UNCHANGED pc

OrderLevel(c) ==
  /\ Calls(c) /\ c.level <= Depth
  /\ IF Dag(c) THEN SetOrder(c, Groups(c)) ELSE Refuse
  /\ UNCHANGED <<loop, dep>>

-----------------------------------------------------------------------------
(* The call below the innermost loop.                                      *)

\* topoSort may return any of these orders.
Uncarried(a, b) == \E dv \in Vectors({a}, {b}) : ~HasBeenCarriedBefore(dv, Depth)
TextOrders(active) ==
  {q \in SetToSeqs(active) : \A m, n \in DOMAIN q : m # n /\ Uncarried(q[m], q[n]) => m < n}

OrderStatementsSame(c) ==
  /\ Calls(c) /\ c.level = Depth+1 /\ Cardinality(c.active) > 1
  /\ lex' = [a \in Stmts |-> IF a \in c.active THEN [lex[a] EXCEPT ![c.level] = c.order] ELSE lex[a]]
  /\ calls' = Tail(calls)
  /\ UNCHANGED <<loop, dep, pc>>
OrderStatements(c) ==
  /\ Calls(c) /\ c.level = Depth+1 /\ Cardinality(c.active) > 1
  /\ IF TextOrders(c.active) = {} THEN Refuse
     ELSE \E q \in TextOrders(c.active) :
            LET order(a) == c.order - 1 + CHOOSE k \in DOMAIN q : q[k] = a
            IN  /\ lex' = [a \in Stmts |-> IF a \in c.active THEN [lex[a] EXCEPT ![c.level] = order(a)]
                                                              ELSE lex[a]]
                /\ calls' = Tail(calls)
                /\ UNCHANGED pc
  /\ UNCHANGED <<loop, dep>>

OrderAlone(c) ==
  /\ Calls(c) /\ c.level = Depth+1 /\ Cardinality(c.active) = 1
  /\ lex' = [a \in Stmts |-> IF a \in c.active THEN [lex[a] EXCEPT ![c.level] = 0] ELSE lex[a]]
  /\ calls' = Tail(calls)
  /\ UNCHANGED <<loop, dep, pc>>

Ended == (calls = <<>> \/ pc = "refused") /\ UNCHANGED vars

Step == \E k \in DOMAIN calls : \/ OrderLevel(calls[k])
                               \/ OrderStatements(calls[k]) \/ OrderAlone(calls[k])

Next == Step \/ Ended

Spec == Init /\ [][Next]_vars
-----------------------------------------------------------------------------
(* Correctness.                                                            *)

\* The statements of a call are those that share the loops outside, and no
\* others: the check "statements are not in the same sub loop nest" never
\* fires, and no two calls number statements of the same loop.
CallsOwnTheirLoop ==
  \A k \in DOMAIN calls : \A a \in calls[k].active, b \in Stmts :
     b \in calls[k].active <=> \A l \in 1 .. calls[k].level-1 : lex[a][l] = lex[b][l]

\* The first component in which the order of two statements differs.
Parts(a, b) == CHOOSE l \in 1 .. Depth+1 : /\ lex[a][l] # lex[b][l]
                                           /\ \A k \in 1 .. l-1 : lex[a][k] = lex[b][k]

\* The loops that a and b share now run the source first, or the order does.
RunsBefore(a, b, d) ==
  \/ LexSign(d, Parts(a, b) - 1) = 1
  \/ LexSign(d, Parts(a, b) - 1) = 0 /\ lex[a][Parts(a, b)] < lex[b][Parts(a, b)]

\* The loops that part the statements are two loops of the source program and
\* all the distances of the vector are zero there, so that it made no edge.
Unprotected(e) ==
  LET l == Parts(e.from, e.to)
  IN  l <= Depth /\ e.dv.lb[l-1] = 0 /\ e.dv.ub[l-1] = 0

\* The distances between the bounds of a vector.
Distances(dv) == {d \in [0 .. Depth-1 -> Min(Range(dv.lb)) .. Max(Range(dv.ub))] : HasDistance(dv, d)}

\* Every instance of every dependence that the induced graphs protect runs in
\* its direction in the new order, through all the levels, whichever loops are
\* fused: CHiLL.texi:140.
DependencesPreserved ==
  calls = <<>> => \A e \in dep : e.from = e.to \/ Unprotected(e) \/
    \A d \in Distances(e.dv) : RunsBefore(e.from, e.to, d)

\* No two statements end at the same place of the text.
PlacesDistinct ==
  calls = <<>> => \A a, b \in Stmts : lex[a] = lex[b] => a = b

\* The order of the source program is one that the dependences allow: it is
\* never refused as a cycle.
NeverRefused == pc # "refused"
=============================================================================

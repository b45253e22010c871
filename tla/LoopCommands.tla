---------------------------- MODULE LoopCommands ----------------------------
(***************************************************************************)
(* Loop under the commands that move, cut and copy iterations: shift, skew *)
(* (scale and reverse are skews), nonsingular, split, peel and unroll, and *)
(* getCode with the result it keeps.  All loops are original ones with     *)
(* NDim levels, all vectors data dependences that are not quasi.           *)
(*                                                                         *)
(* A statement is its iteration space IS, a set of points; its code, the   *)
(* sequence of copies of original statements it runs, each with the        *)
(* original iteration it computes at a point; and xform, of which rows are *)
(* the affine functions that give the loop variables and lex the constants *)
(* before, between and behind them.                                        *)
(***************************************************************************)
EXTENDS AffineVector, SequencesExt, FiniteSetsExt

CONSTANTS NDim,         \* num_dep_dim
          Programs,     \* statements (IS, lex), vectors (from, to, dv) and the
                        \* bound on the commands tried on them
          SkewAmounts,  \* vectors of NDim amounts
          ShiftAmounts,
          Matrices,     \* of nonsingular: NDim rows, each with a constant
          Conditions,   \* of split: sequences of [coef, const], coef * point + const >= 0
          PeelAmounts, UnrollAmounts,
          Interactive,  \* the session goes on after an error
          LeftOut       \* names of the cases that are not tried

Loops == 1 .. NDim
DimOf(level) == level - 1    \* get_dep_dim_of

Points == [Loops -> Int]
Rows   == [coef : [Loops -> Int], const : Int]
Lexes  == [1 .. NDim+1 -> Int]
Vectors == [type : STRING, quasi : BOOLEAN, lb : [Before(NDim) -> Int], ub : [Before(NDim) -> Int]]

\* s and t are in the same loops down to level l.
Together(s, t, l) == \A k \in 1 .. l : s.lex[k] = t.lex[k]

\* What relation2dependences leaves of n loops: the distance is zero but for the
\* first loop in which it is positive and those inside.
CarriedForward(dv, n) ==
  \A i \in Before(n) : (\A k \in Before(i) : dv.lb[k] = 0 /\ dv.ub[k] = 0) =>
     dv.lb[i] > 0 \/ (dv.lb[i] = 0 /\ dv.ub[i] = 0)

ASSUME LoopsAssumption == NDim \in Nat \ {0}
ASSUME AmountsAssumption ==
  /\ SkewAmounts \subseteq [Loops -> Int] /\ ShiftAmounts \subseteq Int
  /\ Matrices \subseteq [Loops -> Rows] /\ Conditions \subseteq Seq(Rows)
  /\ PeelAmounts \subseteq Int \ {0} /\ UnrollAmounts \subseteq Nat     \* peel(s, level, 0) returns at once
ASSUME ProgramsAssumption ==
  \A k \in DOMAIN Programs :
    /\ Programs[k].stmts \in Seq([IS : SUBSET Points, lex : Lexes])
    /\ \A n \in DOMAIN Programs[k].stmts : IsFiniteSet(Programs[k].stmts[n].IS)
    /\ Programs[k].vectors \subseteq
         [from : DOMAIN Programs[k].stmts, to : DOMAIN Programs[k].stmts, dv : Vectors]

ASSUME VectorsAssumption ==
  \A k \in DOMAIN Programs : \A e \in Programs[k].vectors, l \in Loops :
    Together(Programs[k].stmts[e.from], Programs[k].stmts[e.to], l) => CarriedForward(e.dv, l)

VARIABLES stmt, dep,
          last_compute,    \* last_compute_cg_: what it was built from
          program,         \* number of the program
          unchecked,       \* a command has run that promises nothing about order
          alive, commands  \* the script goes on; the commands still tried

vars == <<stmt, dep, last_compute, program, unchecked, alive, commands>>

\* The elements of S in the order of before
Sorted(S, before(_,_)) ==
  [i \in 1 .. Cardinality(S) |-> CHOOSE x \in S : Cardinality({y \in S : before(y, x)}) = i-1]

\* The sum of f over the loops
Sum(f) == LET sum[n \in 0 .. NDim] == IF n = 0 THEN 0 ELSE sum[n-1] + f[n] IN sum[NDim]

Affine(row, p) == row.const + Sum([k \in Loops |-> row.coef[k] * p[k]])

UnitRow(l) == [coef |-> [k \in Loops |-> IF k = l THEN 1 ELSE 0], const |-> 0]
Identity == [l \in Loops |-> UnitRow(l)]

\* The loop variables of statement s at point p
Position(s, p) == [l \in Loops |-> Affine(s.rows[l], p)]
Positions(s) == {Position(s, p) : p \in s.IS}

\* A relation without the cached code; what the code generator is given
NoCode == <<>>
Given(ss) == [n \in DOMAIN ss |-> [IS |-> ss[n].IS, rows |-> ss[n].rows, lex |-> ss[n].lex]]

Init == \E k \in DOMAIN Programs :
          /\ program = k
          /\ stmt = [n \in DOMAIN Programs[k].stmts |->
                       [IS   |-> Programs[k].stmts[n].IS,
                        code |-> <<[of |-> n, at |-> [p \in Programs[k].stmts[n].IS |-> p]]>>,
                        rows |-> Identity,
                        lex  |-> Programs[k].stmts[n].lex]]
          /\ dep = Programs[k].vectors
          /\ last_compute = Given(stmt)      \* the constructor prints the code
          /\ unchecked = FALSE /\ alive = TRUE /\ commands = Programs[k].commands
-----------------------------------------------------------------------------
(* The lexical order and the iteration spaces                              *)

\* getStatements: those that share the loops up to level with statement s
SameLoop(ss, s, level) == {t \in DOMAIN ss : \A k \in 1 .. level : ss[t].lex[k] = ss[s].lex[k]}

\* shiftLexicalOrder(lex, 2 * level - 2, amount)
ShiftLexicalOrder(statements, lex, level, amount) ==
  LET behind(s) == /\ \A k \in 1 .. level-1 : s.lex[k] = lex[k]
                   /\ IF amount > 0 THEN s.lex[level] >= lex[level] ELSE s.lex[level] <= lex[level]
  IN  [t \in DOMAIN statements |->
         IF behind(statements[t]) THEN [statements[t] EXCEPT !.lex[level] = @ + amount] ELSE statements[t]]

\* A copy, and a statement, on other points: q stands for back[q].
CopyOn(copy, back) == [of |-> copy.of, at |-> [q \in DOMAIN back |-> copy.at[back[q]]]]
On(s, back) == [s EXCEPT !.IS = DOMAIN back, !.code = [c \in DOMAIN @ |-> CopyOn(@[c], back)]]

\* apply_xform: the loop variables become the points of the iteration space.
Applied(s) ==
  IF s.rows = Identity THEN s
  ELSE [On(s, [q \in Positions(s) |-> CHOOSE p \in s.IS : Position(s, p) = q]) EXCEPT !.rows = Identity]

ApplyXform(ss, active) == [t \in DOMAIN ss |-> IF t \in active THEN Applied(ss[t]) ELSE ss[t]]

WithinAll(s, some) == s
\* The same statement on some of its points
Within(s, some) == On(s, [p \in some |-> p])

-----------------------------------------------------------------------------
(* shift, skew and nonsingular.  P is a pair of statements and vectors.    *)

\* An affine function of the loop variables as one of the points
Composed(rows, row) ==
  [coef  |-> [k \in Loops |-> Sum([l \in Loops |-> row.coef[l] * rows[l].coef[k]])],
   const |-> row.const + Sum([l \in Loops |-> row.coef[l] * rows[l].const])]

ComposedAt(s, level, row) == [s EXCEPT !.rows[level] = Composed(s.rows, row)]

\* The bounds of the new dimension, which need not be ordered
Skewed(dv, level, amounts) ==
  LET turn[l \in 0 .. NDim] == IF l = 0 THEN [lb |-> 0, ub |-> 0]
                               ELSE SkewTurn(turn[l-1], dv, DimOf(l), amounts[l])
  IN  [dv EXCEPT !.lb[DimOf(level)] = turn[NDim].lb, !.ub[DimOf(level)] = turn[NDim].ub]

SkewIllegal(new, level) == IsCarried(new, DimOf(level)) /\ HasNegative(new, DimOf(level))

SkewStatements(ss, S, level, amounts) ==
  [t \in DOMAIN ss |-> IF t \in S THEN ComposedAt(ss[t], level, [coef |-> amounts, const |-> 0]) ELSE ss[t]]

\* The edges are updated in order until one is illegal; those from statements
\* that are not skewed come last.
SkewDeps(D, S, level, amounts) ==
  LET inside(e)  == e.from \in S /\ e.to \in S
      new(e)     == Skewed(e.dv, level, amounts)
      updated(e) == CASE inside(e) -> [e EXCEPT !.dv = new(e)]
                      [] (e.from \in S) # (e.to \in S) -> [e EXCEPT !.dv = Jumbled(@, DimOf(level))]
                      [] OTHER -> e
      illegal == {e \in D : inside(e) /\ SkewIllegal(new(e), level)}
      reached(e) == \A i \in illegal : e.from < i.from \/ (e.from = i.from /\ e.to < i.to)
      done(e) == IF e.from \in S THEN reached(e) ELSE illegal = {}
  IN  [refused |-> illegal # {}, dep |-> {IF done(e) THEN updated(e) ELSE e : e \in D}]

ShiftStatements(ss, S, level, amount) ==
  [t \in DOMAIN ss |->
     IF t \in S THEN ComposedAt(ss[t], level, [UnitRow(level) EXCEPT !.const = amount]) ELSE ss[t]]

ShiftDeps(D, S, level, amount) ==
  {[e EXCEPT !.dv = IF e.from \in S /\ e.to \notin S THEN MovedBy(@, DimOf(level), -amount)
                    ELSE IF e.from \notin S /\ e.to \in S THEN MovedBy(@, DimOf(level), amount)
                    ELSE @] : e \in D}

MultiplyStatement(s, T) ==
  [s EXCEPT !.rows = [l \in Loops |-> Composed(s.rows, T[l])]]

Multiplied(dv, T) ==
  LET bounds(p) == LET turn[q \in 0 .. NDim] ==
                         IF q = 0 THEN [lb |-> 0, ub |-> 0]
                         ELSE MultiplyTurn(turn[q-1], dv, DimOf(q), T[p].coef[q])
                   IN  PlusConstant(turn[NDim], T[p].const)
  IN  [dv EXCEPT !.lb = [i \in DOMAIN @ |-> bounds(i+1).lb], !.ub = [i \in DOMAIN @ |-> bounds(i+1).ub]]
-----------------------------------------------------------------------------
(* split                                                                   *)

Holds(con, p) == Affine(con, p) >= 0
MaxLevel(con) == Max({0} \union {l \in Loops : con.coef[l] # 0})
PlaceAfter(con) == MaxLevel(con) = 0 \/ con.coef[MaxLevel(con)] < 0

\* What split looks up before the first condition
LoopOf(ss, s, level) == [of |-> s, same |-> SameLoop(ss, s, level), lex |-> ss[s].lex, level |-> level]

\* The points of a statement that go to the new half, the statements that get
\* one, in order, and the number of the new half of one of them (what_stmt_num)
Part2(s, con) == {p \in s.IS : ~Holds(con, p)}
Cut(ss, same, con) == Sorted({t \in same : Part2(ss[t], con) # {}}, <)
Half(ss, cut, t) == Len(ss) + CHOOSE n \in DOMAIN cut : cut[n] = t

Step(con) == IF PlaceAfter(con) THEN 1 ELSE -1
Place(loop, con) == [loop.lex EXCEPT ![loop.level] = @ + Step(con)]

SplitStatements(ss, loop, con) ==
  LET cut  == Cut(ss, loop.same, con)
      rest == [t \in DOMAIN ss |-> IF t \in loop.same THEN Within(ss[t], ss[t].IS \ Part2(ss[t], con)) ELSE ss[t]]
      new  == [n \in DOMAIN cut |-> [Within(ss[cut[n]], Part2(ss[cut[n]], con))
                                       EXCEPT !.lex[loop.level] = Place(loop, con)[loop.level]]]
  IN  ShiftLexicalOrder(rest \o new, Place(loop, con), loop.level, Step(con))

SplitDeps(D, ss, loop, con) ==
  LET cut        == Cut(ss, loop.same, con)
      halves(t)  == IF t \in Range(cut) THEN {Half(ss, cut, t)} ELSE {}
      edge(f, t, dv) == [from |-> f, to |-> t, dv |-> dv]
      jumbled(e) == Jumbled(e.dv, DimOf(loop.level))
      between(e) ==
        {edge(f, t, e.dv) : f \in halves(e.from), t \in halves(e.to)}
        \union IF PlaceAfter(con) THEN {edge(e.from, t, jumbled(e)) : t \in halves(e.to)}
                                  ELSE {edge(f, e.to, jumbled(e)) : f \in halves(e.from)}
      across(e) == {edge(f, e.to, e.dv) : f \in halves(e.from)} \union {edge(e.from, t, e.dv) : t \in halves(e.to)}
  IN  D \union UNION {IF {e.from, e.to} \subseteq loop.same THEN between(e) ELSE across(e) : e \in D}

\* One constraint; made are the new halves of the statement that was named.
SplitBy(P, loop, con) ==
  LET ss  == ApplyXform(P.stmt, loop.same)
      cut == Cut(ss, loop.same, con)
  IN  [stmt |-> SplitStatements(ss, loop, con),
       dep  |-> SplitDeps(P.dep, ss, loop, con),
       made |-> P.made \union IF loop.of \in Range(cut) THEN {Half(ss, cut, loop.of)} ELSE {}]

SplitAll(P, s, level, cons) ==
  LET loop == LoopOf(P.stmt, s, level)
      after[n \in 0 .. Len(cons)] == IF n = 0 THEN P ELSE SplitBy(after[n-1], loop, cons[n])
  IN  after[Len(cons)]
-----------------------------------------------------------------------------
(* peel                                                                    *)

\* getSubLoopNest: without the statements that never run
SubLoopNest(ss, s, level) == {t \in SameLoop(ss, s, level) : ss[t].IS # {}}

\* At least bound, where coef is 1; at most bound, where it is -1
Bound(level, coef, bound) ==
  [coef |-> [k \in Loops |-> IF k = level THEN coef ELSE 0], const |-> -coef * bound]

PeelValues(ss, s, level) == {q[level] : q \in UNION {Positions(ss[t]) : t \in SubLoopNest(ss, s, level)}}

Peeled(P, s, level, amount) ==
  LET v      == PeelValues(P.stmt, s, level)
      con(i) == IF amount > 0 THEN Bound(level, 1, Min(v) + i) ELSE Bound(level, -1, Max(v) - i)
      after[i \in 0 .. Max({amount, -amount})] ==
        IF i = 0 THEN P ELSE SplitAll(after[i-1], s, level, <<con(i)>>)
  IN  after[Max({amount, -amount})]
-----------------------------------------------------------------------------
(* unroll of a loop whose copies are lumped together as one statement      *)

UnrollIllegalSign(dv, level, amount) ==
  /\ IsCarried(dv, DimOf(level)) /\ HasPositive(dv, DimOf(level))
  /\ dv.lb[DimOf(level)] <= amount /\ dv.lb[DimOf(level)] # Infinity
  /\ \E l \in level+1 .. NDim : /\ HasPositive(dv, DimOf(l))
                                /\ \A k \in level+1 .. l-1 : ~HasPositive(dv, DimOf(k))
\* A dependence the loop carries keeps its copies in order unless a loop
\* inside runs against it.  More than amount iterations apart do not meet.
UnrollIllegal(dv, level, amount) ==
  /\ IsCarried(dv, DimOf(level)) /\ HasPositive(dv, DimOf(level))
  /\ dv.lb[DimOf(level)] <= amount /\ dv.lb[DimOf(level)] # Infinity
  /\ \E l \in level+1 .. NDim : /\ HasNegative(dv, DimOf(l))
                                /\ \A k \in level+1 .. l-1 : ~HasPositive(dv, DimOf(k))

\* Those of a set of statements in the order in which they follow each other in
\* the innermost loop
InLexicalOrder(ss, same) ==
  Sorted(same, LAMBDA t, u : \/ ss[t].lex[NDim+1] < ss[u].lex[NDim+1]
                             \/ ss[t].lex[NDim+1] = ss[u].lex[NDim+1] /\ t < u)

\* The vectors between the statements of the loop and the new one, copy.  dvs11
\* and dvs21 lead to the source of the vector, whatever its sink was.
LumpedEdges(e, same, copy, dim, step, stride) ==
  LET edges(f, t, dvs) == {[from |-> f, to |-> t, dv |-> dv] : dv \in dvs}
      among(dvs) == edges(e.from, e.from, dvs.dvs11) \union edges(e.from, copy, dvs.dvs12)
                    \union edges(copy, e.from, dvs.dvs21) \union edges(copy, copy, dvs.dvs22)
  IN  CASE {e.from, e.to} \subseteq same -> among(Lumped(e.dv, dim, step, stride))
        [] e.from \in same /\ e.to \notin same -> {e, [e EXCEPT !.from = copy]}
        [] e.from \notin same /\ e.to \in same -> {e, [e EXCEPT !.to = copy]}
        [] OTHER -> {e}

\* times iterations of the statements in same, of which s is one, become one
\* of each and one of a new statement with the copies.
LumpStatements(ss, same, s, level, times, stride) ==
  LET first == Min({p[level] : p \in ss[s].IS})
      kept  == {p \in ss[s].IS : (p[level] - first) % (times * stride) = 0}
      order == InLexicalOrder(ss, same)
      codes == FlattenSeq([n \in DOMAIN order |-> ss[order[n]].code])
      ahead(j) == [p \in kept |-> [p EXCEPT ![level] = @ + j * stride]]
      copies(j) == [c \in DOMAIN codes |-> CopyOn(codes[c], ahead(j))]
      copied == [Within(ss[s], kept) EXCEPT
                   !.code = FlattenSeq([j \in 1 .. times-1 |-> copies(j)]),
                   !.lex[NDim+1] = ss[order[Len(order)]].lex[NDim+1] + 1]
  IN  Append([t \in DOMAIN ss |-> IF t \in same THEN Within(ss[t], kept) ELSE ss[t]], copied)

LumpTogether(P, same, s, level, times, stride) ==
  [stmt |-> LumpStatements(P.stmt, same, s, level, times, stride),
   dep  |-> UNION {LumpedEdges(e, same, Len(P.stmt) + 1, DimOf(level), times * stride, stride) : e \in P.dep},
   made |-> P.made]

Unrolled(P, s, level, amount) ==
  LET same   == SameLoop(P.stmt, s, level)
      Q      == [P EXCEPT !.stmt = ApplyXform(@, same), !.made = {}]
      v      == {p[level] : p \in Q.stmt[s].IS}
      count  == Cardinality(v)
      stride == (Max(v) - Min(v)) \div (count - 1)
      times  == IF amount = 0 \/ count < amount THEN count ELSE amount
      upper  == Bound(level, -1, Max(v) - (count % times) * stride)
      lower  == Bound(level, 1, Min(v))
      cut    == SplitAll(SplitAll(Q, s, level, <<upper>>), s, level, <<lower>>)
  IN  IF count = 1 THEN Q ELSE LumpTogether(cut, same, s, level, times, stride)

\* unroll_extra: what is left over is unrolled to the end as well.
UnrolledExtra(P, s, level, amount) ==
  LET Q    == Unrolled(P, s, level, amount)
      rest == Sorted(Q.made, <)
      after[n \in 0 .. Len(rest)] == IF n = 0 THEN Q ELSE Unrolled(after[n-1], rest[n], level, 0)
  IN  after[Len(rest)]
-----------------------------------------------------------------------------
(* What is not tried                                                       *)

Tried(case) == case \notin LeftOut

\* Some, not all, of the statements of a loop are in S.
PartOfLoop(S, level) == \E t \in S : ~(SameLoop(stmt, t, level) \subseteq S)

Inside(S) == {e \in dep : {e.from, e.to} \subseteq S}

\* split makes no vector from the half that runs later to the one before it.
CarriedOutside(s, level) ==
  \E e \in Inside(SameLoop(stmt, s, level)), k \in Before(DimOf(level)) : e.dv.lb[k] # 0 \/ e.dv.ub[k] # 0

\* The new half gets the place of another loop.
PlaceTaken(s, level, step) ==
  \E t \in SameLoop(stmt, s, level-1) : stmt[t].lex[level] = stmt[s].lex[level] + step

MayCut(s, level, steps) ==
  /\ Tried("cut after a command without a check") \/ ~unchecked
  /\ Tried("cut inside the loop that carries") \/ ~CarriedOutside(s, level)
  /\ Tried("cut beside another loop") \/ \A step \in steps : ~PlaceTaken(s, level, step)

\* A loop over an arithmetic progression, and so all around and inside it
Simple(points) ==
  LET values(l)  == {p[l] : p \in points}
      step(v)    == (Max(v) - Min(v)) \div (Cardinality(v) - 1)
      regular(v) == Cardinality(v) # 1 => v = {Min(v) + i * step(v) : i \in 0 .. Cardinality(v) - 1}
  IN  /\ points = {p \in [Loops -> UNION {values(l) : l \in Loops}] : \A l \in Loops : p[l] \in values(l)}
      /\ \A l \in Loops : regular(values(l))

\* The copies can be lumped together: all statements of the loop have the same
\* iterations, in the same inner loops.
Lumps(s, level) ==
  LET points == Positions(stmt[s])
  IN  /\ points # {} /\ Simple(points)
      /\ \A t \in SameLoop(stmt, s, level) : t \in SameLoop(stmt, s, NDim) /\ Positions(stmt[t]) = points

MayUnroll(s, level, amount) ==
  LET same == SameLoop(stmt, s, level)
  IN  /\ Lumps(s, level)
      /\ \/ Tried("full unroll of an outer loop") \/ amount # 0
         \/ \A e \in Inside(same) : ~UnrollIllegal(e.dv, level, Infinity - 1)
      /\ Tried("copies of several statements") \/ \A e \in Inside(same) : e.from = e.to
      /\ \/ Tried("copies that others depend on")
         \/ \A e \in dep : (e.from \in same) # (e.to \in same) =>
              e.dv.lb[DimOf(level)] = -Infinity /\ e.dv.ub[DimOf(level)] = Infinity

-----------------------------------------------------------------------------
(* Commands                                                                *)

Program == [stmt |-> stmt, dep |-> dep, made |-> {}]

Command == /\ alive /\ commands > 0
           /\ commands' = commands - 1 /\ UNCHANGED program

\* The session ends with the error, unless it is an interactive one.
Throw == alive' = Interactive

\* What a command that succeeds leaves
Becomes(P) == stmt' = P.stmt /\ dep' = P.dep /\ alive' = TRUE
DropCode == last_compute' = NoCode

Known == Command /\ DropCode /\ UNCHANGED <<stmt, dep, unchecked, alive>>

GetCode == /\ Command
           /\ last_compute' = IF last_compute = NoCode THEN Given(stmt) ELSE last_compute
           /\ UNCHANGED <<stmt, dep, unchecked, alive>>

Shift(S, level, amount) ==
  /\ Command /\ DropCode
  /\ Becomes([stmt |-> ShiftStatements(stmt, S, level, amount), dep |-> ShiftDeps(dep, S, level, amount)])
  /\ unchecked' = (unchecked \/ PartOfLoop(S, level))

Skew(S, level, amounts) ==
  /\ Command /\ DropCode
  /\ Tried("skew by other loops only") \/ amounts[level] # 0
  /\ Tried("skew by an inner loop") \/ \A l \in level+1 .. NDim : amounts[l] = 0
  /\ stmt' = SkewStatements(stmt, S, level, amounts)
  /\ dep' = SkewDeps(dep, S, level, amounts).dep
  /\ IF SkewDeps(dep, S, level, amounts).refused THEN Throw ELSE alive' = TRUE
  /\ unchecked' = (unchecked \/ PartOfLoop(S, level))

Nonsingular(T) ==
  /\ Command /\ DropCode
  /\ Len(stmt) = 1         \* of more, setLexicalOrder orders the loops
  /\ Tried("matrix with constants") \/ \A l \in Loops : T[l].const = 0
  /\ Becomes([stmt |-> <<[MultiplyStatement(stmt[1], T) EXCEPT !.lex = [k \in DOMAIN @ |-> 0]]>>,
              dep  |-> {[e EXCEPT !.dv = Multiplied(@, T)] : e \in dep}])
  /\ unchecked' = TRUE

\* split keeps the code that was computed for the program before.
Split(s, level, cons) ==
  /\ Command
  /\ \A n \in DOMAIN cons : MaxLevel(cons[n]) <= level      \* or a check that scans the whole program
  /\ MayCut(s, level, {Step(cons[n]) : n \in DOMAIN cons})
  /\ Tried("split of printed code") \/ last_compute = NoCode
  /\ Becomes(SplitAll(Program, s, level, cons))
  /\ UNCHANGED <<last_compute, unchecked>>

PeelKeepsCode(s, level, amount) ==
  /\ Command
  /\ SubLoopNest(stmt, s, level) # {} /\ \A t \in SubLoopNest(stmt, s, level) : Simple(Positions(stmt[t]))
  /\ MayCut(s, level, {IF amount > 0 THEN -1 ELSE 1})
  /\ IF Cardinality(PeelValues(stmt, s, level)) = 1
     THEN Throw /\ UNCHANGED <<stmt, dep>>
     ELSE Becomes(Peeled(Program, s, level, amount))
  /\ UNCHANGED <<last_compute, unchecked>>
Peel(s, level, amount) ==
  /\ Command
  /\ SubLoopNest(stmt, s, level) # {} /\ \A t \in SubLoopNest(stmt, s, level) : Simple(Positions(stmt[t]))
  /\ MayCut(s, level, {IF amount > 0 THEN -1 ELSE 1})
  /\ IF Cardinality(PeelValues(stmt, s, level)) = 1      \* an equality, which is no bound
     THEN Throw /\ UNCHANGED <<stmt, dep, last_compute>>
     ELSE Becomes(Peeled(Program, s, level, amount)) /\ DropCode
  /\ UNCHANGED unchecked

\* unroll, and unroll_extra, which unrolls the rest as well
Unroll(s, level, amount, extra) ==
  LET illegal == \E e \in Inside(SameLoop(stmt, s, level)) : UnrollIllegal(e.dv, level, amount)
  IN  /\ Command /\ DropCode
      /\ MayCut(s, level, {-1, 1}) /\ MayUnroll(s, level, amount)
      /\ extra => MayUnroll(s, level, 0)
      /\ IF illegal /\ amount # 1 THEN Throw /\ UNCHANGED <<stmt, dep>>
         ELSE Becomes(IF amount = 1 THEN Program
                      ELSE IF extra THEN UnrolledExtra(Program, s, level, amount)
                      ELSE Unrolled(Program, s, level, amount))
      /\ UNCHANGED unchecked

Next == \/ Known \/ GetCode
        \/ \E S \in SUBSET DOMAIN stmt \ {{}}, level \in Loops :
             \/ \E amount \in ShiftAmounts : Shift(S, level, amount)
             \/ \E amounts \in SkewAmounts : Skew(S, level, amounts)
        \/ \E T \in Matrices : Nonsingular(T)
        \/ \E s \in DOMAIN stmt, level \in Loops :
             \/ \E cons \in Conditions : Split(s, level, cons)
             \/ \E amount \in PeelAmounts : Peel(s, level, amount)
             \/ \E amount \in UnrollAmounts, extra \in BOOLEAN : Unroll(s, level, amount, extra)

Spec == Init /\ [][Next]_vars
-----------------------------------------------------------------------------
(* Properties                                                              *)

\* Lexicographic order of integer sequences of one length
Less(a, b) == \E i \in DOMAIN a : a[i] < b[i] /\ \A k \in 1 .. i-1 : a[k] = b[k]

\* When position q of copy c of statement n runs, which has this lexical order
Time(lex, q, n, c) == [i \in 1 .. 2 * NDim + 3 |->
                         IF i = 2 * NDim + 2 THEN n ELSE IF i = 2 * NDim + 3 THEN c
                         ELSE IF i % 2 = 1 THEN lex[(i+1) \div 2] ELSE q[i \div 2]]

\* The instances of the program as it was, and those that depend on one another
Instances ==
  UNION {{<<n, p>> : p \in Programs[program].stmts[n].IS} : n \in DOMAIN Programs[program].stmts}

Depends ==
  LET time(i) == Time(Programs[program].stmts[i[1]].lex, i[2], i[1], 1)
      meets(e, a, b) == /\ e.from = a[1] /\ e.to = b[1]
                        /\ Covers(e.dv, [l \in Before(NDim) |-> b[2][l+1] - a[2][l+1]])
  IN  {pair \in Instances \X Instances : /\ \E e \in Programs[program].vectors : meets(e, pair[1], pair[2])
                                         /\ Less(time(pair[1]), time(pair[2]))}

\* The runs of the copies: statement, copy, point
Runs == UNION {UNION {{<<n, c, p>> : p \in stmt[n].IS} : c \in DOMAIN stmt[n].code} : n \in DOMAIN stmt}
Instance(r) == <<stmt[r[1]].code[r[2]].of, stmt[r[1]].code[r[2]].at[r[3]]>>

\* What the commands make runs every instance of the program, and none twice:
\* the halves of split, the strides and the copies of unroll fit together.
RunsEveryInstanceOnce ==
  /\ {Instance(r) : r \in Runs} = Instances
  /\ Cardinality(Runs) = Cardinality(Instances)

\* Where each instance runs
Where == [i \in Instances |-> CHOOSE r \in Runs : Instance(r) = i]
PositionOf(r) == Position(stmt[r[1]], r[3])
TimeOf(r) == Time(stmt[r[1]].lex, PositionOf(r), r[1], r[2])
Distance(r, t) == [k \in Before(NDim) |-> PositionOf(t)[k+1] - PositionOf(r)[k+1]]

\* The vectors say how far apart dependent instances now are: whatever the
\* commands do to the loops they do to the vectors, for each statement that
\* computes a part of the old one.
VectorsCoverDistances ==
  alive => LET where == Where IN
    \A pair \in Depends : LET r == where[pair[1]]
                              t == where[pair[2]] IN
      \/ r[1] = t[1] /\ r[3] = t[3]
      \/ \E e \in dep : e.from = r[1] /\ e.to = t[1] /\ Covers(e.dv, Distance(r, t))

\* No dependence runs backwards, as long as the commands are those that check.
OrderPreserved ==
  alive /\ ~unchecked => LET where == Where IN
    \A pair \in Depends : Less(TimeOf(where[pair[1]]), TimeOf(where[pair[2]]))

\* The code kept for the next getCode is that of the program.
CodeIsCurrent == last_compute \in {NoCode, Given(stmt)}
=============================================================================

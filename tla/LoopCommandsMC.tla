--------------------------- MODULE LoopCommandsMC ---------------------------
(* Programs of one and two statements and the commands tried on them.      *)
EXTENDS LoopCommands

Vector(f, t, b1, b2) ==
  [from |-> f, to |-> t,
   dv |-> [type |-> "W2R", quasi |-> FALSE, lb |-> (0 :> b1[1] @@ 1 :> b2[1]), ub |-> (0 :> b1[2] @@ 1 :> b2[2])]]
At(n) == <<n, n>>
More == <<1, Infinity>>

One(n, m, vectors) == [stmts |-> <<[IS |-> (1 .. n) \X (1 .. m), lex |-> <<0, 0, 0>>]>>, vectors |-> vectors, commands |-> 2]
Two(lex, vectors) == [stmts |-> <<[IS |-> (1 .. 3) \X (1 .. 2), lex |-> <<0, 0, 0>>],
                                  [IS |-> (1 .. 3) \X (1 .. 2), lex |-> lex]>>, vectors |-> vectors, commands |-> 2]

MCPrograms ==
  <<One(4, 2, {Vector(1, 1, At(1), At(-1))}),
    One(5, 2, {Vector(1, 1, At(3), At(-1))}),
    One(4, 2, {Vector(1, 1, At(1), At(1)), Vector(1, 1, At(0), At(1))}),
    One(3, 4, {Vector(1, 1, At(0), More)}),
    One(4, 2, {Vector(1, 1, More, At(0))}),
    One(5, 2, {}),
    [One(3, 2, {Vector(1, 1, At(1), At(0))}) EXCEPT !.commands = 3],
    Two(<<0, 0, 1>>, {Vector(1, 1, At(0), At(1)), Vector(2, 2, At(1), At(0))}),
    Two(<<0, 0, 1>>, {Vector(1, 2, At(0), At(0))}),
    Two(<<0, 0, 1>>, {Vector(1, 2, At(1), At(-1)), Vector(2, 1, At(1), At(0))}),
    Two(<<0, 1, 0>>, {Vector(1, 2, At(0), At(-1))}),
    Two(<<1, 0, 0>>, {Vector(1, 2, At(-1), At(1))})>>

MCSkew == {<<-1, 0>>, <<2, 0>>, <<0, -1>>, <<1, 1>>, <<-1, 1>>}
MCShift == {1, -2}
Row(a, b, c) == [coef |-> <<a, b>>, const |-> c]
MCMatrices == {<<Row(1, 1, 0), Row(0, 1, 0)>>, <<Row(0, 1, 0), Row(-1, 0, 0)>>,
               <<Row(1, 0, 2), Row(0, 1, 0)>>}
Con(a, b, c) == [coef |-> <<a, b>>, const |-> c]
MCConditions == {<<Con(1, 0, -3)>>, <<Con(-1, 0, 2)>>, <<Con(0, 1, -2)>>, <<Con(1, -1, 1)>>, <<Con(0, 0, 0)>>,
                 <<Con(-1, 0, 3), Con(1, 0, -2)>>}
MCPeel == {1, -2}
MCUnroll == {0, 1, 2, 3}
MCLeftOut == {"split of printed code", "cut after a command without a check", "cut inside the loop that carries",
              "cut beside another loop", "full unroll of an outer loop", "copies that others depend on", "copies of several statements",
              "skew by an inner loop", "skew by other loops only",
              "matrix with constants"}

\* split after getCode as well
MCStale == MCLeftOut \ {"split of printed code"}
=============================================================================

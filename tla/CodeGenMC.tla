------------------------------ MODULE CodeGenMC ------------------------------
(* Two or three statements in two loops, their spaces taken from lists.    *)
EXTENDS CodeGen

\* a <= dimension d <= b, for bounds that are a constant or the parameter plus one
Between(lo, d, hi) == {<<lo[1], d, -lo[2]>>, <<d, hi[1], hi[2]>>}
C(k) == <<0, k>>
P(k) == <<1, k>>
I(k) == <<2, k>>
At2(d, x) == Between(x, d, x)

MCShapes ==
  <<Between(C(0), 2, P(0)) \cup At2(3, C(0)),           \* a statement in a loop
    Between(C(0), 2, P(0)) \cup At2(3, C(1)),           \* the next one in the same loop
    Between(C(1), 2, P(-1)) \cup At2(3, C(0)),          \* one iteration less at each end
    At2(2, C(0)) \cup Between(C(0), 3, P(0)),           \* before the loop
    At2(2, P(0)) \cup Between(C(0), 3, P(0)),           \* at its last iteration
    Between(C(0), 2, P(0)) \cup Between(C(0), 3, P(0)), \* a square
    Between(C(0), 2, P(0)) \cup Between(C(0), 3, I(0)), \* a triangle
    Between(C(0), 2, P(0)) \cup Between(I(0), 3, P(0)), \* the other triangle
    Between(C(0), 2, P(0)) \cup At2(3, I(0)),           \* the diagonal
    Between(C(2), 2, C(3)) \cup Between(C(0), 3, P(0)), \* constant bounds
    Between(P(0), 2, C(2)) \cup At2(3, C(0))>>           \* the parameter below

MCFewShapes ==
  { Between(C(0), 2, P(0)) \cup At2(3, C(0)),
    Between(C(1), 2, P(-1)) \cup At2(3, C(0)),
    At2(2, P(0)) \cup Between(C(0), 3, P(0)),
    Between(C(2), 2, C(3)) \cup Between(C(0), 3, P(0)) }

\* Two or three statements, and one whose space is a union that overlaps itself
MCPairs   == {<<<<MCShapes[p[1]]>>, <<MCShapes[p[2]]>>>> :
                p \in {q \in (1 .. 11) \X (1 .. 11) : q[1] <= q[2]}}
MCTriples == {<<<<a>>, <<b>>, <<c>>>> : a, b, c \in MCFewShapes}
MCUnions  == {<<<<p[1], p[2]>>, <<c>>>> :
                p \in {q \in MCFewShapes \X MCFewShapes : q[1] # q[2]}, c \in MCFewShapes}

MCPrograms == MCPairs \cup MCTriples \cup MCUnions
MCKnowns == {{}, {<<0, 1, -1>>}}     \* nothing, or that the parameter is at least 1
MCEfforts == 0 .. 2
MCParameters == -1 .. 3
MCValues == -1 .. 3
=============================================================================

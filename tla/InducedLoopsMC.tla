--------------------------- MODULE InducedLoopsMC ---------------------------
(* Three loops inside another one, and at most one vector between two of   *)
(* them each way: carried by the loop outside, or of a distance at this    *)
(* level that is zero, not negative, negative or unknown.                  *)
EXTENDS InducedLoops

MCVector(outer, lb, ub) ==
  [type |-> "W2R", quasi |-> FALSE,
   lb |-> [k \in 0 .. 1 |-> IF k = 0 THEN outer ELSE lb],
   ub |-> [k \in 0 .. 1 |-> IF k = 0 THEN outer ELSE ub]]
MCVectors == {MCVector(0, 0, 0), MCVector(0, 0, 1), MCVector(0, -1, -1),
              MCVector(0, -1, 1), MCVector(1, -1, -1)}
MCPrograms == [LoopPairs -> {{}} \union {{dv} : dv \in MCVectors}]

MCOneDependence == {[p \in LoopPairs |-> IF p = q THEN {dv} ELSE {}] :
                      q \in LoopPairs, dv \in MCVectors}

MCUpPairs == {p \in LoopPairs : p[1] < p[2]}
MCEdges(o, kind) ==
  {p \in MCUpPairs : o[p] = <<"up", kind>>} \union
  {<<p[2], p[1]>> : p \in {q \in MCUpPairs : o[q] = <<"down", kind>>}}
MCGraphs == {<<MCEdges(o, "good"), MCEdges(o, "bad")>> :
               o \in [MCUpPairs -> {"up", "down", "none"} \X {"good", "bad"}]}
MCAllTrue == {[m \in Nodes |-> TRUE]}

\* fuse with the loops 0 and 2 of three.
MCOuterTwo == {[m \in Nodes |-> m # 1]}

\* A loop, one that has to stay behind it, and one that reads in the same
\* iterations what the second writes.
MCThreeLoops == {[p \in LoopPairs |-> CASE p = <<0, 1>> -> {MCVector(0, -1, -1)}
                                        [] p = <<1, 2>> -> {MCVector(0, 0, 0)}
                                        [] OTHER -> {}]}
=============================================================================

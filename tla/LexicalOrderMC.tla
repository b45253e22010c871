--------------------------- MODULE LexicalOrderMC ---------------------------
(* Three statements in two levels of loops, shared in every way, and up to *)
(* two vectors between them.                                               *)
EXTENDS LexicalOrder

\* Between statements a and a+1 a loop of level 1 ends, one of level 2, or none.
MCGaps == [0 .. N-2 -> Levels \union {Depth+1}]
MCNests == {[a \in Stmts |-> [l \in Levels |-> Cardinality({g \in 0 .. a-1 : gap[g] <= l})]] :
              gap \in MCGaps}

MCIntervals == {<<0, 0>>, <<0, 1>>, <<1, 1>>, <<-1, -1>>, <<-1, 1>>}
MCVectors == {[type |-> "W2R", quasi |-> FALSE,
               lb |-> [k \in 0 .. Depth-1 |-> b[k][1]], ub |-> [k \in 0 .. Depth-1 |-> b[k][2]]] :
                b \in [0 .. Depth-1 -> MCIntervals]}
MCEdges == {e \in [from : Stmts, to : Stmts, dv : MCVectors] : e.from # e.to}
MCDependences == {{d, e} : d, e \in MCEdges}
=============================================================================

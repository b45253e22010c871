--------------------------- MODULE TypedFusionMC ---------------------------
\* Values for the constants of TypedFusion.
EXTENDS TypedFusion

\* construct_induced_graph_at_level joins two loops in one direction at most,
\* by one edge: per pair no edge, or a good or a bad one either way.
Pairs == {p \in Nodes \X Nodes : p[1] < p[2]}
Orientation == {"none", "good up", "bad up", "good down", "bad down"}
EdgesOf(o, label) ==
  {p \in Pairs : o[p] = label[1]} \union
  {<<p[2], p[1]>> : p \in {q \in Pairs : o[q] = label[2]}}
InducedGraphs ==
  {<<EdgesOf(o, <<"good up", "good down">>), EdgesOf(o, <<"bad up", "bad down">>)>> :
      o \in [Pairs -> Orientation]}

\* setLexicalOrder passes true for every loop, fuse for the loops named.
AllTrue == {[m \in Nodes |-> TRUE]}
AnyTypes == [Nodes -> BOOLEAN]
\* DependencesPreserved fails for mixed types: with M = 3 for a good edge from
\* a loop that must stay alone, and with M = 6 for the graph below even between
\* two loops that may be fused.  Loop 4 has to come behind loop 0, which is not
\* on the chain, and opens a group at its end; loop 5, which has to follow loop
\* 4, joins an earlier one.
AllButFirst == {[m \in Nodes |-> m # 0]}
LateGroup   == {<<{<<2, 4>>, <<4, 5>>}, {<<0, 4>>, <<1, 3>>, <<1, 5>>}>>}
AllOrSome == AllTrue \union {[m \in Nodes |-> m # 1]}
=============================================================================

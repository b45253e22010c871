----------------------------- MODULE TopoSortMC -----------------------------
\* Values for the constants of TopoSort.
EXTENDS TopoSort

\* On four vertices: two cycles of two, with edges between them both ways, so
\* that the components are of every size from one to four, and every edge from
\* a vertex to a later one.
TwoCycles == {p \in Vertices \X Vertices : p[1] < p[2]}
             \union {<<1, 0>>, <<3, 2>>, <<3, 0>>, <<2, 1>>}

\* The callers of topoSort in Loop never connect a vertex with itself; the
\* test program graph-test.cc does, and EmitsComponentsInOrder fails for this
\* space with N = 3.
SelfLoops == Vertices \X Vertices
=============================================================================

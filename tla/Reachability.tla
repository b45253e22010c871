---------------------------- MODULE Reachability ----------------------------
(***************************************************************************)
(* Paths and strongly connected components of a graph on the vertices      *)
(* 0 .. n-1, as reference definitions: what topoSort is compared with, and *)
(* what its callers find out by counting the components it returns.        *)
(***************************************************************************)
EXTENDS Naturals

\* Warshall's recursion.  within[k] holds the pairs joined by a path whose
\* inner vertices are all numbered below k.
Paths(n, E) ==
  LET V == 0 .. n-1
      within[k \in 0 .. n] ==
        IF k = 0 THEN E \union {<<a, a>> : a \in V}
        ELSE LET prev == within[k-1]
             IN  prev \union {p \in V \X V : /\ <<p[1], k-1>> \in prev
                                             /\ <<k-1, p[2]>> \in prev}
  IN  within[n]

Components(n, E) ==
  LET P == Paths(n, E)
  IN  {{b \in 0 .. n-1 : <<a, b>> \in P /\ <<b, a>> \in P} : a \in 0 .. n-1}

\* As many components as vertices: no two vertices reach each other.
Acyclic(n, E) ==
  LET P == Paths(n, E)
  IN  \A a, b \in 0 .. n-1 : (<<a, b>> \in P /\ <<b, a>> \in P) => a = b
=============================================================================

------------------------------ MODULE SccOrder ------------------------------
(***************************************************************************)
(* What Graph::topoSort promises, from the note and the comment in         *)
(* graph.hh: the strongly connected components of the graph come out one   *)
(* after another, and no component comes out before one it can be reached  *)
(* from.  Any order of that kind is allowed here; TopoSort, the algorithm  *)
(* of the source, is shown to implement it.                                *)
(***************************************************************************)
EXTENDS Naturals, Sequences, Reachability

CONSTANTS N,           \* number of vertices; they are numbered 0 .. N-1
          EdgeSpace    \* the edges a graph may have

VARIABLES edge,        \* the graph: a set of pairs
          result       \* the components emitted so far

vars == <<edge, result>>

Emitted == {result[k] : k \in 1 .. Len(result)}

Init == /\ edge \in SUBSET EdgeSpace
        /\ result = <<>>

\* Emit a component all of whose predecessor components are out already.
Emit == \E C \in Components(N, edge) \ Emitted :
          /\ \A p \in edge : (p[2] \in C /\ p[1] \notin C) =>
                                \E D \in Emitted : p[1] \in D
          /\ result' = Append(result, C)
          /\ UNCHANGED edge

Spec == Init /\ [][Emit]_vars /\ WF_vars(Emit)
=============================================================================

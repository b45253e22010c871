------------------------------ MODULE TopoSort ------------------------------
(***************************************************************************)
(* Graph::topoSort of graph.hh: Kosaraju's algorithm with one explicit     *)
(* stack in place of recursion.  A vertex may lie on the stack several     *)
(* times: it is pushed whenever a neighbour finds it WHITE, expanded the   *)
(* first time it surfaces, finished the second time, and a copy that       *)
(* surfaces after that is dropped.                                         *)
(*                                                                         *)
(* One step of this module is one turn of a loop of the source.  The loop  *)
(* that pushes the neighbours of the top vertex goes through them in       *)
(* ascending order, as std::map and std::set do; scan is its iterator.     *)
(***************************************************************************)
EXTENDS Integers, Sequences, FiniteSets

CONSTANTS N,           \* vertex.size(); vertices are numbered 0 .. N-1
          EdgeSpace    \* the edges a graph may have

Vertices == 0 .. N-1

ASSUME NAssumption == N \in Nat
ASSUME EdgeAssumption == EdgeSpace \subseteq Vertices \X Vertices

VARIABLES edge,        \* the pairs <<a, b>> with b a key of vertex[a].second
          pc,          \* "dfs1", "dfs2" or "done"
          i,           \* counter of the for loops: N-1 down to -1, then 0 to N
          color,       \* color[a]
          S,           \* the stack; its last element is the top
          v,           \* the vertex whose neighbours are being pushed, or -1
          scan,        \* the next vertex that loop looks at
          order,       \* order[k], written from N-1 down
          c,           \* lowest index of order written so far
          s,           \* the component being collected
          result       \* the components found so far

vars == <<edge, pc, i, color, S, v, scan, order, c, s, result>>

Colors == {"WHITE", "GREY", "BLACK"}
NoVertex == -1

top == S[Len(S)]
Pop == SubSeq(S, 1, Len(S)-1)

\* The second search follows edgeT, the transposed edges.
NeighbourNoTranspose(a, b) == <<a, b>> \in edge
NeighbourSwapped(a, b) == IF pc = "dfs1" THEN <<b, a>> \in edge ELSE <<a, b>> \in edge
Neighbour(a, b) == IF pc = "dfs1" THEN <<a, b>> \in edge ELSE <<b, a>> \in edge

Init == /\ edge \in SUBSET EdgeSpace
        /\ pc = "dfs1"
        /\ i = N-1
        /\ color = [a \in Vertices |-> "WHITE"]
        /\ S = <<>>
        /\ v = NoVertex
        /\ scan = 0
        /\ order = [k \in Vertices |-> 0]
        /\ c = N
        /\ s = {}
        /\ result = <<>>

-----------------------------------------------------------------------------
(* The loop on the stack, common to both searches.                         *)

\* A WHITE vertex surfaces: its neighbours are going to be pushed.
Expand == /\ S # <<>> /\ v = NoVertex /\ color[top] = "WHITE"
          /\ v' = top
          /\ scan' = 0
          /\ UNCHANGED <<edge, pc, i, color, S, order, c, s, result>>

\* The neighbour loop pushes scan if it is a neighbour that is still WHITE.
PushNeighbour ==
  /\ v # NoVertex /\ scan < N
  /\ S' = IF Neighbour(v, scan) /\ color[scan] = "WHITE"
          THEN Append(S, scan) ELSE S
  /\ scan' = scan + 1
  /\ UNCHANGED <<edge, pc, i, color, v, order, c, s, result>>

\* The neighbour loop is over and the vertex turns GREY.
EndExpand == /\ v # NoVertex /\ scan = N
             /\ color' = [color EXCEPT ![v] = "GREY"]
             /\ v' = NoVertex
             /\ scan' = 0
             /\ UNCHANGED <<edge, pc, i, S, order, c, s, result>>

\* A vertex that is finished already surfaces again.
DropCopyForgotten == /\ S # <<>> /\ v = NoVertex /\ color[top] = "BLACK"
                     /\ UNCHANGED vars
DropCopy == /\ S # <<>> /\ v = NoVertex /\ color[top] = "BLACK"
            /\ S' = Pop
            /\ UNCHANGED <<edge, pc, i, color, v, scan, order, c, s, result>>

-----------------------------------------------------------------------------
(* The first search: order receives the vertices, last finished first.     *)

StartRoot == /\ pc = "dfs1" /\ S = <<>> /\ i >= 0 /\ color[i] = "WHITE"
             /\ S' = <<i>>
             /\ UNCHANGED <<edge, pc, i, color, v, scan, order, c, s, result>>

SkipRoot == /\ pc = "dfs1" /\ S = <<>> /\ i >= 0 /\ color[i] # "WHITE"
            /\ i' = i-1
            /\ UNCHANGED <<edge, pc, color, S, v, scan, order, c, s, result>>

\* color[v] = BLACK; S.pop(); order[--c] = v;
FinishRecolorForgotten ==
  /\ pc = "dfs1" /\ S # <<>> /\ v = NoVertex /\ color[top] = "GREY"
  /\ S' = Pop
  /\ c' = c-1
  /\ order' = [order EXCEPT ![c-1] = top]
  /\ UNCHANGED <<edge, pc, i, color, v, scan, s, result>>
FinishPostIncrement ==
  /\ pc = "dfs1" /\ S # <<>> /\ v = NoVertex /\ color[top] = "GREY"
  /\ color' = [color EXCEPT ![top] = "BLACK"]
  /\ S' = Pop
  /\ c' = c-1
  /\ order' = [order EXCEPT ![c] = top]
  /\ UNCHANGED <<edge, pc, i, v, scan, s, result>>
Finish == /\ pc = "dfs1" /\ S # <<>> /\ v = NoVertex /\ color[top] = "GREY"
          /\ color' = [color EXCEPT ![top] = "BLACK"]
          /\ S' = Pop
          /\ c' = c-1
          /\ order' = [order EXCEPT ![c-1] = top]
          /\ UNCHANGED <<edge, pc, i, v, scan, s, result>>

\* Between the searches the edges are transposed and the colours reset.
Transpose == /\ pc = "dfs1" /\ S = <<>> /\ i = -1
             /\ pc' = "dfs2"
             /\ i' = 0
             /\ color' = [a \in Vertices |-> "WHITE"]
             /\ UNCHANGED <<edge, S, v, scan, order, c, s, result>>

-----------------------------------------------------------------------------
(* The second search: every root of it yields one component.               *)

StartComponent ==
  /\ pc = "dfs2" /\ S = <<>> /\ s = {} /\ i < N /\ color[order[i]] = "WHITE"
  /\ S' = <<order[i]>>
  /\ UNCHANGED <<edge, pc, i, color, v, scan, order, c, s, result>>

SkipComponent ==
  /\ pc = "dfs2" /\ S = <<>> /\ s = {} /\ i < N /\ color[order[i]] # "WHITE"
  /\ i' = i+1
  /\ UNCHANGED <<edge, pc, color, S, v, scan, order, c, s, result>>

Collect == /\ pc = "dfs2" /\ S # <<>> /\ v = NoVertex /\ color[top] = "GREY"
           /\ color' = [color EXCEPT ![top] = "BLACK"]
           /\ S' = Pop
           /\ s' = s \union {top}
           /\ UNCHANGED <<edge, pc, i, v, scan, order, c, result>>

\* result.push_back(s); the set s is local to the turn of the for loop.
EmitComponentNoClear ==
  /\ pc = "dfs2" /\ S = <<>> /\ s # {}
  /\ result' = Append(result, s)
  /\ i' = i+1
  /\ s' = IF i+1 = N THEN {} ELSE s
  /\ UNCHANGED <<edge, pc, color, S, v, scan, order, c>>
EmitComponent ==
  /\ pc = "dfs2" /\ S = <<>> /\ s # {}
  /\ result' = Append(result, s)
  /\ s' = {}
  /\ i' = i+1
  /\ UNCHANGED <<edge, pc, color, S, v, scan, order, c>>

Return == /\ pc = "dfs2" /\ S = <<>> /\ s = {} /\ i = N
          /\ pc' = "done"
          /\ UNCHANGED <<edge, i, color, S, v, scan, order, c, s, result>>

\* The call has returned; there is nothing left to do.
Returned == pc = "done" /\ UNCHANGED vars

Step == \/ Expand \/ PushNeighbour \/ EndExpand \/ DropCopy
        \/ StartRoot \/ SkipRoot \/ Finish \/ Transpose
        \/ StartComponent \/ SkipComponent \/ Collect \/ EmitComponent
        \/ Return

Next == Step \/ Returned

\* The function runs on one thread and nothing can hold it up.
Spec == Init /\ [][Next]_vars /\ WF_vars(Step)

-----------------------------------------------------------------------------
(* Properties.                                                             *)

\* Every variable has its type: in particular --c stays a valid index of
\* order, a vector of N elements, however often vertices are pushed.
TypeOK == /\ edge \in SUBSET EdgeSpace
          /\ pc \in {"dfs1", "dfs2", "done"}
          /\ i \in -1 .. N
          /\ color \in [Vertices -> Colors]
          /\ S \in Seq(Vertices)
          /\ v \in Vertices \union {NoVertex}
          /\ scan \in 0 .. N
          /\ order \in [Vertices -> Vertices]
          /\ c \in 0 .. N
          /\ s \in SUBSET Vertices
          /\ result \in Seq(SUBSET Vertices)

\* order lists every vertex once when the first search is over, although
\* vertices are pushed again and again: the second search depends on it to
\* start from every vertex that no earlier component contains.
OrderIsPermutation ==
  pc # "dfs1" => \A a \in Vertices : \E k \in Vertices :
                    /\ order[k] = a
                    /\ \A m \in Vertices : order[m] = a => m = k

\* Every vertex is in one and only one component of the returned vector;
\* typed_fusion takes "as many components as vertices" for "acyclic".
ResultPartitions ==
  pc = "done" => \A a \in Vertices : \E k \in 1 .. Len(result) :
                    /\ a \in result[k]
                    /\ \A m \in 1 .. Len(result) : a \in result[m] => m = k

\* Where the numbering of the vertices is a topological order already, the
\* result is that order.  Loop::distribute relies on it: the graph it sorts
\* the second time has lost the dependences that go through statements that
\* are not being distributed.
KeepsSortedInput ==
  (\A p \in edge : p[1] < p[2]) => \A k \in 1 .. Len(result) : result[k] = {k-1}

\* The abstract specification, with the components emitted so far as they are.
Abstract == INSTANCE SccOrder
EmitsComponentsInOrder == Abstract!Spec

\* The sort returns for every graph.
Terminates == <>(pc = "done")
=============================================================================

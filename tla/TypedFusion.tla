---------------------------- MODULE TypedFusion ----------------------------
(***************************************************************************)
(* Loop::typed_fusion and update_successors of loop.cc.  The nodes are the *)
(* loops of one level (each a set of statements), an edge is a dependence  *)
(* carried at that level, and types says which nodes may share a group     *)
(* with another.  Groups are numbered from 1 in the order they are opened; *)
(* those that may receive further nodes are chained by next, from fused to *)
(* lastfused.                                                              *)
(*                                                                         *)
(* The two searches for nodes without incoming edges are taken node by     *)
(* node (j is their counter); everything between them is one step.         *)
(* type_list always holds types[m] for the elements m of work_list and is  *)
(* not represented.                                                        *)
(***************************************************************************)
EXTENDS Integers, Sequences, FiniteSets, Reachability

CONSTANTS M,            \* g.vertex.size()
          Graphs,       \* the pairs <<good edges, bad edges>> considered
          TypeVectors   \* the vectors types considered

Nodes == 0 .. M-1

ASSUME MAssumption == M \in Nat
ASSUME GraphsAssumption ==
  \A e \in Graphs : /\ e[1] \subseteq Nodes \X Nodes /\ e[2] \subseteq Nodes \X Nodes
                    /\ \A p \in e[1] \union e[2] : p[1] # p[2]
ASSUME TypesAssumption == TypeVectors \subseteq [Nodes -> BOOLEAN]

VARIABLES good, bad,    \* edges <<a, b>> with getEdge(a, b) = {true}, {false}
          types,
          pc,           \* "roots", "fuse", "release", "done" or "error"
          j,            \* counter of the two searches
          g,            \* the edges that have not been disconnected
          work_list,
          n,            \* the node taken from work_list
          cant_fuse_with, node_num,
          node_to_fused_nodes, next,   \* arrays of M elements
          fused, lastfused, lastnum,
          s             \* the groups, as sets of nodes

input == <<good, bad, types>>
chain == <<node_to_fused_nodes, next, fused, lastfused, lastnum>>
vars  == <<input, pc, j, g, work_list, n, cant_fuse_with, node_num, chain, s>>

Max2(a, b) == IF a >= b THEN a ELSE b

NoIncoming(E, m) == \A a \in Nodes \ {m} : <<a, m>> \notin E

Init == /\ \E e \in Graphs : good = e[1] /\ bad = e[2]
        /\ types \in TypeVectors
        /\ pc = "roots"
        /\ j = 0
        /\ g = good \union bad
        /\ work_list = <<>>
        /\ n = 0
        /\ cant_fuse_with = [m \in Nodes |-> 0]
        /\ node_num = [m \in Nodes |-> -1]
        /\ node_to_fused_nodes = [k \in Nodes |-> 0]
        /\ next = [k \in Nodes |-> 0]
        /\ fused = 0 /\ lastfused = 0 /\ lastnum = 0
        /\ s = <<>>

\* The work list starts with the nodes nothing depends on ...
QueueRootPastEnd ==
  /\ pc = "roots" /\ j <= M
  /\ work_list' = IF NoIncoming(g, j) THEN Append(work_list, j) ELSE work_list
  /\ j' = j+1
  /\ UNCHANGED <<input, pc, g, n, cant_fuse_with, node_num, chain, s>>
QueueRoot == /\ pc = "roots" /\ j < M
             /\ work_list' = IF NoIncoming(g, j) THEN Append(work_list, j)
                                                 ELSE work_list
             /\ j' = j+1
             /\ UNCHANGED <<input, pc, g, n, cant_fuse_with, node_num, chain, s>>

\* ... and a graph with a cycle is refused before anything is fused.
CheckAcyclic ==
  /\ pc = "roots" /\ j = M
  /\ pc' = IF work_list = <<>> \/ ~Acyclic(M, good \union bad)
           THEN "error" ELSE "fuse"
  /\ UNCHANGED <<input, j, g, work_list, n, cant_fuse_with, node_num, chain, s>>

-----------------------------------------------------------------------------
(* One turn of the work loop.                                              *)

\* update_successors, first half: node m has just been numbered k.
Successors(m) == {b \in Nodes : <<m, b>> \in g}

BadEdgeIgnored(m, k, b) == Max2(cant_fuse_with[b], cant_fuse_with[m])
MaxForgotten(m, k, b) == IF types[b] /\ <<m, b>> \in bad THEN k ELSE cant_fuse_with[m]
CantFuseWith(m, k, b) ==
  IF types[b] /\ <<m, b>> \in bad
  THEN Max2(cant_fuse_with[b], k)
  ELSE Max2(cant_fuse_with[b], cant_fuse_with[m])

\* What a throw leaves in the arrays does not matter: they are local.
UpdateSuccessors(m, k) ==
  /\ node_num' = [node_num EXCEPT ![m] = k]
  /\ IF \E b \in Successors(m) : node_num'[b] # -1
     THEN pc' = "error" /\ UNCHANGED cant_fuse_with
     ELSE /\ pc' = "release"
          /\ cant_fuse_with' =
               [b \in Nodes |-> IF b \in Successors(m) THEN CantFuseWith(m, k, b)
                                                       ELSE cant_fuse_with[b]]

Take(m) == /\ pc = "fuse" /\ work_list # <<>> /\ m = Head(work_list)
           /\ work_list' = Tail(work_list)
           /\ n' = m
           /\ j' = 0
           /\ UNCHANGED <<input, g>>

\* The first group of the chain that m may join; 0 if there is none.
Target(m) == IF cant_fuse_with[m] = 0 THEN fused ELSE next[cant_fuse_with[m]]

\* m joins a group that is open already.
JoinGroupLastSet(m) ==
  /\ Take(m) /\ types[m] /\ Target(m) # 0
  /\ LET k == node_num[node_to_fused_nodes[Target(m)]]
     IN  /\ UpdateSuccessors(m, k)
         /\ s' = [s EXCEPT ![Len(s)] = @ \union {m}]
  /\ UNCHANGED chain
JoinGroup(m) ==
  /\ Take(m) /\ types[m] /\ Target(m) # 0
  /\ LET k == node_num[node_to_fused_nodes[Target(m)]]
     IN  /\ UpdateSuccessors(m, k)
         /\ s' = [s EXCEPT ![k] = @ \union {m}]
  /\ UNCHANGED chain

\* What opening a group does whatever the type of its first node.
OpenGroup(m) ==
  /\ lastnum' = lastnum+1
  /\ s' = Append(s, {m})
  \* An index beyond the array leaves the array as it is.
  /\ node_to_fused_nodes' = [node_to_fused_nodes EXCEPT ![lastnum+1] = m]
  /\ UpdateSuccessors(m, lastnum+1)

\* m opens a group at the end of the chain ...
OpenFusableUnchained(m) ==
  /\ Take(m) /\ types[m] /\ Target(m) = 0
  /\ OpenGroup(m)
  /\ lastfused' = lastnum+1
  /\ IF lastfused = 0 THEN fused' = lastnum+1 ELSE UNCHANGED fused
  /\ UNCHANGED next
OpenFusable(m) ==
  /\ Take(m) /\ types[m] /\ Target(m) = 0
  /\ OpenGroup(m)
  /\ lastfused' = lastnum+1
  /\ IF lastfused = 0
     THEN fused' = lastnum+1 /\ UNCHANGED next
     ELSE next' = [next EXCEPT ![lastfused] = lastnum+1] /\ UNCHANGED fused

\* ... or, when it must stay alone, a group that is not on the chain.
OpenAlone(m) ==
  /\ Take(m) /\ ~types[m]
  /\ OpenGroup(m)
  /\ UNCHANGED <<next, fused, lastfused>>

\* update_successors, second half: the edges out of n go, and a successor
\* left without incoming edges is queued.
ReleaseLate ==
  /\ pc = "release" /\ j < M
  /\ IF <<n, j>> \in g
     THEN /\ g' = g \ {<<n, j>>}
          /\ work_list' = IF NoIncoming(g, j) THEN Append(work_list, j)
                                              ELSE work_list
     ELSE UNCHANGED <<g, work_list>>
  /\ j' = j+1
  /\ UNCHANGED <<input, pc, n, cant_fuse_with, node_num, chain, s>>
ReleaseUnchecked ==
  /\ pc = "release" /\ j < M
  /\ IF <<n, j>> \in g
     THEN g' = g \ {<<n, j>>} /\ work_list' = Append(work_list, j)
     ELSE UNCHANGED <<g, work_list>>
  /\ j' = j+1
  /\ UNCHANGED <<input, pc, n, cant_fuse_with, node_num, chain, s>>
ReleaseNoAdvance ==
  /\ pc = "release" /\ j < M
  /\ IF <<n, j>> \in g
     THEN /\ g' = g \ {<<n, j>>}
          /\ work_list' = IF NoIncoming(g', j) THEN Append(work_list, j)
                                               ELSE work_list
          /\ j' = j+1
     ELSE UNCHANGED <<g, work_list, j>>
  /\ UNCHANGED <<input, pc, n, cant_fuse_with, node_num, chain, s>>
Release ==
  /\ pc = "release" /\ j < M
  /\ IF <<n, j>> \in g
     THEN /\ g' = g \ {<<n, j>>}
          /\ work_list' = IF NoIncoming(g', j) THEN Append(work_list, j)
                                               ELSE work_list
     ELSE UNCHANGED <<g, work_list>>
  /\ j' = j+1
  /\ UNCHANGED <<input, pc, n, cant_fuse_with, node_num, chain, s>>

Released == /\ pc = "release" /\ j = M
            /\ pc' = "fuse"
            /\ UNCHANGED <<input, j, g, work_list, n, cant_fuse_with, node_num,
                           chain, s>>

Return == /\ pc = "fuse" /\ work_list = <<>>
          /\ pc' = "done"
          /\ UNCHANGED <<input, j, g, work_list, n, cant_fuse_with, node_num,
                         chain, s>>

\* The call has returned or thrown.
Finished == pc \in {"done", "error"} /\ UNCHANGED vars

Step == \/ QueueRoot \/ CheckAcyclic
        \/ \E m \in Nodes : JoinGroup(m) \/ OpenFusable(m) \/ OpenAlone(m)
        \/ Release \/ Released \/ Return

Next == Step \/ Finished

\* One thread, and nothing it waits for.
Spec == Init /\ [][Next]_vars /\ WF_vars(Step)

-----------------------------------------------------------------------------
(* Properties.                                                             *)

Numbered(m) == node_num[m] # -1
AllFusable == \A m \in Nodes : types[m]

TypeOK == /\ good \subseteq Nodes \X Nodes /\ bad \subseteq Nodes \X Nodes
          /\ types \in [Nodes -> BOOLEAN]
          /\ pc \in {"roots", "fuse", "release", "done", "error"}
          /\ j \in 0 .. M
          /\ g \subseteq good \union bad
          /\ work_list \in Seq(Nodes)
          /\ n \in Nodes \union {0}
          /\ cant_fuse_with \in [Nodes -> 0 .. M]
          /\ node_num \in [Nodes -> -1 .. M]
          /\ node_to_fused_nodes \in [Nodes -> Nodes]
          /\ next \in [Nodes -> 0 .. M]
          /\ fused \in 0 .. M /\ lastfused \in 0 .. M /\ lastnum \in 0 .. M
          /\ s \in Seq(SUBSET Nodes)

\* Whatever the types, the sink of a bad edge ends in a later group than its
\* source: fusing the two would reverse the dependence.
BadEdgesSeparated ==
  \A a, b \in Nodes :
    (<<a, b>> \in bad /\ Numbered(a) /\ Numbered(b)) => node_num[a] < node_num[b]

\* Where every loop may be fused, as setLexicalOrder calls it, the sink of a
\* good edge never ends in an earlier group than its source.
GoodEdgesOrdered ==
  AllFusable => \A a, b \in Nodes :
    (<<a, b>> \in good /\ Numbered(a) /\ Numbered(b)) => node_num[a] <= node_num[b]

\* The same for the mixed types Loop::fuse calls it with.  CHiLL.texi:140
\* says that all transformations preserve the dependences.
DependencesPreserved ==
  \A a, b \in Nodes :
    (<<a, b>> \in good /\ Numbered(a) /\ Numbered(b)) => node_num[a] <= node_num[b]

\* The groups returned are the numbering: the vector s, filled on the side,
\* agrees with node_num, so that no node is in two groups.
GroupsAreNumbering ==
  /\ Len(s) = lastnum
  /\ \A k \in 1 .. Len(s) : s[k] = {m \in Nodes : node_num[m] = k}

\* The work list reaches every node: none has been forgotten at the end.
EveryNodePlaced == pc = "done" => \A m \in Nodes : Numbered(m)

\* A cycle is found before the first group is opened; the check inside
\* update_successors for a successor numbered already never fires.
RefusedBeforeFusing == pc = "error" => lastnum = 0

\* "Each Fused set's representative node": the array has an entry, of the
\* right group, for every group that has been opened.
RepresentativeStored ==
  \A k \in 1 .. lastnum :
    /\ k \in DOMAIN node_to_fused_nodes
    /\ node_num[node_to_fused_nodes[k]] = k

\* The numbering is a plan of FusionPlan: bad edges separate, a loop that must
\* stay alone does, and with every loop fusable the plan does not depend on
\* the order of the work list and no loop is put later than its dependences
\* require.
Plan == INSTANCE FusionPlan WITH group <- node_num
FollowsPlan == Plan!Spec

\* The work list runs dry for every graph.
Terminates == <>(pc \in {"done", "error"})
=============================================================================

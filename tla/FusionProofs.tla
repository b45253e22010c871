------------------------- MODULE FusionProofs -------------------------
(***************************************************************************)
(* The safety properties of TypedFusion hold for every number of loops,    *)
(* every graph without self edges and every vector of types, every loop is *)
(* placed, and the algorithm follows a plan of FusionPlan.                 *)
(*                                                                         *)
(* These guarantees are then carried over to the vectors the graph is made *)
(* from (InducedLoops): loops that ran one after another are not refused,  *)
(* and where all loops may be fused, the dependences that have a distance  *)
(* at the level survive fusion.                                            *)
(***************************************************************************)
EXTENDS InducedLoops, OperatorProofs, SequenceTheorems, FiniteSetTheorems, TLAPS

\* The queue holds nodes that are ready and that have not been placed, once.
Queue == /\ \A p \in 1 .. Len(work_list) :
              /\ ~Numbered(work_list[p])
              /\ NoIncoming(g, work_list[p])
              /\ pc = "roots" => work_list[p] < j
         /\ \A p, q \in 1 .. Len(work_list) :
              work_list[p] = work_list[q] => p = q
         /\ pc = "roots" => \A m \in Nodes : ~Numbered(m)
         /\ pc = "roots" => lastnum = 0

\* Edges disappear behind a node that has been placed, and only there.
Edges == /\ \A e \in good \union bad : e[1] # e[2]
         /\ \A e \in good \union bad : e \notin g => Numbered(e[1])
         /\ \A e \in g : ~Numbered(e[2])
         /\ pc = "release" => Numbered(n) /\ n \in Nodes

PlacedNodes == {m \in Nodes : Numbered(m)}

\* Every group has its representative, but for one that would have index M,
\* and the chain ascends.
Chain == /\ \A k \in 1 .. lastnum : k < M => node_num[node_to_fused_nodes[k]] = k
         /\ \A m \in Nodes : Numbered(m) => node_num[m] \in 1 .. lastnum
         /\ \A k \in Nodes : next[k] # 0 => k < next[k] /\ next[k] <= lastnum
         /\ fused <= lastnum /\ lastfused <= lastnum
         /\ \A m \in Nodes : cant_fuse_with[m] <= lastnum
         /\ lastnum <= Cardinality(PlacedNodes)

\* A node that waits knows every group its bad edges keep it behind.
Behind == \A a, b \in Nodes :
            (<<a, b>> \in bad /\ Numbered(a) /\ ~Numbered(b) /\ types[b]) =>
              node_num[a] <= cant_fuse_with[b]

IInv == TypeOK /\ Queue /\ Edges /\ Chain /\ Behind
        /\ BadEdgesSeparated /\ GroupsAreNumbering /\ RefusedBeforeFusing

\* With every loop fusable all groups are on the chain, a node goes into the
\* group after the last one it may not be in, and that one is there because
\* of one of its predecessors.
Tight == /\ \A m \in Nodes : Numbered(m) => node_num[m] = cant_fuse_with[m] + 1
         /\ \A a, b \in Nodes :
              (<<a, b>> \in good /\ Numbered(a) /\ ~Numbered(b)) =>
                 cant_fuse_with[a] <= cant_fuse_with[b]
         /\ \A a, b \in Nodes :
              (<<a, b>> \in good /\ Numbered(a) /\ Numbered(b)) =>
                 node_num[a] <= node_num[b]
         /\ \A k \in Nodes : next[k] = IF 0 < k /\ k < lastnum THEN k+1 ELSE 0
         /\ fused = IF lastnum = 0 THEN 0 ELSE 1
         /\ lastfused = lastnum
         /\ \A b \in Nodes : ~Numbered(b) =>
              \/ cant_fuse_with[b] = 0
              \/ \E a \in Nodes : <<a, b>> \in bad /\ node_num[a] = cant_fuse_with[b]
              \/ \E a \in Nodes : <<a, b>> \in good /\ node_num[a] = cant_fuse_with[b] + 1

FInv == AllFusable => Tight

-----------------------------------------------------------------------------
(* Lemmas about the data the steps work on.                                *)

\* The front of a queue and what is left behind it.
LEMMA FrontProperties ==
  ASSUME NEW T, NEW q \in Seq(T), q # <<>>
  PROVE  /\ Tail(q) \in Seq(T) /\ Len(Tail(q)) = Len(q) - 1
         /\ 1 \in 1 .. Len(q)
         /\ Head(q) = q[1] /\ Head(q) \in T
         /\ \A p \in 1 .. Len(Tail(q)) : p+1 \in 1 .. Len(q) /\ Tail(q)[p] = q[p+1]
  BY HeadTailProperties, EmptySeq, LenProperties, ElementOfSeq

\* An element appended to a queue that does not hold it keeps it free of
\* repetitions.
LEMMA AppendNew ==
  ASSUME NEW T, NEW q \in Seq(T), NEW m \in T,
         \A p \in 1 .. Len(q) : q[p] # m,
         \A p, r \in 1 .. Len(q) : q[p] = q[r] => p = r
  PROVE  /\ Append(q, m) \in Seq(T)
         /\ \A p \in 1 .. Len(Append(q, m)) :
              Append(q, m)[p] = m \/ \E r \in 1 .. Len(q) : Append(q, m)[p] = q[r]
         /\ \A p, r \in 1 .. Len(Append(q, m)) :
              Append(q, m)[p] = Append(q, m)[r] => p = r
<1> DEFINE a == Append(q, m)
<1>1. /\ a \in Seq(T) /\ Len(a) = Len(q) + 1 /\ Len(q) \in Nat
      /\ \A p \in 1 .. Len(q) : a[p] = q[p]
      /\ a[Len(q) + 1] = m
  BY AppendProperties, LenProperties
<1> HIDE DEF a
<1>2. \A p \in 1 .. Len(a) : p = Len(q) + 1 \/ p \in 1 .. Len(q)
  BY <1>1
<1>3. \A p \in 1 .. Len(a) : a[p] = m \/ \E r \in 1 .. Len(q) : a[p] = q[r]
  BY <1>1, <1>2
<1>4. \A p, r \in 1 .. Len(a) : a[p] = a[r] => p = r
  BY <1>1, <1>2
<1> QED BY <1>1, <1>3, <1>4 DEF a

\* A node outside a set of nodes adds one to it, and there are no more than M.
LEMMA PlacedCount ==
  ASSUME NEW P, P \subseteq Nodes, NEW m \in Nodes \ P
  PROVE  /\ Cardinality(P \union {m}) = Cardinality(P) + 1
         /\ Cardinality(P) \in Nat /\ Cardinality(P) + 1 <= M
<1>1. IsFiniteSet(Nodes) /\ Cardinality(Nodes) = M
  BY FS_Interval, MAssumption DEF Nodes
<1>2. IsFiniteSet(P) /\ P \union {m} \subseteq Nodes
  BY <1>1, FS_Subset
<1>3. Cardinality(P \union {m}) <= M
  BY <1>1, <1>2, FS_Subset
<1>4. Cardinality(P \union {m}) = Cardinality(P) + 1
  BY <1>2, FS_AddElement
<1> QED BY <1>2, <1>3, <1>4, FS_CardinalityType

\* The counters are natural numbers, whatever CASE one is in.
LEMMA CantFuseWithGrows ==
  ASSUME TypeOK, NEW m \in Nodes, NEW b \in Nodes, NEW k \in Nat
  PROVE  /\ CantFuseWith(m, k, b) \in {cant_fuse_with[b], cant_fuse_with[m], k}
         /\ cant_fuse_with[b] <= CantFuseWith(m, k, b)
         /\ (types[b] /\ <<m, b>> \in bad) => k <= CantFuseWith(m, k, b)
         /\ <<m, b>> \notin bad => cant_fuse_with[m] <= CantFuseWith(m, k, b)
<1>1. cant_fuse_with[m] \in Nat /\ cant_fuse_with[b] \in Nat
  BY MAssumption DEF TypeOK
<1> QED BY <1>1 DEF CantFuseWith, Max2

-----------------------------------------------------------------------------
(* One turn of the work loop: node m is placed in group k.                 *)

\* The effect of placing m in group k, when none of its successors has been
\* placed and update_successors does not throw.
Placed(m, k) ==
  /\ ~Numbered(m) /\ NoIncoming(g, m)
  /\ pc = "fuse" /\ pc' = "release"
  /\ node_num' = [node_num EXCEPT ![m] = k]
  /\ cant_fuse_with' =
       [b \in Nodes |-> IF b \in Successors(m) THEN CantFuseWith(m, k, b)
                                               ELSE cant_fuse_with[b]]
  /\ work_list # <<>> /\ work_list' = Tail(work_list) /\ m = work_list[1]
  /\ g' = g /\ good' = good /\ bad' = bad /\ types' = types
  /\ n' = m /\ j' = 0
  /\ \A b \in Nodes : Numbered(b)' <=> Numbered(b) \/ b = m
  /\ \A b \in Nodes : b # m => node_num'[b] = node_num[b]
  /\ node_num'[m] = k
  /\ \A b \in Nodes : <<m, b>> \in good \union bad => b \in Successors(m)

LEMMA Placing ==
  ASSUME IInv, NEW m \in Nodes, Take(m), NEW k \in 1 .. M, UpdateSuccessors(m, k)
  PROVE  Placed(m, k)
<1>1. pc = "fuse" /\ work_list # <<>> /\ work_list' = Tail(work_list) /\ m = Head(work_list)
      /\ g' = g /\ good' = good /\ bad' = bad /\ types' = types /\ n' = m /\ j' = 0
  BY DEF Take, input
<1>2. m = work_list[1] /\ 1 \in 1 .. Len(work_list)
  BY <1>1, FrontProperties DEF IInv, TypeOK
<1>3. ~Numbered(m) /\ NoIncoming(g, m)
  BY <1>2 DEF IInv, Queue
<1>4. node_num' = [node_num EXCEPT ![m] = k]
  BY DEF UpdateSuccessors
<1>5. /\ \A b \in Nodes : b # m => node_num'[b] = node_num[b]
      /\ node_num'[m] = k
  BY <1>4 DEF IInv, TypeOK
<1>6. \A b \in Nodes : Numbered(b)' <=> Numbered(b) \/ b = m
  BY <1>5, MAssumption DEF Numbered
<1>7. \A b \in Successors(m) : node_num'[b] = -1
  <2> SUFFICES ASSUME NEW b \in Successors(m) PROVE node_num'[b] = -1
    OBVIOUS
  <2>1. b \in Nodes /\ <<m, b>> \in g
    BY DEF Successors
  <2>2. ~Numbered(b) /\ b # m
    BY <2>1 DEF IInv, Edges, TypeOK
  <2> QED BY <2>1, <2>2, <1>5 DEF Numbered
<1>8. pc' = "release" /\ cant_fuse_with' =
              [b \in Nodes |-> IF b \in Successors(m) THEN CantFuseWith(m, k, b)
                                                      ELSE cant_fuse_with[b]]
  BY <1>7 DEF UpdateSuccessors
<1>9. \A b \in Nodes : <<m, b>> \in good \union bad => b \in Successors(m)
  BY <1>3 DEF IInv, Edges, Successors
<1> QED BY <1>1, <1>2, <1>3, <1>4, <1>5, <1>6, <1>8, <1>9 DEF Placed

\* The parts of the invariant that placing m disturbs whichever group it goes
\* into, as long as the group comes after those of its bad predecessors.
LEMMA PlaceStep ==
  ASSUME IInv, NEW m \in Nodes, Take(m), NEW k \in 1 .. M, UpdateSuccessors(m, k),
         lastnum' \in lastnum .. M, k <= lastnum', 
         \A a \in Nodes : <<a, m>> \in bad => node_num[a] < k
  PROVE  /\ work_list' \in Seq(Nodes) /\ cant_fuse_with' \in [Nodes -> 0 .. M]
         /\ node_num' \in [Nodes -> -1 .. M]
         /\ Queue' /\ Edges' /\ Behind' /\ BadEdgesSeparated' /\ RefusedBeforeFusing'
         /\ \A b \in Nodes : Numbered(b)' => node_num'[b] \in 1 .. lastnum'
         /\ \A b \in Nodes : cant_fuse_with'[b] <= lastnum'
<1>0. Placed(m, k)
  BY Placing
<1>. USE <1>0 DEF Placed
<1>1. \A b \in Nodes : /\ cant_fuse_with[b] \in 0 .. M /\ cant_fuse_with[b] <= lastnum
                       /\ lastnum \in 0 .. M /\ node_num[b] \in -1 .. M
  BY DEF IInv, Chain, TypeOK
<1>2. \A b \in Nodes : /\ cant_fuse_with'[b] \in {cant_fuse_with[b], cant_fuse_with[m], k}
                       /\ cant_fuse_with[b] <= cant_fuse_with'[b]
                       /\ b \in Successors(m) => cant_fuse_with'[b] = CantFuseWith(m, k, b)
  <2> SUFFICES ASSUME NEW b \in Nodes
               PROVE  /\ cant_fuse_with'[b] \in {cant_fuse_with[b], cant_fuse_with[m], k}
                      /\ cant_fuse_with[b] <= cant_fuse_with'[b]
                      /\ b \in Successors(m) => cant_fuse_with'[b] = CantFuseWith(m, k, b)
    OBVIOUS
  <2>1. cant_fuse_with'[b] = IF b \in Successors(m) THEN CantFuseWith(m, k, b)
                                                    ELSE cant_fuse_with[b]
    OBVIOUS
  <2>2. k \in Nat /\ TypeOK /\ cant_fuse_with[b] \in Nat
    BY <1>1, MAssumption DEF IInv
  <2>3. /\ CantFuseWith(m, k, b) \in {cant_fuse_with[b], cant_fuse_with[m], k}
        /\ cant_fuse_with[b] <= CantFuseWith(m, k, b)
    BY <2>2, CantFuseWithGrows
  <2> QED BY <2>1, <2>2, <2>3
<1>3. \A b \in Nodes : cant_fuse_with'[b] \in 0 .. M /\ cant_fuse_with'[b] <= lastnum'
  BY <1>1, <1>2, MAssumption
<1>4. cant_fuse_with' \in [Nodes -> 0 .. M]
  BY <1>3
<1>5. /\ node_num' \in [Nodes -> -1 .. M]
      /\ \A b \in Nodes : Numbered(b)' => node_num'[b] \in 1 .. lastnum'
  <2>1. \A b \in Nodes : Numbered(b)' => node_num'[b] \in 1 .. lastnum'
    BY <1>1, MAssumption DEF IInv, Chain
  <2>2. node_num \in [Nodes -> -1 .. M] /\ k \in -1 .. M
    BY MAssumption DEF IInv, TypeOK
  <2> QED BY <2>1, <2>2
<1>6. /\ work_list' \in Seq(Nodes)
      /\ \A p \in 1 .. Len(work_list') :
           p+1 \in 1 .. Len(work_list) /\ work_list'[p] = work_list[p+1]
      /\ 1 \in 1 .. Len(work_list)
  BY FrontProperties DEF IInv, TypeOK
<1>7. Queue'
  <2>1. \A p \in 1 .. Len(work_list') : work_list'[p] # m
    BY <1>6 DEF IInv, Queue
  <2>2. \A p \in 1 .. Len(work_list') :
          node_num'[work_list'[p]] = -1 /\ NoIncoming(g', work_list'[p])
    <3> SUFFICES ASSUME NEW p \in 1 .. Len(work_list')
                 PROVE  node_num'[work_list'[p]] = -1 /\ NoIncoming(g', work_list'[p])
      OBVIOUS
    <3>1. work_list'[p] \in Nodes
      BY <1>6, ElementOfSeq
    <3>2. ~Numbered(work_list'[p]) /\ NoIncoming(g, work_list'[p])
      BY <1>6 DEF IInv, Queue
    <3> QED BY <2>1, <3>1, <3>2 DEF Numbered
  <2>3. \A p, q \in 1 .. Len(work_list') : work_list'[p] = work_list'[q] => p = q
    BY <1>6 DEF IInv, Queue
  <2> QED BY <2>2, <2>3 DEF Queue, Numbered
<1>8. Edges'
  <2>1. \A e \in g : e[1] \in Nodes /\ e[2] \in Nodes /\ e[1] # e[2] /\ e = <<e[1], e[2]>>
    <3>1. g \subseteq good \union bad /\ g \subseteq Nodes \X Nodes
      BY DEF IInv, TypeOK
    <3>2. \A e \in g : e[1] # e[2]
      BY <3>1 DEF IInv, Edges
    <3> QED BY <3>1, <3>2
  <2>2. \A e \in good \union bad : e[1] \in Nodes
    BY DEF IInv, TypeOK
  <2>3. \A e \in good \union bad : e \notin g => Numbered(e[1])'
    BY <2>2 DEF IInv, Edges
  <2>4. \A e \in g : ~Numbered(e[2])'
    BY <2>1 DEF IInv, Edges, NoIncoming
  <2> QED BY <2>3, <2>4 DEF IInv, Edges, Numbered
<1>9. Behind'
  <2> SUFFICES ASSUME NEW a \in Nodes, NEW b \in Nodes, <<a, b>> \in bad,
                      Numbered(a)', ~Numbered(b)', types[b]
               PROVE  node_num'[a] <= cant_fuse_with'[b]
    BY DEF Behind
  <2>1. CASE a = m
    <3>1. b \in Successors(m) /\ k \in Nat /\ TypeOK
      BY <2>1, MAssumption DEF IInv
    <3> QED BY <2>1, <3>1, <1>2, CantFuseWithGrows
  <2>2. CASE a # m
    <3>1. node_num[a] <= cant_fuse_with[b]
      BY <2>2 DEF IInv, Behind
    <3> QED BY <2>2, <3>1, <1>1, <1>2, <1>3
  <2> QED BY <2>1, <2>2
<1>10. BadEdgesSeparated'
  <2> SUFFICES ASSUME NEW a \in Nodes, NEW b \in Nodes, <<a, b>> \in bad,
                      Numbered(a)', Numbered(b)'
               PROVE  node_num'[a] < node_num'[b]
    BY DEF BadEdgesSeparated
  <2>1. a # b
    BY DEF IInv, Edges
  <2>2. CASE b = m
    BY <2>1, <2>2
  <2>3. CASE a = m
    <3>1. <<m, b>> \in g /\ Numbered(b)
      BY <2>1, <2>3 DEF Successors
    <3> QED BY <3>1 DEF IInv, Edges
  <2>4. CASE a # m /\ b # m
    BY <2>4 DEF IInv, BadEdgesSeparated
  <2> QED BY <2>2, <2>3, <2>4
<1>11. RefusedBeforeFusing'
  BY DEF RefusedBeforeFusing
<1> QED BY <1>3, <1>4, <1>5, <1>6, <1>7, <1>8, <1>9, <1>10, <1>11

\* There is always room for the group of a node that waits.
LEMMA RoomForGroup ==
  ASSUME IInv, NEW m \in Nodes, ~Numbered(m)
  PROVE  lastnum \in 0 .. M-1 /\ lastnum+1 \in Nat
<1>1. PlacedNodes \subseteq Nodes /\ m \notin PlacedNodes
  BY DEF PlacedNodes
<1>2. Cardinality(PlacedNodes) \in Nat /\ Cardinality(PlacedNodes) + 1 <= M
  BY <1>1, PlacedCount
<1>3. lastnum \in 0 .. M /\ lastnum <= Cardinality(PlacedNodes)
  BY DEF IInv, Chain, TypeOK
<1> QED BY <1>2, <1>3, MAssumption

\* Placing a node adds one to the number of nodes placed.
LEMMA PlacedNodesStep ==
  ASSUME IInv, NEW m \in Nodes, NEW k \in 1 .. M, Placed(m, k)
  PROVE  /\ Cardinality(PlacedNodes)' = Cardinality(PlacedNodes) + 1
         /\ lastnum + 1 <= Cardinality(PlacedNodes)'
<1>1. PlacedNodes' = PlacedNodes \union {m} /\ PlacedNodes \subseteq Nodes
      /\ m \notin PlacedNodes
  BY DEF PlacedNodes, Placed
<1>2. Cardinality(PlacedNodes)' = Cardinality(PlacedNodes) + 1
      /\ Cardinality(PlacedNodes) \in Nat
  BY <1>1, PlacedCount
<1>3. lastnum \in Nat /\ lastnum <= Cardinality(PlacedNodes)
  BY MAssumption DEF IInv, Chain, TypeOK
<1> QED BY <1>2, <1>3

\* The group found on the chain is one that exists, and all bad predecessors
\* are in earlier ones.
LEMMA TargetProperties ==
  ASSUME IInv, NEW m \in Nodes, ~Numbered(m), types[m], NoIncoming(g, m),
         Target(m) # 0
  PROVE  /\ Target(m) \in 1 .. lastnum /\ Target(m) \in 1 .. M
         /\ node_num[node_to_fused_nodes[Target(m)]] = Target(m)
         /\ \A a \in Nodes : <<a, m>> \in bad => node_num[a] < Target(m)
<1> DEFINE cf == cant_fuse_with[m]
<1>1. cf \in 0 .. lastnum /\ lastnum \in 0 .. M-1
  <2>1. lastnum \in 0 .. M-1
    BY RoomForGroup
  <2>2. cf <= lastnum /\ cf \in 0 .. M
    BY DEF IInv, Chain, TypeOK
  <2> QED BY <2>1, <2>2, MAssumption
<1>2. cf \in Nodes
  BY <1>1, MAssumption DEF Nodes
<1>3. next[cf] \in 0 .. M /\ fused \in 0 .. lastnum
  BY <1>2, MAssumption DEF IInv, Chain, TypeOK
<1>4. Target(m) \in 1 .. lastnum /\ cf < Target(m)
  <2>1. CASE cf = 0
    BY <2>1, <1>1, <1>3 DEF Target
  <2>2. CASE cf # 0
    <3>1. Target(m) = next[cf]
      BY <2>2 DEF Target
    <3>2. cf < next[cf] /\ next[cf] <= lastnum
      BY <3>1, <1>2 DEF IInv, Chain
    <3> QED BY <3>1, <3>2, <1>1, <1>3
  <2> QED BY <2>1, <2>2
<1>5. Target(m) \in 1 .. M /\ Target(m) < M
  BY <1>1, <1>4, MAssumption
<1>6. node_num[node_to_fused_nodes[Target(m)]] = Target(m)
  BY <1>4, <1>5 DEF IInv, Chain
<1>7. ASSUME NEW a \in Nodes, <<a, m>> \in bad PROVE node_num[a] < Target(m)
  <2>1. Numbered(a) /\ a # m
    BY <1>7 DEF IInv, Edges, NoIncoming
  <2>2. node_num[a] <= cf /\ node_num[a] \in -1 .. M
    BY <1>7, <2>1 DEF IInv, Behind, TypeOK
  <2> QED BY <2>2, <1>1, <1>4, MAssumption
<1> QED BY <1>4, <1>5, <1>6, <1>7
LEMMA JoinGroupStep ==
  ASSUME IInv, NEW m \in Nodes, JoinGroup(m)
  PROVE  IInv' /\ Placed(m, Target(m)) /\ Target(m) \in 1 .. M /\ UNCHANGED chain
<1> DEFINE t == Target(m)
<1>1. Take(m) /\ types[m] /\ t # 0 /\ UNCHANGED chain
  BY DEF JoinGroup
<1>2. ~Numbered(m) /\ NoIncoming(g, m)
  <2>1. m = work_list[1] /\ 1 \in 1 .. Len(work_list)
    BY <1>1, FrontProperties DEF IInv, TypeOK, Take
  <2> QED BY <2>1 DEF IInv, Queue
<1>3. /\ t \in 1 .. lastnum /\ t \in 1 .. M
      /\ node_num[node_to_fused_nodes[t]] = t
      /\ \A a \in Nodes : <<a, m>> \in bad => node_num[a] < t
  BY <1>1, <1>2, TargetProperties
<1>4. UpdateSuccessors(m, t) /\ s' = [s EXCEPT ![t] = @ \union {m}]
  BY <1>3 DEF JoinGroup
<1>5. Placed(m, t)
  BY <1>1, <1>3, <1>4, Placing
<1>6. lastnum' = lastnum /\ next' = next /\ fused' = fused /\ lastfused' = lastfused
      /\ node_to_fused_nodes' = node_to_fused_nodes /\ lastnum \in 0 .. M
  BY <1>1 DEF chain, IInv, TypeOK
<1>7. /\ work_list' \in Seq(Nodes) /\ cant_fuse_with' \in [Nodes -> 0 .. M]
      /\ node_num' \in [Nodes -> -1 .. M]
      /\ Queue' /\ Edges' /\ Behind' /\ BadEdgesSeparated' /\ RefusedBeforeFusing'
      /\ \A b \in Nodes : Numbered(b)' => node_num'[b] \in 1 .. lastnum'
      /\ \A b \in Nodes : cant_fuse_with'[b] <= lastnum'
  <2>1. lastnum' \in lastnum .. M /\ t <= lastnum'
    BY <1>3, <1>6, MAssumption
  <2> QED BY <1>1, <1>3, <1>4, <2>1, PlaceStep
<1>8. s' \in Seq(SUBSET Nodes) /\ GroupsAreNumbering'
  <2>1. s \in Seq(SUBSET Nodes) /\ Len(s) = lastnum /\ m \in Nodes
    BY DEF IInv, TypeOK, GroupsAreNumbering
  <2>2. s' \in Seq(SUBSET Nodes) /\ Len(s') = lastnum
        /\ \A k \in 1 .. lastnum : s'[k] = IF k = t THEN s[k] \union {m} ELSE s[k]
    <3> DEFINE e == s[t] \union {m}
    <3>1. t \in 1 .. Len(s) /\ s[t] \in SUBSET Nodes
      BY <2>1, <1>3, ElementOfSeq
    <3>2. e \in SUBSET Nodes /\ s' = [s EXCEPT ![t] = e]
      BY <3>1, <1>4
    <3> HIDE DEF e
    <3>3. /\ s' \in Seq(SUBSET Nodes) /\ Len(s') = lastnum
          /\ \A k \in 1 .. lastnum : s'[k] = IF k = t THEN e ELSE s[k]
      BY <2>1, <3>1, <3>2, ExceptSeq
    <3> QED BY <3>3 DEF e
  <2>3. \A k \in 1 .. lastnum : s[k] = {b \in Nodes : node_num[b] = k}
    BY <2>1 DEF IInv, GroupsAreNumbering
  <2>4. \A b \in Nodes : node_num'[b] = IF b = m THEN t ELSE node_num[b]
    BY <1>5 DEF Placed
  <2>5. node_num[m] \notin 1 .. lastnum
    BY <1>2 DEF Numbered
  <2>6. \A k \in 1 .. lastnum : s'[k] = {b \in Nodes : node_num'[b] = k}
    BY <2>2, <2>3, <2>4, <2>5
  <2> QED BY <2>2, <2>6, <1>6 DEF GroupsAreNumbering
<1>9. TypeOK'
  <2>1. n' = m /\ j' = 0 /\ g' = g /\ good' = good /\ bad' = bad /\ types' = types
        /\ pc' = "release" /\ 0 \in 0 .. M
    BY <1>5, MAssumption DEF Placed
  <2> QED BY <2>1, <1>6, <1>7, <1>8 DEF TypeOK, IInv
<1>10. Chain'
  <2>1. lastnum' <= Cardinality(PlacedNodes)'
    <3>1. lastnum + 1 <= Cardinality(PlacedNodes)' /\ lastnum \in Nat
          /\ Cardinality(PlacedNodes)' = Cardinality(PlacedNodes) + 1
      BY <1>3, <1>5, <1>6, MAssumption, PlacedNodesStep
    <3>2. Cardinality(PlacedNodes) \in Nat
      <4>1. PlacedNodes \subseteq Nodes /\ m \notin PlacedNodes
        BY <1>2 DEF PlacedNodes
      <4> QED BY <4>1, PlacedCount
    <3> QED BY <3>1, <3>2, <1>6
  <2>2. \A k \in 1 .. lastnum : k < M => node_num'[node_to_fused_nodes[k]] = k
    <3> SUFFICES ASSUME NEW k \in 1 .. lastnum, k < M
                 PROVE  node_num'[node_to_fused_nodes[k]] = k
      OBVIOUS
    <3>1. node_num[node_to_fused_nodes[k]] = k
      BY DEF IInv, Chain
    <3>2. node_to_fused_nodes[k] \in Nodes
      <4>1. k \in Nodes
        BY <1>6, MAssumption DEF Nodes
      <4> QED BY <4>1 DEF IInv, TypeOK
    <3>3. node_to_fused_nodes[k] # m
      BY <3>1, <1>2, <1>6 DEF Numbered
    <3> QED BY <3>1, <3>2, <3>3, <1>5 DEF Placed
  <2> QED BY <2>1, <2>2, <1>6, <1>7 DEF Chain, IInv
<1> QED BY <1>1, <1>3, <1>5, <1>7, <1>8, <1>9, <1>10 DEF IInv

LEMMA OpenGroupStep ==
  ASSUME IInv, NEW m \in Nodes, Take(m), OpenGroup(m),
         next' \in [Nodes -> 0 .. M],
         \A k \in Nodes : next'[k] # 0 => k < next'[k] /\ next'[k] <= lastnum + 1,
         fused' \in 0 .. lastnum+1, lastfused' \in 0 .. lastnum+1
  PROVE  IInv' /\ Placed(m, lastnum+1) /\ lastnum \in 0 .. M-1 /\ lastnum' = lastnum+1
<1> DEFINE t == lastnum + 1
<1>2. ~Numbered(m) /\ NoIncoming(g, m)
  <2>1. m = work_list[1] /\ 1 \in 1 .. Len(work_list)
    BY FrontProperties DEF IInv, TypeOK, Take
  <2> QED BY <2>1 DEF IInv, Queue
<1>3. lastnum \in 0 .. M-1 /\ t \in 1 .. M /\ lastnum' = t
  BY <1>2, RoomForGroup, MAssumption DEF OpenGroup
<1>4. /\ UpdateSuccessors(m, t) /\ s' = Append(s, {m})
      /\ node_to_fused_nodes' = [node_to_fused_nodes EXCEPT ![t] = m]
  BY DEF OpenGroup
<1>5. Placed(m, t)
  BY <1>3, <1>4, Placing
<1>6. \A a \in Nodes : node_num[a] < t /\ node_num[a] # t
  <2>1. \A a \in Nodes : node_num[a] = -1 \/ node_num[a] \in 1 .. lastnum
    BY DEF IInv, Chain, Numbered
  <2> QED BY <2>1, <1>3, MAssumption
<1>7. /\ work_list' \in Seq(Nodes) /\ cant_fuse_with' \in [Nodes -> 0 .. M]
      /\ node_num' \in [Nodes -> -1 .. M]
      /\ Queue' /\ Edges' /\ Behind' /\ BadEdgesSeparated' /\ RefusedBeforeFusing'
      /\ \A b \in Nodes : Numbered(b)' => node_num'[b] \in 1 .. lastnum'
      /\ \A b \in Nodes : cant_fuse_with'[b] <= lastnum'
  <2>1. lastnum' \in lastnum .. M /\ t <= lastnum'
    BY <1>3, MAssumption
  <2>2. \A a \in Nodes : <<a, m>> \in bad => node_num[a] < t
    BY <1>6
  <2> HIDE DEF t
  <2> QED BY <1>3, <1>4, <2>1, <2>2, PlaceStep
<1>8. s' \in Seq(SUBSET Nodes) /\ GroupsAreNumbering'
  <2>1. s \in Seq(SUBSET Nodes) /\ Len(s) = lastnum /\ {m} \in SUBSET Nodes
    BY DEF IInv, TypeOK, GroupsAreNumbering
  <2>2. /\ s' \in Seq(SUBSET Nodes) /\ Len(s') = t
        /\ \A k \in 1 .. lastnum : s'[k] = s[k]
        /\ s'[t] = {m}
    BY <2>1, <1>4, AppendProperties
  <2>3. \A k \in 1 .. lastnum : s[k] = {b \in Nodes : node_num[b] = k}
    BY <2>1 DEF IInv, GroupsAreNumbering
  <2>4. \A b \in Nodes : node_num'[b] = IF b = m THEN t ELSE node_num[b]
    BY <1>5 DEF Placed
  <2>5. \A k \in 1 .. lastnum : s'[k] = {b \in Nodes : node_num'[b] = k}
    <3>1. node_num[m] \notin 1 .. lastnum /\ t \notin 1 .. lastnum
      BY <1>2, <1>3, MAssumption DEF Numbered
    <3> QED BY <2>2, <2>3, <2>4, <3>1
  <2>6. s'[t] = {b \in Nodes : node_num'[b] = t}
    <3>1. \A b \in Nodes : node_num[b] # t
      BY <1>6
    <3> QED BY <2>2, <2>4, <3>1
  <2>7. \A k \in 1 .. t : k = t \/ k \in 1 .. lastnum
    BY <1>3, MAssumption
  <2> QED BY <2>2, <2>5, <2>6, <2>7, <1>3 DEF GroupsAreNumbering
<1>9. TypeOK'
  <2>1. n' = m /\ j' = 0 /\ g' = g /\ good' = good /\ bad' = bad /\ types' = types
        /\ pc' = "release" /\ 0 \in 0 .. M
    BY <1>5, MAssumption DEF Placed
  <2>2. node_to_fused_nodes' \in [Nodes -> Nodes]
    BY <1>4 DEF IInv, TypeOK
  <2>3. fused' \in 0 .. M /\ lastfused' \in 0 .. M /\ lastnum' \in 0 .. M
    BY <1>3, MAssumption
  <2> QED BY <2>1, <2>2, <2>3, <1>7, <1>8 DEF TypeOK, IInv
<1>10. Chain'
  <2>1. lastnum' <= Cardinality(PlacedNodes)'
    BY <1>3, <1>5, PlacedNodesStep
  <2>2. \A k \in 1 .. t : k < M => node_num'[node_to_fused_nodes'[k]] = k
    <3> SUFFICES ASSUME NEW k \in 1 .. t, k < M
                 PROVE  node_num'[node_to_fused_nodes'[k]] = k
      OBVIOUS
    <3>1. k \in Nodes /\ node_to_fused_nodes \in [Nodes -> Nodes]
      <4>1. k \in Nodes
        BY <1>3, MAssumption DEF Nodes
      <4> QED BY <4>1 DEF IInv, TypeOK
    <3>2. node_to_fused_nodes'[k] = IF k = t THEN m ELSE node_to_fused_nodes[k]
      BY <3>1, <1>4
    <3>3. CASE k = t
      BY <3>2, <3>3, <1>5 DEF Placed
    <3>4. CASE k # t
      <4>1. k \in 1 .. lastnum
        BY <3>4, <1>3, MAssumption
      <4>2. node_num[node_to_fused_nodes[k]] = k /\ node_to_fused_nodes[k] \in Nodes
        BY <3>1, <4>1 DEF IInv, Chain
      <4>3. node_to_fused_nodes[k] # m
        BY <4>1, <4>2, <1>2, <1>3 DEF Numbered
      <4> QED BY <3>2, <3>4, <4>2, <4>3, <1>5 DEF Placed
    <3> QED BY <3>3, <3>4
  <2>3. fused' <= lastnum' /\ lastfused' <= lastnum'
    BY <1>3, MAssumption
  <2> QED BY <2>1, <2>2, <2>3, <1>3, <1>7 DEF Chain
<1> QED BY <1>3, <1>5, <1>7, <1>8, <1>9, <1>10 DEF IInv

LEMMA OpenFusableStep ==
  ASSUME IInv, NEW m \in Nodes, OpenFusable(m)
  PROVE  IInv' /\ Placed(m, lastnum+1) /\ lastnum \in 0 .. M-1 /\ lastnum' = lastnum+1
<1>1. Take(m) /\ OpenGroup(m) /\ lastfused' = lastnum + 1
  BY DEF OpenFusable
<1>2. lastnum \in 0 .. M-1
  <2>1. m = work_list[1] /\ 1 \in 1 .. Len(work_list)
    BY <1>1, FrontProperties DEF IInv, TypeOK, Take
  <2> QED BY <2>1, RoomForGroup DEF IInv, Queue
<1>3. /\ next \in [Nodes -> 0 .. M] /\ fused \in 0 .. lastnum /\ lastfused \in 0 .. lastnum
      /\ \A k \in Nodes : next[k] # 0 => k < next[k] /\ next[k] <= lastnum
  <2>1. fused <= lastnum /\ lastfused <= lastnum
        /\ fused \in 0 .. M /\ lastfused \in 0 .. M
    BY DEF IInv, TypeOK, Chain
  <2>2. /\ next \in [Nodes -> 0 .. M]
        /\ \A k \in Nodes : next[k] # 0 => k < next[k] /\ next[k] <= lastnum
    BY DEF IInv, TypeOK, Chain
  <2> QED BY <2>1, <2>2, <1>2, MAssumption
<1>4. fused' \in 0 .. lastnum+1 /\ lastfused' \in 0 .. lastnum+1
  BY <1>1, <1>2, <1>3, MAssumption DEF OpenFusable
<1>5. \/ next' = next
      \/ next' = [next EXCEPT ![lastfused] = lastnum+1]
  BY DEF OpenFusable
<1>6. next' \in [Nodes -> 0 .. M]
  <2>1. lastnum + 1 \in 0 .. M
    BY <1>2, MAssumption
  <2> QED BY <2>1, <1>3, <1>5
<1>7. \A k \in Nodes : next'[k] # 0 => k < next'[k] /\ next'[k] <= lastnum + 1
  <2>1. \A k \in Nodes : \/ next'[k] = next[k]
                         \/ k = lastfused /\ next'[k] = lastnum + 1
    BY <1>3, <1>5
  <2>2. \A k \in Nodes : next[k] \in Nat /\ k \in Int
    BY <1>3, MAssumption DEF Nodes
  <2> QED BY <2>1, <2>2, <1>2, <1>3, MAssumption
<1> QED BY <1>1, <1>4, <1>6, <1>7, OpenGroupStep

LEMMA OpenAloneStep ==
  ASSUME IInv, NEW m \in Nodes, OpenAlone(m)
  PROVE  IInv' /\ Placed(m, lastnum+1) /\ lastnum \in 0 .. M-1 /\ lastnum' = lastnum+1
<1>1. Take(m) /\ OpenGroup(m) /\ next' = next /\ fused' = fused /\ lastfused' = lastfused
  BY DEF OpenAlone
<1>2. /\ next \in [Nodes -> 0 .. M] /\ fused \in 0 .. M /\ lastfused \in 0 .. M
      /\ lastnum \in 0 .. M /\ fused <= lastnum /\ lastfused <= lastnum
      /\ \A k \in Nodes : next[k] # 0 => k < next[k] /\ next[k] <= lastnum
  BY DEF IInv, TypeOK, Chain
<1>3. \A k \in Nodes : next'[k] # 0 => k < next'[k] /\ next'[k] <= lastnum + 1
  <2>1. \A k \in Nodes : next[k] \in Nat
    BY <1>2, MAssumption
  <2> QED BY <2>1, <1>1, <1>2, MAssumption
<1>4. fused' \in 0 .. lastnum+1 /\ lastfused' \in 0 .. lastnum+1
  BY <1>1, <1>2, MAssumption
<1> QED BY <1>1, <1>2, <1>3, <1>4, OpenGroupStep
-----------------------------------------------------------------------------
(* The other steps.                                                        *)

LEMMA InitIInv == Init => IInv
<1> SUFFICES ASSUME Init PROVE IInv
  OBVIOUS
<1>1. PICK e \in Graphs : good = e[1] /\ bad = e[2]
  BY DEF Init
<1>2. /\ good \subseteq Nodes \X Nodes /\ bad \subseteq Nodes \X Nodes
      /\ \A p \in good \union bad : p[1] # p[2]
  BY <1>1, GraphsAssumption
<1>3. TypeOK
  <2>1. types \in [Nodes -> BOOLEAN]
    BY TypesAssumption DEF Init
  <2>2. work_list \in Seq(Nodes) /\ s \in Seq(SUBSET Nodes)
    BY DEF Init
  <2>3. node_to_fused_nodes \in [Nodes -> Nodes]
    BY MAssumption DEF Init, Nodes
  <2> QED BY <1>2, <2>1, <2>2, <2>3, MAssumption DEF Init, TypeOK
<1>4. Queue /\ Behind /\ BadEdgesSeparated /\ RefusedBeforeFusing /\ GroupsAreNumbering
  BY DEF Init, Queue, Behind, BadEdgesSeparated, RefusedBeforeFusing,
         GroupsAreNumbering, Numbered
<1>5. Edges
  <2>1. \A p \in good \union bad : p \in Nodes \X Nodes
    BY <1>2
  <2> QED BY <1>2, <2>1 DEF Init, Edges, Numbered
<1>6. Chain
  <2>1. PlacedNodes = {}
    BY DEF Init, PlacedNodes, Numbered
  <2>2. Cardinality(PlacedNodes) = 0
    BY <2>1, FS_EmptySet
  <2> QED BY <2>2 DEF Init, Chain, Numbered
<1> QED BY <1>3, <1>4, <1>5, <1>6 DEF IInv

\* The parts that QueueRoot, CheckAcyclic, Release, Released and Return leave
\* alone.
LEMMA UntouchedStep ==
  ASSUME IInv, UNCHANGED <<input, n, cant_fuse_with, node_num, chain, s>>
  PROVE  /\ Chain' /\ Behind' /\ BadEdgesSeparated' /\ GroupsAreNumbering'
         /\ \A m \in Nodes : Numbered(m)' <=> Numbered(m)
         /\ (/\ pc' \in {"roots", "fuse", "release", "done", "error"}
             /\ j' \in 0 .. M /\ g' \subseteq good \union bad
             /\ work_list' \in Seq(Nodes)) => TypeOK'
<1>1. /\ good' = good /\ bad' = bad /\ types' = types /\ n' = n
      /\ cant_fuse_with' = cant_fuse_with /\ node_num' = node_num /\ s' = s
      /\ node_to_fused_nodes' = node_to_fused_nodes /\ next' = next
      /\ fused' = fused /\ lastfused' = lastfused /\ lastnum' = lastnum
  BY DEF input, chain
<1>2. \A m \in Nodes : Numbered(m)' <=> Numbered(m)
  BY <1>1 DEF Numbered
<1>3. Chain'
  <2>1. PlacedNodes' = PlacedNodes
    BY <1>1 DEF PlacedNodes, Numbered
  <2> QED BY <1>1, <2>1 DEF IInv, Chain, Numbered
<1>4. Behind' /\ BadEdgesSeparated' /\ GroupsAreNumbering'
  BY <1>1 DEF IInv, Behind, BadEdgesSeparated, GroupsAreNumbering, Numbered
<1>5. (/\ pc' \in {"roots", "fuse", "release", "done", "error"}
       /\ j' \in 0 .. M /\ g' \subseteq good \union bad
       /\ work_list' \in Seq(Nodes)) => TypeOK'
  BY <1>1 DEF IInv, TypeOK
<1> QED BY <1>2, <1>3, <1>4, <1>5
LEMMA QueueRootStep == IInv /\ QueueRoot => IInv'
<1> SUFFICES ASSUME IInv, QueueRoot PROVE IInv'
  OBVIOUS
<1>1. /\ pc = "roots" /\ pc' = "roots" /\ j \in Nodes /\ j' = j+1 /\ g' = g
      /\ UNCHANGED <<input, n, cant_fuse_with, node_num, chain, s>>
      /\ work_list' = IF NoIncoming(g, j) THEN Append(work_list, j) ELSE work_list
  BY MAssumption DEF QueueRoot, Nodes, IInv, TypeOK
<1>2. /\ Chain' /\ Behind' /\ BadEdgesSeparated' /\ GroupsAreNumbering'
      /\ \A m \in Nodes : Numbered(m)' <=> Numbered(m)
      /\ (/\ pc' \in {"roots", "fuse", "release", "done", "error"}
          /\ j' \in 0 .. M /\ g' \subseteq good \union bad
          /\ work_list' \in Seq(Nodes)) => TypeOK'
  BY <1>1, UntouchedStep
<1>3. \A m \in Nodes : ~Numbered(m)
  BY <1>1 DEF IInv, Queue
<1>4. /\ work_list' \in Seq(Nodes)
      /\ \A p \in 1 .. Len(work_list') :
            ~Numbered(work_list'[p]) /\ NoIncoming(g, work_list'[p]) /\ work_list'[p] < j+1
      /\ \A p, r \in 1 .. Len(work_list') : work_list'[p] = work_list'[r] => p = r
  <2>1. \A p \in 1 .. Len(work_list) : /\ ~Numbered(work_list[p]) /\ NoIncoming(g, work_list[p])
                                       /\ work_list[p] < j /\ work_list[p] # j
                                       /\ work_list[p] < j+1
    <3>1. \A p \in 1 .. Len(work_list) :
             ~Numbered(work_list[p]) /\ NoIncoming(g, work_list[p]) /\ work_list[p] < j
      BY <1>1 DEF IInv, Queue
    <3>2. \A p \in 1 .. Len(work_list) : work_list[p] \in 0 .. M-1
      BY ElementOfSeq DEF IInv, TypeOK, Nodes
    <3> QED BY <1>1, <3>1, <3>2, MAssumption DEF Nodes
  <2>2. CASE NoIncoming(g, j)
    <3>1. /\ work_list' \in Seq(Nodes)
          /\ \A p \in 1 .. Len(work_list') :
               (work_list'[p] = j \/ \E r \in 1 .. Len(work_list) : work_list'[p] = work_list[r])
          /\ \A p, r \in 1 .. Len(work_list') : work_list'[p] = work_list'[r] => p = r
      <4>1. /\ work_list' = Append(work_list, j) /\ j \in Nodes
            /\ work_list \in Seq(Nodes)
            /\ \A p \in 1 .. Len(work_list) : work_list[p] # j
            /\ \A p, r \in 1 .. Len(work_list) : work_list[p] = work_list[r] => p = r
        BY <1>1, <2>1, <2>2 DEF IInv, Queue, TypeOK
      <4> QED BY <4>1, AppendNew
    <3>2. j < j+1
      BY <1>1, MAssumption DEF Nodes
    <3> QED BY <1>3, <2>1, <2>2, <3>1, <3>2
  <2>3. CASE ~NoIncoming(g, j)
    BY <1>1, <2>1, <2>3 DEF IInv, Queue, TypeOK
  <2> QED BY <2>2, <2>3
<1>5. TypeOK'
  <2>1. j+1 \in 0 .. M
    BY <1>1, MAssumption DEF Nodes
  <2> QED BY <1>1, <1>2, <1>4, <2>1 DEF IInv, TypeOK
<1>6. node_num' = node_num /\ lastnum' = lastnum /\ good' = good /\ bad' = bad
  BY <1>1 DEF chain, input
<1>7. Queue'
  BY <1>1, <1>3, <1>4, <1>6 DEF IInv, Queue, Numbered
<1>8. Edges' /\ RefusedBeforeFusing'
  BY <1>1, <1>6 DEF IInv, Edges, RefusedBeforeFusing, Numbered
<1> QED BY <1>2, <1>5, <1>7, <1>8 DEF IInv

LEMMA ReleaseStep == IInv /\ Release => IInv'
<1> SUFFICES ASSUME IInv, Release PROVE IInv'
  OBVIOUS
<1>1. /\ pc = "release" /\ pc' = "release" /\ j \in Nodes /\ j' = j+1
      /\ UNCHANGED <<input, n, cant_fuse_with, node_num, chain, s>>
  BY MAssumption DEF Release, Nodes, IInv, TypeOK
<1>2. /\ Chain' /\ Behind' /\ BadEdgesSeparated' /\ GroupsAreNumbering'
      /\ \A m \in Nodes : Numbered(m)' <=> Numbered(m)
      /\ (/\ pc' \in {"roots", "fuse", "release", "done", "error"}
          /\ j' \in 0 .. M /\ g' \subseteq good \union bad
          /\ work_list' \in Seq(Nodes)) => TypeOK'
  BY <1>1, UntouchedStep
<1>3. node_num' = node_num /\ good' = good /\ bad' = bad /\ n' = n
  BY <1>1 DEF input
<1>4. g \subseteq good \union bad /\ g \subseteq Nodes \X Nodes
  BY DEF IInv, TypeOK
<1>5. /\ work_list \in Seq(Nodes)
      /\ \A p \in 1 .. Len(work_list) : ~Numbered(work_list[p]) /\ NoIncoming(g, work_list[p])
      /\ \A p, r \in 1 .. Len(work_list) : work_list[p] = work_list[r] => p = r
  BY DEF IInv, TypeOK, Queue
<1>6. /\ g' \subseteq g
      /\ \A e \in g : e \notin g' => Numbered(e[1])
  <2>1. CASE <<n, j>> \in g
    <3>1. g' = g \ {<<n, j>>}
      BY <2>1 DEF Release
    <3>2. Numbered(n)
      BY <1>1 DEF IInv, Edges
    <3> QED BY <3>1, <3>2
  <2>2. CASE <<n, j>> \notin g
    BY <2>2 DEF Release
  <2> QED BY <2>1, <2>2
<1>7. /\ work_list' \in Seq(Nodes)
      /\ \A p \in 1 .. Len(work_list') : ~Numbered(work_list'[p]) /\ NoIncoming(g', work_list'[p])
      /\ \A p, r \in 1 .. Len(work_list') : work_list'[p] = work_list'[r] => p = r
  <2>1. CASE <<n, j>> \in g /\ NoIncoming(g', j)
    <3>1. work_list' = Append(work_list, j)
      BY <2>1 DEF Release
    <3>2. ~Numbered(j) /\ n # j /\ n \in Nodes
      BY <2>1, <1>4 DEF IInv, Edges
    <3>3. \A p \in 1 .. Len(work_list) : work_list[p] # j
      BY <2>1, <3>2, <1>5 DEF NoIncoming
    <3>4. \A p \in 1 .. Len(work_list) : NoIncoming(g', work_list[p])
      BY <1>5, <1>6 DEF NoIncoming
    <3>5. /\ work_list' \in Seq(Nodes)
          /\ \A p \in 1 .. Len(work_list') :
               (work_list'[p] = j \/ \E r \in 1 .. Len(work_list) : work_list'[p] = work_list[r])
          /\ \A p, r \in 1 .. Len(work_list') : work_list'[p] = work_list'[r] => p = r
      BY <1>1, <1>5, <3>1, <3>3, AppendNew
    <3> QED BY <1>5, <2>1, <3>2, <3>4, <3>5
  <2>2. CASE ~(<<n, j>> \in g /\ NoIncoming(g', j))
    <3>1. work_list' = work_list
      BY <2>2 DEF Release
    <3> QED BY <3>1, <1>5, <1>6 DEF NoIncoming
  <2> QED BY <2>1, <2>2
<1>8. TypeOK'
  <2>1. j+1 \in 0 .. M
    BY <1>1, MAssumption DEF Nodes
  <2> QED BY <1>1, <1>2, <1>4, <1>6, <1>7, <2>1
<1>9. Queue'
  BY <1>1, <1>3, <1>7 DEF Queue, Numbered
<1>10. Edges' /\ RefusedBeforeFusing'
  BY <1>1, <1>3, <1>4, <1>6 DEF IInv, Edges, RefusedBeforeFusing, Numbered
<1> QED BY <1>2, <1>8, <1>9, <1>10 DEF IInv

\* CheckAcyclic, Released, Return and Finished move only the program counter.
LEMMA ControlStep == IInv /\ (CheckAcyclic \/ Released \/ Return \/ UNCHANGED vars) => IInv'
<1> SUFFICES ASSUME IInv, CheckAcyclic \/ Released \/ Return \/ UNCHANGED vars PROVE IInv'
  OBVIOUS
<1>1. /\ UNCHANGED <<input, n, cant_fuse_with, node_num, chain, s>>
      /\ j' = j /\ g' = g /\ work_list' = work_list
  BY DEF CheckAcyclic, Released, Return, vars, chain, input
<1>2. \/ pc' = pc
      \/ pc = "roots" /\ pc' \in {"error", "fuse"}
      \/ pc = "release" /\ pc' = "fuse"
      \/ pc = "fuse" /\ pc' = "done"
  BY DEF CheckAcyclic, Released, Return, vars
<1>3. /\ Chain' /\ Behind' /\ BadEdgesSeparated' /\ GroupsAreNumbering'
      /\ \A m \in Nodes : Numbered(m)' <=> Numbered(m)
      /\ (/\ pc' \in {"roots", "fuse", "release", "done", "error"}
          /\ j' \in 0 .. M /\ g' \subseteq good \union bad
          /\ work_list' \in Seq(Nodes)) => TypeOK'
  BY <1>1, UntouchedStep
<1>4. TypeOK'
  BY <1>1, <1>2, <1>3 DEF IInv, TypeOK
<1>5. node_num' = node_num /\ good' = good /\ bad' = bad /\ lastnum' = lastnum
  BY <1>1 DEF input, chain
<1>6. Queue' /\ Edges'
  BY <1>1, <1>2, <1>5 DEF IInv, Queue, Edges, Numbered
<1>7. RefusedBeforeFusing'
  BY <1>2, <1>5 DEF IInv, RefusedBeforeFusing, Queue
<1> QED BY <1>3, <1>4, <1>6, <1>7 DEF IInv

LEMMA Invariance == Spec => []IInv
<1>1. IInv /\ [Next]_vars => IInv'
  <2> SUFFICES ASSUME IInv, [Next]_vars PROVE IInv'
    OBVIOUS
  <2>1. CASE QueueRoot
    BY <2>1, QueueRootStep
  <2>2. ASSUME NEW m \in Nodes, JoinGroup(m) PROVE IInv'
    BY <2>2, JoinGroupStep
  <2>3. ASSUME NEW m \in Nodes, OpenFusable(m) PROVE IInv'
    BY <2>3, OpenFusableStep
  <2>4. ASSUME NEW m \in Nodes, OpenAlone(m) PROVE IInv'
    BY <2>4, OpenAloneStep
  <2>5. CASE Release
    BY <2>5, ReleaseStep
  <2>6. CASE CheckAcyclic \/ Released \/ Return \/ Finished \/ UNCHANGED vars
    BY <2>6, ControlStep DEF Finished
  <2> QED BY <2>1, <2>2, <2>3, <2>4, <2>5, <2>6 DEF Next, Step
<1> QED BY <1>1, InitIInv, PTL DEF Spec
-----------------------------------------------------------------------------
(* The invariants of the specification.                                    *)

\* Every variable keeps its type, whatever the graph and the types of its
\* nodes: no group is numbered above M, and the chain, cant_fuse_with and the
\* work list hold only groups and nodes that exist.
THEOREM TypeCorrect == Spec => []TypeOK
<1>1. IInv => TypeOK
  BY DEF IInv
<1> QED BY <1>1, Invariance, PTL

\* No bad edge ever ends in the group it starts in, or in an earlier one.
THEOREM BadEdgesCorrect == Spec => []BadEdgesSeparated
<1>1. IInv => BadEdgesSeparated
  BY DEF IInv
<1> QED BY <1>1, Invariance, PTL

\* The groups and the numbers of the nodes always say the same.
THEOREM GroupsCorrect == Spec => []GroupsAreNumbering
<1>1. IInv => GroupsAreNumbering
  BY DEF IInv
<1> QED BY <1>1, Invariance, PTL

\* update_successors never meets a node that has been placed already.
THEOREM RefusalCorrect == Spec => []RefusedBeforeFusing
<1>1. IInv => RefusedBeforeFusing
  BY DEF IInv
<1> QED BY <1>1, Invariance, PTL

-----------------------------------------------------------------------------
(* No loop is forgotten.                                                   *)

\* Once the graph is known to be acyclic, edges leave only waiting nodes, but
\* for those of n that are still to be released, and a node that waits for
\* nothing is in the queue.
Progress ==
  /\ pc \in {"fuse", "release"} => Acyclic(M, good \union bad)
  /\ pc = "error" => M = 0 \/ ~Acyclic(M, good \union bad)
  /\ \A e \in g : Numbered(e[1]) => pc = "release" /\ e[1] = n /\ j <= e[2]
  /\ \A m \in Nodes : (~Numbered(m) /\ NoIncoming(g, m) /\ (pc = "roots" => m < j)) =>
                         \E p \in 1 .. Len(work_list) : work_list[p] = m
  /\ pc = "roots" => g = good \union bad
  /\ EveryNodePlaced

\* An acyclic graph whose waiting nodes are behind no placed ones has a waiting
\* node that is behind none at all.
LEMMA FirstWaiting ==
  ASSUME IInv, Acyclic(M, good \union bad), NEW m \in Nodes, ~Numbered(m),
         \A e \in g : ~Numbered(e[1])
  PROVE  \E u \in Nodes : ~Numbered(u) /\ NoIncoming(g, u)
<1> DEFINE U == {u \in Nodes : ~Numbered(u)}
<1>1. PICK u \in U : \A a \in U \ {u} : <<a, u>> \notin good \union bad
  <2>1. U \in SUBSET (0 .. M-1) /\ U # {} /\ M \in Nat
    BY MAssumption DEF Nodes
  <2>2. good \union bad \subseteq (0 .. M-1) \X (0 .. M-1)
    BY DEF IInv, TypeOK, Nodes
  <2> HIDE DEF U
  <2> QED BY <2>1, <2>2, AcyclicHasFirst
<1>2. NoIncoming(g, u)
  BY <1>1 DEF NoIncoming, IInv, TypeOK
<1> QED BY <1>2

LEMMA ProgressPlace ==
  ASSUME IInv, Progress, NEW m \in Nodes, NEW k, Placed(m, k)
  PROVE  Progress'
<1>1. /\ pc = "fuse" /\ pc' = "release" /\ g' = g /\ good' = good /\ bad' = bad
      /\ n' = m /\ j' = 0
      /\ \A b \in Nodes : Numbered(b)' <=> Numbered(b) \/ b = m
      /\ work_list # <<>> /\ work_list' = Tail(work_list) /\ m = work_list[1]
  BY DEF Placed
<1>2. \A e \in g' : Numbered(e[1])' => e[1] = n' /\ j' <= e[2]
  <2> SUFFICES ASSUME NEW e \in g, Numbered(e[1])' PROVE e[1] = m /\ 0 <= e[2]
    BY <1>1
  <2>1. e[1] \in Nodes /\ e[2] \in Nodes
    BY DEF IInv, TypeOK
  <2>2. ~Numbered(e[1])
    BY <1>1 DEF Progress
  <2> QED BY <1>1, <2>1, <2>2 DEF Nodes
<1>3. ASSUME NEW b \in Nodes, ~Numbered(b)', NoIncoming(g, b)
      PROVE  \E p \in 1 .. Len(work_list') : work_list'[p] = b
  <2>1. ~Numbered(b) /\ b # m
    BY <1>1, <1>3
  <2>2. PICK q \in 1 .. Len(work_list) : work_list[q] = b
    BY <1>1, <1>3, <2>1 DEF Progress
  <2>3. q # 1
    BY <1>1, <2>1, <2>2
  <2>4. /\ Len(Tail(work_list)) = Len(work_list) - 1
        /\ \A p \in 1 .. Len(Tail(work_list)) : Tail(work_list)[p] = work_list[p+1]
        /\ Len(work_list) \in Nat
    BY <1>1, FrontProperties, LenProperties DEF IInv, TypeOK
  <2>5. q-1 \in 1 .. Len(Tail(work_list)) /\ (q-1)+1 = q
    BY <2>3, <2>4
  <2> QED BY <1>1, <2>2, <2>4, <2>5
<1>4. Acyclic(M, good \union bad)' /\ EveryNodePlaced'
  BY <1>1 DEF Progress, EveryNodePlaced
<1> QED BY <1>1, <1>2, <1>3, <1>4 DEF Progress, NoIncoming

\* The searches append the nodes without incoming edges they come across.
LEMMA Appending ==
  ASSUME IInv, NEW m \in Nodes, NEW yes \in BOOLEAN,
         work_list' = IF yes THEN Append(work_list, m) ELSE work_list
  PROVE  /\ \A b \in Nodes : (\E p \in 1 .. Len(work_list) : work_list[p] = b)
                             => \E p \in 1 .. Len(work_list') : work_list'[p] = b
         /\ yes => \E p \in 1 .. Len(work_list') : work_list'[p] = m
<1>1. work_list \in Seq(Nodes) /\ Len(work_list) \in Nat
  BY LenProperties DEF IInv, TypeOK
<1> DEFINE w == Append(work_list, m)
<1>2. /\ Len(w) = Len(work_list) + 1 /\ w[Len(work_list) + 1] = m
      /\ \A p \in 1 .. Len(work_list) : w[p] = work_list[p]
  BY <1>1, AppendProperties
<1> HIDE DEF w
<1>3. /\ Len(work_list) + 1 \in 1 .. Len(w)
      /\ \A p \in 1 .. Len(work_list) : p \in 1 .. Len(w)
  BY <1>1, <1>2
<1>4. CASE yes
  BY <1>2, <1>3, <1>4 DEF w
<1>5. CASE ~yes
  BY <1>5
<1> QED BY <1>4, <1>5

LEMMA ProgressQueueRoot == IInv /\ Progress /\ QueueRoot => Progress'
<1> SUFFICES ASSUME IInv, Progress, QueueRoot PROVE Progress'
  OBVIOUS
<1>1. /\ pc = "roots" /\ pc' = "roots" /\ j \in Nodes /\ j' = j+1 /\ g' = g
      /\ good' = good /\ bad' = bad /\ node_num' = node_num /\ n' = n
      /\ work_list' = IF NoIncoming(g, j) THEN Append(work_list, j) ELSE work_list
  BY MAssumption DEF QueueRoot, Nodes, IInv, TypeOK, input
<1>2. /\ \A b \in Nodes : (\E p \in 1 .. Len(work_list) : work_list[p] = b)
                          => \E p \in 1 .. Len(work_list') : work_list'[p] = b
      /\ NoIncoming(g, j) => \E p \in 1 .. Len(work_list') : work_list'[p] = j
  <2>1. NoIncoming(g, j) \in BOOLEAN
    BY DEF NoIncoming
  <2> QED BY <1>1, <2>1, Appending
<1>3. \A m \in Nodes : m < j' => m < j \/ m = j
  BY <1>1 DEF Nodes
<1>4. \A e \in g : ~Numbered(e[1])
  BY <1>1 DEF Progress
<1> QED BY <1>1, <1>2, <1>3, <1>4 DEF Progress, Numbered, NoIncoming, EveryNodePlaced

LEMMA ProgressRelease == IInv /\ Progress /\ Release => Progress'
<1> SUFFICES ASSUME IInv, Progress, Release PROVE Progress'
  OBVIOUS
<1>1. /\ pc = "release" /\ pc' = "release" /\ j \in Nodes /\ j' = j+1
      /\ good' = good /\ bad' = bad /\ node_num' = node_num /\ n' = n
  BY MAssumption DEF Release, Nodes, IInv, TypeOK, input
<1>2. g' = g \ {<<n, j>>}
  BY DEF Release
<1>3. work_list' = IF <<n, j>> \in g /\ NoIncoming(g', j) THEN Append(work_list, j) ELSE work_list
  BY DEF Release
<1>4. /\ \A b \in Nodes : (\E p \in 1 .. Len(work_list) : work_list[p] = b)
                          => \E p \in 1 .. Len(work_list') : work_list'[p] = b
      /\ <<n, j>> \in g /\ NoIncoming(g', j) => \E p \in 1 .. Len(work_list') : work_list'[p] = j
  <2>1. (<<n, j>> \in g /\ NoIncoming(g', j)) \in BOOLEAN
    OBVIOUS
  <2> QED BY <1>1, <1>3, <2>1, Appending
<1>5. ASSUME NEW e \in g', Numbered(e[1]) PROVE e[1] = n /\ j+1 <= e[2]
  <2>1. e \in g /\ e # <<n, j>> /\ e[1] = n /\ j <= e[2]
    BY <1>2, <1>5 DEF Progress
  <2>2. e = <<e[1], e[2]>> /\ e[2] \in Nodes
    BY <2>1 DEF IInv, TypeOK
  <2> QED BY <1>1, <2>1, <2>2 DEF Nodes
<1>6. ASSUME NEW m \in Nodes, ~Numbered(m), NoIncoming(g', m)
      PROVE  \E p \in 1 .. Len(work_list') : work_list'[p] = m
  <2>1. CASE NoIncoming(g, m)
    BY <1>1, <1>4, <1>6, <2>1 DEF Progress
  <2>2. CASE ~NoIncoming(g, m)
    <3>1. m = j /\ <<n, j>> \in g
      BY <1>2, <1>6, <2>2 DEF NoIncoming
    <3> QED BY <1>4, <1>6, <3>1
  <2> QED BY <2>1, <2>2
<1> QED BY <1>1, <1>5, <1>6 DEF Progress, Numbered, NoIncoming, EveryNodePlaced

LEMMA ProgressControl ==
  IInv /\ Progress /\ (CheckAcyclic \/ Released \/ Return \/ UNCHANGED vars) => Progress'
<1> SUFFICES ASSUME IInv, Progress, CheckAcyclic \/ Released \/ Return \/ UNCHANGED vars
             PROVE  Progress'
  OBVIOUS
<1>1. /\ good' = good /\ bad' = bad /\ node_num' = node_num /\ n' = n
      /\ j' = j /\ g' = g /\ work_list' = work_list
  BY DEF CheckAcyclic, Released, Return, vars, chain, input
<1>2. CASE UNCHANGED vars
  BY <1>2 DEF vars, input, chain, Progress, Numbered, NoIncoming, EveryNodePlaced
<1>3. CASE CheckAcyclic
  <2>1. /\ pc = "roots" /\ j = M
        /\ pc' = IF work_list = <<>> \/ ~Acyclic(M, good \union bad) THEN "error" ELSE "fuse"
    BY <1>3 DEF CheckAcyclic
  <2>2. \A m \in Nodes : ~Numbered(m) /\ m < j
    BY <2>1, MAssumption DEF IInv, Queue, Nodes
  <2>3. \A e \in g : ~Numbered(e[1])
    BY <2>1 DEF Progress
  <2>4. ASSUME work_list = <<>>, Acyclic(M, good \union bad), M # 0 PROVE FALSE
    <3>1. 0 \in Nodes
      BY <2>4, MAssumption DEF Nodes
    <3>2. PICK u \in Nodes : ~Numbered(u) /\ NoIncoming(g, u)
      BY <2>2, <2>3, <2>4, <3>1, FirstWaiting
    <3>3. \E p \in 1 .. Len(work_list) : work_list[p] = u
      BY <2>2, <3>2 DEF Progress
    <3> QED BY <2>4, <3>3, EmptySeq
  <2> QED BY <1>1, <2>1, <2>2, <2>3, <2>4 DEF Progress, Numbered, NoIncoming, EveryNodePlaced
<1>4. CASE Released
  <2>1. pc = "release" /\ pc' = "fuse" /\ j = M
    BY <1>4 DEF Released
  <2>2. \A e \in g : ~Numbered(e[1])
    <3>1. \A e \in g : e[2] \in Nodes
      BY DEF IInv, TypeOK
    <3> QED BY <2>1, <3>1, MAssumption DEF Progress, Nodes
  <2> QED BY <1>1, <2>1, <2>2 DEF Progress, Numbered, NoIncoming, EveryNodePlaced
<1>5. CASE Return
  <2>1. pc = "fuse" /\ pc' = "done" /\ work_list = <<>>
    BY <1>5 DEF Return
  <2>2. Acyclic(M, good \union bad) /\ \A e \in g : ~Numbered(e[1])
    BY <2>1 DEF Progress
  <2>3. \A m \in Nodes : Numbered(m)
    <3> SUFFICES ASSUME NEW m \in Nodes, ~Numbered(m) PROVE FALSE
      OBVIOUS
    <3>1. PICK u \in Nodes : ~Numbered(u) /\ NoIncoming(g, u)
      BY <2>2, FirstWaiting
    <3>2. \E p \in 1 .. Len(work_list) : work_list[p] = u
      BY <2>1, <3>1 DEF Progress
    <3> QED BY <2>1, <3>2, EmptySeq
  <2> QED BY <1>1, <2>1, <2>2, <2>3 DEF Progress, Numbered, NoIncoming, EveryNodePlaced
<1> QED BY <1>2, <1>3, <1>4, <1>5

LEMMA ProgressInvariance == Spec => []Progress
<1>1. Init => Progress
  <2> SUFFICES ASSUME Init PROVE Progress
    OBVIOUS
  <2>1. /\ pc = "roots" /\ j = 0 /\ g = good \union bad
        /\ \A m \in Nodes : ~Numbered(m)
        /\ \A m \in Nodes : ~(m < j)
    BY DEF Init, Numbered, Nodes
  <2>2. \A e \in g : e[1] \in Nodes
    BY <2>1, InitIInv DEF IInv, TypeOK
  <2> QED BY <2>1, <2>2 DEF Progress, EveryNodePlaced
<1>2. IInv /\ Progress /\ [Next]_vars => Progress'
  <2> SUFFICES ASSUME IInv, Progress, [Next]_vars PROVE Progress'
    OBVIOUS
  <2>1. ASSUME NEW m \in Nodes, JoinGroup(m) PROVE Progress'
    BY <2>1, JoinGroupStep, ProgressPlace
  <2>2. ASSUME NEW m \in Nodes, OpenFusable(m) PROVE Progress'
    BY <2>2, OpenFusableStep, ProgressPlace
  <2>3. ASSUME NEW m \in Nodes, OpenAlone(m) PROVE Progress'
    BY <2>3, OpenAloneStep, ProgressPlace
  <2> QED BY <2>1, <2>2, <2>3, ProgressQueueRoot, ProgressRelease, ProgressControl
          DEF Next, Step, Finished
<1> QED BY <1>1, <1>2, Invariance, PTL DEF Spec

\* When the work list runs dry every loop has been put into a group: of the
\* loops left over one would wait for nothing, and would be on the list.
THEOREM PlacementCorrect == Spec => []EveryNodePlaced
<1>1. Progress => EveryNodePlaced
  BY DEF Progress
<1> QED BY <1>1, ProgressInvariance, PTL

-----------------------------------------------------------------------------
(* Every loop fusable: the numbering is tight.                             *)

\* With every loop fusable a node goes into the group after the last one it
\* may not be in, and the chain and the supporting predecessors stay as Tight
\* describes them.
LEMMA TightStep ==
  ASSUME IInv, FInv, AllFusable, NEW m \in Nodes, Placed(m, cant_fuse_with[m] + 1),
         cant_fuse_with[m] + 1 \in 1 .. M
  PROVE  /\ \A b \in Nodes : Numbered(b)' => node_num'[b] = cant_fuse_with'[b] + 1
         /\ \A a, b \in Nodes :
              (<<a, b>> \in good' /\ Numbered(a)' /\ ~Numbered(b)') =>
                 cant_fuse_with'[a] <= cant_fuse_with'[b]
         /\ \A a, b \in Nodes :
              (<<a, b>> \in good' /\ Numbered(a)' /\ Numbered(b)') =>
                 node_num'[a] <= node_num'[b]
         /\ \A b \in Nodes : ~Numbered(b)' =>
              \/ cant_fuse_with'[b] = 0
              \/ \E a \in Nodes : <<a, b>> \in bad' /\ node_num'[a] = cant_fuse_with'[b]
              \/ \E a \in Nodes : <<a, b>> \in good' /\ node_num'[a] = cant_fuse_with'[b] + 1
<1> DEFINE k == cant_fuse_with[m] + 1
<1>1. /\ ~Numbered(m) /\ good' = good /\ bad' = bad /\ node_num'[m] = k
      /\ \A b \in Nodes : Numbered(b)' <=> Numbered(b) \/ b = m
      /\ \A b \in Nodes : b # m => node_num'[b] = node_num[b]
      /\ \A b \in Nodes : <<m, b>> \in good \union bad => b \in Successors(m)
      /\ \A b \in Nodes : cant_fuse_with'[b] = IF b \in Successors(m)
                                               THEN CantFuseWith(m, k, b)
                                               ELSE cant_fuse_with[b]
  BY DEF Placed
<1>2. \A b \in Nodes : cant_fuse_with[b] \in Nat /\ node_num[b] \in Int
  BY MAssumption DEF IInv, TypeOK
<1>3. \A b \in Nodes : b \in Successors(m) => ~Numbered(b) /\ b # m /\ <<m, b>> \in good \union bad
  <2> SUFFICES ASSUME NEW b \in Nodes, <<m, b>> \in g
               PROVE  ~Numbered(b) /\ b # m /\ <<m, b>> \in good \union bad
    BY DEF Successors
  <2>1. <<m, b>> \in good \union bad
    BY DEF IInv, TypeOK
  <2> QED BY <2>1 DEF IInv, Edges
<1>4. \A b \in Nodes : Numbered(b) \/ b = m => cant_fuse_with'[b] = cant_fuse_with[b]
  BY <1>1, <1>3
<1>5. \A b \in Nodes : /\ cant_fuse_with[b] <= CantFuseWith(m, k, b)
                       /\ CantFuseWith(m, k, b) \in Nat
                       /\ <<m, b>> \notin bad => /\ cant_fuse_with[m] <= CantFuseWith(m, k, b)
                                               /\ CantFuseWith(m, k, b) \in
                                                    {cant_fuse_with[b], cant_fuse_with[m]}
                       /\ <<m, b>> \in bad => /\ cant_fuse_with[m] <= CantFuseWith(m, k, b)
                                             /\ CantFuseWith(m, k, b) \in {cant_fuse_with[b], k}
  BY <1>2 DEF CantFuseWith, Max2, AllFusable
<1> HIDE DEF k
<1>6. \A b \in Nodes : cant_fuse_with'[b] \in Nat /\ cant_fuse_with[b] <= cant_fuse_with'[b]
  <2>1. \A b \in Nodes : cant_fuse_with'[b] \in {CantFuseWith(m, k, b), cant_fuse_with[b]}
    BY <1>1
  <2>2. \A b \in Nodes : cant_fuse_with[b] <= cant_fuse_with[b]
    BY <1>2
  <2> QED BY <1>2, <1>5, <2>1, <2>2
<1>7. \A b \in Nodes : Numbered(b)' => node_num'[b] = cant_fuse_with'[b] + 1
  <2>1. \A b \in Nodes : Numbered(b) => node_num[b] = cant_fuse_with[b] + 1
    BY DEF FInv, Tight
  <2> QED BY <1>1, <1>4, <2>1 DEF k
<1>8. ASSUME NEW a \in Nodes, NEW b \in Nodes, <<a, b>> \in good', Numbered(a)', ~Numbered(b)'
      PROVE  cant_fuse_with'[a] <= cant_fuse_with'[b]
  <2>1. CASE a = m
    BY <2>1, <1>1, <1>4, <1>5, <1>8
  <2>2. CASE a # m
    <3>1. cant_fuse_with[a] <= cant_fuse_with[b] /\ cant_fuse_with'[a] = cant_fuse_with[a]
      BY <2>2, <1>1, <1>4, <1>8 DEF FInv, Tight
    <3> QED BY <3>1, <1>2, <1>6
  <2> QED BY <2>1, <2>2
<1>9. ASSUME NEW b \in Nodes, ~Numbered(b)'
      PROVE  \/ cant_fuse_with'[b] = 0
             \/ \E a \in Nodes : <<a, b>> \in bad' /\ node_num'[a] = cant_fuse_with'[b]
             \/ \E a \in Nodes : <<a, b>> \in good' /\ node_num'[a] = cant_fuse_with'[b] + 1
  <2>1. ~Numbered(b) /\ b # m
    BY <1>1, <1>9
  <2>2. CASE cant_fuse_with'[b] = cant_fuse_with[b]
    <3>1. \/ cant_fuse_with[b] = 0
          \/ \E a \in Nodes : <<a, b>> \in bad /\ node_num[a] = cant_fuse_with[b]
          \/ \E a \in Nodes : <<a, b>> \in good /\ node_num[a] = cant_fuse_with[b] + 1
      BY <2>1 DEF FInv, Tight
    <3>2. CASE cant_fuse_with[b] = 0
      BY <3>2, <2>2
    <3>3. ASSUME NEW a \in Nodes, node_num[a] \in {cant_fuse_with[b], cant_fuse_with[b] + 1}
          PROVE  node_num'[a] = node_num[a]
      <4>1. Numbered(a)
        BY <3>3, <1>2 DEF Numbered
      <4> QED BY <4>1, <1>1
    <3> QED BY <3>1, <3>2, <3>3, <2>2, <1>1
  <2>3. CASE cant_fuse_with'[b] # cant_fuse_with[b]
    <3>1. b \in Successors(m) /\ cant_fuse_with'[b] = CantFuseWith(m, k, b)
      BY <2>3, <1>1
    <3>2. CASE <<m, b>> \in bad
      BY <3>1, <3>2, <2>3, <1>1, <1>5
    <3>3. CASE <<m, b>> \notin bad
      <4>1. <<m, b>> \in good' /\ cant_fuse_with'[b] = cant_fuse_with[m]
        BY <3>1, <3>3, <2>3, <1>1, <1>3, <1>5
      <4>2. node_num'[m] = cant_fuse_with'[b] + 1
        BY <4>1, <1>1 DEF k
      <4> QED BY <4>1, <4>2
    <3> QED BY <3>2, <3>3
  <2> QED BY <2>2, <2>3
<1>10. ASSUME NEW a \in Nodes, NEW b \in Nodes, <<a, b>> \in good', Numbered(a)', Numbered(b)'
       PROVE  node_num'[a] <= node_num'[b]
  <2>1. <<a, b>> \in good /\ a # b
    BY <1>1, <1>10 DEF IInv, Edges
  <2>2. CASE a = m
    <3>1. ~Numbered(b)
      BY <2>1, <2>2, <1>1, <1>3
    <3> QED BY <2>1, <2>2, <3>1, <1>1, <1>10
  <2>3. CASE b = m
    <3>1. cant_fuse_with[a] <= cant_fuse_with[m] /\ node_num'[a] = cant_fuse_with[a] + 1
      BY <2>1, <2>3, <1>1, <1>10 DEF FInv, Tight
    <3> QED BY <2>3, <3>1, <1>1, <1>2 DEF k
  <2>4. CASE a # m /\ b # m
    BY <2>1, <2>4, <1>1, <1>10 DEF FInv, Tight
  <2> QED BY <2>2, <2>3, <2>4
<1> QED BY <1>7, <1>8, <1>9, <1>10

\* What the remaining steps leave alone is all that Tight speaks of.
LEMMA TightUntouched ==
  ASSUME FInv, UNCHANGED <<input, cant_fuse_with, node_num, chain>>
  PROVE  FInv'
  BY DEF FInv, AllFusable, Tight, Numbered, input, chain

LEMMA TightJoin ==
  ASSUME IInv, FInv, AllFusable, NEW m \in Nodes, JoinGroup(m)
  PROVE  FInv' /\ Placed(m, cant_fuse_with[m] + 1) /\ cant_fuse_with[m] + 1 \in 1 .. M
<1>1. Placed(m, Target(m)) /\ Target(m) \in 1 .. M /\ UNCHANGED chain
  BY JoinGroupStep
<1>2. Target(m) # 0 /\ Tight
  BY DEF JoinGroup, FInv
<1>3. cant_fuse_with[m] \in 0 .. lastnum /\ lastnum \in 0 .. M-1
  <2>1. cant_fuse_with[m] <= lastnum /\ cant_fuse_with[m] \in 0 .. M
    BY DEF IInv, Chain, TypeOK
  <2>2. lastnum \in 0 .. M-1
    BY <1>1, RoomForGroup DEF Placed
  <2> QED BY <2>1, <2>2, MAssumption
<1>4. Target(m) = cant_fuse_with[m] + 1
  <2>1. cant_fuse_with[m] \in Nodes
    BY <1>3, MAssumption DEF Nodes
  <2>2. next[cant_fuse_with[m]] = IF 0 < cant_fuse_with[m] /\ cant_fuse_with[m] < lastnum
                                  THEN cant_fuse_with[m]+1 ELSE 0
    BY <1>2, <2>1 DEF Tight
  <2>3. fused = IF lastnum = 0 THEN 0 ELSE 1
    BY <1>2 DEF Tight
  <2>4. Target(m) = IF cant_fuse_with[m] = 0 THEN fused ELSE next[cant_fuse_with[m]]
    BY DEF Target
  <2> QED BY <1>2, <1>3, <2>2, <2>3, <2>4
<1>5. /\ Placed(m, cant_fuse_with[m] + 1) /\ cant_fuse_with[m] + 1 \in 1 .. M
  BY <1>1, <1>4
<1>6. next' = next /\ fused' = fused /\ lastfused' = lastfused /\ lastnum' = lastnum
  BY <1>1 DEF chain
<1>7. Tight'
  BY <1>2, <1>5, <1>6, TightStep DEF Tight
<1> QED BY <1>5, <1>7 DEF FInv

LEMMA TightOpen ==
  ASSUME IInv, FInv, AllFusable, NEW m \in Nodes, OpenFusable(m)
  PROVE  FInv' /\ Placed(m, cant_fuse_with[m] + 1) /\ cant_fuse_with[m] + 1 \in 1 .. M
<1>1. Placed(m, lastnum+1) /\ lastnum \in 0 .. M-1 /\ lastnum' = lastnum+1
  BY OpenFusableStep
<1>2. Target(m) = 0 /\ Tight
  BY DEF OpenFusable, FInv
<1>3. cant_fuse_with[m] \in 0 .. lastnum
  BY <1>1, MAssumption DEF IInv, Chain, TypeOK
<1>4. lastnum = cant_fuse_with[m]
  <2>1. cant_fuse_with[m] \in Nodes
    BY <1>1, <1>3, MAssumption DEF Nodes
  <2>2. next[cant_fuse_with[m]] = IF 0 < cant_fuse_with[m] /\ cant_fuse_with[m] < lastnum
                                  THEN cant_fuse_with[m]+1 ELSE 0
    BY <1>2, <2>1 DEF Tight
  <2>3. fused = IF lastnum = 0 THEN 0 ELSE 1
    BY <1>2 DEF Tight
  <2>4. Target(m) = IF cant_fuse_with[m] = 0 THEN fused ELSE next[cant_fuse_with[m]]
    BY DEF Target
  <2> QED BY <1>1, <1>2, <1>3, <2>2, <2>3, <2>4
<1>5. Placed(m, cant_fuse_with[m] + 1) /\ cant_fuse_with[m] + 1 \in 1 .. M
  BY <1>1, <1>4, MAssumption
<1>6. /\ \A k \in Nodes : next'[k] = IF 0 < k /\ k < lastnum' THEN k+1 ELSE 0
      /\ fused' = IF lastnum' = 0 THEN 0 ELSE 1
      /\ lastfused' = lastnum'
  <2>1. /\ lastfused = lastnum /\ lastfused' = lastnum+1
        /\ fused = IF lastnum = 0 THEN 0 ELSE 1
        /\ \A k \in Nodes : next[k] = IF 0 < k /\ k < lastnum THEN k+1 ELSE 0
    BY <1>2 DEF Tight, OpenFusable
  <2>2. next \in [Nodes -> 0 .. M]
    BY DEF IInv, TypeOK
  <2>3. CASE lastnum = 0
    <3>1. next' = next /\ fused' = 1
      BY <2>1, <2>3 DEF OpenFusable
    <3>2. \A k \in Nodes : ~(0 < k /\ k < 1) /\ ~(0 < k /\ k < 0)
      BY MAssumption DEF Nodes
    <3>3. \A k \in Nodes : next'[k] = 0
      BY <2>1, <2>3, <3>1, <3>2
    <3>4. lastnum' = 1
      BY <2>3, <1>1
    <3> QED BY <2>1, <2>3, <3>1, <3>2, <3>3, <3>4
  <2>4. CASE lastnum # 0
    <3>1. next' = [next EXCEPT ![lastnum] = lastnum+1] /\ fused' = fused
      BY <2>1, <2>4 DEF OpenFusable
    <3>2. \A k \in Nodes : next'[k] = IF k = lastnum THEN lastnum+1 ELSE next[k]
      BY <2>2, <3>1
    <3>3. \A k \in Nodes : k \in 0 .. M-1
      BY DEF Nodes
    <3> QED BY <2>1, <2>4, <3>1, <3>2, <3>3, <1>1, MAssumption
  <2> QED BY <2>3, <2>4
<1>7. Tight'
  BY <1>5, <1>6, TightStep DEF Tight
<1> QED BY <1>5, <1>7 DEF FInv

LEMMA TightInvariance == Spec => [](IInv /\ FInv)
<1>1. Init => FInv
  BY DEF Init, FInv, Tight, Numbered
<1>2. IInv /\ FInv /\ [Next]_vars => FInv'
  <2> SUFFICES ASSUME IInv, FInv, [Next]_vars PROVE FInv'
    OBVIOUS
  <2>1. CASE UNCHANGED <<input, cant_fuse_with, node_num, chain>>
    BY <2>1, TightUntouched
  <2>2. ASSUME NEW m \in Nodes, JoinGroup(m) \/ OpenFusable(m) \/ OpenAlone(m)
        PROVE  FInv'
    <3>1. types' = types
      BY <2>2 DEF JoinGroup, OpenFusable, OpenAlone, Take, input
    <3>2. CASE ~AllFusable
      BY <3>1, <3>2 DEF FInv, AllFusable
    <3>3. CASE AllFusable
      <4>1. ~OpenAlone(m)
        BY <3>3 DEF OpenAlone, AllFusable
      <4> QED BY <2>2, <3>3, <4>1, TightJoin, TightOpen
    <3> QED BY <3>2, <3>3
  <2> QED BY <2>1, <2>2 DEF Next, Step, QueueRoot, CheckAcyclic, Release, Released,
                            Return, Finished, vars
<1> QED BY <1>1, <1>2, Invariance, PTL DEF Spec

\* A good edge never goes back to an earlier group where every loop may be
\* fused: the order setLexicalOrder derives from the groups keeps it.
THEOREM GoodEdgesCorrect == Spec => []GoodEdgesOrdered
<1>1. IInv /\ FInv => GoodEdgesOrdered
  BY DEF FInv, Tight, GoodEdgesOrdered
<1> QED BY <1>1, TightInvariance, PTL

-----------------------------------------------------------------------------
(* The numbering is a plan.                                                *)

\* The groups that may be joined hold nodes that may be fused.
Shared == /\ fused # 0 => \A a \in Nodes : node_num[a] = fused => types[a]
          /\ \A k \in Nodes : next[k] # 0 => \A a \in Nodes : node_num[a] = next[k] => types[a]

LEMMA SharedStep ==
  ASSUME IInv, Shared, NEW m \in Nodes, JoinGroup(m) \/ OpenFusable(m) \/ OpenAlone(m)
  PROVE  /\ Shared'
         /\ \E k \in 1 .. M : /\ Placed(m, k)
                              /\ \A a \in Nodes : node_num[a] = k => types[a] /\ types[m]
<1>1. /\ \A a \in Nodes : node_num[a] = -1 \/ node_num[a] \in 1 .. lastnum
      /\ fused \in 0 .. lastnum /\ lastnum \in Int
      /\ \A k \in Nodes : next[k] \in 0 .. lastnum
      /\ next \in [Nodes -> 0 .. M]
  BY MAssumption DEF IInv, TypeOK, Chain, Numbered
<1>2. CASE JoinGroup(m)
  <2>1. Placed(m, Target(m)) /\ Target(m) \in 1 .. M /\ UNCHANGED chain
    BY <1>2, JoinGroupStep
  <2>2. types[m] /\ Target(m) # 0
    BY <1>2 DEF JoinGroup
  <2>3. \A a \in Nodes : node_num[a] = Target(m) => types[a]
    <3>1. CASE cant_fuse_with[m] = 0
      BY <2>2, <3>1 DEF Target, Shared
    <3>2. CASE cant_fuse_with[m] # 0
      <4>1. cant_fuse_with[m] \in 0 .. M /\ cant_fuse_with[m] <= lastnum /\ lastnum <= M
        BY DEF IInv, TypeOK, Chain
      <4>2. lastnum < M
        <5>1. ~Numbered(m)
          BY <2>1 DEF Placed
        <5>2. lastnum \in 0 .. M-1
          BY <5>1, RoomForGroup
        <5> QED BY <5>2, MAssumption
      <4>3. cant_fuse_with[m] \in Nodes
        BY <4>1, <4>2, <1>1, MAssumption DEF Nodes
      <4> QED BY <2>2, <3>2, <4>3 DEF Target, Shared
    <3> QED BY <3>1, <3>2
  <2>4. /\ fused' = fused /\ next' = next /\ types' = types
        /\ \A a \in Nodes : a = m \/ node_num'[a] = node_num[a]
    BY <2>1 DEF Placed, chain
  <2>5. Shared'
    BY <2>2, <2>4 DEF Shared
  <2> QED BY <2>1, <2>2, <2>3, <2>5
<1>3. CASE OpenFusable(m) \/ OpenAlone(m)
  <2>1. Placed(m, lastnum+1) /\ lastnum \in 0 .. M-1
    <3>1. CASE OpenFusable(m)
      BY <3>1, OpenFusableStep
    <3>2. CASE OpenAlone(m)
      BY <3>2, OpenAloneStep
    <3> QED BY <1>3, <3>1, <3>2
  <2>2. /\ types' = types
        /\ \A a \in Nodes : a = m \/ node_num'[a] = node_num[a]
        /\ node_num'[m] = lastnum+1
    BY <2>1 DEF Placed
  <2>3. \A a \in Nodes : node_num[a] # lastnum+1
    BY <1>1
  <2>4. \A a \in Nodes : node_num'[a] = lastnum+1 => a = m
    BY <2>2, <2>3
  <2>5. CASE OpenFusable(m)
    <3>1. types[m]
      BY <2>5 DEF OpenFusable
    <3>2. fused' = lastnum+1 \/ fused' = fused
      BY <2>5 DEF OpenFusable
    <3>3. \A k \in Nodes : next'[k] = lastnum+1 \/ next'[k] = next[k]
      BY <2>5, <1>1 DEF OpenFusable
    <3>4. \A t \in 0 .. lastnum : \A a \in Nodes : node_num'[a] = t => node_num[a] = t
      BY <2>2, <1>1
    <3> QED BY <2>1, <2>2, <2>3, <2>4, <3>1, <3>2, <3>3, <3>4, <1>1, MAssumption DEF Shared
  <2>6. CASE OpenAlone(m)
    <3>1. fused' = fused /\ next' = next
      BY <2>6 DEF OpenAlone
    <3>2. \A t \in 0 .. lastnum : \A a \in Nodes : node_num'[a] = t => node_num[a] = t
      BY <2>2, <1>1
    <3> QED BY <2>1, <2>2, <2>3, <3>1, <3>2, <1>1, MAssumption DEF Shared
  <2> QED BY <1>3, <2>5, <2>6
<1> QED BY <1>2, <1>3

LEMMA SharedInvariance == Spec => []Shared
<1>1. Init => Shared
  BY DEF Init, Shared
<1>2. IInv /\ Shared /\ [Next]_vars => Shared'
  <2> SUFFICES ASSUME IInv, Shared, [Next]_vars PROVE Shared'
    OBVIOUS
  <2>1. CASE UNCHANGED <<input, node_num, chain>>
    BY <2>1 DEF Shared, input, chain
  <2>2. ASSUME NEW m \in Nodes, JoinGroup(m) \/ OpenFusable(m) \/ OpenAlone(m)
        PROVE  Shared'
    BY <2>2, SharedStep
  <2> QED BY <2>1, <2>2 DEF Next, Step, QueueRoot, CheckAcyclic, Release, Released,
                            Return, Finished, vars
<1> QED BY <1>1, <1>2, Invariance, PTL DEF Spec

\* With every loop fusable the group is the first that the edges allow.
LEMMA FirstGroup ==
  ASSUME IInv, FInv, AllFusable, NEW m \in Nodes,
         JoinGroup(m) \/ OpenFusable(m) \/ OpenAlone(m)
  PROVE  \A k \in 1 .. M : Placed(m, k) => Plan!AfterGood(k, m) /\ Plan!Earliest(k, m)
<1> DEFINE c == cant_fuse_with[m] + 1
<1>1. Placed(m, c) /\ c \in 1 .. M
  <2>1. ~OpenAlone(m)
    BY DEF OpenAlone, AllFusable
  <2> QED BY <2>1, TightJoin, TightOpen
<1>2. ~Numbered(m) /\ NoIncoming(g, m)
  BY <1>1 DEF Placed
<1>3. \A a \in Nodes : <<a, m>> \in good \union bad => Numbered(a)
  BY <1>2 DEF IInv, Edges, NoIncoming
<1>4. \A a \in Nodes : cant_fuse_with[a] \in Nat /\ node_num[a] \in Int
  BY MAssumption DEF IInv, TypeOK
<1>5. \A a \in Nodes : <<a, m>> \in good => node_num[a] <= c
  <2>1. \A a \in Nodes : <<a, m>> \in good =>
           cant_fuse_with[a] <= cant_fuse_with[m] /\ node_num[a] = cant_fuse_with[a] + 1
    BY <1>2, <1>3 DEF FInv, Tight
  <2> QED BY <1>4, <2>1
<1>6. \/ c = 1
      \/ \E a \in Nodes : <<a, m>> \in bad /\ node_num[a] = c-1
      \/ \E a \in Nodes : <<a, m>> \in good /\ node_num[a] = c
  <2>1. \/ cant_fuse_with[m] = 0
        \/ \E a \in Nodes : <<a, m>> \in bad /\ node_num[a] = cant_fuse_with[m]
        \/ \E a \in Nodes : <<a, m>> \in good /\ node_num[a] = cant_fuse_with[m] + 1
    BY <1>2 DEF FInv, Tight
  <2>2. c-1 = cant_fuse_with[m] /\ (cant_fuse_with[m] = 0 => c = 1)
    BY <1>4
  <2> QED BY <2>1, <2>2
<1>7. \A k \in 1 .. M : Placed(m, k) => k = c
  BY <1>1 DEF Placed
<1> HIDE DEF c
<1> QED BY <1>5, <1>6, <1>7 DEF Plan!AfterGood, Plan!Earliest, Plan!Nodes, Nodes

\* Each turn of the work loop is a step of the plan, whatever the types: the
\* loop goes behind its bad edges and is not fused unless its group may be,
\* and where every loop may be fused into the earliest group that its
\* dependences allow.
THEOREM PlanCorrect == Spec => FollowsPlan
<1>1. Init => Plan!Init
  BY DEF Init, Plan!Init, Plan!Nodes, Nodes
<1>2. IInv /\ FInv /\ Shared /\ BadEdgesSeparated' /\ [Next]_vars => [Plan!Next]_(Plan!vars)
  <2> SUFFICES ASSUME IInv, FInv, Shared, BadEdgesSeparated', [Next]_vars
               PROVE  [Plan!Next]_(Plan!vars)
    OBVIOUS
  <2>1. CASE UNCHANGED <<input, node_num>>
    BY <2>1 DEF Plan!vars, input
  <2>2. ASSUME NEW m \in Nodes, JoinGroup(m) \/ OpenFusable(m) \/ OpenAlone(m)
        PROVE  Plan!Place(m)
    <3>1. PICK k \in 1 .. M : /\ Placed(m, k)
                              /\ \A a \in Nodes : node_num[a] = k => types[a] /\ types[m]
      BY <2>2, SharedStep
    <3>2. /\ ~Numbered(m) /\ NoIncoming(g, m) /\ node_num' = [node_num EXCEPT ![m] = k]
          /\ good' = good /\ bad' = bad /\ types' = types
          /\ node_num'[m] = k /\ Numbered(m)'
          /\ \A a \in Nodes : Numbered(a) => Numbered(a)' /\ a # m /\ node_num'[a] = node_num[a]
      BY <3>1 DEF Placed
    <3>3. \A a \in Nodes : <<a, m>> \in good \union bad => Numbered(a)
      BY <3>2 DEF IInv, Edges, NoIncoming
    <3>4. \A a \in Nodes : <<a, m>> \in bad => node_num[a] < k
      <4> SUFFICES ASSUME NEW a \in Nodes, <<a, m>> \in bad PROVE node_num[a] < k
        OBVIOUS
      <4>1. Numbered(a)' /\ node_num'[a] = node_num[a]
        BY <3>2, <3>3
      <4>2. node_num'[a] < node_num'[m]
        BY <3>2, <4>1 DEF BadEdgesSeparated
      <4> QED BY <3>2, <4>1, <4>2
    <3>5. Plan!AllFusable => Plan!AfterGood(k, m) /\ Plan!Earliest(k, m)
      BY <2>2, <3>1, FirstGroup DEF Plan!AllFusable, AllFusable, Plan!Nodes, Nodes
    <3> QED BY <3>1, <3>2, <3>3, <3>4, <3>5
            DEF Plan!Place, Plan!Placed, Plan!AfterBad, Plan!MayShare, Plan!Nodes, Nodes,
                Numbered
  <2> QED BY <2>1, <2>2 DEF Next, Step, QueueRoot, CheckAcyclic, Release, Released,
                            Return, Finished, vars, Plan!Next, Plan!Nodes, Nodes
<1> QED BY <1>1, <1>2, TightInvariance, SharedInvariance, BadEdgesCorrect, PTL
        DEF Spec, FollowsPlan, Plan!Spec

-----------------------------------------------------------------------------
(* The graph that the vectors of the statements induce.                    *)

\* The graph stays the one that was made from the vectors.
GraphOfDep == /\ dep \in Programs
              /\ types \in TypeVectors
              /\ good = GoodEdges /\ bad = BadEdges

LEMMA InputConstant ==
  Next => UNCHANGED input
PROOF
  BY DEF Next, Step, Finished, QueueRoot, CheckAcyclic, JoinGroup, OpenFusable, OpenAlone,
         Take, Release, Released, Return, input, vars

\* The vectors do not change while typed_fusion runs, and its two kinds of edges
\* remain those that the vectors of the statements induce.
THEOREM GraphCorrect == SpecInduced => []GraphOfDep
PROOF
<1>1. InitInduced => GraphOfDep
  BY DEF InitInduced, InitDep, Init, GraphOfDep
<1>2. GraphOfDep /\ [NextInduced]_<<vars, dep>> => GraphOfDep'
  <2> SUFFICES ASSUME GraphOfDep, [NextInduced]_<<vars, dep>>
               PROVE  GraphOfDep'
    OBVIOUS
  <2>1. dep' = dep /\ good' = good /\ bad' = bad /\ types' = types
    BY InputConstant DEF NextInduced, input, vars
  <2> QED
    BY <2>1 DEF GraphOfDep, GoodEdges, BadEdges, Carried, Negative
<1> QED
  BY <1>1, <1>2, PTL DEF SpecInduced

LEMMA InducedImpliesSpec == SpecInduced => Spec
PROOF
<1>1. InitInduced => Init
  BY DEF InitInduced
<1>2. [NextInduced]_<<vars, dep>> => [Next]_vars
  BY DEF NextInduced
<1> QED
  BY <1>1, <1>2, PTL DEF SpecInduced, Spec

\* The argument for one dependence: it has an edge, a bad one if its distance
\* may be negative, and the edge is kept.
LEMMA EdgesKeepDependences ==
  ASSUME GraphOfDep, AllFusable, TypeOK, GoodEdgesOrdered, BadEdgesSeparated
  PROVE  CarriedDependencesKept
PROOF
<1> SUFFICES ASSUME NEW p \in LoopPairs, NEW dv \in Between(p),
                    dv.lb[DepDim] # 0 \/ dv.ub[DepDim] # 0,
                    Numbered(p[1]), Numbered(p[2])
             PROVE  \/ node_num[p[1]] < node_num[p[2]]
                    \/ node_num[p[1]] = node_num[p[2]] /\ dv.lb[DepDim] >= 0
  BY DEF CarriedDependencesKept, Kept
<1>1. p[1] \in Nodes /\ p[2] \in Nodes /\ p = <<p[1], p[2]>>
  BY DEF LoopPairs
<1>2. dv \in dep[p] /\ ~HasBeenCarriedBefore(dv, DepDim)
  BY DEF Between
<1>3. DepDim \in DOMAIN dv.lb
  BY <1>2, ProgramsAssumption DEF GraphOfDep
<1>4. Carried(p)
  BY <1>2, <1>3 DEF Carried, HasBeenCarriedAt
<1>5. CASE Negative(p)
  <2>1. <<p[1], p[2]>> \in bad
    BY <1>1, <1>5 DEF GraphOfDep, BadEdges
  <2> QED
    BY <1>1, <2>1 DEF BadEdgesSeparated
<1>6. CASE ~Negative(p)
  <2>1. <<p[1], p[2]>> \in good
    BY <1>1, <1>4, <1>6 DEF GraphOfDep, GoodEdges
  <2>2. node_num[p[1]] <= node_num[p[2]]
    BY <1>1, <2>1 DEF GoodEdgesOrdered
  <2>3. ~(dv.lb[DepDim] < 0)
    BY <1>2, <1>3, <1>6 DEF Negative, HasNegativeBeenCarriedAt
  <2>4. dv.lb[DepDim] \in Int
    BY <1>2, <1>3, ProgramsAssumption DEF GraphOfDep
  <2>5. node_num[p[1]] \in Int /\ node_num[p[2]] \in Int
    BY <1>1 DEF TypeOK
  <2> QED
    BY <2>2, <2>3, <2>4, <2>5
<1> QED
  BY <1>5, <1>6

\* Every dependence with a distance other than zero at the level that
\* setLexicalOrder fuses keeps its direction.
THEOREM CarriedKept ==
  ASSUME \A t \in TypeVectors : \A m \in Nodes : t[m]
  PROVE  SpecInduced => []CarriedDependencesKept
PROOF
<1>1. GraphOfDep => AllFusable
  BY DEF GraphOfDep, AllFusable
<1>2. GraphOfDep /\ TypeOK /\ GoodEdgesOrdered /\ BadEdgesSeparated => CarriedDependencesKept
  BY <1>1, EdgesKeepDependences
<1> QED
  BY <1>2, GraphCorrect, InducedImpliesSpec, TypeCorrect, GoodEdgesCorrect, BadEdgesCorrect, PTL

-----------------------------------------------------------------------------
(* Legal programs are not refused.                                         *)

Ordered == {p \in LoopPairs : Between(p) # {}}

\* The dependences between the loops agree with the order they ran in.
Legal == GraphOfDep /\ Acyclic(M, Ordered)

\* Both kinds of edges are made from vectors that no outer loop carries, so
\* there are no more of them than pairs of loops that must be ordered.
LEMMA EdgesOrdered ==
  ASSUME Legal
  PROVE  /\ \A p \in LoopPairs : Carried(p) => p \in Ordered
         /\ Acyclic(M, good \union bad)
         /\ ~BothWays
PROOF
<1>1. \A p \in LoopPairs : Carried(p) => p \in Ordered
  BY DEF Carried, HasBeenCarriedAt, Between, Ordered
<1>2. \A p \in LoopPairs : Negative(p) => p \in Ordered
  BY DEF Negative, HasNegativeBeenCarriedAt, Between, Ordered
<1>3. good \union bad \subseteq Ordered
  BY <1>1, <1>2 DEF Legal, GraphOfDep, GoodEdges, BadEdges
<1>4. Ordered \subseteq (0 .. M-1) \X (0 .. M-1) /\ M \in Nat /\ Acyclic(M, Ordered)
  BY MAssumption DEF Ordered, LoopPairs, Nodes, Legal
<1>5. Acyclic(M, good \union bad)
  BY <1>3, <1>4, AcyclicPart
<1>6. ASSUME NEW p \in LoopPairs, Carried(p), Carried(<<p[2], p[1]>>) PROVE FALSE
  <2>1. /\ p[1] \in 0 .. M-1 /\ p[2] \in 0 .. M-1 /\ p[1] # p[2] /\ p = <<p[1], p[2]>>
        /\ <<p[2], p[1]>> \in LoopPairs
    BY DEF LoopPairs, Nodes
  <2>2. <<p[1], p[2]>> \in Ordered /\ <<p[2], p[1]>> \in Ordered
    BY <1>1, <1>6, <2>1
  <2>3. Ordered \subseteq Paths(M, Ordered)
    BY <1>4, PathsTransitive
  <2> QED
    BY <1>4, <2>1, <2>2, <2>3 DEF Acyclic
<1> QED
  BY <1>1, <1>5, <1>6 DEF BothWays

\* construct_induced_graph_at_level meets no two loops that depend on each
\* other, and typed_fusion throws nothing, on loops that ran one after another.
THEOREM LegalAccepted ==
  ASSUME M > 0
  PROVE  SpecInduced => []LegalNotRefused
PROOF
<1>1. InitInduced => Acyclic(M, Ordered)
  BY DEF InitInduced, InitDep, Ordered
<1>2. Acyclic(M, Ordered) /\ [NextInduced]_<<vars, dep>> => Acyclic(M, Ordered)'
  BY DEF NextInduced, Ordered, Between, Acyclic
<1>3. SpecInduced => []Legal
  BY <1>1, <1>2, GraphCorrect, PTL DEF SpecInduced, Legal
<1>4. Legal /\ Progress => LegalNotRefused
  BY EdgesOrdered DEF Progress, LegalNotRefused
<1> QED
  BY <1>3, <1>4, InducedImpliesSpec, ProgressInvariance, PTL
=============================================================================

-------------------------- MODULE DistributeProofs --------------------------
(***************************************************************************)
(* distribute, for every number of statements, every set of dependences    *)
(* and every layout of the statements around the loop: no dependence is    *)
(* broken as long as the statements that are not asked for do not depend   *)
(* on each other, the second sort has nothing to do, only cycles are       *)
(* refused and the statements outside keep their order.                    *)
(***************************************************************************)
EXTENDS Distribute, OperatorProofs, FiniteSetTheorems

-----------------------------------------------------------------------------
(* The inductive invariant.                                                *)

\* The types, and what the inputs are.
Types ==
  /\ carried \subseteq SameLoop \X SameLoop
  /\ stmt_nums \subseteq SameLoop /\ stmt_nums # {}
  /\ UnselectedDependences \/ \A p \in carried : p[1] \in stmt_nums \/ p[2] \in stmt_nums
  /\ pc \in {"sort", "select", "associate", "done", "refused"}
  /\ s \in Seq(SUBSET SameLoop) /\ s3 \in Seq(SUBSET SameLoop) /\ i \in Nat

\* The distributed loop is where it was and the other statements are around it.
Places ==
  /\ placeBefore = [a \in DOMAIN placeBefore |-> placeBefore[a]]
  /\ SameLoop \subseteq DOMAIN placeBefore
  /\ \A a \in SameLoop : placeBefore[a] = LoopPlace
  /\ \A a \in DOMAIN placeBefore \ SameLoop : placeBefore[a] \in (Int \X Int) \ {LoopPlace}
  /\ pc # "done" => place = placeBefore

\* The components come out once, none before one it depends on.
SortInv ==
  /\ \A k \in DOMAIN s : s[k] \in Components(N, carried)
  /\ \A j, k \in DOMAIN s : \A a \in SameLoop : a \in s[j] /\ a \in s[k] => j = k
  /\ \A p \in carried, k \in DOMAIN s :
       p[2] \in s[k] => \E j \in DOMAIN s : j <= k /\ p[1] \in s[j]
  /\ pc # "sort" => \A a \in SameLoop : \E k \in DOMAIN s : a \in s[k]

\* Statements asked for that are in different loops are from different
\* components, in the order of these.
InOrder ==
  \A j, m \in DOMAIN s3 : \A a \in s3[j] \intersect stmt_nums, b \in s3[m] \intersect stmt_nums :
    \A k, l \in DOMAIN s : j < m /\ a \in s[k] /\ b \in s[l] => k < l

\* What the components before i have of the statements asked for is in s3.
SelectInv ==
  pc \in {"select", "refused"} =>
    /\ 1 <= i /\ i <= Len(s) + 1
    /\ \A j \in DOMAIN s3 : /\ s3[j] \subseteq stmt_nums
                            /\ \E k \in DOMAIN s : k < i /\ s3[j] \subseteq s[k]
    /\ \A k \in DOMAIN s : \A a \in s[k] \intersect stmt_nums :
         k < i => \E j \in DOMAIN s3 : a \in s3[j]

\* All the statements asked for are in s3, and of the others those before i.
AssociateInv ==
  pc = "associate" =>
    /\ i <= N /\ Len(s3) > 1
    /\ \A a \in stmt_nums : \E j \in DOMAIN s3 : a \in s3[j]
    /\ \A a \in SameLoop \ stmt_nums : a < i <=> \E j \in DOMAIN s3 : a \in s3[j]

\* No dependence leads to a loop further up.
EdgeOrder ==
  pc = "associate" /\ ~UnselectedDependences =>
    \A p \in carried : \A j, k \in DOMAIN s3 : p[1] \in s3[j] /\ p[2] \in s3[k] => j <= k

DInv == /\ Types /\ Places /\ SortInv /\ (pc # "sort" => InOrder) /\ SelectInv
        /\ AssociateInv /\ EdgeOrder /\ (pc = "sort" => s3 = <<>>)
        /\ RefusedOnlyForCycle
        /\ (~UnselectedDependences => DependencesPreserved) /\ OthersKeepTheirOrder

-----------------------------------------------------------------------------
(* Lemmas.                                                                 *)

LEMMA SameComponents == Sorting!Components(N, carried) = Components(N, carried)
  BY DEF Sorting!Components, Sorting!Paths, Components, Paths

LEMMA ComponentFacts ==
  ASSUME Types
  PROVE  /\ \A C \in Components(N, carried) : C \subseteq SameLoop /\ C # {}
         /\ \A C, D \in Components(N, carried) : C \intersect D # {} => C = D
<1>1. N \in Nat /\ carried \subseteq (0 .. N-1) \X (0 .. N-1)
  BY NAssumption DEF Types, SameLoop
<1>2. /\ UNION Components(N, carried) = SameLoop
      /\ {} \notin Components(N, carried)
      /\ \A C, D \in Components(N, carried) : C \intersect D # {} => C = D
  BY <1>1, ComponentsPartition, Zenon DEF SameLoop
<1> QED
  BY <1>2

\* Along a dependence the components do not go back.
LEMMA Forward ==
  ASSUME Types, SortInv, NEW p \in carried, NEW k \in DOMAIN s, NEW l \in DOMAIN s,
         p[1] \in s[k], p[2] \in s[l]
  PROVE  k <= l
<1>1. p[1] \in SameLoop
  BY DEF Types
<1>2. PICK j \in DOMAIN s : j <= l /\ p[1] \in s[j]
  BY DEF SortInv
<1>3. j = k
  BY <1>1, <1>2 DEF SortInv
<1> QED
  BY <1>2, <1>3

\* Neither do the loops, from one statement asked for to another that depends
\* on it, or on a statement that depends on it.
LEMMA SelectedForward ==
  ASSUME Types, SortInv, InOrder, pc # "sort",
         NEW j \in DOMAIN s3, NEW m \in DOMAIN s3,
         NEW a \in s3[j] \intersect stmt_nums, NEW b \in s3[m] \intersect stmt_nums,
         \/ <<a, b>> \in carried
         \/ \E c \in SameLoop : <<a, c>> \in carried /\ <<c, b>> \in carried
  PROVE  j <= m
<1>1. a \in SameLoop /\ b \in SameLoop
  BY DEF Types
<1>2. PICK k \in DOMAIN s : a \in s[k]
  BY <1>1 DEF SortInv
<1>3. PICK l \in DOMAIN s : b \in s[l]
  BY <1>1 DEF SortInv
<1>4. k \in Nat /\ l \in Nat /\ j \in Nat /\ m \in Nat
  BY DEF Types
<1>5. k <= l
  <2>1. CASE <<a, b>> \in carried
    BY <1>2, <1>3, <2>1, Forward
  <2>2. ASSUME NEW c \in SameLoop, <<a, c>> \in carried, <<c, b>> \in carried
        PROVE  k <= l
    <3>1. PICK h \in DOMAIN s : c \in s[h]
      BY DEF SortInv
    <3>2. k <= h
      BY <1>2, <2>2, <3>1, Forward
    <3>3. h <= l
      BY <1>3, <2>2, <3>1, Forward
    <3>4. h \in Nat
      BY DEF Types
    <3> QED
      BY <1>4, <3>2, <3>3, <3>4
  <2> QED
    BY <2>1, <2>2
<1>6. ~(m < j)
  <2>1. m < j => l < k
    BY <1>2, <1>3 DEF InOrder
  <2> QED
    BY <1>4, <1>5, <2>1
<1> QED
  BY <1>4, <1>6

-----------------------------------------------------------------------------
(* The invariant is inductive.                                             *)

LEMMA InitInv == Init => DInv
<1> SUFFICES ASSUME Init PROVE DInv
  OBVIOUS
<1>1. stmt_nums # {}
  <2>1. CASE stmt_nums = {}
    <3>1. Cardinality({}) >= 2
      BY <2>1 DEF Init
    <3> QED
      BY <3>1, FS_EmptySet
  <2> QED
    BY <2>1
<1>2. PICK layout \in Layouts : placeBefore = [a \in SameLoop \union DOMAIN layout |->
                                                 IF a \in SameLoop THEN LoopPlace ELSE layout[a]]
  BY DEF Init
<1>3. Types
  BY <1>1, DependencesAssumption DEF Init, Types
<1>4. Places
  BY <1>2, LayoutsAssumption DEF Init, Places
<1>5. SortInv
  BY DEF Init, SortInv
<1> QED
  BY <1>3, <1>4, <1>5 DEF Init, DInv, SelectInv, AssociateInv, EdgeOrder,
       RefusedOnlyForCycle, DependencesPreserved, OthersKeepTheirOrder

LEMMA SortStep == DInv /\ Sort => DInv'
<1> SUFFICES ASSUME DInv, Sort PROVE DInv'
  OBVIOUS
<1> USE DEF DInv
<1>1. PICK C \in Components(N, carried) :
        /\ C \notin {s[k] : k \in 1 .. Len(s)}
        /\ \A p \in carried : p[2] \in C /\ p[1] \notin C => \E D \in {s[k] : k \in 1 .. Len(s)} : p[1] \in D
        /\ s' = Append(s, C)
        /\ carried' = carried
  BY SameComponents, Zenon DEF Sort, Sorting!Emit, Sorting!Emitted
<1>2. pc = "sort" /\ UNCHANGED <<stmt_nums, place, placeBefore, pc, s3, i>>
  BY DEF Sort
<1>3. C \subseteq SameLoop
  BY ComponentFacts
<1>4. /\ Len(s') = Len(s) + 1 /\ DOMAIN s' = 1 .. Len(s) + 1 /\ DOMAIN s = 1 .. Len(s)
      /\ \A k \in DOMAIN s : s'[k] = s[k]
      /\ s'[Len(s) + 1] = C /\ Len(s) \in Nat
  BY <1>1, <1>3 DEF Types
<1>5. Types'
  BY <1>1, <1>2, <1>3 DEF Types
<1>6. Places'
  BY <1>1, <1>2 DEF Places
<1>7. SortInv'
  <2>1. \A k \in DOMAIN s' : s'[k] \in Components(N, carried')
    BY <1>1, <1>4 DEF SortInv
  <2>2. \A k \in DOMAIN s : \A a \in SameLoop : ~(a \in s[k] /\ a \in C)
    <3>1. \A k \in DOMAIN s : s[k] \in Components(N, carried) /\ s[k] # C
      BY <1>1, <1>4 DEF SortInv
    <3> QED
      BY <1>1, <3>1, ComponentFacts
  <2>3. \A j, k \in DOMAIN s' : \A a \in SameLoop : a \in s'[j] /\ a \in s'[k] => j = k
    <3>1. \A j, k \in DOMAIN s : \A a \in SameLoop : a \in s[j] /\ a \in s[k] => j = k
      BY DEF SortInv
    <3> QED
      BY <1>4, <2>2, <3>1
  <2>4. ASSUME NEW p \in carried', NEW k \in DOMAIN s', p[2] \in s'[k]
        PROVE  \E j \in DOMAIN s' : j <= k /\ p[1] \in s'[j]
    <3>1. CASE k \in DOMAIN s
      <4>1. PICK j \in DOMAIN s : j <= k /\ p[1] \in s[j]
        BY <1>1, <1>4, <2>4, <3>1 DEF SortInv
      <4> QED
        BY <1>4, <4>1
    <3>2. CASE k = Len(s) + 1
      <4>1. CASE p[1] \in C
        BY <1>4, <3>2, <4>1
      <4>2. CASE p[1] \notin C
        <5>1. PICK j \in DOMAIN s : p[1] \in s[j]
          BY <1>1, <1>4, <2>4, <3>2, <4>2
        <5> QED
          BY <1>4, <3>2, <5>1
      <4> QED
        BY <4>1, <4>2
    <3> QED
      BY <1>4, <3>1, <3>2
  <2> QED
    BY <1>2, <2>1, <2>3, <2>4 DEF SortInv
<1> QED
  BY <1>2, <1>5, <1>6, <1>7 DEF SelectInv, AssociateInv, EdgeOrder,
       RefusedOnlyForCycle, DependencesPreserved, OthersKeepTheirOrder

LEMMA EndSortStep == DInv /\ EndSort => DInv'
<1> SUFFICES ASSUME DInv, EndSort PROVE DInv'
  OBVIOUS
<1> USE DEF DInv
<1>1. /\ pc = "sort" /\ pc' = "select" /\ i' = 1 /\ s3 = <<>>
      /\ UNCHANGED <<carried, stmt_nums, placeBefore, place, s, s3>>
  BY DEF EndSort, input
<1>2. \A a \in SameLoop : \E k \in DOMAIN s : a \in s[k]
  BY DEF EndSort, ToSet
<1>3. Types'
  BY <1>1 DEF Types
<1>4. Places'
  BY <1>1 DEF Places
<1>5. SortInv'
  BY <1>1, <1>2 DEF SortInv
<1>6. InOrder' /\ SelectInv'
  <2>1. DOMAIN s = 1 .. Len(s) /\ Len(s) \in Nat /\ DOMAIN s3 = {}
    BY <1>1 DEF Types
  <2> QED
    BY <1>1, <2>1 DEF InOrder, SelectInv
<1> QED
  BY <1>1, <1>3, <1>4, <1>5, <1>6 DEF AssociateInv, EdgeOrder,
       RefusedOnlyForCycle, DependencesPreserved, OthersKeepTheirOrder

LEMMA SelectStep == DInv /\ Select => DInv'
<1> SUFFICES ASSUME DInv, Select PROVE DInv'
  OBVIOUS
<1> USE DEF DInv
<1> DEFINE t == s[i] \intersect stmt_nums
<1>1. /\ pc = "select" /\ i <= Len(s) /\ i' = i + 1
      /\ s3' = IF t = {} THEN s3 ELSE Append(s3, t)
      /\ UNCHANGED <<carried, stmt_nums, placeBefore, place, pc, s>>
  BY DEF Select, input
<1>2. i \in DOMAIN s /\ DOMAIN s = 1 .. Len(s) /\ Len(s) \in Nat
  BY <1>1 DEF Types, SelectInv
<1>3. t \subseteq SameLoop
  BY DEF Types
<1>4. Types'
  BY <1>1, <1>3 DEF Types
<1>5. Places' /\ SortInv'
  BY <1>1 DEF Places, SortInv
<1>6. InOrder' /\ SelectInv'
  <2>1. CASE t = {}
    <3>1. s3' = s3
      BY <1>1, <2>1
    <3>2. InOrder'
      BY <1>1, <3>1 DEF InOrder
    <3>3. SelectInv'
      <4>1. ASSUME NEW j \in DOMAIN s3
            PROVE  s3[j] \subseteq stmt_nums /\ \E k \in DOMAIN s : k < i + 1 /\ s3[j] \subseteq s[k]
        BY <1>1, <1>2 DEF SelectInv
      <4>2. ASSUME NEW k \in DOMAIN s, NEW a \in s[k] \intersect stmt_nums, k < i + 1
            PROVE  \E j \in DOMAIN s3 : a \in s3[j]
        <5>1. k # i
          BY <2>1
        <5> QED
          BY <1>1, <1>2, <4>2, <5>1 DEF SelectInv
      <4> QED
        BY <1>1, <1>2, <3>1, <4>1, <4>2 DEF SelectInv
    <3> QED
      BY <3>2, <3>3
  <2>2. CASE t # {}
    <3>1. /\ DOMAIN s3' = 1 .. Len(s3) + 1 /\ DOMAIN s3 = 1 .. Len(s3) /\ Len(s3) \in Nat
          /\ \A j \in DOMAIN s3 : s3'[j] = s3[j]
          /\ s3'[Len(s3) + 1] = t
      BY <1>1, <1>3, <2>2 DEF Types
    <3> HIDE DEF t
    <3>2. InOrder'
      <4> SUFFICES ASSUME NEW j \in DOMAIN s3', NEW m \in DOMAIN s3',
                          NEW a \in s3'[j] \intersect stmt_nums, NEW b \in s3'[m] \intersect stmt_nums,
                          NEW k \in DOMAIN s, NEW l \in DOMAIN s, j < m, a \in s[k], b \in s[l]
                   PROVE  k < l
        <5>1. s' = s /\ stmt_nums' = stmt_nums
          BY <1>1
        <5> HIDE DEF DInv
        <5> QED
          BY <5>1 DEF InOrder
      <4>1. j \in DOMAIN s3 /\ s3'[j] = s3[j]
        BY <3>1
      <4>2. CASE m \in DOMAIN s3
        BY <1>1, <3>1, <4>1, <4>2 DEF InOrder
      <4>3. CASE m = Len(s3) + 1
        <5>1. b \in s[i] /\ a \in SameLoop /\ b \in SameLoop
          BY <3>1, <4>3 DEF t, Types
        <5>2. l = i
          BY <1>2, <5>1 DEF SortInv
        <5>3. PICK h \in DOMAIN s : h < i /\ s3[j] \subseteq s[h]
          BY <1>1, <4>1 DEF SelectInv
        <5>4. h = k
          BY <4>1, <5>1, <5>3 DEF SortInv
        <5> QED
          BY <5>2, <5>3, <5>4
      <4> QED
        BY <3>1, <4>2, <4>3
    <3>3. SelectInv'
      <4>1. ASSUME NEW j \in DOMAIN s3'
            PROVE  s3'[j] \subseteq stmt_nums /\ \E k \in DOMAIN s : k < i + 1 /\ s3'[j] \subseteq s[k]
        <5>1. CASE j \in DOMAIN s3
          <6>1. s3[j] \subseteq stmt_nums /\ \E k \in DOMAIN s : k < i /\ s3[j] \subseteq s[k]
            BY <1>1, <5>1 DEF SelectInv
          <6>2. \A k \in DOMAIN s : k < i => k < i + 1
            BY <1>2
          <6> QED
            BY <3>1, <5>1, <6>1, <6>2, Zenon
        <5>2. CASE j = Len(s3) + 1
          <6>1. s3'[j] \subseteq stmt_nums /\ s3'[j] \subseteq s[i]
            BY <3>1, <5>2 DEF t
          <6> QED
            BY <1>2, <6>1
        <5> QED
          BY <3>1, <5>1, <5>2
      <4>2. ASSUME NEW k \in DOMAIN s, NEW a \in s[k] \intersect stmt_nums, k < i + 1
            PROVE  \E j \in DOMAIN s3' : a \in s3'[j]
        <5>1. CASE k = i
          BY <3>1, <5>1 DEF t
        <5>2. CASE k # i
          <6>1. PICK j \in DOMAIN s3 : a \in s3[j]
            BY <1>1, <1>2, <4>2, <5>2 DEF SelectInv
          <6> QED
            BY <3>1, <6>1
        <5> QED
          BY <5>1, <5>2
      <4>3. 1 <= i + 1 /\ i + 1 <= Len(s) + 1
        BY <1>1, <1>2
      <4>4. i' = i + 1 /\ s' = s /\ stmt_nums' = stmt_nums
        BY <1>1
      <4> HIDE DEF DInv
      <4> QED
        BY <4>1, <4>2, <4>3, <4>4 DEF SelectInv
    <3> QED
      BY <3>2, <3>3
  <2> QED
    BY <2>1, <2>2
<1> QED
  BY <1>1, <1>4, <1>5, <1>6 DEF AssociateInv, EdgeOrder,
       RefusedOnlyForCycle, DependencesPreserved, OthersKeepTheirOrder

LEMMA GroupStep == DInv /\ Group => DInv'
<1> SUFFICES ASSUME DInv, Group PROVE DInv'
  OBVIOUS
<1> USE DEF DInv
<1>1. /\ pc = "select" /\ i > Len(s) /\ Len(s3) > 1 /\ pc' = "associate" /\ i' = 0
      /\ UNCHANGED <<carried, stmt_nums, placeBefore, place, s, s3>>
  BY DEF Group, Selected, input
<1>2. DOMAIN s = 1 .. Len(s) /\ Len(s) \in Nat /\ i \in Nat
  BY DEF Types
<1>3. Types'
  BY <1>1 DEF Types
<1>4. Places' /\ SortInv' /\ InOrder'
  BY <1>1 DEF Places, SortInv, InOrder
<1>5. \A j \in DOMAIN s3 : s3[j] \subseteq stmt_nums
  BY <1>1 DEF SelectInv
<1>6. AssociateInv'
  <2>1. ASSUME NEW a \in stmt_nums
        PROVE  \E j \in DOMAIN s3 : a \in s3[j]
    <3>1. a \in SameLoop
      BY DEF Types
    <3>2. PICK k \in DOMAIN s : a \in s[k]
      BY <1>1, <3>1 DEF SortInv
    <3> QED
      BY <1>1, <1>2, <3>2 DEF SelectInv
  <2>2. \A a \in SameLoop \ stmt_nums : ~(a < 0) /\ ~\E j \in DOMAIN s3 : a \in s3[j]
    BY <1>5, NAssumption DEF SameLoop
  <2> QED
    BY <1>1, <2>1, <2>2, NAssumption DEF AssociateInv
<1>7. EdgeOrder'
  <2>1. ASSUME NEW p \in carried, NEW j \in DOMAIN s3, NEW k \in DOMAIN s3, p[1] \in s3[j], p[2] \in s3[k]
        PROVE  j <= k
    <3>1. p[1] \in s3[j] \intersect stmt_nums /\ p[2] \in s3[k] \intersect stmt_nums
      BY <1>5, <2>1
    <3>2. <<p[1], p[2]>> \in carried
      BY DEF Types
    <3>3. pc # "sort" /\ InOrder
      BY <1>1
    <3> QED
      BY <3>1, <3>2, <3>3, SelectedForward
  <2> QED
    BY <1>1, <2>1 DEF EdgeOrder
<1> QED
  BY <1>1, <1>3, <1>4, <1>6, <1>7 DEF SelectInv,
       RefusedOnlyForCycle, DependencesPreserved, OthersKeepTheirOrder

LEMMA RefuseStep == DInv /\ Refuse => DInv'
<1> SUFFICES ASSUME DInv, Refuse PROVE DInv'
  OBVIOUS
<1> USE DEF DInv
<1>1. /\ pc = "select" /\ i > Len(s) /\ Len(s3) = 1 /\ pc' = "refused"
      /\ UNCHANGED <<carried, stmt_nums, placeBefore, place, s, s3, i>>
  BY DEF Refuse, Selected, input
<1>2. DOMAIN s = 1 .. Len(s) /\ Len(s) \in Nat /\ i \in Nat /\ DOMAIN s3 = {1}
  BY <1>1 DEF Types
<1>3. Types' /\ Places' /\ SortInv' /\ InOrder' /\ SelectInv'
  BY <1>1 DEF Types, Places, SortInv, InOrder, SelectInv
<1>4. RefusedOnlyForCycle'
  <2>1. PICK k \in DOMAIN s : s3[1] \subseteq s[k]
    BY <1>1, <1>2 DEF SelectInv
  <2>2. ASSUME NEW a \in stmt_nums
        PROVE  a \in s[k]
    <3>1. a \in SameLoop
      BY DEF Types
    <3>2. PICK h \in DOMAIN s : a \in s[h]
      BY <1>1, <3>1 DEF SortInv
    <3>3. \E j \in DOMAIN s3 : a \in s3[j]
      BY <1>1, <1>2, <3>2 DEF SelectInv
    <3> QED
      BY <1>2, <2>1, <3>3
  <2>3. s[k] \in Sorting!Components(N, carried)
    BY SameComponents DEF SortInv
  <2>4. \E C \in Sorting!Components(N, carried) : stmt_nums \subseteq C
    BY <2>2, <2>3
  <2>5. Sorting!Components(N, carried)' = Sorting!Components(N, carried)
    BY <1>1 DEF Sorting!Components, Sorting!Paths
  <2> QED
    BY <1>1, <2>4, <2>5 DEF RefusedOnlyForCycle
<1> QED
  BY <1>1, <1>3, <1>4 DEF AssociateInv, EdgeOrder, DependencesPreserved, OthersKeepTheirOrder

\* A set of positions of a sequence has a last element.
LEMMA LastElement ==
  ASSUME NEW n \in Nat, NEW J \in SUBSET (1 .. n), J # {}
  PROVE  \E j \in J : \A m \in J : m <= j
<1> DEFINE T == {n - j : j \in J}
<1>1. T \in SUBSET Nat /\ T # {}
  <2>1. \A j \in J : n - j \in Nat
    OBVIOUS
  <2> QED
    BY <2>1
<1>2. PICK x \in T : \A y \in T : x <= y
  <2> HIDE DEF T
  <2> QED
    BY <1>1, LeastElement
<1>3. PICK j \in J : x = n - j
  OBVIOUS
<1>4. \A m \in J : n - j <= n - m
  BY <1>2, <1>3
<1> QED
  BY <1>4

\* Where a statement that was not asked for goes.
LEMMA PointFacts ==
  ASSUME Types, Len(s3) > 1, NEW a
  PROVE  /\ InsertionPoint(a) \in DOMAIN s3
         /\ Into(a) # {} => /\ InsertionPoint(a) \in Into(a)
                            /\ \A m \in Into(a) : InsertionPoint(a) <= m
         /\ Into(a) = {} => \A m \in OutOf(a) : m <= InsertionPoint(a)
<1> DEFINE least == CHOOSE j \in Into(a) : \A m \in Into(a) : j <= m
           last  == CHOOSE j \in OutOf(a) : \A m \in OutOf(a) : m <= j
<1>1. DOMAIN s3 = 1 .. Len(s3) /\ Len(s3) \in Nat
  BY DEF Types
<1>2. Into(a) \subseteq 1 .. Len(s3) /\ OutOf(a) \subseteq 1 .. Len(s3)
  BY <1>1 DEF Into, OutOf
<1>3. ASSUME Into(a) # {}
      PROVE  least \in Into(a) /\ \A m \in Into(a) : least <= m
  <2>1. Into(a) \in SUBSET Nat
    BY <1>1, <1>2
  <2>2. \E j \in Into(a) : \A m \in Into(a) : j <= m
    BY <1>3, <2>1, LeastElement
  <2> QED
    BY <2>2, Zenon
<1>4. ASSUME OutOf(a) # {}
      PROVE  last \in OutOf(a) /\ \A m \in OutOf(a) : m <= last
  <2>1. \E j \in OutOf(a) : \A m \in OutOf(a) : m <= j
    BY <1>1, <1>2, <1>4, LastElement
  <2> QED
    BY <2>1, Zenon
<1>5. InsertionPoint(a) = IF Into(a) # {} THEN least ELSE IF OutOf(a) # {} THEN last ELSE 1
  BY DEF InsertionPoint
<1> HIDE DEF least, last
<1> QED
  BY <1>1, <1>2, <1>3, <1>4, <1>5

LEMMA AssociateStep == DInv /\ Associate => DInv'
<1> SUFFICES ASSUME DInv, Associate PROVE DInv'
  OBVIOUS
<1> USE DEF DInv
<1> DEFINE q == InsertionPoint(i)
<1>1. /\ pc = "associate" /\ i < N /\ i' = i + 1
      /\ s3' = IF i \in stmt_nums THEN s3 ELSE [s3 EXCEPT ![q] = @ \union {i}]
      /\ UNCHANGED <<carried, stmt_nums, placeBefore, place, pc, s>>
  BY DEF Associate, input
<1>2. i \in SameLoop /\ i \in Nat /\ N \in Nat
  BY <1>1, NAssumption DEF Types, SameLoop
<1>3. Len(s3) > 1 /\ DOMAIN s3 = 1 .. Len(s3) /\ Len(s3) \in Nat
  BY <1>1 DEF Types, AssociateInv
<1>4. /\ q \in DOMAIN s3
      /\ Into(i) # {} => q \in Into(i) /\ \A m \in Into(i) : q <= m
      /\ Into(i) = {} => \A m \in OutOf(i) : m <= q
  BY <1>3, PointFacts
<1> HIDE DEF q
<1>5. /\ Len(s3') = Len(s3) /\ DOMAIN s3' = DOMAIN s3
      /\ \A j \in DOMAIN s3 : s3'[j] = s3[j] \union (IF i \notin stmt_nums /\ j = q THEN {i} ELSE {})
  BY <1>1, <1>4 DEF Types
<1>6. Types'
  <2>1. s3' \in Seq(SUBSET SameLoop)
    BY <1>1, <1>2, <1>4 DEF Types
  <2> QED
    BY <1>1, <1>2, <2>1 DEF Types
<1>7. Places' /\ SortInv'
  BY <1>1 DEF Places, SortInv
<1>8. InOrder'
  <2>1. \A j \in DOMAIN s3 : s3'[j] \intersect stmt_nums = s3[j] \intersect stmt_nums
    BY <1>5
  <2> QED
    BY <1>1, <1>5, <2>1 DEF InOrder
<1>9. AssociateInv'
  <2>1. i + 1 <= N /\ Len(s3') > 1
    BY <1>1, <1>2, <1>3, <1>5
  <2>2. \A a \in stmt_nums : \E j \in DOMAIN s3' : a \in s3'[j]
    BY <1>1, <1>5 DEF AssociateInv
  <2>3. ASSUME NEW a \in SameLoop \ stmt_nums
        PROVE  a < i + 1 <=> \E j \in DOMAIN s3' : a \in s3'[j]
    <3>1. a < i <=> \E j \in DOMAIN s3 : a \in s3[j]
      BY <1>1 DEF AssociateInv
    <3>2. a \in Nat
      BY <1>2 DEF SameLoop
    <3>3. CASE a = i
      BY <1>2, <1>4, <1>5, <3>3
    <3>4. CASE a # i
      <4>1. a < i + 1 <=> a < i
        BY <1>2, <3>2, <3>4
      <4>2. \A j \in DOMAIN s3 : a \in s3'[j] <=> a \in s3[j]
        BY <1>5, <3>4
      <4> QED
        BY <1>5, <3>1, <4>1, <4>2
    <3> QED
      BY <3>3, <3>4
  <2> QED
    BY <1>1, <2>1, <2>2, <2>3 DEF AssociateInv
<1>10. EdgeOrder'
  <2> SUFFICES ASSUME ~UnselectedDependences, NEW p \in carried, NEW j \in DOMAIN s3, NEW k \in DOMAIN s3,
                      p[1] \in s3'[j], p[2] \in s3'[k]
               PROVE  j <= k
    BY <1>1, <1>5 DEF EdgeOrder
  <2>1. /\ p[1] \in SameLoop /\ p[2] \in SameLoop /\ p = <<p[1], p[2]>>
        /\ p[1] \in stmt_nums \/ p[2] \in stmt_nums
    BY DEF Types
  <2>2. CASE p[1] \in s3[j] /\ p[2] \in s3[k]
    BY <1>1, <2>2 DEF EdgeOrder
  <2>3. CASE p[1] \notin s3[j]
    <3>1. p[1] = i /\ j = q /\ i \notin stmt_nums
      BY <1>5, <2>3
    <3>2. p[2] \in s3[k]
      BY <1>5, <2>1, <3>1
    <3>3. k \in Into(i)
      BY <2>1, <3>1, <3>2 DEF Into
    <3> QED
      BY <1>4, <3>1, <3>3
  <2>4. CASE p[1] \in s3[j] /\ p[2] \notin s3[k]
    <3>1. p[2] = i /\ k = q /\ i \notin stmt_nums /\ p[1] \in stmt_nums
      BY <1>5, <2>1, <2>4
    <3>2. CASE Into(i) = {}
      <4>1. j \in OutOf(i)
        BY <2>1, <2>4, <3>1 DEF OutOf
      <4> QED
        BY <1>4, <3>1, <3>2, <4>1
    <3>3. CASE Into(i) # {}
      <4>1. PICK b \in s3[q] : <<i, b>> \in carried
        BY <1>4, <3>3 DEF Into
      <4>2. <<i, b>>[1] = i /\ <<i, b>>[2] = b
        OBVIOUS
      <4>3. b \in stmt_nums
        BY <3>1, <4>1, <4>2 DEF Types
      <4>4. p[1] \in s3[j] \intersect stmt_nums /\ b \in s3[q] \intersect stmt_nums
        BY <2>4, <3>1, <4>1, <4>3
      <4>5. <<p[1], i>> \in carried
        BY <2>1, <3>1
      <4>6. pc # "sort" /\ InOrder
        BY <1>1
      <4>7. j <= q
        BY <1>2, <1>4, <4>1, <4>4, <4>5, <4>6, SelectedForward
      <4> QED
        BY <3>1, <4>7
    <3> QED
      BY <3>2, <3>3
  <2> QED
    BY <2>2, <2>3, <2>4
<1> QED
  BY <1>1, <1>6, <1>7, <1>8, <1>9, <1>10 DEF SelectInv,
       RefusedOnlyForCycle, DependencesPreserved, OthersKeepTheirOrder

LEMMA AssignStep == DInv /\ Assign => DInv'
<1> SUFFICES ASSUME DInv, Assign PROVE DInv'
  OBVIOUS
<1> USE DEF DInv
<1> DEFINE loop(a) == CHOOSE j \in DOMAIN s3 : a \in s3[j]
           behind(a) == place[a][1] = 1 /\ place[a][2] >= 1
           L == Len(s3)
<1>1. /\ pc = "associate" /\ i = N /\ pc' = "done"
      /\ UNCHANGED <<carried, stmt_nums, placeBefore, s, s3, i>>
      /\ place' = [a \in DOMAIN place |->
                     IF \E j \in DOMAIN s3 : a \in s3[j] THEN <<1, 1 - 1 + loop(a)>>
                     ELSE IF behind(a) THEN <<place[a][1], place[a][2] + (L - 1)>> ELSE place[a]]
  <2>1. LoopPlace[1] = 1 /\ LoopPlace[2] = 1
    BY DEF LoopPlace
  <2>2. pc = "associate" /\ i = N /\ pc' = "done" /\ UNCHANGED <<carried, stmt_nums, placeBefore, s, s3, i>>
    BY DEF Assign, input
  <2>3. place' = [a \in Stmts |->
                   IF \E j \in DOMAIN s3 : a \in s3[j] THEN <<LoopPlace[1], LoopPlace[2] - 1 + loop(a)>>
                   ELSE Shifted(Len(s3) - 1)[a]]
    BY Zenon DEF Assign
  <2>4. \A a \in Stmts : Shifted(L - 1)[a] = IF behind(a) THEN <<place[a][1], place[a][2] + (L - 1)>> ELSE place[a]
    BY <2>1 DEF Shifted
  <2> HIDE DEF loop, behind, L
  <2> QED
    BY <2>1, <2>2, <2>3, <2>4 DEF Stmts, L
<1>2. Len(s3) > 1 /\ DOMAIN s3 = 1 .. Len(s3) /\ Len(s3) \in Nat /\ N \in Nat
  BY <1>1, NAssumption DEF Types, AssociateInv
<1>3. place = placeBefore /\ SameLoop \subseteq DOMAIN place /\ DOMAIN place' = DOMAIN place
  BY <1>1 DEF Places
<1>4. ASSUME NEW a \in SameLoop
      PROVE  loop(a) \in DOMAIN s3 /\ a \in s3[loop(a)] /\ place'[a] = <<1, loop(a)>>
  <2>1. \E j \in DOMAIN s3 : a \in s3[j]
    <3>1. CASE a \in stmt_nums
      BY <1>1, <3>1 DEF AssociateInv
    <3>2. CASE a \notin stmt_nums
      <4>1. a < i
        BY <1>1, <1>2 DEF SameLoop
      <4> QED
        BY <1>1, <3>2, <4>1 DEF AssociateInv
    <3> QED
      BY <3>1, <3>2
  <2>2. loop(a) \in DOMAIN s3 /\ a \in s3[loop(a)]
    BY <2>1, Zenon
  <2>3. place'[a] = <<1, 1 - 1 + loop(a)>>
    <3> HIDE DEF loop, behind
    <3> QED
      BY <1>1, <1>3, <2>1
  <2> HIDE DEF loop
  <2> QED
    BY <1>2, <2>2, <2>3
<1>5. ASSUME NEW a \in DOMAIN place \ SameLoop
      PROVE  /\ place[a] \in (Int \X Int) \ {<<1, 1>>}
             /\ place'[a] = IF behind(a) THEN <<place[a][1], place[a][2] + (L - 1)>> ELSE place[a]
  <2>1. ~\E j \in DOMAIN s3 : a \in s3[j]
    BY DEF Types
  <2>2. place[a] \in (Int \X Int) \ {<<1, 1>>}
    BY <1>3 DEF Places, LoopPlace
  <2> HIDE DEF loop, behind
  <2> QED
    BY <1>1, <2>1, <2>2
<1> HIDE DEF loop
<1>6. ~UnselectedDependences => DependencesPreserved'
  <2> SUFFICES ASSUME ~UnselectedDependences, NEW p \in carried
               PROVE  ~PlacedBefore(p[2], p[1], place')
    BY <1>1 DEF DependencesPreserved
  <2>1. p[1] \in SameLoop /\ p[2] \in SameLoop
    BY DEF Types
  <2>2. loop(p[1]) <= loop(p[2])
    BY <1>1, <1>4, <2>1 DEF EdgeOrder
  <2>3. place'[p[1]] = <<1, loop(p[1])>> /\ place'[p[2]] = <<1, loop(p[2])>>
    BY <1>4, <2>1
  <2>4. loop(p[1]) \in Nat /\ loop(p[2]) \in Nat
    BY <1>2, <1>4, <2>1
  <2> QED
    BY <2>2, <2>3, <2>4 DEF PlacedBefore
<1>7. OthersKeepTheirOrder'
  <2> DEFINE Kept(a, b) == /\ PlacedBefore(a, b, place') <=> PlacedBefore(a, b, placeBefore)
                           /\ place'[a] = place'[b] <=> placeBefore[a] = placeBefore[b]
  <2>1. ASSUME NEW a \in SameLoop
        PROVE  place[a] = <<1, 1>> /\ \E x \in 1 .. L : place'[a] = <<1, x>>
    BY <1>2, <1>3, <1>4 DEF Places, LoopPlace
  <2>2. ASSUME NEW a \in DOMAIN place \ SameLoop
        PROVE  \E x, y \in Int : /\ place[a] = <<x, y>> /\ (x # 1 \/ y # 1)
                                 /\ place'[a] = IF x = 1 /\ y >= 1 THEN <<x, y + (L - 1)>> ELSE <<x, y>>
    <3>1. place[a] \in Int \X Int /\ place[a] # <<1, 1>>
      BY <1>5
    <3>2. PICK x \in Int, y \in Int : place[a] = <<x, y>>
      BY <3>1
    <3>3. place[a][1] = x /\ place[a][2] = y /\ (x # 1 \/ y # 1)
      BY <3>1, <3>2
    <3>4. place'[a] = IF x = 1 /\ y >= 1 THEN <<x, y + (L - 1)>> ELSE <<x, y>>
      BY <1>5, <3>2, <3>3
    <3> QED
      BY <3>2, <3>3, <3>4
  <2>3. L \in Nat /\ L > 1
    BY <1>2
  <2> HIDE DEF L
  <2>4. ASSUME NEW a \in SameLoop, NEW b \in DOMAIN place \ SameLoop
        PROVE  Kept(a, b) /\ Kept(b, a)
    <3>1. PICK z \in 1 .. L : place[a] = <<1, 1>> /\ place'[a] = <<1, z>>
      BY <2>1
    <3>2. PICK x, y \in Int : /\ place[b] = <<x, y>> /\ (x # 1 \/ y # 1)
                             /\ place'[b] = IF x = 1 /\ y >= 1 THEN <<x, y + (L - 1)>> ELSE <<x, y>>
      BY <2>2
    <3> QED
      BY <1>3, <2>3, <3>1, <3>2 DEF PlacedBefore
  <2>5. ASSUME NEW a \in DOMAIN place \ SameLoop, NEW b \in DOMAIN place \ SameLoop
        PROVE  Kept(a, b)
    <3>1. PICK x, y \in Int : /\ place[a] = <<x, y>> /\ (x # 1 \/ y # 1)
                             /\ place'[a] = IF x = 1 /\ y >= 1 THEN <<x, y + (L - 1)>> ELSE <<x, y>>
      BY <2>2
    <3>2. PICK u, v \in Int : /\ place[b] = <<u, v>> /\ (u # 1 \/ v # 1)
                             /\ place'[b] = IF u = 1 /\ v >= 1 THEN <<u, v + (L - 1)>> ELSE <<u, v>>
      BY <2>2
    <3> QED
      BY <1>3, <2>3, <3>1, <3>2 DEF PlacedBefore
  <2>6. \A a, b \in DOMAIN place : ~({a, b} \subseteq SameLoop) => Kept(a, b)
    BY <2>4, <2>5
  <2>7. \A a, b \in DOMAIN place' : ~({a, b} \subseteq SameLoop) =>
          /\ PlacedBefore(a, b, place') <=> PlacedBefore(a, b, placeBefore')
          /\ place'[a] = place'[b] <=> placeBefore'[a] = placeBefore'[b]
    <3>1. DOMAIN place' = DOMAIN place /\ placeBefore' = placeBefore
      BY <1>1, <1>3
    <3> QED
      BY <2>6, <3>1, Zenon
  <2> QED
    BY <2>7, Zenon DEF OthersKeepTheirOrder, Stmts, PlacedBefore
<1>8. Types' /\ Places' /\ SortInv' /\ InOrder'
  BY <1>1 DEF Types, Places, SortInv, InOrder
<1> QED
  BY <1>1, <1>6, <1>7, <1>8 DEF SelectInv, AssociateInv, EdgeOrder, RefusedOnlyForCycle

LEMMA StutterStep == DInv /\ UNCHANGED vars => DInv'
<1> SUFFICES ASSUME DInv, UNCHANGED vars PROVE DInv'
  OBVIOUS
<1>1. UNCHANGED <<carried, stmt_nums, placeBefore, place, pc, s, s3, i>>
  BY DEF vars
<1>2. Sorting!Components(N, carried)' = Sorting!Components(N, carried)
  BY <1>1 DEF Sorting!Components, Sorting!Paths
<1>3. RefusedOnlyForCycle'
  BY <1>1, <1>2 DEF DInv, RefusedOnlyForCycle
<1> QED
  BY <1>1, <1>3 DEF DInv, Types, Places, SortInv, InOrder, SelectInv, AssociateInv, EdgeOrder,
       DependencesPreserved, OthersKeepTheirOrder, PlacedBefore, Stmts

LEMMA Invariant == Spec => []DInv
<1>1. Init => DInv
  BY InitInv
<1>2. DInv /\ [Next]_vars => DInv'
  <2> SUFFICES ASSUME DInv, [Next]_vars PROVE DInv'
    OBVIOUS
  <2>1. CASE Sort
    BY <2>1, SortStep
  <2>2. CASE EndSort
    BY <2>2, EndSortStep
  <2>3. CASE Select
    BY <2>3, SelectStep
  <2>4. CASE Group
    BY <2>4, GroupStep
  <2>5. CASE Refuse
    BY <2>5, RefuseStep
  <2>6. CASE Associate
    BY <2>6, AssociateStep
  <2>7. CASE Assign
    BY <2>7, AssignStep
  <2>8. CASE UNCHANGED vars
    BY <2>8, StutterStep
  <2> QED
    BY <2>1, <2>2, <2>3, <2>4, <2>5, <2>6, <2>7, <2>8 DEF Next, Step, Ended
<1> QED
  BY <1>1, <1>2, PTL DEF Spec

-----------------------------------------------------------------------------
(* The theorems.                                                           *)

\* distribute (loop_basic.cc:1427) makes no loop run before one it depends on,
\* whatever the graph, as long as no two of the statements it was not asked for
\* depend on each other.
THEOREM DistributionCorrect ==
  ASSUME UnselectedDependences = FALSE
  PROVE  Spec => []DependencesPreserved
<1>1. DInv => DependencesPreserved
  BY DEF DInv
<1> QED
  BY <1>1, Invariant, PTL

\* The vertices of g2 (loop_basic.cc:1490) are sorted before its topoSort.
THEOREM SortedCorrect == Spec => []GroupsComeSorted
<1>1. DInv => GroupsComeSorted
  <2> SUFFICES ASSUME DInv, pc = "associate", i = 0,
                      NEW j \in DOMAIN s3, NEW k \in DOMAIN s3,
                      NEW a \in s3[j], NEW b \in s3[k], <<a, b>> \in carried
               PROVE  j <= k
    BY DEF GroupsComeSorted
  <2>1. a \in SameLoop /\ b \in SameLoop
    BY DEF DInv, Types
  <2>2. a \in stmt_nums /\ b \in stmt_nums
    <3>1. \A c \in SameLoop : ~(c < 0)
      BY NAssumption DEF SameLoop
    <3> QED
      BY <2>1, <3>1 DEF DInv, AssociateInv
  <2>3. Types /\ SortInv /\ InOrder /\ pc # "sort"
    BY DEF DInv
  <2> QED
    BY <2>2, <2>3, SelectedForward
<1> QED
  BY <1>1, Invariant, PTL

\* "no statement can be distributed due to dependence cycle"
\* (loop_basic.cc:1523) is thrown for cycles only.
THEOREM RefusalJustified == Spec => []RefusedOnlyForCycle
<1>1. DInv => RefusedOnlyForCycle
  BY DEF DInv
<1> QED
  BY <1>1, Invariant, PTL

\* shiftLexicalOrder (loop.cc:1429) and the new places leave the order of the
\* statements around the loop, and between them and the loop, as it was.
THEOREM OthersCorrect == Spec => []OthersKeepTheirOrder
<1>1. DInv => OthersKeepTheirOrder
  BY DEF DInv
<1> QED
  BY <1>1, Invariant, PTL
=============================================================================

--------------------------- MODULE TopoSortProofs ---------------------------
(***************************************************************************)
(* For every number of vertices and every set of edges: the variables of   *)
(* topoSort keep their types (the index --c among them), the first search  *)
(* leaves a permutation of the vertices in order, the components it        *)
(* returns partition the vertices, and a graph that is sorted already      *)
(* comes back in its order.  Where no edge joins a vertex to itself, what  *)
(* comes out is what SccOrder promises: the strongly connected components  *)
(* of the graph, each whole and after all that lead into it.               *)
(***************************************************************************)
EXTENDS TopoSort, OperatorProofs, SequenceTheorems, FiniteSetTheorems, TLAPS

-----------------------------------------------------------------------------
(* The inductive invariant.                                                *)

Black == {b \in Vertices : color[b] = "BLACK"}

OnStack(a) == \E k \in 1 .. Len(S) : S[k] = a

\* A GREY vertex is still on the stack, so an empty stack leaves none.
StackInv == \A a \in Vertices : color[a] = "GREY" => OnStack(a)

\* The vertex whose neighbours are being pushed is WHITE and on the stack.
ExpandInv == v # NoVertex => color[v] = "WHITE" /\ OnStack(v)

\* The first search: order[c .. N-1] holds the BLACK vertices, each once, and
\* the vertices above i have been seen.
FirstInv ==
  pc = "dfs1" => /\ c + Cardinality(Black) = N
                 /\ \A k \in c .. N-1 : color[order[k]] = "BLACK"
                 /\ \A k, m \in c .. N-1 : order[k] = order[m] => k = m
                 /\ \A a \in Vertices : color[a] = "BLACK" =>
                       \E k \in c .. N-1 : order[k] = a
                 /\ i < N
                 /\ \A a \in Vertices : a > i => color[a] # "WHITE"
                 /\ s = {} /\ result = <<>>

\* The second search: the roots before i have been seen; the root order[i] is
\* at the bottom of the stack, and BLACK once the stack is empty again.
SecondInv ==
  pc # "dfs1" => /\ i \in 0 .. N
                 /\ \A k \in 0 .. i-1 : color[order[k]] # "WHITE"
                 /\ S # <<>> => i < N /\ S[1] = order[i]
                 /\ (S = <<>> /\ s # {}) => i < N /\ color[order[i]] = "BLACK"
                 /\ pc = "done" => i = N /\ S = <<>> /\ s = {}

\* What is BLACK in the second search is in s or in one component.
PartInv ==
  pc # "dfs1" =>
    /\ \A a \in Vertices :
         color[a] = "BLACK" <=> a \in s \/ \E k \in 1 .. Len(result) : a \in result[k]
    /\ \A k \in 1 .. Len(result) : \A a \in result[k] :
         /\ a \notin s
         /\ \A m \in 1 .. Len(result) : a \in result[m] => m = k

IInv == /\ TypeOK /\ StackInv /\ ExpandInv /\ FirstInv
        /\ SecondInv /\ OrderIsPermutation /\ PartInv

-----------------------------------------------------------------------------
(* Lemmas.                                                                 *)

\* Popping a stack leaves the elements below the top where they were.
LEMMA PopProperties ==
  ASSUME NEW T, NEW q \in Seq(T), q # <<>>
  PROVE  /\ SubSeq(q, 1, Len(q)-1) \in Seq(T)
         /\ Len(SubSeq(q, 1, Len(q)-1)) = Len(q)-1
         /\ \A k \in 1 .. Len(q)-1 : SubSeq(q, 1, Len(q)-1)[k] = q[k]
         /\ q[Len(q)] \in T
         /\ Len(q) \in Nat \ {0}
<1> DEFINE p == SubSeq(q, 1, Len(q)-1)
<1>1. Len(q) \in Nat /\ Len(q) > 0
  BY EmptySeq, LenProperties
<1>2. \A k \in 1 .. Len(q) : q[k] \in T
  BY ElementOfSeq
<1>3. /\ p \in Seq(T)
      /\ Len(p) = IF 1 <= Len(q)-1 THEN Len(q)-1-1+1 ELSE 0
      /\ \A k \in 1 .. (Len(q)-1)-1+1 : p[k] = q[1+k-1]
  BY <1>1, <1>2, SubSeqProperties
<1> HIDE DEF p
<1>4. Len(p) = Len(q)-1
  <2>1. \A n \in Nat : n > 0 => (IF 1 <= n-1 THEN n-1-1+1 ELSE 0) = n-1
    OBVIOUS
  <2> QED
    BY <1>1, <1>3, <2>1
<1>5. ASSUME NEW k \in 1 .. Len(q)-1 PROVE p[k] = q[k]
  <2>1. k \in 1 .. (Len(q)-1)-1+1 /\ 1+k-1 = k
    BY <1>1
  <2> QED
    BY <1>3, <2>1
<1>6. q[Len(q)] \in T
  BY <1>1, <1>2
<1>7. Len(q) \in Nat \ {0}
  BY <1>1
<1> QED
  BY <1>3, <1>4, <1>5, <1>6, <1>7 DEF p

\* Turning a vertex BLACK that was not adds one to the number of BLACK ones.
LEMMA BlackCount ==
  ASSUME NEW col \in [Vertices -> Colors], NEW a \in Vertices, col[a] # "BLACK"
  PROVE  LET B == {b \in Vertices : col[b] = "BLACK"}
             B2 == {b \in Vertices : [col EXCEPT ![a] = "BLACK"][b] = "BLACK"}
         IN  /\ Cardinality(B) \in Nat
             /\ Cardinality(B) < N
             /\ Cardinality(B2) = Cardinality(B) + 1
<1> DEFINE B == {b \in Vertices : col[b] = "BLACK"}
           B2 == {b \in Vertices : [col EXCEPT ![a] = "BLACK"][b] = "BLACK"}
<1>1. IsFiniteSet(Vertices) /\ Cardinality(Vertices) = N
  <2>1. N \in Nat /\ 0 \in Int /\ N-1 \in Int
    BY NAssumption
  <2> QED
    BY <2>1, FS_Interval DEF Vertices
<1>2. IsFiniteSet(B) /\ Cardinality(B) \in Nat /\ Cardinality(B) <= N
      /\ Cardinality(B) # N
  <2>1. B \in SUBSET Vertices /\ B # Vertices
    OBVIOUS
  <2>2. IsFiniteSet(B) /\ Cardinality(B) <= Cardinality(Vertices)
        /\ (Cardinality(Vertices) = Cardinality(B) => Vertices = B)
    BY <1>1, <2>1, FS_Subset
  <2>3. Cardinality(B) \in Nat
    BY <2>2, FS_CardinalityType
  <2> QED
    BY <1>1, <2>1, <2>2, <2>3
<1>3. B2 = B \union {a} /\ a \notin B
  BY DEF Colors
<1>4. Cardinality(B2) = Cardinality(B) + 1
  BY <1>2, <1>3, FS_AddElement
<1> QED
  BY <1>2, <1>4, NAssumption

-----------------------------------------------------------------------------
\* The initial states satisfy the invariant.
LEMMA InitIInv == Init => IInv
<1> SUFFICES ASSUME Init PROVE IInv
  OBVIOUS
<1> USE NAssumption DEF Init
<1>1. TypeOK
  BY EdgeAssumption, EmptySeq DEF TypeOK, Colors, Vertices, NoVertex
<1>2. StackInv /\ ExpandInv
  BY DEF StackInv, ExpandInv
<1>3. FirstInv
  <2>1. Black = {}
    BY DEF Black
  <2>2. Cardinality(Black) = 0
    BY <2>1, FS_EmptySet
  <2> QED
    BY <2>2 DEF FirstInv, Vertices
<1>4. SecondInv /\ OrderIsPermutation /\ PartInv
  BY DEF SecondInv, OrderIsPermutation, PartInv
<1> QED
  BY <1>1, <1>2, <1>3, <1>4 DEF IInv
-----------------------------------------------------------------------------
(* Preservation, one lemma for each action that changes the stack.         *)

\* Steps that only move a counter or the vertex being expanded.
LEMMA CounterSteps ==
  ASSUME IInv,
         Expand \/ SkipRoot \/ SkipComponent \/ Return \/ UNCHANGED vars
  PROVE  IInv'
<1> USE NAssumption DEF IInv, Vertices, NoVertex
<1>1. CASE Expand
  <2>1. S \in Seq(Vertices) /\ Len(S) \in 1 .. Len(S) /\ top \in Vertices
    BY <1>1, PopProperties, EmptySeq, LenProperties DEF Expand, TypeOK, top
  <2>2. TypeOK'
    <3>1. scan' \in 0 .. N
      BY <1>1 DEF Expand
    <3>2. v' \in Vertices
      BY <1>1, <2>1 DEF Expand
    <3> QED
      BY <1>1, <3>1, <3>2 DEF Expand, TypeOK
  <2>3. StackInv' /\ ExpandInv'
    BY <1>1, <2>1 DEF Expand, StackInv, ExpandInv, OnStack, top
  <2>4. FirstInv' /\ SecondInv' /\ OrderIsPermutation' /\ PartInv'
    BY <1>1 DEF Expand, FirstInv, SecondInv, OrderIsPermutation, PartInv, Black
  <2> QED
    BY <2>2, <2>3, <2>4
<1>2. CASE SkipRoot
  <2>1. TypeOK' /\ StackInv' /\ ExpandInv'
    BY <1>2 DEF SkipRoot, TypeOK, StackInv, ExpandInv, OnStack
  <2>2. FirstInv'
    <3>1. Black' = Black
      BY <1>2 DEF SkipRoot, Black
    <3>2. i \in Int /\ i < N /\ i' = i-1 /\ color[i] # "WHITE" /\ color' = color
      BY <1>2 DEF SkipRoot, TypeOK, FirstInv
    <3>3. \A a \in Vertices : a > i' => color'[a] # "WHITE"
      <4> SUFFICES ASSUME NEW a \in Vertices, a > i-1 PROVE color[a] # "WHITE"
        BY <3>2
      <4>1. a = i \/ a > i
        BY <3>2
      <4> QED
        BY <1>2, <3>2, <4>1 DEF SkipRoot, FirstInv
    <3> QED
      BY <1>2, <3>1, <3>2, <3>3 DEF SkipRoot, FirstInv
  <2>3. SecondInv' /\ OrderIsPermutation' /\ PartInv'
    BY <1>2 DEF SkipRoot, SecondInv, OrderIsPermutation, PartInv
  <2> QED
    BY <2>1, <2>2, <2>3
<1>3. CASE SkipComponent
  <2>1. TypeOK' /\ StackInv' /\ ExpandInv'
    BY <1>3 DEF SkipComponent, TypeOK, StackInv, ExpandInv, OnStack
  <2>2. SecondInv'
    <3>1. i \in 0 .. N-1 /\ i' = i+1 /\ color' = color /\ order' = order
      BY <1>3 DEF SkipComponent, SecondInv
    <3>2. \A k \in 0 .. i'-1 : color'[order'[k]] # "WHITE"
      <4> SUFFICES ASSUME NEW k \in 0 .. i PROVE color[order[k]] # "WHITE"
        BY <3>1
      <4>1. k = i \/ k \in 0 .. i-1
        BY <3>1
      <4> QED
        BY <1>3, <4>1 DEF SkipComponent, SecondInv
    <3> QED
      BY <1>3, <3>1, <3>2 DEF SkipComponent, SecondInv
  <2>3. FirstInv' /\ OrderIsPermutation' /\ PartInv'
    BY <1>3 DEF SkipComponent, FirstInv, OrderIsPermutation, PartInv, Black
  <2> QED
    BY <2>1, <2>2, <2>3
<1>4. CASE Return
  <2>1. TypeOK' /\ StackInv' /\ ExpandInv'
    BY <1>4 DEF Return, TypeOK, StackInv, ExpandInv, OnStack
  <2>2. SecondInv'
    BY <1>4 DEF Return, TypeOK, SecondInv
  <2>3. FirstInv' /\ OrderIsPermutation' /\ PartInv'
    BY <1>4 DEF Return, FirstInv, OrderIsPermutation, PartInv
  <2> QED
    BY <2>1, <2>2, <2>3
<1>5. CASE UNCHANGED vars
  <2>1. TypeOK'
    BY <1>5 DEF vars, TypeOK
  <2>2. StackInv' /\ ExpandInv'
    BY <1>5 DEF vars, StackInv, ExpandInv, OnStack
  <2>3. FirstInv'
    BY <1>5 DEF vars, FirstInv, Black
  <2>4. /\ pc' = pc /\ i' = i /\ color' = color /\ S' = S
        /\ order' = order /\ s' = s /\ result' = result
    BY <1>5 DEF vars
  <2>5. SecondInv'
    BY <2>4 DEF SecondInv
  <2>6. OrderIsPermutation'
    BY <2>4 DEF OrderIsPermutation
  <2>7. PartInv'
    BY <2>4 DEF PartInv
  <2> QED
    BY <2>1, <2>2, <2>3, <2>5, <2>6, <2>7
<1> QED
  BY <1>1, <1>2, <1>3, <1>4, <1>5

\* Steps that push a vertex.
LEMMA PushSteps ==
  ASSUME IInv, PushNeighbour \/ StartRoot \/ StartComponent
  PROVE  IInv'
<1> USE NAssumption DEF IInv, Vertices, NoVertex
<1>1. CASE PushNeighbour
  <2>1. CASE S' = S
    <3>1. TypeOK'
      <4>1. scan' \in 0 .. N
        BY <1>1 DEF PushNeighbour, TypeOK
      <4> QED
        BY <1>1, <2>1, <4>1 DEF PushNeighbour, TypeOK
    <3>2. StackInv' /\ ExpandInv'
      BY <1>1, <2>1 DEF PushNeighbour, StackInv, ExpandInv, OnStack
    <3>3. FirstInv'
      <4>1. Black' = Black
        BY <1>1 DEF PushNeighbour, Black
      <4> QED
        BY <1>1, <4>1 DEF PushNeighbour, FirstInv
    <3>4. SecondInv'
      BY <1>1, <2>1 DEF PushNeighbour, SecondInv
    <3>5. OrderIsPermutation' /\ PartInv'
      BY <1>1 DEF PushNeighbour, OrderIsPermutation, PartInv
    <3> QED
      BY <3>1, <3>2, <3>3, <3>4, <3>5
  <2>2. CASE S' = Append(S, scan)
    <3>1. scan \in Vertices /\ S \in Seq(Vertices) /\ Len(S) \in Nat
      BY <1>1, LenProperties DEF PushNeighbour, TypeOK
    <3>2. /\ S' \in Seq(Vertices) /\ S' # <<>> /\ Len(S') = Len(S)+1
          /\ \A k \in 1 .. Len(S) : S'[k] = S[k]
      BY <2>2, <3>1, AppendProperties
    <3>3. TypeOK'
      <4>1. scan' \in 0 .. N
        BY <1>1 DEF PushNeighbour, TypeOK
      <4> QED
        BY <1>1, <3>2, <4>1 DEF PushNeighbour, TypeOK
    <3>4. StackInv' /\ ExpandInv'
      <4>1. \A a : OnStack(a) => OnStack(a)'
        BY <3>1, <3>2 DEF OnStack
      <4>2. color' = color /\ v' = v
        BY <1>1 DEF PushNeighbour
      <4>3. StackInv'
        BY <4>1, <4>2 DEF StackInv
      <4> QED
        BY <4>1, <4>2, <4>3 DEF ExpandInv
    <3>5. FirstInv' /\ OrderIsPermutation' /\ PartInv'
      BY <1>1 DEF PushNeighbour, FirstInv, OrderIsPermutation, PartInv, Black
    <3>6. S # <<>>
      BY <1>1, <3>1, EmptySeq DEF PushNeighbour, ExpandInv, OnStack
    <3>7. SecondInv'
      <4>1. S'[1] = S[1]
        BY <3>1, <3>2, <3>6, EmptySeq
      <4> QED
        BY <1>1, <3>2, <3>6, <4>1 DEF PushNeighbour, SecondInv
    <3> QED
      BY <3>3, <3>4, <3>5, <3>7
  <2> QED
    BY <1>1, <2>1, <2>2 DEF PushNeighbour
<1>2. CASE StartRoot
  <2>1. i \in Vertices /\ S' = <<i>>
    <3>1. i < N
      BY <1>2 DEF StartRoot, FirstInv
    <3> QED
      BY <1>2, <3>1 DEF StartRoot, TypeOK
  <2>2. S' \in Seq(Vertices) /\ Len(S') = 1 /\ S'[1] = i
    BY <2>1
  <2>3. TypeOK'
    BY <1>2, <2>2 DEF StartRoot, TypeOK
  <2>4. \A a \in Vertices : color[a] # "GREY"
    BY <1>2, EmptySeq DEF StartRoot, StackInv, OnStack
  <2>5. v = NoVertex
    BY <1>2, EmptySeq DEF StartRoot, ExpandInv, OnStack
  <2>6. StackInv' /\ ExpandInv'
    BY <1>2, <2>4, <2>5 DEF StartRoot, StackInv, ExpandInv
  <2>7. FirstInv' /\ SecondInv' /\ OrderIsPermutation' /\ PartInv'
    BY <1>2 DEF StartRoot, FirstInv, SecondInv, OrderIsPermutation, PartInv, Black
  <2> QED
    BY <2>3, <2>6, <2>7
<1>3. CASE StartComponent
  <2>1. i \in Vertices /\ order[i] \in Vertices /\ S' = <<order[i]>>
    BY <1>3 DEF StartComponent, TypeOK, SecondInv
  <2>2. S' \in Seq(Vertices) /\ Len(S') = 1 /\ S'[1] = order[i]
    BY <2>1
  <2>3. TypeOK'
    BY <1>3, <2>2 DEF StartComponent, TypeOK
  <2>4. \A a \in Vertices : color[a] # "GREY"
    BY <1>3, EmptySeq DEF StartComponent, StackInv, OnStack
  <2>5. v = NoVertex
    BY <1>3, EmptySeq DEF StartComponent, ExpandInv, OnStack
  <2>6. StackInv' /\ ExpandInv'
    BY <1>3, <2>4, <2>5 DEF StartComponent, StackInv, ExpandInv
  <2>7. SecondInv'
    BY <1>3, <2>2 DEF StartComponent, SecondInv
  <2>8. FirstInv' /\ OrderIsPermutation' /\ PartInv'
    BY <1>3 DEF StartComponent, FirstInv, OrderIsPermutation, PartInv
  <2> QED
    BY <2>3, <2>6, <2>7, <2>8
<1> QED
  BY <1>1, <1>2, <1>3

\* A step that pops the top leaves every other vertex of the stack on it.
LEMMA PopStep ==
  ASSUME IInv, S # <<>>, S' = Pop
  PROVE  /\ top \in Vertices /\ OnStack(top)
         /\ S' \in Seq(Vertices)
         /\ \A a \in Vertices : (a # top /\ OnStack(a)) => OnStack(a)'
         /\ S' # <<>> => S'[1] = S[1]
         /\ S' = <<>> => top = S[1]
<1>1. /\ SubSeq(S, 1, Len(S)-1) \in Seq(Vertices)
      /\ Len(SubSeq(S, 1, Len(S)-1)) = Len(S)-1
      /\ \A k \in 1 .. Len(S)-1 : SubSeq(S, 1, Len(S)-1)[k] = S[k]
      /\ S[Len(S)] \in Vertices
      /\ Len(S) \in Nat \ {0}
  BY PopProperties DEF IInv, TypeOK
<1>2. /\ S' \in Seq(Vertices)
      /\ Len(S') = Len(S)-1
      /\ \A k \in 1 .. Len(S)-1 : S'[k] = S[k]
  BY <1>1 DEF Pop
<1>3. top \in Vertices /\ OnStack(top)
  BY <1>1 DEF top, OnStack
<1>4. ASSUME NEW a \in Vertices, a # top, OnStack(a) PROVE OnStack(a)'
  <2>1. PICK k \in 1 .. Len(S) : S[k] = a
    BY <1>4 DEF OnStack
  <2>2. k \in 1 .. Len(S)-1
    BY <1>1, <1>4, <2>1 DEF top
  <2> QED
    BY <1>2, <2>1, <2>2 DEF OnStack
<1>5. S' # <<>> => S'[1] = S[1]
  <2> SUFFICES ASSUME S' # <<>> PROVE S'[1] = S[1]
    OBVIOUS
  <2>1. Len(S') \in Nat \ {0}
    BY <1>2, EmptySeq, LenProperties
  <2>2. 1 \in 1 .. Len(S)-1
    BY <1>1, <1>2, <2>1
  <2> QED
    BY <1>2, <2>2
<1>6. S' = <<>> => top = S[1]
  <2> SUFFICES ASSUME S' = <<>> PROVE top = S[1]
    OBVIOUS
  <2>1. Len(S') = 0
    OBVIOUS
  <2>2. Len(S) = 1
    BY <1>1, <1>2, <2>1
  <2> QED
    BY <2>2 DEF top
<1> QED
  BY <1>2, <1>3, <1>4, <1>5, <1>6

\* Turning the expanded vertex GREY keeps the invariant: it is on the stack.
LEMMA EndExpandStep ==
  ASSUME IInv, EndExpand
  PROVE  IInv'
<1> USE NAssumption DEF IInv
<1>1. v \in Vertices /\ color[v] = "WHITE" /\ OnStack(v) /\ v # NoVertex
  BY DEF EndExpand, TypeOK, ExpandInv
<1>2. /\ \A a \in Vertices : a # v => color'[a] = color[a]
      /\ color'[v] = "GREY"
      /\ color' \in [Vertices -> Colors]
  BY <1>1 DEF EndExpand, TypeOK, Colors
<1>3. TypeOK'
  <2>1. v' \in Vertices \union {NoVertex} /\ scan' \in 0 .. N
    BY DEF EndExpand
  <2> QED
    BY <1>2, <2>1 DEF EndExpand, TypeOK
<1>4. StackInv' /\ ExpandInv'
  BY <1>1, <1>2 DEF EndExpand, StackInv, ExpandInv, OnStack
<1>5. FirstInv'
  <2>1. Black' = Black
    BY <1>1, <1>2 DEF Black
  <2>2. \A a \in Vertices : color'[a] = "BLACK" <=> color[a] = "BLACK"
    BY <1>1, <1>2
  <2>3. pc = "dfs1" => \A k \in c .. N-1 : order[k] \in Vertices
    BY DEF TypeOK, Vertices
  <2> QED
    BY <1>2, <2>1, <2>2, <2>3 DEF EndExpand, FirstInv
<1>6. SecondInv'
  <2>1. pc # "dfs1" => \A k \in 0 .. N-1 : order[k] \in Vertices
    BY DEF TypeOK, Vertices
  <2>2. S # <<>>
    BY <1>1, EmptySeq DEF OnStack
  <2>3. i \in Int
    BY DEF TypeOK
  <2> QED
    BY <1>1, <1>2, <2>1, <2>2, <2>3 DEF EndExpand, SecondInv
<1>7. OrderIsPermutation'
  BY DEF EndExpand, OrderIsPermutation
<1>8. PartInv'
  <2>1. \A a \in Vertices : color'[a] = "BLACK" <=> color[a] = "BLACK"
    BY <1>1, <1>2
  <2> QED
    BY <2>1 DEF EndExpand, PartInv
<1> QED
  BY <1>3, <1>4, <1>5, <1>6, <1>7, <1>8

\* Dropping a copy of a BLACK vertex.
LEMMA DropCopyStep ==
  ASSUME IInv, DropCopy
  PROVE  IInv'
<1> USE NAssumption DEF IInv
<1>1. /\ S # <<>> /\ S' = Pop /\ color[top] = "BLACK" /\ v = NoVertex
      /\ UNCHANGED <<edge, pc, i, color, v, scan, order, c, s, result>>
  BY DEF DropCopy
<1>2. /\ top \in Vertices /\ OnStack(top)
      /\ S' \in Seq(Vertices)
      /\ \A a \in Vertices : (a # top /\ OnStack(a)) => OnStack(a)'
      /\ S' # <<>> => S'[1] = S[1]
      /\ S' = <<>> => top = S[1]
  BY <1>1, PopStep
<1>3. TypeOK'
  BY <1>1, <1>2 DEF TypeOK
<1>4. StackInv' /\ ExpandInv'
  BY <1>1, <1>2 DEF StackInv, ExpandInv
<1>5. FirstInv'
  <2>1. Black' = Black
    BY <1>1 DEF Black
  <2> QED
    BY <1>1, <2>1 DEF FirstInv
<1>6. SecondInv'
  BY <1>1, <1>2 DEF SecondInv
<1>7. OrderIsPermutation' /\ PartInv'
  BY <1>1 DEF OrderIsPermutation, PartInv
<1> QED
  BY <1>3, <1>4, <1>5, <1>6, <1>7

\* Finishing a vertex in the first search: there is room left in order, and
\* the vertex was not in it.
LEMMA FinishStep ==
  ASSUME IInv, Finish
  PROVE  IInv'
<1> USE NAssumption DEF IInv
<1>1. /\ pc = "dfs1" /\ S # <<>> /\ S' = Pop /\ color[top] = "GREY" /\ v = NoVertex
      /\ color' = [color EXCEPT ![top] = "BLACK"]
      /\ c' = c-1 /\ order' = [order EXCEPT ![c-1] = top]
      /\ UNCHANGED <<edge, pc, i, v, scan, s, result>>
  BY DEF Finish
<1>2. /\ top \in Vertices /\ OnStack(top)
      /\ S' \in Seq(Vertices)
      /\ \A a \in Vertices : (a # top /\ OnStack(a)) => OnStack(a)'
  BY <1>1, PopStep
<1>3. /\ color \in [Vertices -> Colors] /\ order \in [Vertices -> Vertices]
      /\ c \in 0 .. N
  BY DEF TypeOK
<1>4. /\ color' \in [Vertices -> Colors] /\ color'[top] = "BLACK"
      /\ \A a \in Vertices : a # top => color'[a] = color[a]
  BY <1>1, <1>2, <1>3 DEF Colors
<1>5. Cardinality(Black') = Cardinality(Black) + 1 /\ Cardinality(Black) \in Nat
      /\ Cardinality(Black) < N
  <2>1. Black' = {b \in Vertices : [color EXCEPT ![top] = "BLACK"][b] = "BLACK"}
    BY <1>1 DEF Black
  <2> QED
    BY <1>1, <1>2, <1>3, <2>1, BlackCount DEF Black
<1>6. c > 0 /\ c + Cardinality(Black) = N
  BY <1>1, <1>3, <1>5 DEF FirstInv
<1>7. c-1 \in Vertices /\ c' \in 0 .. N
  BY <1>1, <1>3, <1>6 DEF Vertices
<1>8. /\ order' \in [Vertices -> Vertices] /\ order'[c-1] = top
      /\ \A k \in Vertices : k # c-1 => order'[k] = order[k]
  BY <1>1, <1>2, <1>3, <1>7
<1>9. TypeOK'
  BY <1>1, <1>2, <1>4, <1>7, <1>8 DEF TypeOK
<1>10. StackInv' /\ ExpandInv'
  BY <1>1, <1>2, <1>4 DEF StackInv, ExpandInv
<1>11. \A k \in c-1 .. N-1 : k \in Vertices /\ (k = c-1 \/ k \in c .. N-1)
  BY <1>3, <1>6 DEF Vertices
<1>12. \A k \in c .. N-1 : k \in c-1 .. N-1 /\ k # c-1 /\ order[k] # top
  BY <1>1, <1>3, <1>6 DEF FirstInv
<1>13. FirstInv'
  <2>1. c' + Cardinality(Black') = N
    BY <1>1, <1>3, <1>5, <1>6
  <2>2. \A k \in c-1 .. N-1 : color'[order'[k]] = "BLACK"
    BY <1>1, <1>3, <1>4, <1>8, <1>11 DEF FirstInv
  <2>3. \A k, m \in c-1 .. N-1 : order'[k] = order'[m] => k = m
    BY <1>1, <1>8, <1>11, <1>12 DEF FirstInv
  <2>4. ASSUME NEW a \in Vertices, color'[a] = "BLACK"
        PROVE  \E k \in c-1 .. N-1 : order'[k] = a
    <3>1. CASE a = top
      <4>1. c-1 \in c-1 .. N-1
        BY <1>3, <1>6
      <4> QED
        BY <1>8, <3>1, <4>1
    <3>2. CASE a # top
      <4>1. PICK k \in c .. N-1 : order[k] = a
        BY <1>1, <1>4, <2>4, <3>2 DEF FirstInv
      <4> QED
        BY <1>8, <1>11, <1>12, <4>1
    <3> QED
      BY <3>1, <3>2
  <2>5. i < N /\ \A a \in Vertices : a > i => color'[a] # "WHITE"
    BY <1>1, <1>4 DEF FirstInv
  <2> QED
    BY <1>1, <2>1, <2>2, <2>3, <2>4, <2>5 DEF FirstInv
<1>14. SecondInv' /\ OrderIsPermutation' /\ PartInv'
  BY <1>1 DEF SecondInv, OrderIsPermutation, PartInv
<1> QED
  BY <1>9, <1>10, <1>13, <1>14

\* Finishing a vertex in the second search puts it into s.
LEMMA CollectStep ==
  ASSUME IInv, Collect
  PROVE  IInv'
<1> USE NAssumption DEF IInv
<1>1. /\ pc = "dfs2" /\ S # <<>> /\ S' = Pop /\ color[top] = "GREY" /\ v = NoVertex
      /\ color' = [color EXCEPT ![top] = "BLACK"]
      /\ s' = s \union {top}
      /\ UNCHANGED <<edge, pc, i, v, scan, order, c, result>>
  BY DEF Collect
<1>2. /\ top \in Vertices /\ OnStack(top)
      /\ S' \in Seq(Vertices)
      /\ \A a \in Vertices : (a # top /\ OnStack(a)) => OnStack(a)'
      /\ S' # <<>> => S'[1] = S[1]
      /\ S' = <<>> => top = S[1]
  BY <1>1, PopStep
<1>3. color \in [Vertices -> Colors] /\ order \in [Vertices -> Vertices]
  BY DEF TypeOK
<1>4. /\ color' \in [Vertices -> Colors] /\ color'[top] = "BLACK"
      /\ \A a \in Vertices : a # top => color'[a] = color[a]
  BY <1>1, <1>2, <1>3 DEF Colors
<1>5. TypeOK'
  <2>1. s' \in SUBSET Vertices
    BY <1>1, <1>2 DEF TypeOK
  <2> QED
    BY <1>1, <1>2, <1>4, <2>1 DEF TypeOK
<1>6. StackInv' /\ ExpandInv'
  <2>1. \A a \in Vertices : color'[a] = "GREY" => a # top /\ color[a] = "GREY"
    BY <1>2, <1>4
  <2>2. StackInv'
    BY <1>2, <2>1 DEF StackInv
  <2>3. v' = NoVertex
    BY <1>1
  <2> QED
    BY <2>2, <2>3 DEF ExpandInv
<1>7. FirstInv' /\ OrderIsPermutation'
  BY <1>1 DEF FirstInv, OrderIsPermutation
<1>8. SecondInv'
  <2>1. i \in 0 .. N /\ i < N /\ S[1] = order[i]
    BY <1>1 DEF SecondInv
  <2>2. \A k \in 0 .. i-1 : k \in Vertices /\ order[k] \in Vertices
    <3>1. \A k \in 0 .. i-1 : k \in Vertices
      BY <2>1 DEF Vertices
    <3> QED
      BY <1>3, <3>1
  <2>3. \A k \in 0 .. i-1 : color'[order[k]] # "WHITE"
    <3>1. \A k \in 0 .. i-1 : color[order[k]] # "WHITE"
      BY <1>1 DEF SecondInv
    <3> QED
      BY <1>4, <2>2, <3>1
  <2>4. S' = <<>> => color'[order[i]] = "BLACK"
    BY <1>2, <1>4, <2>1
  <2>5. pc' = "dfs2" /\ i' = i /\ order' = order
    BY <1>1
  <2> QED
    BY <1>2, <2>1, <2>3, <2>4, <2>5 DEF SecondInv
<1>9. PartInv'
  <2>1. top \notin s /\ \A k \in 1 .. Len(result) : top \notin result[k]
    BY <1>1, <1>2 DEF PartInv
  <2>2. \A a \in Vertices :
          color'[a] = "BLACK" <=> a \in s' \/ \E k \in 1 .. Len(result) : a \in result[k]
    BY <1>1, <1>4 DEF PartInv
  <2>3. \A k \in 1 .. Len(result) : \A a \in result[k] :
          /\ a \notin s'
          /\ \A m \in 1 .. Len(result) : a \in result[m] => m = k
    BY <1>1, <2>1 DEF PartInv
  <2> QED
    BY <1>1, <2>2, <2>3 DEF PartInv
<1> QED
  BY <1>5, <1>6, <1>7, <1>8, <1>9

\* At the end of the first search order is complete.
LEMMA AllFinished ==
  ASSUME IInv, Transpose
  PROVE  c = 0 /\ \A a \in Vertices : color[a] = "BLACK"
<1>1. \A a \in Vertices : color[a] = "BLACK"
  <2>1. \A a \in Vertices : color[a] # "GREY"
    BY DEF Transpose, IInv, StackInv, OnStack
  <2>2. \A a \in Vertices : color[a] # "WHITE"
    BY NAssumption DEF Transpose, IInv, FirstInv, Vertices
  <2> QED
    BY <2>1, <2>2 DEF IInv, TypeOK, Colors
<1>2. c = 0
  <2>1. Black = Vertices
    BY <1>1 DEF Black
  <2>2. Cardinality(Vertices) = N
    <3>1. 0 \in Int /\ N-1 \in Int /\ N \in Nat
      BY NAssumption
    <3> QED
      BY <3>1, FS_Interval DEF Vertices
  <2>3. c \in Nat /\ c + N = N /\ N \in Nat
    BY <2>1, <2>2, NAssumption DEF Transpose, IInv, FirstInv, TypeOK
  <2> QED
    BY <2>3
<1> QED
  BY <1>1, <1>2

\* Between the searches: no vertex is WHITE or GREY any more, so all N are in
\* order.
LEMMA TransposeStep ==
  ASSUME IInv, Transpose
  PROVE  IInv'
<1> USE NAssumption DEF IInv
<1>1. /\ pc = "dfs1" /\ S = <<>> /\ i = -1 /\ pc' = "dfs2" /\ i' = 0
      /\ color' = [a \in Vertices |-> "WHITE"]
      /\ UNCHANGED <<edge, S, v, scan, order, c, s, result>>
  BY DEF Transpose
<1>2. c = 0 /\ \A a \in Vertices : color[a] = "BLACK"
  BY AllFinished
<1>3. TypeOK'
  <2>1. color' \in [Vertices -> Colors]
    BY <1>1 DEF Colors
  <2> QED
    BY <1>1, <2>1 DEF TypeOK
<1>4. StackInv' /\ ExpandInv'
  <2>1. v = NoVertex
    BY <1>1 DEF ExpandInv, OnStack
  <2> QED
    BY <1>1, <2>1 DEF StackInv, ExpandInv
<1>5. FirstInv'
  BY <1>1 DEF FirstInv
<1>6. SecondInv'
  <2>1. s' = {} /\ i' \in 0 .. N /\ \A k \in 0 .. i'-1 : FALSE
    BY <1>1 DEF FirstInv
  <2> QED
    BY <1>1, <2>1 DEF SecondInv
<1>7. OrderIsPermutation'
  <2>1. c .. N-1 = Vertices
    BY <1>2 DEF Vertices
  <2>2. \A a \in Vertices : \E k \in Vertices : order[k] = a
    BY <1>1, <1>2, <2>1 DEF FirstInv
  <2>3. \A k, m \in Vertices : order[k] = order[m] => k = m
    BY <1>1, <2>1 DEF FirstInv
  <2> QED
    BY <1>1, <2>2, <2>3 DEF OrderIsPermutation
<1>8. PartInv'
  <2>1. s' = {} /\ result' = <<>> /\ \A a \in Vertices : color'[a] # "BLACK"
    BY <1>1 DEF FirstInv
  <2>2. \A k \in 1 .. Len(result') : FALSE
    BY <2>1
  <2> QED
    BY <2>1, <2>2 DEF PartInv
<1> QED
  BY <1>3, <1>4, <1>5, <1>6, <1>7, <1>8

\* Emitting the component that has been collected.
LEMMA EmitStep ==
  ASSUME IInv, EmitComponent
  PROVE  IInv'
<1> USE NAssumption DEF IInv
<1>1. /\ pc = "dfs2" /\ S = <<>> /\ s # {}
      /\ result' = Append(result, s) /\ s' = {} /\ i' = i+1
      /\ UNCHANGED <<edge, pc, color, S, v, scan, order, c>>
  BY DEF EmitComponent
<1>2. i \in 0 .. N-1 /\ color[order[i]] = "BLACK"
  BY <1>1 DEF SecondInv
<1>3. /\ result \in Seq(SUBSET Vertices) /\ s \in SUBSET Vertices
      /\ Len(result) \in Nat
  BY LenProperties DEF TypeOK
<1>4. /\ result' \in Seq(SUBSET Vertices)
      /\ Len(result') = Len(result)+1
      /\ \A k \in 1 .. Len(result) : result'[k] = result[k]
      /\ result'[Len(result)+1] = s
  BY <1>1, <1>3, AppendProperties
<1>5. TypeOK'
  <2>1. i' \in -1 .. N /\ s' \in SUBSET Vertices
    BY <1>1, <1>2
  <2> QED
    BY <1>1, <1>4, <2>1 DEF TypeOK
<1>6. StackInv' /\ ExpandInv'
  BY <1>1 DEF StackInv, ExpandInv, OnStack
<1>7. FirstInv' /\ OrderIsPermutation'
  BY <1>1 DEF FirstInv, OrderIsPermutation
<1>8. SecondInv'
  <2>1. ASSUME NEW k \in 0 .. i PROVE color[order[k]] # "WHITE"
    <3>1. k = i \/ k \in 0 .. i-1
      BY <1>2
    <3> QED
      BY <1>1, <1>2, <3>1 DEF SecondInv
  <2>2. i' \in 0 .. N /\ i'-1 = i
    BY <1>1, <1>2
  <2> QED
    BY <1>1, <2>1, <2>2 DEF SecondInv
<1>9. \A k \in 1 .. Len(result') : k \in 1 .. Len(result) \/ k = Len(result)+1
  BY <1>3, <1>4
<1>10. \A k \in 1 .. Len(result) : k \in 1 .. Len(result') /\ k # Len(result)+1
  BY <1>3, <1>4
<1>11. Len(result)+1 \in 1 .. Len(result')
  BY <1>3, <1>4
<1>12. PartInv'
  <2>1. ASSUME NEW a \in Vertices
        PROVE  color[a] = "BLACK" <=> \E k \in 1 .. Len(result') : a \in result'[k]
    <3>1. a \in s \/ (\E k \in 1 .. Len(result) : a \in result[k])
            <=> \E k \in 1 .. Len(result') : a \in result'[k]
      BY <1>4, <1>9, <1>10, <1>11
    <3> QED
      BY <1>1, <3>1 DEF PartInv
  <2>2. ASSUME NEW k \in 1 .. Len(result'), NEW a \in result'[k],
               NEW m \in 1 .. Len(result'), a \in result'[m]
        PROVE  m = k
    BY <1>1, <1>4, <1>9, <2>2 DEF PartInv
  <2> QED
    BY <1>1, <2>1, <2>2 DEF PartInv
<1> QED
  BY <1>5, <1>6, <1>7, <1>8, <1>12

-----------------------------------------------------------------------------
(* The theorems.                                                           *)

\* IInv is an invariant of the algorithm.
LEMMA Invariance == Spec => []IInv
<1>1. IInv /\ [Next]_vars => IInv'
  <2> SUFFICES ASSUME IInv, [Next]_vars PROVE IInv'
    OBVIOUS
  <2>1. CASE Expand \/ SkipRoot \/ SkipComponent \/ Return \/ UNCHANGED vars
    BY <2>1, CounterSteps
  <2>2. CASE PushNeighbour \/ StartRoot \/ StartComponent
    BY <2>2, PushSteps
  <2>3. CASE EndExpand
    BY <2>3, EndExpandStep
  <2>4. CASE DropCopy
    BY <2>4, DropCopyStep
  <2>5. CASE Finish
    BY <2>5, FinishStep
  <2>6. CASE Collect
    BY <2>6, CollectStep
  <2>7. CASE Transpose
    BY <2>7, TransposeStep
  <2>8. CASE EmitComponent
    BY <2>8, EmitStep
  <2> QED
    BY <2>1, <2>2, <2>3, <2>4, <2>5, <2>6, <2>7, <2>8 DEF Next, Step, Returned
<1> QED
  BY <1>1, InitIInv, PTL DEF Spec

\* Every variable keeps its type, for graphs of every size: order is never
\* written outside its N elements and order[i] is always a vertex.
THEOREM TypeCorrect == Spec => []TypeOK
<1>1. IInv => TypeOK
  BY DEF IInv
<1> QED
  BY <1>1, Invariance, PTL

\* When the first search is over, order holds every vertex exactly once.
THEOREM OrderCorrect == Spec => []OrderIsPermutation
<1>1. IInv => OrderIsPermutation
  BY DEF IInv
<1> QED
  BY <1>1, Invariance, PTL

\* The sets that topoSort returns partition the vertices of the graph.
THEOREM PartitionCorrect == Spec => []ResultPartitions
<1>1. IInv => ResultPartitions
  <2> SUFFICES ASSUME IInv, pc = "done", NEW a \in Vertices
               PROVE  \E k \in 1 .. Len(result) :
                        /\ a \in result[k]
                        /\ \A m \in 1 .. Len(result) : a \in result[m] => m = k
    BY DEF ResultPartitions
  <2> USE NAssumption DEF IInv
  <2>1. i = N /\ S = <<>> /\ s = {}
    BY DEF SecondInv
  <2>2. color[a] # "GREY"
    BY <2>1, EmptySeq DEF StackInv, OnStack
  <2>3. color[a] # "WHITE"
    <3>1. PICK k \in Vertices : order[k] = a
      BY DEF OrderIsPermutation
    <3>2. k \in 0 .. i-1
      BY <2>1, <3>1 DEF Vertices
    <3> QED
      BY <3>1, <3>2 DEF SecondInv
  <2>4. color[a] = "BLACK"
    BY <2>2, <2>3 DEF TypeOK, Colors
  <2> QED
    BY <2>1, <2>4 DEF PartInv
<1> QED
  BY <1>1, Invariance, PTL

-----------------------------------------------------------------------------
(* A graph that is sorted already.                                         *)

Sorted == \A p \in edge : p[1] < p[2]

\* The roots come in an order in which all neighbours of a root are BLACK, in
\* either search: the stack never holds more than the root.
Alone == /\ S = <<>> \/ (i \in Vertices /\ S = <<i>>)
         /\ v # NoVertex => i \in Vertices /\ v = i /\ S = <<i>>

\* The first search goes down the numbers ...
Down == /\ \A a \in Vertices : (a > i => color[a] = "BLACK") /\ (a < i => color[a] = "WHITE")
        /\ i \in Vertices => c = IF color[i] = "BLACK" THEN i ELSE i+1
        /\ i \in Vertices /\ color[i] = "BLACK" => S = <<>>
        /\ i = -1 => c = 0
        /\ \A k \in Vertices : k >= c => order[k] = k

\* ... and the second one up.
Up == /\ \A k \in Vertices : order[k] = k
      /\ \A a \in Vertices : (a < i => color[a] = "BLACK") /\ (a > i => color[a] = "WHITE")
      /\ i \in 0 .. N
      /\ i \in Vertices => IF color[i] = "BLACK" THEN S = <<>> /\ s = {i} ELSE s = {}
      /\ Len(result) = i
      /\ \A k \in 1 .. Len(result) : result[k] = {k-1}

SortedInv == Sorted => /\ Alone
                       /\ pc = "dfs1" => Down
                       /\ pc # "dfs1" => Up

\* The stack of one vertex has it on top, and is empty when it is popped.
LEMMA TopAlone ==
  ASSUME IInv, Alone, S # <<>>
  PROVE  i \in Vertices /\ top = i /\ Pop = <<>>
<1>1. i \in Vertices /\ S = <<i>>
  BY DEF Alone
<1>2. Len(S) = 1 /\ S[1] = i
  BY <1>1
<1>3. Len(Pop) = 0 /\ Pop \in Seq(Vertices)
  BY <1>2, PopProperties DEF IInv, TypeOK, Pop
<1> QED
  BY <1>1, <1>2, <1>3, EmptySeq DEF top

LEMMA SortedPush == IInv /\ SortedInv /\ PushNeighbour => SortedInv'
<1> SUFFICES ASSUME IInv, SortedInv, PushNeighbour, Sorted
             PROVE  Alone' /\ (pc' = "dfs1" => Down') /\ (pc' # "dfs1" => Up')
  BY DEF SortedInv, Sorted, PushNeighbour
<1>1. /\ UNCHANGED <<edge, pc, i, color, v, order, c, s, result>>
      /\ v = i /\ i \in Vertices /\ scan \in Vertices
  BY NAssumption DEF PushNeighbour, SortedInv, Alone, IInv, TypeOK, Vertices
<1>2. ~(Neighbour(v, scan) /\ color[scan] = "WHITE")
  <2>1. CASE pc = "dfs1"
    <3>1. Neighbour(v, scan) => i < scan
      BY <1>1, <2>1 DEF Neighbour, Sorted
    <3> QED
      BY <1>1, <2>1, <3>1 DEF SortedInv, Down
  <2>2. CASE pc # "dfs1"
    <3>1. Neighbour(v, scan) => scan < i
      BY <1>1, <2>2 DEF Neighbour, Sorted
    <3> QED
      BY <1>1, <2>2, <3>1 DEF SortedInv, Up
  <2> QED
    BY <2>1, <2>2
<1>3. S' = S
  BY <1>2 DEF PushNeighbour
<1> QED
  BY <1>1, <1>3 DEF SortedInv, Alone, Down, Up

\* The other steps of the loop on the stack.
LEMMA SortedStack == IInv /\ SortedInv /\ (Expand \/ EndExpand \/ DropCopy) => SortedInv'
<1> SUFFICES ASSUME IInv, SortedInv, Expand \/ EndExpand \/ DropCopy, Sorted
             PROVE  Alone' /\ (pc' = "dfs1" => Down') /\ (pc' # "dfs1" => Up')
  BY DEF SortedInv, Sorted, Expand, EndExpand, DropCopy
<1>1. Alone /\ color \in [Vertices -> Colors]
  BY DEF SortedInv, IInv, TypeOK
<1>2. CASE Expand
  <2>1. i \in Vertices /\ v' = i /\ S = <<i>>
    BY <1>1, <1>2, TopAlone DEF Expand, Alone
  <2> QED
    BY <1>2, <2>1 DEF Expand, SortedInv, Alone, Down, Up
<1>3. CASE EndExpand
  <2>1. /\ i \in Vertices /\ S = <<i>> /\ color' = [color EXCEPT ![i] = "GREY"]
        /\ v' = NoVertex /\ UNCHANGED <<edge, pc, i, S, order, c, s, result>>
    BY <1>1, <1>3 DEF EndExpand, Alone
  <2>2. /\ color'[i] = "GREY" /\ color[i] # "BLACK"
        /\ \A a \in Vertices : a # i => color'[a] = color[a]
    <3>1. S # <<>>
      BY <2>1
    <3> QED
      BY <1>1, <2>1, <3>1 DEF SortedInv, Down, Up
  <2>3. i \in Int /\ \A a \in Vertices : a \in Int
    BY <2>1 DEF Vertices
  <2> QED
    BY <2>1, <2>2, <2>3 DEF SortedInv, Alone, Down, Up
<1>4. CASE DropCopy
  <2>1. S # <<>> /\ i \in Vertices /\ color[i] = "BLACK"
    BY <1>1, <1>4, TopAlone DEF DropCopy
  <2> QED
    BY <2>1 DEF SortedInv, Down, Up
<1> QED
  BY <1>2, <1>3, <1>4

LEMMA SortedFirst ==
  IInv /\ SortedInv /\ (StartRoot \/ SkipRoot \/ Finish \/ Transpose) => SortedInv'
<1> SUFFICES ASSUME IInv, SortedInv, StartRoot \/ SkipRoot \/ Finish \/ Transpose, Sorted
             PROVE  Alone' /\ (pc' = "dfs1" => Down') /\ (pc' # "dfs1" => Up')
  BY DEF SortedInv, Sorted, StartRoot, SkipRoot, Finish, Transpose
<1>1. /\ pc = "dfs1" /\ Alone /\ Down
      /\ color \in [Vertices -> Colors] /\ order \in [Vertices -> Vertices]
      /\ i \in -1 .. N /\ i < N /\ s = {} /\ result = <<>>
  BY DEF SortedInv, IInv, TypeOK, FirstInv, StartRoot, SkipRoot, Finish, Transpose
<1>2. \A a \in Vertices : a \in 0 .. N-1
  BY DEF Vertices
<1>3. CASE StartRoot
  <2>1. /\ i \in Vertices /\ S' = <<i>> /\ color[i] = "WHITE" /\ S = <<>>
        /\ UNCHANGED <<edge, pc, i, color, v, scan, order, c, s, result>>
    BY <1>1, NAssumption, <1>3 DEF StartRoot, Vertices
  <2> QED
    BY <1>1, <2>1 DEF Alone, Down
<1>4. CASE SkipRoot
  <2>1. /\ i \in Vertices /\ color[i] # "WHITE" /\ S = <<>> /\ i' = i-1
        /\ UNCHANGED <<edge, pc, color, S, v, scan, order, c, s, result>>
    BY <1>1, NAssumption, <1>4 DEF SkipRoot, Vertices
  <2>2. color[i] = "BLACK"
    <3>1. color[i] # "GREY"
      BY <2>1 DEF IInv, StackInv, OnStack
    <3> QED
      BY <1>1, <2>1, <3>1 DEF Colors
  <2>3. c = i /\ v = NoVertex
    BY <1>1, <2>1, <2>2 DEF Down, Alone
  <2>4. \A a \in Vertices : (a > i-1 => a = i \/ a > i) /\ (a < i-1 => a < i)
    BY <1>1, <1>2
  <2>5. i-1 \in Vertices => color[i-1] = "WHITE"
    BY <1>1, <1>2 DEF Down
  <2>6. (i-1) + 1 = i /\ (i-1 = -1 => i = 0)
    BY <1>1
  <2> QED
    BY <1>1, <2>1, <2>2, <2>3, <2>4, <2>5, <2>6 DEF Alone, Down
<1>5. CASE Finish
  <2>1. /\ i \in Vertices /\ color[i] = "GREY" /\ v = NoVertex
        /\ color' = [color EXCEPT ![i] = "BLACK"] /\ S' = <<>> /\ c' = c-1
        /\ order' = [order EXCEPT ![c-1] = i]
        /\ UNCHANGED <<edge, pc, i, v, scan, s, result>>
    BY <1>1, <1>5, TopAlone DEF Finish
  <2>2. c = i+1 /\ c' = i /\ order' = [order EXCEPT ![i] = i]
    BY <1>1, <1>2, <2>1 DEF Down
  <2>3. /\ color'[i] = "BLACK" /\ order'[i] = i
        /\ \A a \in Vertices : a # i => color'[a] = color[a] /\ order'[a] = order[a]
    BY <1>1, <2>1, <2>2
  <2>4. \A k \in Vertices : k >= i => k = i \/ k >= c
    BY <1>2, <2>1, <2>2
  <2>5. Down'
    <3>1. i # -1 /\ \A a \in Vertices : a > i \/ a < i => a # i
      BY <1>2, <2>1
    <3>2. \A k \in Vertices : k >= i => order'[k] = k
      BY <1>1, <2>3, <2>4 DEF Down
    <3>3. \A a \in Vertices : (a > i => color'[a] = "BLACK") /\ (a < i => color'[a] = "WHITE")
      BY <1>1, <2>3, <3>1 DEF Down
    <3> QED
      BY <2>1, <2>2, <2>3, <3>1, <3>2, <3>3 DEF Down
  <2> QED
    BY <1>1, <2>1, <2>5 DEF Alone
<1>6. CASE Transpose
  <2>1. /\ i = -1 /\ S = <<>> /\ pc' = "dfs2" /\ i' = 0
        /\ color' = [a \in Vertices |-> "WHITE"]
        /\ UNCHANGED <<edge, S, v, scan, order, c, s, result>>
    BY <1>6 DEF Transpose
  <2>2. c = 0 /\ v = NoVertex
    BY <1>1, <2>1 DEF Down, Alone, Vertices
  <2>3. \A k \in Vertices : order[k] = k
    BY <1>1, <1>2, <2>2 DEF Down
  <2>4. Len(result) = 0
    BY <1>1, EmptySeq
  <2>5. 0 \in 0 .. N /\ \A a \in Vertices : ~(a < 0) /\ color'[a] = "WHITE"
    BY <1>2, <2>1, NAssumption
  <2> QED
    BY <1>1, <2>1, <2>2, <2>3, <2>4, <2>5 DEF Alone, Up
<1> QED
  BY <1>3, <1>4, <1>5, <1>6

LEMMA SortedSecond ==
  IInv /\ SortedInv /\ (StartComponent \/ SkipComponent \/ Collect \/ EmitComponent \/ Return)
    => SortedInv'
<1> SUFFICES ASSUME IInv, SortedInv, Sorted,
                    StartComponent \/ SkipComponent \/ Collect \/ EmitComponent \/ Return
             PROVE  Alone' /\ (pc' = "dfs1" => Down') /\ (pc' # "dfs1" => Up')
  BY DEF SortedInv, Sorted, StartComponent, SkipComponent, Collect, EmitComponent, Return
<1>1. /\ pc = "dfs2" /\ Alone /\ Up
      /\ color \in [Vertices -> Colors] /\ result \in Seq(SUBSET Vertices) /\ i \in 0 .. N
  BY DEF SortedInv, IInv, TypeOK, Up, StartComponent, SkipComponent, Collect, EmitComponent, Return
<1>2. /\ \A a \in Vertices : a \in 0 .. N-1
      /\ i < N => i \in Vertices /\ order[i] = i
  BY <1>1, NAssumption DEF Vertices, Up
<1>3. CASE StartComponent
  <2>1. /\ i \in Vertices /\ S' = <<i>> /\ color[i] = "WHITE" /\ S = <<>> /\ pc' = pc
        /\ UNCHANGED <<edge, i, color, v, scan, order, c, s, result>>
    BY <1>2, <1>3 DEF StartComponent
  <2> QED
    BY <1>1, <2>1 DEF Alone, Up
<1>4. CASE SkipComponent
  <2>1. i \in Vertices /\ color[i] # "WHITE" /\ S = <<>> /\ s = {}
    BY <1>2, <1>4 DEF SkipComponent
  <2>2. color[i] # "GREY"
    BY <2>1 DEF IInv, StackInv, OnStack
  <2>3. color[i] = "BLACK"
    BY <1>1, <2>1, <2>2 DEF Colors
  <2> QED
    BY <1>1, <2>1, <2>3 DEF Up
<1>5. CASE Collect
  <2>1. /\ i \in Vertices /\ color[i] = "GREY" /\ v = NoVertex
        /\ color' = [color EXCEPT ![i] = "BLACK"] /\ S' = <<>> /\ s' = s \union {i}
        /\ UNCHANGED <<edge, pc, i, v, scan, order, c, result>>
    BY <1>1, <1>5, TopAlone DEF Collect
  <2>2. s' = {i}
    BY <1>1, <2>1 DEF Up
  <2>3. /\ color'[i] = "BLACK"
        /\ \A a \in Vertices : a # i => color'[a] = color[a]
    BY <1>1, <2>1
  <2>4. \A a \in Vertices : a < i \/ a > i => a # i
    BY <1>2, <2>1
  <2> QED
    BY <1>1, <2>1, <2>2, <2>3, <2>4 DEF Alone, Up
<1>6. CASE EmitComponent
  <2>1. /\ S = <<>> /\ s # {} /\ result' = Append(result, s) /\ s' = {} /\ i' = i+1 /\ pc' = pc
        /\ UNCHANGED <<edge, color, S, v, scan, order, c>>
    BY <1>6 DEF EmitComponent
  <2>2. i \in Vertices /\ color[i] = "BLACK" /\ s = {i}
    <3>1. i < N
      BY <1>1, <2>1 DEF IInv, SecondInv
    <3> QED
      BY <1>1, <1>2, <2>1, <3>1 DEF Up
  <2>3. /\ Len(result') = i+1 /\ result'[i+1] = {i}
        /\ \A k \in 1 .. i : result'[k] = {k-1}
    <3>1. s \in SUBSET Vertices /\ Len(result) = i /\ \A k \in 1 .. i : result[k] = {k-1}
      BY <1>1, <2>2 DEF Up
    <3> QED
      BY <1>1, <2>1, <2>2, <3>1, AppendProperties
  <2>4. \A k \in 1 .. i+1 : k \in 1 .. i \/ k = i+1
    BY <1>1
  <2>5. \A k \in 1 .. Len(result') : result'[k] = {k-1}
    BY <1>1, <2>3, <2>4
  <2>6. /\ i+1 \in 0 .. N
        /\ \A a \in Vertices : (a < i+1 => a < i \/ a = i) /\ (a > i+1 => a > i)
        /\ i+1 \in Vertices => i+1 > i
    BY <1>1, NAssumption, <1>2, <2>2
  <2>7. /\ \A a \in Vertices : (a < i+1 => color[a] = "BLACK") /\ (a > i+1 => color[a] = "WHITE")
        /\ i+1 \in Vertices => color[i+1] = "WHITE"
    BY <1>1, <2>2, <2>6 DEF Up
  <2>8. v = NoVertex
    BY <1>1, <2>1 DEF Alone
  <2> QED
    BY <1>1, <2>1, <2>3, <2>5, <2>6, <2>7, <2>8 DEF Alone, Up
<1>7. CASE Return
  BY <1>1, <1>7 DEF Return, Alone, Up
<1> QED
  BY <1>3, <1>4, <1>5, <1>6, <1>7

\* A graph whose numbering is a topological order comes back vertex by vertex
\* in that order: the second sort of distribute changes nothing.
THEOREM SortedKept == Spec => []KeepsSortedInput
<1>1. Init => SortedInv
  <2> SUFFICES ASSUME Init PROVE SortedInv
    OBVIOUS
  <2>1. /\ pc = "dfs1" /\ i = N-1 /\ S = <<>> /\ v = NoVertex /\ c = N
        /\ color = [a \in Vertices |-> "WHITE"]
    BY DEF Init
  <2>2. \A a \in Vertices : ~(a > N-1) /\ ~(a >= N)
    BY NAssumption DEF Vertices
  <2>3. (N-1)+1 = N /\ (N-1 = -1 => N = 0)
    BY NAssumption
  <2> QED
    BY <2>1, <2>2, <2>3 DEF SortedInv, Alone, Down
<1>2. IInv /\ SortedInv /\ [Next]_vars => SortedInv'
  <2>1. IInv /\ SortedInv /\ UNCHANGED vars => SortedInv'
    BY DEF vars, SortedInv, Sorted, Alone, Down, Up
  <2> QED
    BY <2>1, SortedPush, SortedStack, SortedFirst, SortedSecond DEF Next, Step, Returned
<1>3. IInv /\ SortedInv => KeepsSortedInput
  <2> SUFFICES ASSUME IInv, SortedInv, Sorted, NEW k \in 1 .. Len(result)
               PROVE  result[k] = {k-1}
    BY DEF KeepsSortedInput, Sorted
  <2>1. pc # "dfs1"
    <3>1. pc = "dfs1" => Len(result) = 0
      BY EmptySeq DEF IInv, FirstInv
    <3> QED
      BY <3>1
  <2> QED
    BY <2>1 DEF SortedInv, Up
<1> QED
  BY <1>1, <1>2, <1>3, Invariance, PTL DEF Spec

-----------------------------------------------------------------------------
(* Kosaraju's argument.  Why the components come out whole and in order:   *)
(* the invariant of both searches that speaks of the paths of the graph.   *)

Reach(a, b) == <<a, b>> \in Paths(N, edge)
Same(a, b) == Reach(a, b) /\ Reach(b, a)

\* No copy of a lies on the stack from position k on.
Above(a, k) == \A m \in k .. Len(S) : S[m] # a

\* The first search: a vertex being visited reaches all that lies above its
\* last copy on the stack.
ReachInv ==
  pc = "dfs1" =>
    /\ \A g \in Vertices : color[g] = "GREY" \/ g = v =>
          \A k \in 1 .. Len(S) : Above(g, k) => Reach(g, S[k])
    /\ v # NoVertex => \A g \in Vertices : color[g] = "GREY" => Reach(g, v)

\* Both searches: a neighbour of a vertex being visited has been visited or
\* will surface before it, and those of a BLACK vertex have been visited.
Seen(a, b) == color[b] # "WHITE" \/ \E k \in 1 .. Len(S) : S[k] = b /\ Above(a, k)
NeighbourInv ==
  /\ \A a, b \in Vertices : color[a] = "BLACK" /\ Neighbour(a, b) => color[b] # "WHITE"
  /\ \A a, b \in Vertices : color[a] = "GREY" /\ Neighbour(a, b) => Seen(a, b)
  /\ \A b \in Vertices : v # NoVertex /\ b < scan /\ Neighbour(v, b) => Seen(v, b)

\* The first search: a BLACK vertex that reaches one that is not lies in the
\* component of a GREY one.
LeaveInv ==
  pc = "dfs1" => \A a, b \in Vertices :
    color[a] = "BLACK" /\ color[b] # "BLACK" /\ Reach(a, b) =>
      \E x \in Vertices : color[x] = "GREY" /\ Same(a, x)

\* The first search: where order[m] reaches order[k] with k < m, a vertex of
\* the component of order[m] comes no later than k in order, or is to come.
FinishInv ==
  pc = "dfs1" => \A m \in c .. N-1 : \A k \in c .. m-1 :
    Reach(order[m], order[k]) =>
      \E x \in Vertices : /\ Same(order[m], x)
                          /\ color[x] # "BLACK" \/ \E h \in c .. k : order[h] = x

\* The second search: the same of the whole of order; components come out
\* whole, the roots before i are in one, the current root is not, and all that
\* is being collected reaches it.
RootInv ==
  pc # "dfs1" =>
    /\ \A m \in Vertices : \A k \in 0 .. m-1 :
         Reach(order[m], order[k]) => \E h \in 0 .. k : Same(order[m], order[h])
    /\ \A k \in 1 .. Len(result) : result[k] \in Components(N, edge)
    /\ \A k \in 0 .. i-1 : \E n \in 1 .. Len(result) : order[k] \in result[n]
    /\ S # <<>> \/ s # {} => \A n \in 1 .. Len(result) : order[i] \notin result[n]
    /\ \A x \in s : Reach(x, order[i])
    /\ \A k \in 1 .. Len(S) : Reach(S[k], order[i])
    /\ v # NoVertex => Reach(v, order[i])

PathInv == ReachInv /\ NeighbourInv /\ LeaveInv /\ FinishInv /\ RootInv

-----------------------------------------------------------------------------
\* What the paths of the graph are: every vertex reaches itself, edges are
\* paths, and paths compose.
LEMMA ReachFacts ==
  ASSUME TypeOK
  PROVE  /\ \A a \in Vertices : Reach(a, a)
         /\ \A a, b, d \in Vertices : Reach(a, b) /\ Reach(b, d) => Reach(a, d)
         /\ \A a, b \in Vertices : <<a, b>> \in edge => Reach(a, b)
<1>1. N \in Nat /\ edge \subseteq (0 .. N-1) \X (0 .. N-1)
  BY NAssumption, EdgeAssumption DEF TypeOK, Vertices
<1>2. /\ edge \subseteq Paths(N, edge)
      /\ \A a \in 0 .. N-1 : <<a, a>> \in Paths(N, edge)
      /\ \A a, b, d \in 0 .. N-1 :
           <<a, b>> \in Paths(N, edge) /\ <<b, d>> \in Paths(N, edge) => <<a, d>> \in Paths(N, edge)
  BY <1>1, PathsTransitive
<1> QED
  BY <1>2 DEF Reach, Vertices

\* A path out of a set of vertices has an edge that leaves it.
LEMMA PathLeaves ==
  ASSUME TypeOK, NEW B, NEW a \in Vertices, NEW b \in Vertices,
         a \in B, b \notin B, Reach(a, b)
  PROVE  \E x, y \in Vertices : <<x, y>> \in edge /\ x \in B /\ y \notin B /\ Reach(a, x)
<1> SUFFICES ASSUME \A x, y \in Vertices : <<x, y>> \in edge /\ x \in B /\ Reach(a, x) => y \in B
             PROVE  FALSE
  OBVIOUS
<1> DEFINE Out == {x \in Vertices : x \in B /\ Reach(a, x)}
           R == {p \in Vertices \X Vertices : p[1] \in Out => p[2] \in Out}
<1>1. /\ \A x \in Vertices : Reach(x, x)
      /\ \A x, y, z \in Vertices : Reach(x, y) /\ Reach(y, z) => Reach(x, z)
      /\ \A x, y \in Vertices : <<x, y>> \in edge => Reach(x, y)
  BY ReachFacts
<1>2. a \in Out /\ b \notin Out
  BY <1>1
<1>3. edge \subseteq R
  <2>1. \A p \in edge : p \in Vertices \X Vertices /\ p = <<p[1], p[2]>>
    BY EdgeAssumption DEF TypeOK
  <2> SUFFICES ASSUME NEW p \in edge, p[1] \in Out PROVE p[2] \in Out
    BY <2>1
  <2>2. p[1] \in Vertices /\ p[2] \in Vertices /\ <<p[1], p[2]>> \in edge
    BY <2>1
  <2> QED
    BY <1>1, <2>2
<1> HIDE DEF Out
<1>4. \A x, y : <<x, y>> \in R <=> x \in Vertices /\ y \in Vertices /\ (x \in Out => y \in Out)
  OBVIOUS
<1> HIDE DEF R
<1>5. Paths(N, edge) \subseteq R
  <2>1. \A x \in 0 .. N-1 : <<x, x>> \in R
    BY <1>4 DEF Vertices
  <2>2. \A x, y, z \in 0 .. N-1 : <<x, y>> \in R /\ <<y, z>> \in R => <<x, z>> \in R
    BY <1>4
  <2> QED
    BY <1>3, <2>1, <2>2, NAssumption, PathsLeast
<1> QED
  BY <1>2, <1>4, <1>5 DEF Reach

\* The graph never changes, and with it what reaches what.
LEMMA SamePaths ==
  ASSUME edge' = edge
  PROVE  \A a, b : (Reach(a, b)' <=> Reach(a, b)) /\ (Same(a, b)' <=> Same(a, b))
BY DEF Reach, Same

\* A push covers the vertices below it, all but itself.
LEMMA PushStack ==
  ASSUME S \in Seq(Vertices), NEW x \in Vertices, S' = Append(S, x)
  PROVE  /\ Len(S) \in Nat /\ Len(S') = Len(S)+1 /\ S'[Len(S)+1] = x
         /\ \A k \in 1 .. Len(S') : k \in 1 .. Len(S) \/ k = Len(S)+1
         /\ \A k \in 1 .. Len(S) : k \in 1 .. Len(S') /\ S'[k] = S[k]
         /\ \A a, k : k \in 1 .. Len(S) => (Above(a, k)' <=> Above(a, k) /\ a # x)
         /\ \A a, k : k = Len(S)+1 => (Above(a, k)' <=> a # x)
<1>1. /\ Len(S) \in Nat /\ Len(S') = Len(S)+1 /\ S'[Len(S)+1] = x
      /\ \A k \in 1 .. Len(S) : S'[k] = S[k]
  BY AppendProperties, LenProperties
<1>2. ASSUME NEW k \in 1 .. Len(S)
      PROVE  \A m : m \in k .. Len(S') <=> m \in k .. Len(S) \/ m = Len(S)+1
  BY <1>1
<1>3. \A k \in 1 .. Len(S) : \A m \in k .. Len(S) : S'[m] = S[m]
  BY <1>1
<1>4. \A a, k : k \in 1 .. Len(S) => (Above(a, k)' <=> Above(a, k) /\ a # x)
  BY <1>1, <1>2, <1>3 DEF Above
<1>5. \A m : m \in Len(S)+1 .. Len(S') <=> m = Len(S)+1
  BY <1>1
<1>6. \A a, k : k = Len(S)+1 => (Above(a, k)' <=> a # x)
  BY <1>1, <1>5 DEF Above
<1> QED
  BY <1>1, <1>4, <1>6

\* A pop uncovers no vertex but the top.
LEMMA PopStack ==
  ASSUME S \in Seq(Vertices), S # <<>>, S' = Pop
  PROVE  /\ Len(S) \in Nat \ {0} /\ Len(S') = Len(S)-1 /\ top = S[Len(S)] /\ top \in Vertices
         /\ \A k \in 1 .. Len(S') : k \in 1 .. Len(S) /\ k # Len(S) /\ S'[k] = S[k]
         /\ \A k \in 1 .. Len(S) : k = Len(S) \/ k \in 1 .. Len(S')
         /\ \A k \in 1 .. Len(S) : ~Above(top, k)
         /\ \A a, k : k \in 1 .. Len(S') => (Above(a, k) <=> Above(a, k)' /\ a # top)
<1>1. /\ Len(SubSeq(S, 1, Len(S)-1)) = Len(S)-1
      /\ \A k \in 1 .. Len(S)-1 : SubSeq(S, 1, Len(S)-1)[k] = S[k]
      /\ S[Len(S)] \in Vertices
      /\ Len(S) \in Nat \ {0}
  BY PopProperties
<1>2. Len(S') = Len(S)-1 /\ \A k \in 1 .. Len(S)-1 : S'[k] = S[k]
  BY <1>1 DEF Pop
<1>3. ASSUME NEW k \in 1 .. Len(S) PROVE Len(S) \in k .. Len(S)
  BY <1>1
<1>4. \A k \in 1 .. Len(S) : ~Above(top, k)
  BY <1>3 DEF Above, top
<1>5. ASSUME NEW k \in 1 .. Len(S')
      PROVE  \A m : m \in k .. Len(S) <=> m \in k .. Len(S') \/ m = Len(S)
  BY <1>1, <1>2
<1>6. \A k \in 1 .. Len(S') : \A m \in k .. Len(S') : S'[m] = S[m]
  BY <1>1, <1>2
<1>7. \A a, k : k \in 1 .. Len(S') => (Above(a, k) <=> Above(a, k)' /\ a # top)
  BY <1>5, <1>6 DEF Above, top
<1> QED
  BY <1>1, <1>2, <1>4, <1>7 DEF top

\* The first search keeps to what the vertices being visited reach.
LEMMA ReachStep ==
  ASSUME IInv, ReachInv, Next
  PROVE  ReachInv'
<1> SUFFICES ASSUME pc' = "dfs1"
             PROVE  /\ \A g \in Vertices : color'[g] = "GREY" \/ g = v' =>
                         \A k \in 1 .. Len(S') : Above(g, k)' => Reach(g, S'[k])
                    /\ v' # NoVertex => \A g \in Vertices : color'[g] = "GREY" => Reach(g, v')
  <2>1. edge' = edge
    BY DEF Next, Step, Returned, vars, Expand, PushNeighbour, EndExpand, DropCopy, StartRoot,
           SkipRoot, Finish, Transpose, StartComponent, SkipComponent, Collect, EmitComponent, Return
  <2>2. \A a, b : Reach(a, b)' <=> Reach(a, b)
    BY <2>1, SamePaths
  <2> QED
    BY <2>2 DEF ReachInv
<1>1. TypeOK /\ StackInv /\ ExpandInv /\ S \in Seq(Vertices) /\ color \in [Vertices -> Colors]
  BY DEF IInv, TypeOK
<1>2. /\ \A a \in Vertices : Reach(a, a)
      /\ \A a, b, d \in Vertices : Reach(a, b) /\ Reach(b, d) => Reach(a, d)
      /\ \A a, b \in Vertices : <<a, b>> \in edge => Reach(a, b)
  BY <1>1, ReachFacts
<1>3. ASSUME pc = "dfs1"
      PROVE  /\ \A g \in Vertices : color[g] = "GREY" \/ g = v =>
                  \A k \in 1 .. Len(S) : Above(g, k) => Reach(g, S[k])
             /\ v # NoVertex => \A g \in Vertices : color[g] = "GREY" => Reach(g, v)
  BY <1>3 DEF ReachInv
<1>4. Len(S) \in Nat /\ \A k \in 1 .. Len(S) : S[k] \in Vertices
  BY <1>1, LenProperties, ElementOfSeq
<1>5. NoVertex \notin Vertices
  BY DEF NoVertex, Vertices
<1>6. CASE Expand
  <2>1. /\ S # <<>> /\ color[top] = "WHITE" /\ v' = top /\ color' = color /\ S' = S /\ pc = "dfs1"
    BY <1>6 DEF Expand
  <2>2. Len(S) \in 1 .. Len(S) /\ top = S[Len(S)]
    BY <1>1, <1>4, <2>1, EmptySeq DEF top
  <2>3. \A k \in 1 .. Len(S) : Len(S) \in k .. Len(S)
    BY <1>4
  <2>4. \A k \in 1 .. Len(S) : ~Above(top, k)
    BY <2>2, <2>3 DEF Above
  <2>5. ASSUME NEW g \in Vertices, color[g] = "GREY" PROVE Above(g, Len(S))
    <3>1. \A m \in Len(S) .. Len(S) : m = Len(S)
      BY <1>4
    <3> QED
      BY <2>1, <2>2, <2>5, <3>1 DEF Above
  <2>6. \A a, k : Above(a, k)' <=> Above(a, k)
    BY <2>1 DEF Above
  <2> QED
    BY <1>3, <2>1, <2>2, <2>4, <2>5, <2>6
<1>7. CASE PushNeighbour
  <2>1. /\ v # NoVertex /\ color' = color /\ v' = v /\ scan \in Vertices /\ v \in Vertices /\ pc = "dfs1"
    BY <1>1, <1>7, NAssumption DEF PushNeighbour, TypeOK, Vertices
  <2>2. CASE S' = S
    <3>1. \A a, k : Above(a, k)' <=> Above(a, k)
      BY <2>2 DEF Above
    <3> QED
      BY <1>3, <2>1, <2>2, <3>1
  <2>3. CASE S' = Append(S, scan) /\ Neighbour(v, scan)
    <3>1. /\ \A k \in 1 .. Len(S') : k \in 1 .. Len(S) \/ k = Len(S)+1
          /\ \A k \in 1 .. Len(S) : S'[k] = S[k]
          /\ \A a, k : k \in 1 .. Len(S) => (Above(a, k)' <=> Above(a, k) /\ a # scan)
          /\ S'[Len(S)+1] = scan
      BY <1>1, <2>1, <2>3, PushStack
    <3>2. Reach(v, scan)
      BY <1>2, <2>1, <2>3 DEF Neighbour
    <3>3. \A g \in Vertices : color[g] = "GREY" \/ g = v => Reach(g, scan)
      BY <1>2, <1>3, <2>1, <3>2
    <3> QED
      BY <1>3, <2>1, <3>1, <3>3
  <2> QED
    BY <1>7, <2>2, <2>3 DEF PushNeighbour
<1>8. CASE EndExpand
  <2>1. /\ v \in Vertices /\ v' = NoVertex /\ S' = S /\ pc = "dfs1"
        /\ \A g \in Vertices : color'[g] = "GREY" => color[g] = "GREY" \/ g = v
    BY <1>1, <1>8 DEF EndExpand, TypeOK
  <2>2. \A a, k : Above(a, k)' <=> Above(a, k)
    BY <2>1 DEF Above
  <2> QED
    BY <1>3, <1>5, <2>1, <2>2
<1>9. CASE DropCopy \/ Finish
  <2>1. /\ S # <<>> /\ S' = Pop /\ v = NoVertex /\ v' = v /\ pc = "dfs1"
    BY <1>9 DEF DropCopy, Finish
  <2>2. /\ \A k \in 1 .. Len(S') : k \in 1 .. Len(S) /\ S'[k] = S[k]
        /\ \A a, k : k \in 1 .. Len(S') => (Above(a, k) <=> Above(a, k)' /\ a # top)
        /\ top \in Vertices
    BY <1>1, <2>1, PopStack
  <2>3. \A g \in Vertices : color'[g] = "GREY" => color[g] = "GREY" /\ g # top
    <3>1. CASE DropCopy
      BY <3>1 DEF DropCopy
    <3>2. CASE Finish
      <4>1. color' = [color EXCEPT ![top] = "BLACK"]
        BY <3>2 DEF Finish
      <4>2. \A g \in Vertices : color'[g] = IF g = top THEN "BLACK" ELSE color[g]
        BY <1>1, <2>2, <4>1
      <4> QED
        BY <4>2
    <3> QED
      BY <1>9, <3>1, <3>2
  <2> QED
    BY <1>3, <1>5, <2>1, <2>2, <2>3
<1>10. CASE StartRoot
  <2>1. S = <<>> /\ color' = color /\ v' = v /\ pc = "dfs1"
    BY <1>10 DEF StartRoot
  <2>2. \A a : ~OnStack(a)
    BY <2>1 DEF OnStack
  <2> QED
    BY <1>1, <1>5, <2>1, <2>2 DEF StackInv, ExpandInv
<1>11. CASE SkipRoot \/ Returned
  <2>1. S' = S /\ color' = color /\ v' = v /\ pc = "dfs1"
    BY <1>11 DEF SkipRoot, Returned, vars
  <2>2. \A a, k : Above(a, k)' <=> Above(a, k)
    BY <2>1 DEF Above
  <2> QED
    BY <1>3, <2>1, <2>2
<1>12. CASE Transpose \/ StartComponent \/ SkipComponent \/ Collect \/ EmitComponent \/ Return
  BY <1>12 DEF Transpose, StartComponent, SkipComponent, Collect, EmitComponent, Return
<1> QED
  BY <1>6, <1>7, <1>8, <1>9, <1>10, <1>11, <1>12 DEF Next, Step

\* Both searches look at every neighbour before they finish a vertex.  A copy
\* of the vertex itself would hide what is pushed after it: no edge may lead
\* back to its own vertex.
LEMMA NeighbourStep ==
  ASSUME IInv, NeighbourInv, \A p \in EdgeSpace : p[1] # p[2], Next
  PROVE  NeighbourInv'
<1>1. /\ StackInv /\ ExpandInv /\ S \in Seq(Vertices) /\ color \in [Vertices -> Colors]
      /\ v \in Vertices \union {NoVertex} /\ scan \in 0 .. N
  BY DEF IInv, TypeOK
<1>2. /\ \A a, b \in Vertices : color[a] = "BLACK" /\ Neighbour(a, b) => color[b] # "WHITE"
      /\ \A a, b \in Vertices : color[a] = "GREY" /\ Neighbour(a, b) => Seen(a, b)
      /\ \A b \in Vertices : v # NoVertex /\ b < scan /\ Neighbour(v, b) => Seen(v, b)
  BY DEF NeighbourInv
<1>3. \A a \in Vertices : ~Neighbour(a, a)
  BY DEF Neighbour, IInv, TypeOK
<1>4. \A b \in Vertices : b \in Int /\ b < N /\ ~(b < 0) /\ b # NoVertex
  BY NAssumption DEF Vertices, NoVertex
<1>5. S = <<>> => v = NoVertex /\ \A a \in Vertices : color[a] # "GREY"
  <2>1. S = <<>> => \A a : ~OnStack(a)
    BY DEF OnStack
  <2> QED
    BY <1>1, <2>1 DEF StackInv, ExpandInv
<1>6. ASSUME edge' = edge, pc' = "dfs1" <=> pc = "dfs1"
      PROVE  \A a, b : Neighbour(a, b)' <=> Neighbour(a, b)
  BY <1>6 DEF Neighbour
<1>7. CASE Expand
  <2>1. /\ scan' = 0 /\ color' = color /\ S' = S
        /\ \A a, b : Neighbour(a, b)' <=> Neighbour(a, b)
    BY <1>6, <1>7 DEF Expand
  <2>2. \A a, b : Seen(a, b)' <=> Seen(a, b)
    BY <2>1 DEF Seen, Above
  <2> QED
    BY <1>2, <1>4, <2>1, <2>2 DEF NeighbourInv
<1>8. CASE PushNeighbour
  <2>1. /\ v # NoVertex /\ v \in Vertices /\ scan \in Vertices
        /\ scan' = scan+1 /\ color' = color /\ v' = v
        /\ \A a, b : Neighbour(a, b)' <=> Neighbour(a, b)
    BY <1>1, <1>6, <1>8, NAssumption DEF PushNeighbour, Vertices
  <2>2. \A b \in Vertices : b < scan+1 => b < scan \/ b = scan
    BY <1>1, <1>4
  <2>3. CASE S' = S /\ ~(Neighbour(v, scan) /\ color[scan] = "WHITE")
    <3>1. \A a, b : Seen(a, b)' <=> Seen(a, b)
      BY <2>1, <2>3 DEF Seen, Above
    <3>2. Neighbour(v, scan) => Seen(v, scan)
      BY <2>3 DEF Seen
    <3>3. \A b \in Vertices : b < scan+1 /\ Neighbour(v, b) => Seen(v, b)
      BY <1>2, <2>1, <2>2, <3>2
    <3> QED
      BY <1>2, <2>1, <3>1, <3>3 DEF NeighbourInv
  <2>4. CASE S' = Append(S, scan) /\ Neighbour(v, scan) /\ color[scan] = "WHITE"
    <3>1. /\ Len(S) \in Nat /\ Len(S') = Len(S)+1 /\ S'[Len(S)+1] = scan
          /\ \A k \in 1 .. Len(S) : k \in 1 .. Len(S') /\ S'[k] = S[k]
          /\ \A a, k : k \in 1 .. Len(S) => (Above(a, k)' <=> Above(a, k) /\ a # scan)
          /\ \A a, k : k = Len(S)+1 => (Above(a, k)' <=> a # scan)
      BY <1>1, <2>1, <2>4, PushStack
    <3>2. \A a, b : Seen(a, b) /\ a # scan => Seen(a, b)'
      BY <2>1, <3>1 DEF Seen
    <3>3. v # scan
      BY <1>3, <2>1, <2>4
    <3>4. \A a, b : a = v /\ b = scan => Seen(a, b)'
      <4>1. Len(S)+1 \in 1 .. Len(S')
        BY <3>1
      <4>2. \A a, b : (\E k \in 1 .. Len(S') : S'[k] = b /\ Above(a, k)') => Seen(a, b)'
        BY DEF Seen
      <4> QED
        BY <3>1, <3>3, <4>1, <4>2
    <3>5. \A a, b \in Vertices : color[a] = "GREY" /\ Neighbour(a, b) => Seen(a, b)'
      BY <1>2, <2>4, <3>2
    <3>6. \A a, b \in Vertices : a = v /\ b < scan+1 /\ Neighbour(a, b) => Seen(a, b)'
      BY <1>2, <2>1, <2>2, <3>2, <3>3, <3>4
    <3> QED
      BY <1>2, <2>1, <3>5, <3>6 DEF NeighbourInv
  <2> QED
    BY <1>8, <2>3, <2>4 DEF PushNeighbour
<1>9. CASE EndExpand
  <2>1. /\ v # NoVertex /\ v \in Vertices /\ scan = N /\ v' = NoVertex /\ S' = S /\ color[v] = "WHITE"
        /\ \A a \in Vertices : color'[a] = IF a = v THEN "GREY" ELSE color[a]
        /\ \A a, b : Neighbour(a, b)' <=> Neighbour(a, b)
    BY <1>1, <1>6, <1>9 DEF EndExpand, ExpandInv
  <2>2. \A a : \A b \in Vertices : Seen(a, b) => Seen(a, b)'
    BY <2>1 DEF Seen, Above
  <2>3. \A a, b \in Vertices : a = v /\ Neighbour(a, b) => Seen(a, b)
    BY <1>2, <1>4, <2>1
  <2>4. \A a, b \in Vertices : color'[a] = "BLACK" /\ Neighbour(a, b) => color'[b] # "WHITE"
    BY <1>2, <2>1
  <2>5. \A a, b \in Vertices : color'[a] = "GREY" /\ Neighbour(a, b) => Seen(a, b)'
    BY <1>2, <2>1, <2>2, <2>3
  <2> QED
    BY <2>1, <2>4, <2>5 DEF NeighbourInv
<1>10. CASE DropCopy \/ Finish \/ Collect
  <2>1. /\ S # <<>> /\ S' = Pop /\ v = NoVertex /\ v' = NoVertex /\ color[top] \in {"GREY", "BLACK"}
        /\ color' = color \/ color' = [color EXCEPT ![top] = "BLACK"]
        /\ \A a, b : Neighbour(a, b)' <=> Neighbour(a, b)
    BY <1>6, <1>10 DEF DropCopy, Finish, Collect
  <2>2. /\ top = S[Len(S)] /\ top \in Vertices
        /\ \A k \in 1 .. Len(S') : S'[k] = S[k]
        /\ \A k \in 1 .. Len(S) : k = Len(S) \/ k \in 1 .. Len(S')
        /\ \A k \in 1 .. Len(S) : ~Above(top, k)
        /\ \A a, k : k \in 1 .. Len(S') => (Above(a, k) <=> Above(a, k)' /\ a # top)
    BY <1>1, <2>1, PopStack
  <2>3. /\ \A a \in Vertices : a # top => color'[a] = color[a]
        /\ color'[top] \in {"GREY", "BLACK"}
        /\ color[top] = "BLACK" => color'[top] = "BLACK"
    BY <1>1, <2>1, <2>2
  <2>4. \A b \in Vertices : color[b] # "WHITE" => color'[b] # "WHITE"
    BY <2>3
  <2>5. \A a : \A b \in Vertices : Seen(a, b) => Seen(a, b)'
    BY <2>1, <2>2, <2>4 DEF Seen
  <2>6. \A a, b \in Vertices : a = top /\ Neighbour(a, b) => color[b] # "WHITE"
    BY <1>2, <2>1, <2>2 DEF Seen
  <2>7. \A a, b \in Vertices : color'[a] = "BLACK" /\ Neighbour(a, b) => color'[b] # "WHITE"
    BY <1>2, <2>3, <2>4, <2>6
  <2>8. \A a, b \in Vertices : color'[a] = "GREY" /\ Neighbour(a, b) => Seen(a, b)'
    <3>1. \A a \in Vertices : color'[a] = "GREY" => color[a] = "GREY"
      BY <2>1, <2>3
    <3> QED
      BY <1>2, <2>5, <3>1
  <2> QED
    BY <2>1, <2>7, <2>8 DEF NeighbourInv
<1>11. CASE StartRoot \/ StartComponent
  <2>1. /\ S = <<>> /\ v' = v /\ color' = color
        /\ \A a, b : Neighbour(a, b)' <=> Neighbour(a, b)
    BY <1>6, <1>11 DEF StartRoot, StartComponent
  <2> QED
    BY <1>2, <1>5, <2>1 DEF NeighbourInv
<1>12. CASE Transpose
  <2>1. S = <<>> /\ v' = v /\ color' = [a \in Vertices |-> "WHITE"]
    BY <1>12 DEF Transpose
  <2> QED
    BY <1>5, <2>1 DEF NeighbourInv
<1>13. CASE SkipRoot \/ SkipComponent \/ EmitComponent \/ Return \/ Returned
  <2>1. /\ S' = S /\ color' = color /\ v' = v /\ scan' = scan
        /\ \A a, b : Neighbour(a, b)' <=> Neighbour(a, b)
    BY <1>6, <1>13 DEF SkipRoot, SkipComponent, EmitComponent, Return, Returned, vars
  <2>2. \A a, b : Seen(a, b)' <=> Seen(a, b)
    BY <2>1 DEF Seen, Above
  <2> QED
    BY <1>2, <2>1, <2>2 DEF NeighbourInv
<1> QED
  BY <1>7, <1>8, <1>9, <1>10, <1>11, <1>12, <1>13 DEF Next, Step

\* A vertex finishes only once all it reaches is BLACK, but for what reaches a
\* vertex that is still being visited, which is then in its own component.
LEMMA LeaveStep ==
  ASSUME IInv, ReachInv, LeaveInv, NeighbourInv', Next
  PROVE  LeaveInv'
<1>1. TypeOK /\ S \in Seq(Vertices) /\ color \in [Vertices -> Colors]
  BY DEF IInv, TypeOK
<1>2. ASSUME pc' = "dfs1", ~Finish
      PROVE  /\ pc = "dfs1" /\ edge' = edge
             /\ \A a \in Vertices : /\ color'[a] = "BLACK" <=> color[a] = "BLACK"
                                    /\ color[a] = "GREY" => color'[a] = "GREY"
  <2>1. CASE EndExpand
    <3>1. v \in Vertices /\ color[v] = "WHITE" /\ color' = [color EXCEPT ![v] = "GREY"]
      BY <2>1 DEF EndExpand, IInv, TypeOK, ExpandInv
    <3>2. \A a \in Vertices : color'[a] = IF a = v THEN "GREY" ELSE color[a]
      BY <1>1, <3>1
    <3> QED
      BY <1>2, <2>1, <3>1, <3>2 DEF EndExpand
  <2>2. CASE ~EndExpand
    BY <1>2, <2>2 DEF Next, Step, Returned, vars, Expand, PushNeighbour, DropCopy, StartRoot, SkipRoot,
           Transpose, StartComponent, SkipComponent, Collect, EmitComponent, Return
  <2> QED
    BY <2>1, <2>2
<1>3. CASE ~Finish
  BY <1>2, <1>3, SamePaths DEF LeaveInv
<1>4. CASE Finish
  <2> SUFFICES ASSUME NEW a \in Vertices, NEW b \in Vertices,
                      color'[a] = "BLACK", color'[b] # "BLACK", Reach(a, b)
               PROVE  \E x \in Vertices : color'[x] = "GREY" /\ Same(a, x)
    BY <1>4, SamePaths DEF Finish, LeaveInv
  <2>1. /\ S # <<>> /\ S' = Pop /\ pc = "dfs1" /\ pc' = "dfs1" /\ edge' = edge
        /\ color[top] = "GREY" /\ color' = [color EXCEPT ![top] = "BLACK"]
    BY <1>4 DEF Finish
  <2>2. top \in Vertices /\ top = S[Len(S)] /\ Len(S) \in Nat \ {0}
    BY <1>1, <2>1, PopStack
  <2>3. \A x \in Vertices : color'[x] = IF x = top THEN "BLACK" ELSE color[x]
    BY <1>1, <2>1, <2>2
  <2>4. /\ \A x \in Vertices : Reach(x, x)
        /\ \A x, y, z \in Vertices : Reach(x, y) /\ Reach(y, z) => Reach(x, z)
        /\ \A x, y \in Vertices : <<x, y>> \in edge => Reach(x, y)
    BY <1>1, ReachFacts
  <2>5. ASSUME NEW d \in Vertices, color'[d] # "BLACK", Reach(top, d)
        PROVE  \E y \in Vertices : color'[y] = "GREY" /\ Same(top, y)
    <3> DEFINE B == {x \in Vertices : color'[x] = "BLACK"}
    <3>1. top \in B /\ d \notin B
      BY <2>2, <2>3, <2>5
    <3> HIDE DEF B
    <3>2. PICK x \in Vertices, y \in Vertices : /\ <<x, y>> \in edge /\ x \in B /\ y \notin B
                                                /\ Reach(top, x)
      BY <1>1, <2>2, <2>5, <3>1, PathLeaves
    <3>3. color'[x] = "BLACK" /\ color'[y] # "BLACK"
      BY <3>2 DEF B
    <3>4. color'[y] # "WHITE"
      <4>1. Neighbour(x, y)'
        BY <2>1, <3>2 DEF Neighbour
      <4> QED
        BY <3>3, <4>1 DEF NeighbourInv
    <3>5. color'[y] = "GREY" /\ color[y] = "GREY" /\ y # top
      BY <1>1, <2>3, <3>3, <3>4 DEF Colors
    <3>6. Reach(y, top)
      <4>1. Above(y, Len(S))
        BY <2>2, <3>5 DEF Above
      <4>2. Len(S) \in 1 .. Len(S)
        BY <2>2
      <4> QED
        BY <2>1, <2>2, <3>5, <4>1, <4>2 DEF ReachInv
    <3>7. Reach(top, y)
      BY <2>2, <2>4, <3>2
    <3> QED
      BY <3>5, <3>6, <3>7 DEF Same
  <2>6. CASE a = top
    BY <2>5, <2>6
  <2>7. CASE a # top
    <3>1. PICK x \in Vertices : color[x] = "GREY" /\ Same(a, x)
      BY <2>1, <2>3, <2>7 DEF LeaveInv
    <3>2. CASE x # top
      BY <2>3, <3>1, <3>2
    <3>3. CASE x = top
      <4>1. Reach(top, b)
        BY <2>2, <2>4, <3>1, <3>3 DEF Same
      <4>2. PICK y \in Vertices : color'[y] = "GREY" /\ Same(top, y)
        BY <2>5, <4>1
      <4>3. Same(a, y)
        BY <2>2, <2>4, <3>1, <3>3, <4>2 DEF Same
      <4> QED
        BY <4>2, <4>3
    <3> QED
      BY <3>2, <3>3
  <2> QED
    BY <2>6, <2>7
<1> QED
  BY <1>3, <1>4

\* What is in order keeps its place, and what finishes comes before it.
LEMMA FinishOrderStep ==
  ASSUME IInv, IInv', LeaveInv, FinishInv, Next
  PROVE  FinishInv'
<1>1. /\ color \in [Vertices -> Colors] /\ order \in [Vertices -> Vertices]
      /\ c \in 0 .. N /\ S \in Seq(Vertices)
      /\ N \in Nat /\ Vertices = 0 .. N-1
  BY NAssumption DEF IInv, TypeOK, Vertices
<1>2. edge' = edge
  BY DEF Next, Step, Returned, vars, Expand, PushNeighbour, EndExpand, DropCopy, StartRoot, SkipRoot,
         Finish, Transpose, StartComponent, SkipComponent, Collect, EmitComponent, Return
<1> SUFFICES ASSUME pc' = "dfs1", NEW m \in c' .. N-1, NEW k \in c' .. m-1, Reach(order'[m], order'[k])
             PROVE  \E x \in Vertices : /\ Same(order'[m], x)
                                        /\ color'[x] # "BLACK" \/ \E h \in c' .. k : order'[h] = x
  BY <1>2 DEF FinishInv, Reach, Same
<1>3. ASSUME pc = "dfs1", m \in c .. N-1, k \in c .. m-1, Reach(order[m], order[k])
      PROVE  \E x \in Vertices : /\ Same(order[m], x)
                                 /\ color[x] # "BLACK" \/ \E h \in c .. k : order[h] = x
  BY <1>3 DEF FinishInv
<1>4. CASE EndExpand
  <2>1. \A a \in Vertices : color'[a] = IF a = v THEN "GREY" ELSE color[a]
    BY <1>1, <1>4 DEF EndExpand
  <2> QED
    BY <1>3, <1>4, <2>1 DEF EndExpand
<1>5. CASE ~EndExpand /\ ~Finish
  <2>1. pc = "dfs1" /\ order' = order /\ c' = c /\ color' = color
    BY <1>5 DEF Next, Step, Returned, vars, Expand, PushNeighbour, DropCopy, StartRoot, SkipRoot,
           Transpose, StartComponent, SkipComponent, Collect, EmitComponent, Return
  <2> QED
    BY <1>3, <2>1
<1>6. CASE Finish
  <2>1. /\ pc = "dfs1" /\ S # <<>> /\ S' = Pop /\ c' = c-1 /\ order' = [order EXCEPT ![c-1] = top]
        /\ color[top] = "GREY" /\ color' = [color EXCEPT ![top] = "BLACK"]
    BY <1>6 DEF Finish
  <2>2. top \in Vertices
    BY <1>1, <2>1, PopStack
  <2>3. c-1 \in Vertices
    <3>1. c-1 \in 0 .. N
      BY <2>1 DEF IInv, TypeOK
    <3> QED
      BY <1>1, <3>1
  <2>4. /\ order'[c-1] = top
        /\ \A j \in Vertices : j # c-1 => order'[j] = order[j]
        /\ \A x \in Vertices : x # top => color'[x] = color[x]
    BY <1>1, <2>1, <2>2, <2>3
  <2>5. \A j : j \in c-1 .. N-1 <=> j = c-1 \/ j \in c .. N-1
    <3>1. c \in Int /\ N \in Int /\ c-1 <= N-1
      BY <1>1, <2>3
    <3> QED
      BY <3>1
  <2>6. \A j \in c .. N-1 : j \in Vertices /\ j # c-1
    BY <1>1, <2>3
  <2>7. m \in c .. N-1 /\ m \in Vertices /\ order'[m] = order[m] /\ order[m] \in Vertices
    <3>1. m # c-1
      BY <1>1, <2>1
    <3>2. m \in c .. N-1
      BY <2>1, <2>5, <3>1
    <3> QED
      BY <1>1, <2>4, <2>6, <3>2
  <2>8. CASE k = c-1
    <3>1. color[order[m]] = "BLACK" /\ Reach(order[m], top)
      BY <2>1, <2>4, <2>7, <2>8 DEF IInv, FirstInv
    <3>2. PICK x \in Vertices : color[x] = "GREY" /\ Same(order[m], x)
      BY <2>1, <2>2, <2>7, <3>1 DEF LeaveInv
    <3>3. x = top => \E h \in c-1 .. k : order'[h] = x
      BY <2>3, <2>4, <2>8, <1>1
    <3>4. x # top => color'[x] # "BLACK"
      BY <2>4, <3>2
    <3> QED
      BY <2>1, <2>7, <3>2, <3>3, <3>4
  <2>9. CASE k # c-1
    <3>1. k \in c .. m-1 /\ k \in c .. N-1 /\ k \in Int
      BY <1>1, <2>1, <2>3, <2>7, <2>9
    <3>2. order'[k] = order[k]
      BY <2>4, <2>6, <3>1
    <3>3. PICK x \in Vertices : /\ Same(order[m], x)
                                /\ color[x] # "BLACK" \/ \E h \in c .. k : order[h] = x
      BY <1>3, <2>1, <2>7, <3>1, <3>2
    <3>4. ASSUME NEW h \in c .. k, order[h] = x PROVE \E j \in c-1 .. k : order'[j] = x
      <4>1. h \in c .. N-1 /\ h \in c-1 .. k
        BY <1>1, <3>1
      <4> QED
        BY <2>4, <2>6, <3>4, <4>1
    <3>5. ASSUME x = top PROVE \E j \in c-1 .. k : order'[j] = x
      <4>1. c-1 \in c-1 .. k
        BY <1>1, <3>1
      <4> QED
        BY <2>4, <3>5, <4>1
    <3>6. color[x] # "BLACK" /\ x # top => color'[x] # "BLACK"
      BY <2>4
    <3> QED
      BY <2>1, <2>7, <3>3, <3>4, <3>5, <3>6
  <2> QED
    BY <2>8, <2>9
<1> QED
  BY <1>4, <1>5, <1>6

\* A component holds all that its members reach and are reached from.
LEMMA ComponentFacts ==
  ASSUME TypeOK
  PROVE  /\ \A C \in Components(N, edge) : \A x \in C : \A y \in Vertices : Same(x, y) => y \in C
         /\ \A a \in Vertices : {b \in Vertices : Same(a, b)} \in Components(N, edge)
<1>1. /\ \A a, b, d \in Vertices : Reach(a, b) /\ Reach(b, d) => Reach(a, d)
  BY ReachFacts
<1>2. Components(N, edge) = {{b \in Vertices : Same(a, b)} : a \in Vertices}
  BY DEF Components, Same, Reach, Vertices
<1>3. ASSUME NEW a \in Vertices, NEW x \in Vertices, Same(a, x), NEW y \in Vertices, Same(x, y)
      PROVE  Same(a, y)
  BY <1>1, <1>3 DEF Same
<1>4. ASSUME NEW C \in Components(N, edge), NEW x \in C, NEW y \in Vertices, Same(x, y)
      PROVE  y \in C
  <2>1. PICK a \in Vertices : C = {b \in Vertices : Same(a, b)}
    BY <1>2
  <2> QED
    BY <1>3, <1>4, <2>1
<1> QED
  BY <1>2, <1>4

\* What a turn of the second search has collected is the component of its
\* root, and what leads into it is out already.
LEMMA WholeComponent ==
  ASSUME IInv, NeighbourInv, RootInv, EmitComponent
  PROVE  /\ i \in Vertices /\ order[i] \in s
         /\ s \in Components(N, edge)
         /\ \A n \in 1 .. Len(result) : order[i] \notin result[n]
         /\ \A p \in edge : p[2] \in s /\ p[1] \notin s =>
               \E n \in 1 .. Len(result) : p[1] \in result[n]
<1> DEFINE r == order[i]
           Out(x) == \E n \in 1 .. Len(result) : x \in result[n]
<1>1. /\ pc = "dfs2" /\ S = <<>> /\ s # {} /\ s \subseteq Vertices /\ TypeOK
      /\ color \in [Vertices -> Colors] /\ order \in [Vertices -> Vertices]
  BY DEF EmitComponent, IInv, TypeOK
<1>2. /\ i \in Vertices /\ r \in Vertices /\ color[r] = "BLACK"
      /\ N \in Nat /\ Vertices = 0 .. N-1
  BY <1>1, NAssumption DEF IInv, SecondInv, Vertices
<1>3. /\ \A m \in Vertices : \A k \in 0 .. m-1 :
           Reach(order[m], order[k]) => \E h \in 0 .. k : Same(order[m], order[h])
      /\ \A k \in 1 .. Len(result) : result[k] \in Components(N, edge)
      /\ \A k \in 0 .. i-1 : Out(order[k])
      /\ ~Out(r)
      /\ \A x \in s : Reach(x, r)
  BY <1>1 DEF RootInv
<1>4. /\ \A x \in Vertices : Reach(x, x)
      /\ \A x, y, z \in Vertices : Reach(x, y) /\ Reach(y, z) => Reach(x, z)
  BY <1>1, ReachFacts
<1>5. /\ \A C \in Components(N, edge) : \A x \in C : \A y \in Vertices : Same(x, y) => y \in C
      /\ \A a \in Vertices : {b \in Vertices : Same(a, b)} \in Components(N, edge)
  BY <1>1, ComponentFacts
<1>6. \A x \in Vertices : color[x] = "BLACK" <=> x \in s \/ Out(x)
  BY <1>1 DEF IInv, PartInv
<1>7. \A x \in s : ~Out(x)
  BY <1>1 DEF IInv, PartInv
<1>8. \A x, y \in Vertices : <<x, y>> \in edge /\ color[y] = "BLACK" => color[x] = "BLACK"
  <2>1. \A x \in Vertices : color[x] # "GREY"
    BY <1>1 DEF IInv, StackInv, OnStack
  <2>2. \A x, y \in Vertices : <<x, y>> \in edge /\ color[y] = "BLACK" => color[x] # "WHITE"
    BY <1>1 DEF NeighbourInv, Neighbour
  <2> QED
    BY <1>1, <2>1, <2>2 DEF Colors
<1>9. r \in s
  BY <1>2, <1>3, <1>6
<1>10. ASSUME NEW x \in Vertices, Same(r, x) PROVE x \in s
  <2>1. color[x] = "BLACK"
    <3> SUFFICES ASSUME color[x] # "BLACK" PROVE FALSE
      OBVIOUS
    <3> DEFINE B == {y \in Vertices : color[y] # "BLACK"}
    <3>1. x \in B /\ r \notin B
      BY <1>2
    <3> HIDE DEF B, r
    <3>2. PICK y \in Vertices, z \in Vertices : <<y, z>> \in edge /\ y \in B /\ z \notin B
      BY <1>1, <1>2, <1>10, <3>1, PathLeaves DEF Same
    <3> QED
      BY <1>8, <3>2 DEF B
  <2>2. ~Out(x)
    <3> SUFFICES ASSUME NEW n \in 1 .. Len(result), x \in result[n] PROVE FALSE
      OBVIOUS
    <3>1. Same(x, r)
      BY <1>10 DEF Same
    <3>2. r \in result[n]
      BY <1>2, <1>3, <1>5, <3>1
    <3> QED
      BY <1>3, <3>2
  <2> QED
    BY <1>6, <2>1, <2>2
<1>11. ASSUME NEW x \in s PROVE Same(r, x)
  <2>1. PICK m \in Vertices : order[m] = x
    BY <1>1 DEF IInv, OrderIsPermutation
  <2>2. CASE m < i
    <3>1. m \in 0 .. i-1
      BY <1>2, <2>2
    <3> QED
      BY <1>3, <1>7, <2>1, <3>1
  <2>3. CASE m = i
    BY <1>2, <1>4, <2>1, <2>3 DEF Same
  <2>4. CASE m > i
    <3>1. i \in 0 .. m-1
      BY <1>2, <2>4
    <3>2. PICK h \in 0 .. i : Same(x, order[h])
      BY <1>3, <2>1, <3>1
    <3>3. CASE h = i
      BY <3>2, <3>3 DEF Same
    <3>4. CASE h # i
      <4>1. h \in 0 .. i-1 /\ h \in Vertices /\ order[h] \in Vertices
        BY <1>1, <1>2, <3>4
      <4>2. PICK n \in 1 .. Len(result) : order[h] \in result[n]
        BY <1>3, <4>1
      <4>3. Same(order[h], x)
        BY <3>2 DEF Same
      <4>4. x \in result[n]
        BY <1>1, <1>3, <1>5, <4>2, <4>3
      <4> QED
        BY <1>7, <4>4
    <3> QED
      BY <3>3, <3>4
  <2> QED
    BY <1>2, <2>2, <2>3, <2>4
<1>12. s \in Components(N, edge)
  <2>1. s = {b \in Vertices : Same(r, b)}
    BY <1>1, <1>10, <1>11
  <2> QED
    BY <1>2, <1>5, <2>1
<1>13. ASSUME NEW p \in edge, p[2] \in s, p[1] \notin s PROVE Out(p[1])
  <2>1. p[1] \in Vertices /\ p[2] \in Vertices /\ <<p[1], p[2]>> \in edge
    BY <1>1, EdgeAssumption DEF TypeOK
  <2>2. color[p[2]] = "BLACK"
    BY <1>6, <1>13, <2>1
  <2> QED
    BY <1>6, <1>8, <1>13, <2>1, <2>2
<1> QED
  BY <1>2, <1>3, <1>9, <1>12, <1>13

LEMMA RootStep ==
  ASSUME IInv, NeighbourInv, FinishInv, RootInv, Next
  PROVE  RootInv'
<1>1. edge' = edge
  BY DEF Next, Step, Returned, vars, Expand, PushNeighbour, EndExpand, DropCopy, StartRoot, SkipRoot,
         Finish, Transpose, StartComponent, SkipComponent, Collect, EmitComponent, Return
<1> SUFFICES ASSUME pc' # "dfs1"
             PROVE  /\ \A m \in Vertices : \A k \in 0 .. m-1 :
                         Reach(order'[m], order'[k]) => \E h \in 0 .. k : Same(order'[m], order'[h])
                    /\ \A k \in 1 .. Len(result') : result'[k] \in Components(N, edge)
                    /\ \A k \in 0 .. i'-1 : \E n \in 1 .. Len(result') : order'[k] \in result'[n]
                    /\ S' # <<>> \/ s' # {} =>
                         \A n \in 1 .. Len(result') : order'[i'] \notin result'[n]
                    /\ \A x \in s' : Reach(x, order'[i'])
                    /\ \A k \in 1 .. Len(S') : Reach(S'[k], order'[i'])
                    /\ v' # NoVertex => Reach(v', order'[i'])
  BY <1>1 DEF RootInv, Reach, Same
<1>2. /\ TypeOK /\ color \in [Vertices -> Colors] /\ order \in [Vertices -> Vertices]
      /\ S \in Seq(Vertices) /\ i \in Int /\ result \in Seq(SUBSET Vertices)
      /\ N \in Nat /\ Vertices = 0 .. N-1
  BY NAssumption DEF IInv, TypeOK, Vertices
<1>3. /\ \A a \in Vertices : Reach(a, a)
      /\ \A a, b, d \in Vertices : Reach(a, b) /\ Reach(b, d) => Reach(a, d)
      /\ \A a, b \in Vertices : <<a, b>> \in edge => Reach(a, b)
  BY <1>2, ReachFacts
<1>4. S = <<>> => v = NoVertex /\ \A a \in Vertices : color[a] # "GREY"
  <2>1. S = <<>> => \A a : ~OnStack(a)
    BY DEF OnStack
  <2> QED
    BY <2>1 DEF IInv, StackInv, ExpandInv
<1>5. Len(S) \in Nat /\ \A k \in 1 .. Len(S) : S[k] \in Vertices
  BY <1>2, LenProperties, ElementOfSeq
<1>6. CASE Transpose
  <2>1. /\ pc = "dfs1" /\ S = <<>> /\ i' = 0
        /\ S' = S /\ v' = v /\ order' = order /\ s' = s /\ result' = result
        /\ s = {} /\ result = <<>>
    BY <1>6 DEF Transpose, IInv, FirstInv
  <2>2. c = 0 /\ \A a \in Vertices : color[a] = "BLACK"
    BY <1>6, AllFinished
  <2>3. ASSUME NEW m \in Vertices, NEW k \in 0 .. m-1, Reach(order[m], order[k])
        PROVE  \E h \in 0 .. k : Same(order[m], order[h])
    <3>1. PICK x \in Vertices : /\ Same(order[m], x)
                                /\ color[x] # "BLACK" \/ \E h \in 0 .. k : order[h] = x
      <4>1. m \in c .. N-1 /\ k \in c .. m-1
        BY <1>2, <2>2
      <4> QED
        BY <2>1, <2>2, <2>3, <4>1 DEF FinishInv
    <3> QED
      BY <2>2, <3>1
  <2>4. Len(S) = 0 /\ Len(result) = 0
    BY <2>1
  <2> QED
    BY <1>4, <2>1, <2>3, <2>4
<1>7. ASSUME ~Transpose
      PROVE  /\ pc # "dfs1" /\ order' = order
             /\ \A m \in Vertices : \A k \in 0 .. m-1 :
                  Reach(order[m], order[k]) => \E h \in 0 .. k : Same(order[m], order[h])
             /\ \A k \in 1 .. Len(result) : result[k] \in Components(N, edge)
             /\ \A k \in 0 .. i-1 : \E n \in 1 .. Len(result) : order[k] \in result[n]
             /\ S # <<>> \/ s # {} => \A n \in 1 .. Len(result) : order[i] \notin result[n]
             /\ \A x \in s : Reach(x, order[i])
             /\ \A k \in 1 .. Len(S) : Reach(S[k], order[i])
             /\ v # NoVertex => Reach(v, order[i])
  <2>1. pc # "dfs1" /\ order' = order
    BY <1>7 DEF Next, Step, Returned, vars, Expand, PushNeighbour, EndExpand, DropCopy, StartRoot,
           SkipRoot, Finish, StartComponent, SkipComponent, Collect, EmitComponent, Return
  <2> QED
    BY <2>1 DEF RootInv
<1>8. ASSUME S # <<>>, ~Transpose PROVE i \in Vertices /\ order[i] \in Vertices
  BY <1>2, <1>7, <1>8 DEF IInv, SecondInv
<1>9. CASE Expand
  <2>1. S # <<>> /\ v' = top /\ S' = S /\ i' = i /\ s' = s /\ result' = result /\ ~Transpose
    BY <1>9 DEF Expand, Transpose
  <2>2. top = S[Len(S)] /\ Len(S) \in 1 .. Len(S)
    BY <1>5, <2>1, <1>2, EmptySeq DEF top
  <2> QED
    BY <1>7, <2>1, <2>2
<1>10. CASE PushNeighbour
  <2>1. /\ v # NoVertex /\ v \in Vertices /\ scan \in Vertices /\ S # <<>> /\ ~Transpose
        /\ i' = i /\ s' = s /\ v' = v /\ result' = result
    BY <1>2, <1>4, <1>10 DEF PushNeighbour, Transpose, TypeOK
  <2>2. CASE S' = S
    BY <1>7, <2>1, <2>2
  <2>3. CASE S' = Append(S, scan) /\ Neighbour(v, scan)
    <3>1. /\ \A k \in 1 .. Len(S') : k \in 1 .. Len(S) \/ k = Len(S)+1
          /\ \A k \in 1 .. Len(S) : S'[k] = S[k]
          /\ S'[Len(S)+1] = scan /\ S' # <<>>
      BY <1>2, <2>1, <2>3, PushStack, AppendProperties
    <3>2. Reach(scan, v)
      BY <1>3, <1>7, <2>1, <2>3 DEF Neighbour
    <3>3. Reach(scan, order[i])
      BY <1>3, <1>7, <1>8, <2>1, <3>2
    <3> QED
      BY <1>7, <2>1, <3>1, <3>3
  <2> QED
    BY <1>10, <2>2, <2>3 DEF PushNeighbour
<1>11. CASE EndExpand
  <2>1. v' = NoVertex /\ S' = S /\ i' = i /\ s' = s /\ result' = result /\ ~Transpose
    <3>1. v \in Vertices /\ S # <<>>
      BY <1>2, <1>4, <1>11 DEF EndExpand, TypeOK
    <3> QED
      BY <1>11, <3>1 DEF EndExpand, Transpose
  <2> QED
    BY <1>7, <2>1
<1>12. CASE DropCopy \/ Collect
  <2>1. /\ S # <<>> /\ S' = Pop /\ i' = i /\ v' = v /\ result' = result /\ ~Transpose
        /\ s' = s \/ s' = s \union {top}
    BY <1>12 DEF DropCopy, Collect, Transpose
  <2>2. /\ Len(S) \in Nat \ {0} /\ top = S[Len(S)]
        /\ \A k \in 1 .. Len(S') : k \in 1 .. Len(S) /\ S'[k] = S[k]
    BY <1>2, <2>1, PopStack
  <2>3. Reach(top, order[i])
    <3>1. Len(S) \in 1 .. Len(S)
      BY <2>2
    <3> QED
      BY <1>7, <2>1, <2>2, <3>1
  <2> QED
    BY <1>7, <2>1, <2>2, <2>3
<1>13. CASE StartComponent
  <2>1. /\ S = <<>> /\ s = {} /\ i < N /\ color[order[i]] = "WHITE" /\ S' = <<order[i]>> /\ ~Transpose
        /\ i' = i /\ s' = s /\ v' = v /\ result' = result
    BY <1>13 DEF StartComponent, Transpose
  <2>2. i \in Vertices /\ order[i] \in Vertices
    BY <1>2, <1>7, <2>1 DEF IInv, SecondInv
  <2>3. \A n \in 1 .. Len(result) : order[i] \notin result[n]
    BY <1>7, <2>1, <2>2 DEF IInv, PartInv
  <2>4. Len(S') = 1 /\ S'[1] = order[i]
    BY <2>1
  <2> QED
    BY <1>3, <1>4, <1>7, <2>1, <2>2, <2>3, <2>4
<1>14. CASE SkipComponent
  <2>1. /\ S = <<>> /\ s = {} /\ i < N /\ color[order[i]] # "WHITE" /\ ~Transpose
        /\ i' = i+1 /\ S' = S /\ s' = s /\ v' = v /\ result' = result
    BY <1>14 DEF SkipComponent, Transpose
  <2>2. i \in Vertices /\ order[i] \in Vertices
    BY <1>2, <1>7, <2>1 DEF IInv, SecondInv
  <2>3. color[order[i]] = "BLACK"
    BY <1>2, <1>4, <2>1, <2>2 DEF Colors
  <2>4. \E n \in 1 .. Len(result) : order[i] \in result[n]
    BY <1>7, <2>1, <2>2, <2>3 DEF IInv, PartInv
  <2>5. \A k \in 0 .. i'-1 : k \in 0 .. i-1 \/ k = i
    BY <1>2, <2>1, <2>2
  <2>6. Len(S) = 0
    BY <2>1
  <2> QED
    BY <1>4, <1>7, <2>1, <2>4, <2>5, <2>6
<1>15. CASE EmitComponent
  <2>1. /\ S = <<>> /\ result' = Append(result, s) /\ s' = {} /\ i' = i+1 /\ ~Transpose
        /\ S' = S /\ v' = v
    BY <1>15 DEF EmitComponent, Transpose
  <2>2. i \in Vertices /\ order[i] \in s /\ s \in Components(N, edge)
    BY <1>15, WholeComponent
  <2>3. /\ Len(result) \in Nat /\ Len(result') = Len(result)+1 /\ result'[Len(result)+1] = s
        /\ \A k \in 1 .. Len(result) : result'[k] = result[k]
    <3>1. s \in SUBSET Vertices
      BY DEF IInv, TypeOK
    <3> QED
      BY <1>2, <2>1, <3>1, AppendProperties, LenProperties
  <2>4. /\ \A k \in 1 .. Len(result') : k \in 1 .. Len(result) \/ k = Len(result)+1
        /\ \A k \in 1 .. Len(result) : k \in 1 .. Len(result')
        /\ Len(result)+1 \in 1 .. Len(result')
    BY <2>3
  <2>5. \A k \in 0 .. i'-1 : k \in 0 .. i-1 \/ k = i
    BY <1>2, <2>1, <2>2
  <2>6. \A k \in 1 .. Len(result') : result'[k] \in Components(N, edge)
    BY <1>7, <2>1, <2>2, <2>3, <2>4
  <2>7. \A k \in 0 .. i'-1 : \E n \in 1 .. Len(result') : order[k] \in result'[n]
    BY <1>7, <2>1, <2>2, <2>3, <2>4, <2>5
  <2>8. Len(S) = 0
    BY <2>1
  <2> QED
    BY <1>4, <1>7, <2>1, <2>6, <2>7, <2>8
<1>16. CASE Return \/ Returned
  <2>1. i' = i /\ S' = S /\ s' = s /\ v' = v /\ result' = result /\ ~Transpose
    BY <1>16 DEF Return, Returned, vars, Transpose
  <2> QED
    BY <1>7, <2>1
<1>17. CASE StartRoot \/ SkipRoot \/ Finish
  BY <1>17 DEF StartRoot, SkipRoot, Finish
<1> QED
  BY <1>6, <1>9, <1>10, <1>11, <1>12, <1>13, <1>14, <1>15, <1>16, <1>17 DEF Next, Step

-----------------------------------------------------------------------------
(* The algorithm implements the abstract specification.                    *)

LEMMA InitPathInv == Init => PathInv
<1> SUFFICES ASSUME Init PROVE PathInv
  OBVIOUS
<1>1. /\ pc = "dfs1" /\ S = <<>> /\ v = NoVertex /\ c = N
      /\ \A a \in Vertices : color[a] = "WHITE"
  BY DEF Init
<1>2. Len(S) = 0 /\ \A m \in N .. N-1 : FALSE
  BY <1>1, NAssumption
<1>3. NoVertex \notin Vertices
  BY DEF NoVertex, Vertices
<1> QED
  BY <1>1, <1>2, <1>3 DEF PathInv, ReachInv, NeighbourInv, LeaveInv, FinishInv, RootInv

LEMMA PathInvariance ==
  ASSUME \A p \in EdgeSpace : p[1] # p[2]
  PROVE  Spec => []PathInv
<1>1. IInv /\ IInv' /\ PathInv /\ [Next]_vars => PathInv'
  <2>1. CASE Next
    BY <2>1, ReachStep, NeighbourStep, LeaveStep, FinishOrderStep, RootStep DEF PathInv
  <2>2. CASE UNCHANGED vars
    <3>1. /\ edge' = edge /\ pc' = pc /\ i' = i /\ color' = color /\ S' = S /\ v' = v
          /\ scan' = scan /\ order' = order /\ c' = c /\ s' = s /\ result' = result
      BY <2>2 DEF vars
    <3> QED
      BY <3>1 DEF PathInv, ReachInv, NeighbourInv, LeaveInv, FinishInv, RootInv,
                  Reach, Same, Above, Seen, Neighbour
  <2> QED
    BY <2>1, <2>2
<1> QED
  BY <1>1, InitPathInv, Invariance, PTL DEF Spec

\* The components the abstract specification speaks of are the same.
LEMMA AbstractComponents == Abstract!Components(N, edge) = Components(N, edge)
BY Zenon DEF Abstract!Components, Abstract!Paths, Components, Paths

\* topoSort implements SccOrder: the strongly connected components of the
\* graph come out whole, each once, and none before what leads into it.  The
\* graphs are those whose edges join different vertices, as those that Loop
\* builds do.
THEOREM ComponentsInOrder ==
  ASSUME \A p \in EdgeSpace : p[1] # p[2]
  PROVE  Spec => Abstract!Init /\ [][Abstract!Emit]_(Abstract!vars)
<1>1. Init => Abstract!Init
  BY DEF Init, Abstract!Init
<1>2. IInv /\ PathInv /\ [Next]_vars => [Abstract!Emit]_(Abstract!vars)
  <2> SUFFICES ASSUME IInv, PathInv, [Next]_vars
               PROVE  Abstract!Emit \/ (edge' = edge /\ result' = result)
    BY DEF Abstract!vars
  <2>1. CASE EmitComponent
    <3> DEFINE Out == {result[k] : k \in 1 .. Len(result)}
    <3>1. /\ order[i] \in s /\ s \in Components(N, edge)
          /\ \A n \in 1 .. Len(result) : order[i] \notin result[n]
          /\ \A p \in edge : p[2] \in s /\ p[1] \notin s =>
                \E n \in 1 .. Len(result) : p[1] \in result[n]
      BY <2>1, WholeComponent DEF PathInv
    <3>2. s \in Abstract!Components(N, edge) \ Out
      BY <3>1, AbstractComponents
    <3>3. \A p \in edge : p[2] \in s /\ p[1] \notin s => \E D \in Out : p[1] \in D
      BY <3>1
    <3>4. result' = Append(result, s) /\ edge' = edge
      BY <2>1 DEF EmitComponent
    <3>5. Out = Abstract!Emitted
      BY DEF Abstract!Emitted
    <3> HIDE DEF Out
    <3> QED
      BY <3>2, <3>3, <3>4, <3>5 DEF Abstract!Emit
  <2>2. CASE ~EmitComponent
    BY <2>2 DEF Next, Step, Returned, vars, Expand, PushNeighbour, EndExpand, DropCopy, StartRoot,
           SkipRoot, Finish, Transpose, StartComponent, SkipComponent, Collect, Return
  <2> QED
    BY <2>1, <2>2
<1> QED
  BY <1>1, <1>2, Invariance, PathInvariance, PTL DEF Spec
=============================================================================

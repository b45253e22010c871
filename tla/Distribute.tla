----------------------------- MODULE Distribute -----------------------------
(***************************************************************************)
(* Loop::distribute: one loop around the statements 0 .. N-1 is replaced   *)
(* by a sequence of loops, so that as many as possible of the statements   *)
(* asked for come apart.  The statements are sorted by the dependences     *)
(* that the loops outside do not carry (topoSort, of which only what       *)
(* SccOrder promises is used), the components are cut down to the          *)
(* statements asked for, and the statements not asked for are put with     *)
(* them one at a time.                                                     *)
(*                                                                         *)
(* A statement's place is the part of its lexical order that the command   *)
(* looks at: the order of the loop around the distributed one and the      *)
(* order within it.                                                        *)
(***************************************************************************)
EXTENDS Integers, Sequences, FiniteSets, SequencesExt

CONSTANTS N,                     \* statements of the loop
          Layouts,               \* the places of the other statements considered
          Dependences,           \* the sets of dependences considered
          UnselectedDependences  \* statements not asked for may depend on each other

SameLoop == 0 .. N-1
LoopPlace == <<1, 1>>

ASSUME NAssumption == N \in Nat \ {0}
ASSUME DependencesAssumption ==
  \A D \in Dependences : D \subseteq {p \in SameLoop \X SameLoop : p[1] # p[2]}
ASSUME LayoutsAssumption ==
  \A layout \in Layouts : /\ DOMAIN layout \intersect SameLoop = {}
                          /\ \A o \in DOMAIN layout : layout[o] \in (Int \X Int) \ {LoopPlace}

VARIABLES carried,     \* pairs with a vector that isCarried(dep_dim)
          stmt_nums,   \* the statements to distribute
          place, placeBefore,
          pc,          \* "sort", "select", "associate", "done" or "refused"
          s,           \* the components sorted so far
          s3,          \* the statements of each new loop
          i            \* the next component to cut down or statement to associate

vars == <<carried, stmt_nums, place, placeBefore, pc, s, s3, i>>
input == <<carried, stmt_nums, placeBefore>>

Stmts == DOMAIN place

Init == /\ carried \in Dependences
        /\ stmt_nums \in {T \in SUBSET SameLoop : Cardinality(T) >= 2}
        /\ UnselectedDependences \/ \A p \in carried : p[1] \in stmt_nums \/ p[2] \in stmt_nums
        /\ \E layout \in Layouts :
              place = [a \in SameLoop \union DOMAIN layout |->
                         IF a \in SameLoop THEN LoopPlace ELSE layout[a]]
        /\ placeBefore = place
        /\ pc = "sort" /\ s = <<>> /\ s3 = <<>> /\ i = 0

-----------------------------------------------------------------------------
(* The two sorts.                                                          *)

Sorting == INSTANCE SccOrder WITH EdgeSpace <- SameLoop \X SameLoop, edge <- carried, result <- s

Sort == /\ pc = "sort"
        /\ Sorting!Emit
        /\ UNCHANGED <<stmt_nums, place, placeBefore, pc, s3, i>>

EndSort == /\ pc = "sort" /\ UNION ToSet(s) = SameLoop
           /\ pc' = "select" /\ i' = 1
           /\ UNCHANGED <<input, place, s, s3>>

SelectUnsorted == /\ pc = "select" /\ i <= Len(s)
                  /\ LET t == s[i] \intersect stmt_nums
                     IN  s3' = IF t = {} THEN s3 ELSE <<t>> \o s3
                  /\ i' = i + 1
                  /\ UNCHANGED <<input, place, pc, s>>
\* A vertex of g2: what a component has of the statements asked for.  The
\* vertices are numbered in the order of the first sort and all edges of g2
\* lead to a later one, so that its own sort changes nothing: s2, s3 are g2's.
Select == /\ pc = "select" /\ i <= Len(s)
          /\ LET t == s[i] \intersect stmt_nums
             IN  s3' = IF t = {} THEN s3 ELSE Append(s3, t)
          /\ i' = i + 1
          /\ UNCHANGED <<input, place, pc, s>>

Selected == pc = "select" /\ i > Len(s)

Group == /\ Selected /\ Len(s3) > 1
         /\ pc' = "associate" /\ i' = 0
         /\ UNCHANGED <<input, place, s, s3>>

RefuseTwo == /\ Selected /\ Len(s3) <= 2
             /\ pc' = "refused"
             /\ UNCHANGED <<input, place, s, s3, i>>
\* "no statement can be distributed due to dependence cycle"
Refuse == /\ Selected /\ Len(s3) = 1
          /\ pc' = "refused"
          /\ UNCHANGED <<input, place, s, s3, i>>

-----------------------------------------------------------------------------
(* The statements that were not asked for, in the order of their numbers.  *)

Into(a)   == {j \in DOMAIN s3 : \E k \in s3[j] : <<a, k>> \in carried}
OutOf(a)  == {j \in DOMAIN s3 : \E k \in s3[j] : <<k, a>> \in carried}

\* The first loop with a statement that depends on a, else the last with one
\* that a depends on, else the first of all.
InsertionPointFirst(a) ==
  LET least(J) == CHOOSE j \in J : \A m \in J : j <= m
  IN  IF Into(a) # {} THEN least(Into(a))
      ELSE IF OutOf(a) # {} THEN least(OutOf(a)) ELSE 1
InsertionPoint(a) ==
  LET least(J) == CHOOSE j \in J : \A m \in J : j <= m
      last(J)  == CHOOSE j \in J : \A m \in J : m <= j
  IN  IF Into(a) # {} THEN least(Into(a))
      ELSE IF OutOf(a) # {} THEN last(OutOf(a)) ELSE 1

Associate == /\ pc = "associate" /\ i < N
             /\ s3' = IF i \in stmt_nums THEN s3
                      ELSE [s3 EXCEPT ![InsertionPoint(i)] = @ \union {i}]
             /\ i' = i + 1
             /\ UNCHANGED <<input, place, pc, s>>

-----------------------------------------------------------------------------
(* The new lexical order.                                                  *)

\* shiftLexicalOrder for a positive amount, within the loop outside.
ShiftedShort(amount) ==
  [a \in Stmts |-> IF place[a][1] = LoopPlace[1] /\ place[a][2] >= LoopPlace[2]
                   THEN <<place[a][1], place[a][2] + amount - 1>> ELSE place[a]]
Shifted(amount) ==
  [a \in Stmts |-> IF place[a][1] = LoopPlace[1] /\ place[a][2] >= LoopPlace[2]
                   THEN <<place[a][1], place[a][2] + amount>> ELSE place[a]]

Assign == /\ pc = "associate" /\ i = N
          /\ LET shifted == Shifted(Len(s3) - 1)
             IN  place' = [a \in Stmts |->
                             IF \E j \in DOMAIN s3 : a \in s3[j]
                             THEN <<LoopPlace[1], LoopPlace[2] - 1 +
                                     (CHOOSE j \in DOMAIN s3 : a \in s3[j])>>
                             ELSE shifted[a]]
          /\ pc' = "done"
          /\ UNCHANGED <<input, s, s3, i>>

Ended == pc \in {"done", "refused"} /\ UNCHANGED vars

Step == Sort \/ EndSort \/ Select \/ Group \/ Refuse \/ Associate \/ Assign

Next == Step \/ Ended

Spec == Init /\ [][Next]_vars

-----------------------------------------------------------------------------
(* Correctness.                                                            *)

PlacedBefore(a, b, p) == p[a][1] < p[b][1] \/ (p[a][1] = p[b][1] /\ p[a][2] < p[b][2])

\* The loops that distribute makes run the source of every dependence before
\* its sink, or keep both in one loop, which still carries it.
DependencesPreserved ==
  pc = "done" => \A p \in carried : ~PlacedBefore(p[2], p[1], place)

\* The second sort finds its vertices sorted: the precondition under which
\* topoSort gives them back as they are (TopoSort's KeepsSortedInput).
GroupsComeSorted ==
  pc = "associate" /\ i = 0 =>
    \A j, k \in DOMAIN s3 :
       (\E a \in s3[j], b \in s3[k] : <<a, b>> \in carried) => j <= k

\* Distribution makes room: two statements of which at most one belongs to the
\* distributed loop follow each other, or share a loop, as they did before.
OthersKeepTheirOrder ==
  pc = "done" => \A a, b \in Stmts : ~({a, b} \subseteq SameLoop) =>
     /\ PlacedBefore(a, b, place) <=> PlacedBefore(a, b, placeBefore)
     /\ place[a] = place[b] <=> placeBefore[a] = placeBefore[b]

\* A loop comes apart whenever it can: it is refused only when all the
\* statements asked for depend on each other in a cycle.
RefusedOnlyForCycle ==
  pc = "refused" => \E C \in Sorting!Components(N, carried) : stmt_nums \subseteq C
=============================================================================

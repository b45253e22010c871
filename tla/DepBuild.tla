------------------------------ MODULE DepBuild ------------------------------
(***************************************************************************)
(* How the constructor of Loop finds the dependences between two           *)
(* statements, i before j in the text or the same one: for one pair of     *)
(* array references relation2dependences splits the distances at which     *)
(* they touch the same element into dependence vectors (a worklist, dealt  *)
(* with from its end), and the constructor connects the statements,        *)
(* reversing the vectors that is_dependence_valid refuses.                 *)
(*                                                                         *)
(* The relation the Omega library keeps is the set R of the distances from *)
(* an iteration of i to one of j.  Its query for the bounds of a distance  *)
(* may answer "infinite" although R is not (a symbolic loop bound): open   *)
(* says for which dimensions and sides.                                    *)
(***************************************************************************)
EXTENDS DepVector, Sequences

CONSTANTS NDim,          \* r.n_inp()
          Relations,     \* the sets R considered
          CommonLoops,   \* how many loops the two statements may share
          OpenSides,     \* the sets open considered
          Infinity       \* posInfinity

Dims == 0 .. NDim-1

ASSUME NDimAssumption == NDim \in Nat /\ CommonLoops \subseteq 0 .. NDim
ASSUME RelationsAssumption ==
  /\ Relations \subseteq SUBSET [Dims -> Int]
  /\ Infinity \in Nat
  /\ \A R \in Relations : \A d \in R : \A k \in Dims : -Infinity < d[k] /\ d[k] < Infinity
ASSUME OpenAssumption == OpenSides \subseteq SUBSET (Dims \X {"lower", "upper"})

VARIABLES R, open,
          common,        \* last_dim + 1: the loops around both statements
          pair,          \* "same ref", "same stmt" or "two stmts"
          writes,        \* is_write() of the references in i and in j
          pc,            \* "split", "connect" or "done"
          working,       \* the worklist of DependenceLevels; its top is its end
          dependences1, dependences2,
          edges          \* the vectors that have been connected, with their ends

input == <<R, open, common, pair, writes>>
vars  == <<input, pc, working, dependences1, dependences2, edges>>

Level(r, level, dir, lb, ub) ==
  [r |-> r, level |-> level, dir |-> dir, lb |-> lb, ub |-> ub]
Zeros == [k \in Dims |-> 0]

Init == /\ R \in Relations /\ open \in OpenSides
        /\ pair \in {"same ref", "same stmt", "two stmts"}
        /\ common \in CommonLoops /\ (pair # "two stmts" => common = NDim)
        /\ writes \in {<<TRUE, TRUE>>, <<TRUE, FALSE>>, <<FALSE, TRUE>>}
        /\ pair = "same ref" => /\ writes = <<TRUE, TRUE>>
                                /\ \A d \in R : Negated(d) \in R
        /\ pc = "split"
        /\ working = <<Level(R, 0, 0, Zeros, Zeros)>>
        /\ dependences1 = <<>> /\ dependences2 = <<>>
        /\ edges = {}

-----------------------------------------------------------------------------
(* The worklist of relation2dependences.                                   *)

top == working[Len(working)]
rest == SubSeq(working, 1, Len(working)-1)
Working == pc = "split" /\ working # <<>>

\* query_variable_bounds(k) for the distances D, of which there is one.
Lower(D, k) == IF <<k, "lower">> \in open THEN -Infinity
               ELSE CHOOSE m \in {d[k] : d \in D} : \A d \in D : m <= d[k]
Upper(D, k) == IF <<k, "upper">> \in open THEN Infinity
               ELSE CHOOSE m \in {d[k] : d \in D} : \A d \in D : d[k] <= m

\* A distance that does not exist, or that joins an access with itself.
DropKept == /\ Working /\ top.r = {}
            /\ UNCHANGED vars
Drop == /\ Working
        /\ \/ top.r = {}
           \/ top.level = NDim /\ top.dir = 0 /\ pair = "same ref"
        /\ working' = rest
        /\ UNCHANGED <<input, pc, dependences1, dependences2, edges>>

TypeOf(src, dst) == CASE src /\ dst  -> "W2W"
                      [] src /\ ~dst -> "W2R"
                      [] ~src /\ dst -> "R2W"
                      [] OTHER       -> "R2R"

\* All dimensions are done: the direction decides whose access comes first.
VectorTypeKept(l) ==
  [type |-> TypeOf(writes[1], writes[2]), lb |-> l.lb, ub |-> l.ub, quasi |-> FALSE]
Vector(l) ==
  [type |-> IF l.dir = -1 THEN TypeOf(writes[2], writes[1])
                          ELSE TypeOf(writes[1], writes[2]),
   lb |-> l.lb, ub |-> l.ub, quasi |-> FALSE]

Record == /\ Working /\ top.r # {} /\ top.level = NDim
          /\ top.dir # 0 \/ pair # "same ref"
          /\ working' = rest
          /\ IF top.dir = -1
             THEN /\ dependences2' = Append(dependences2, Vector(top))
                  /\ UNCHANGED dependences1
             ELSE /\ dependences1' = Append(dependences1, Vector(top))
                  /\ UNCHANGED dependences2
          /\ UNCHANGED <<input, pc, edges>>

\* What follows deals with dimension k of the top element.
Descend(k) == Working /\ top.r # {} /\ top.level < NDim /\ k = top.level

\* The top element with dimension k done; bounds are those of its direction.
DeeperNotSwapped(k, r, dir, lb, ub) ==
  Level(r, k+1, dir, [top.lb EXCEPT ![k] = dir * lb], [top.ub EXCEPT ![k] = dir * ub])
Deeper(k, r, dir, lb, ub) ==
  Level(r, k+1, dir, [top.lb EXCEPT ![k] = IF dir = -1 THEN -ub ELSE lb],
                     [top.ub EXCEPT ![k] = IF dir = -1 THEN -lb ELSE ub])

\* No direction yet, and the sign of the distance leaves no choice.
Direct(k) ==
  /\ Descend(k) /\ top.dir = 0
  /\ LET lb == Lower(top.r, k)
         ub == Upper(top.r, k)
     IN  \/ lb > 0 /\ working' = Append(rest, Deeper(k, top.r, 1, lb, ub))
         \/ ub < 0 /\ working' = Append(rest, Deeper(k, top.r, -1, lb, ub))
  /\ UNCHANGED <<input, pc, dependences1, dependences2, edges>>

\* No direction yet and both signs are possible: one element for the zero
\* distance, and one for each sign with the bounds asked for again.
ZeroPart(k) == LET r == {d \in top.r : d[k] = 0}
               IN  <<Deeper(k, r, 0, 0, 0)>>
NegativePart(k) ==
  LET r == {d \in top.r : d[k] < 0}
      ub == IF r = {} THEN -1 ELSE Upper(r, k)
  IN  IF Lower(top.r, k) < 0 /\ pair # "same ref"
      THEN <<Deeper(k, r, -1, IF r = {} THEN -1 ELSE Lower(r, k), IF ub < -1 THEN ub ELSE -1)>>
      ELSE <<>>
PositivePart(k) ==
  LET r == {d \in top.r : d[k] > 0}
      lb == IF r = {} THEN 1 ELSE Lower(r, k)
  IN  IF Upper(top.r, k) > 0
      THEN <<Deeper(k, r, 1, IF lb > 1 THEN lb ELSE 1, IF r = {} THEN 1 ELSE Upper(r, k))>>
      ELSE <<>>

Split(k) ==
  /\ Descend(k) /\ top.dir = 0
  /\ Lower(top.r, k) <= 0 /\ Upper(top.r, k) >= 0
  /\ working' = rest \o ZeroPart(k) \o NegativePart(k) \o PositivePart(k)
  /\ UNCHANGED <<input, pc, dependences1, dependences2, edges>>

\* The direction is known: the bounds are taken as they are, after a second
\* look at those that are infinite on both sides and at those that are zero.
TightLower(k) ==
  LET lb == Lower(top.r, k)
      known == IF lb = -Infinity /\ Upper(top.r, k) = Infinity
                  /\ \A d \in top.r : d[k] >= 0 THEN 0 ELSE lb
  IN  IF known = 0 /\ \A d \in top.r : d[k] # 0 THEN 1 ELSE known
TightUpper(k) ==
  LET ub == Upper(top.r, k)
      known == IF Lower(top.r, k) = -Infinity /\ ub = Infinity
                  /\ \A d \in top.r : d[k] <= 0 THEN 0 ELSE ub
  IN  IF known = 0 /\ \A d \in top.r : d[k] # 0 THEN -1 ELSE known

FollowNotNegated(k) ==
  /\ Descend(k) /\ top.dir # 0
  /\ working' = Append(rest, [Deeper(k, top.r, 1, TightLower(k), TightUpper(k))
                                EXCEPT !.dir = top.dir])
  /\ UNCHANGED <<input, pc, dependences1, dependences2, edges>>
Follow(k) ==
  /\ Descend(k) /\ top.dir # 0
  /\ working' = Append(rest, Deeper(k, top.r, top.dir, TightLower(k), TightUpper(k)))
  /\ UNCHANGED <<input, pc, dependences1, dependences2, edges>>

SplitOver == /\ pc = "split" /\ working = <<>>
             /\ pc' = "connect"
             /\ UNCHANGED <<input, working, dependences1, dependences2, edges>>

-----------------------------------------------------------------------------
(* The loops of the constructor over the vectors.                          *)

\* is_dependence_valid: the common loops run the source before the sink.
ValidBeforeIgnored(dv, before) == common = 0 \/ LexSign(dv.lb, common) >= 0
Valid(dv, before) ==
  \/ common = 0
  \/ LexSign(dv.lb, common) = 1
  \/ LexSign(dv.lb, common) = 0 /\ before

Edge(from, to, dv) == [from |-> from, to |-> to, dv |-> dv]

ConnectForward ==
  /\ pc = "connect" /\ dependences1 # <<>>
  /\ LET dv == Head(dependences1)
     IN  edges' = edges \union {IF Valid(dv, TRUE) THEN Edge("i", "j", dv)
                                                   ELSE Edge("j", "i", Reversed(dv))}
  /\ dependences1' = Tail(dependences1)
  /\ UNCHANGED <<input, pc, working, dependences2>>

ConnectBackward ==
  /\ pc = "connect" /\ dependences1 = <<>> /\ dependences2 # <<>>
  /\ LET dv == Head(dependences2)
     IN  edges' = edges \union {IF Valid(dv, FALSE) THEN Edge("j", "i", dv)
                                                    ELSE Edge("i", "j", Reversed(dv))}
  /\ dependences2' = Tail(dependences2)
  /\ UNCHANGED <<input, pc, working, dependences1>>

Return == /\ pc = "connect" /\ dependences1 = <<>> /\ dependences2 = <<>>
          /\ pc' = "done"
          /\ UNCHANGED <<input, working, dependences1, dependences2, edges>>

Returned == pc = "done" /\ UNCHANGED vars

Step == \/ Drop \/ Record
        \/ \E k \in Dims : Direct(k) \/ Split(k) \/ Follow(k)
        \/ SplitOver \/ ConnectForward \/ ConnectBackward \/ Return

Next == Step \/ Returned

Spec == Init /\ [][Next]_vars /\ WF_vars(Step)

-----------------------------------------------------------------------------
(* Correctness.                                                            *)

Types == {"W2R", "R2W", "W2W", "R2R"}
IsVector(dv) == /\ dv.type \in Types /\ dv.quasi \in BOOLEAN
                /\ DOMAIN dv.lb = Dims /\ DOMAIN dv.ub = Dims
                /\ \A k \in Dims : dv.lb[k] \in Int /\ dv.ub[k] \in Int

\* The worklist, the vectors found and the edges have their types; no box is
\* empty; a worklist element without a direction has only zero bounds so far.
TypeOK ==
  /\ pc \in {"split", "connect", "done"}
  /\ \A w \in 1 .. Len(working) :
        LET l == working[w]
        IN  /\ l.level \in 0 .. NDim /\ l.dir \in {-1, 0, 1}
            /\ l.dir = 0 => l.lb = Zeros /\ l.ub = Zeros
  /\ \A dv \in {dependences1[v] : v \in DOMAIN dependences1}
                \union {dependences2[v] : v \in DOMAIN dependences2}
                \union {e.dv : e \in edges} :
        /\ IsVector(dv)
        /\ \A k \in Dims : dv.lb[k] <= dv.ub[k]
  /\ \A e \in edges : e.from \in {"i", "j"} /\ e.to \in {"i", "j"}

\* Which of the two accesses at distance d comes first in the original code:
\* the common loops decide, and then the text.  For one reference a distance
\* and its opposite say the same, and zero is no dependence.
IFirst(d) == LexSign(d, common) >= 0
Required == {d \in R : pair = "same ref" => LexSign(d, NDim) > 0}

\* The dependence between the accesses at distance d: its ends, the type it
\* has and the distance from its source to its sink.
Stands(e, d) ==
  IF IFirst(d) THEN /\ e.from = "i" /\ e.to = "j" /\ HasDistance(e.dv, d)
                    /\ e.dv.type = TypeOf(writes[1], writes[2])
               ELSE /\ e.from = "j" /\ e.to = "i" /\ HasDistance(e.dv, Negated(d))
                    /\ e.dv.type = TypeOf(writes[2], writes[1])

\* No dependence is lost: every pair of iterations that touch the same element
\* is covered by an edge from the access that comes first to the one that comes
\* second, with the type of these accesses and the distance within its bounds.
EveryDependenceFound == pc = "done" => \A d \in Required : \E e \in edges : Stands(e, d)

\* No edge is made up: each stands for at least one distance that exists, also
\* where a query was answered "infinite".
EveryEdgeFounded == \A e \in edges : \E d \in R : Stands(e, d)

\* The common loops never run the sink of an edge before its source, whatever
\* distance of its bounds is taken, and where they run both together the edge
\* follows the text; only a dependence that no common loop
\* carries is marked quasi: what permute and tile count on when they leave the
\* quasi vectors out of their checks.
EdgesPointForward ==
  \A e \in edges :
     LET carried == \E k \in 0 .. common-1 : e.dv.lb[k] > 0 /\ \A h \in Before(k) : e.dv.lb[h] >= 0
         zero == \A k \in 0 .. common-1 : e.dv.lb[k] = 0 /\ e.dv.ub[k] = 0
     IN  /\ carried \/ zero
         /\ ~carried => e.from = "i" /\ e.to = "j"
         /\ e.dv.quasi => zero /\ common < NDim

\* Every worklist is worked off: the constructor goes on to the next pair.
Terminates == <>(pc = "done")
=============================================================================

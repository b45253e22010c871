---------------------------- MODULE InducedLoops ----------------------------
(***************************************************************************)
(* What becomes of the dependences between the loops of one level when     *)
(* setLexicalOrder or fuse groups them: construct_induced_graph_at_level   *)
(* turns the vectors into good and bad edges, and typed_fusion (module     *)
(* TypedFusion) fuses the loops along those.                               *)
(*                                                                         *)
(* Each loop holds one statement.  The numbers of the loops say nothing of *)
(* their order in the text, since sort_by_same_loops keeps them in a map   *)
(* by the addresses of their nodes: only the vectors do.                   *)
(***************************************************************************)
EXTENDS TypedFusion, DepVector

CONSTANTS DepDim,       \* dep_dim: the dimension of the loops to be fused
          Programs      \* the dependences between the loops considered

LoopPairs == {p \in Nodes \X Nodes : p[1] # p[2]}

ASSUME ProgramsAssumption ==
  /\ DepDim \in Nat
  /\ \A d \in Programs : DOMAIN d = LoopPairs /\ \A p \in LoopPairs : \A dv \in d[p] :
        /\ dv.lb \in [0 .. DepDim -> Int] /\ dv.ub \in [0 .. DepDim -> Int]
        /\ \A k \in 0 .. DepDim : dv.lb[k] <= dv.ub[k]

VARIABLE dep            \* the vectors from one loop to another

\* The source and the sink run in the same iterations of the loops outside.
Between(p) == {dv \in dep[p] : ~HasBeenCarriedBefore(dv, DepDim)}

-----------------------------------------------------------------------------
(* construct_induced_graph_at_level.                                       *)

Carried(p) == \E dv \in dep[p] : HasBeenCarriedAt(dv, DepDim)
NegativeDefinite(p) == \E dv \in dep[p] : HasBeenCarriedAt(dv, DepDim) /\ HasNegative(dv, DepDim)
Negative(p) == \E dv \in dep[p] : HasNegativeBeenCarriedAt(dv, DepDim)

GoodEdgesReversed == {<<p[2], p[1]>> : p \in {q \in LoopPairs : Carried(q) /\ ~Negative(q)}}
GoodEdges == {p \in LoopPairs : Carried(p) /\ ~Negative(p)}
BadEdges  == {p \in LoopPairs : Negative(p)}

\* The loops depend on each other both ways: "not a DAG".
BothWays == \E p \in LoopPairs : Carried(p) /\ Carried(<<p[2], p[1]>>)

\* The loops ran one after another before, so the dependences between them
\* agree with some order of the loops.
InitDep == /\ dep \in Programs
           /\ Acyclic(M, {p \in LoopPairs : Between(p) # {}})

InitInduced == /\ InitDep
               /\ good = GoodEdges /\ bad = BadEdges
               /\ Init

NextInduced == Next /\ UNCHANGED dep

SpecInduced == InitInduced /\ [][NextInduced]_<<vars, dep>> /\ WF_vars(Step)

\* fuse looks at the loops it has been asked to fuse, here those that types
\* marks, before it builds the graph: "negative dependence would prevent fusion".
FuseRefused == \E p \in LoopPairs : /\ types[p[1]] /\ types[p[2]]
                                    /\ \E dv \in dep[p] : /\ IsCarried(dv, DepDim)
                                                         /\ HasNegative(dv, DepDim)

InitFuse == InitInduced /\ ~FuseRefused /\ Cardinality({m \in Nodes : types[m]}) >= 2

SpecFuse == InitFuse /\ [][NextInduced]_<<vars, dep>> /\ WF_vars(Step)

-----------------------------------------------------------------------------
(* Correctness.                                                            *)

\* The new loops run every instance of the dependence in its direction: in a
\* later loop, or in the same loop and, for a distance of zero, in the order
\* that the next level decides.
Kept(p, dv) == \/ ~Numbered(p[1]) \/ ~Numbered(p[2])
               \/ node_num[p[1]] < node_num[p[2]]
               \/ node_num[p[1]] = node_num[p[2]] /\ dv.lb[DepDim] >= 0

\* A dependence with a distance other than zero at this level survives, which
\* is what setLexicalOrder and fuse call typed_fusion for.
CarriedDependencesKept ==
  \A p \in LoopPairs : \A dv \in Between(p) :
     dv.lb[DepDim] # 0 \/ dv.ub[DepDim] # 0 => Kept(p, dv)

\* Every dependence survives, those of distance zero included: CHiLL.texi:140.
AllDependencesKept ==
  \A p \in LoopPairs : \A dv \in Between(p) : Kept(p, dv)

\* Loops that ran one after another are never refused as a cycle.
LegalNotRefused == ~BothWays /\ pc # "error"
=============================================================================

---------------------------- MODULE DistributeMC ----------------------------
(* Every graph of dependences between four statements of the loop, and     *)
(* other statements at every place around it.                              *)
EXTENDS Distribute

MCPairs == {p \in SameLoop \X SameLoop : p[1] # p[2]}
MCAll == SUBSET MCPairs

\* Two statements share the loop that follows the distributed one.
MCOthers == <<<<0, 2>>, <<1, 0>>, <<1, 2>>, <<1, 2>>, <<1, 3>>, <<2, 0>>, <<2, 2>>>>
MCAround == {[a \in N .. N+Len(MCOthers)-1 |-> MCOthers[a-N+1]]}

\* Statements 2 and 3 come apart; 3 has to run before 1 and 1 before 0.  With
\* these dependences and UnselectedDependences = TRUE, DependencesPreserved
\* fails.
MCChain == {{<<2, 3>>, <<3, 1>>, <<1, 0>>}}
=============================================================================

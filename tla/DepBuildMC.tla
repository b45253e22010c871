----------------------------- MODULE DepBuildMC -----------------------------
(* Two dimensions and distances of up to two in each.                      *)
EXTENDS DepBuild, FiniteSets, TLC

MCDistances == [0 .. 1 -> -2 .. 2]
MCPairs == {{d, e} : d, e \in MCDistances}
MCRelations == MCPairs \union {{Negated(d), d, [k \in 0 .. 1 |-> 0]} : d \in MCDistances}
MCOneRelations == {{d} : d \in MCDistances}
MCOpenSides == SUBSET ({0, 1} \X {"lower", "upper"})
MCNoOpenSides == {{}}
=============================================================================

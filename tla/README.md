# CHiLL in TLA+

CHiLL is a framework for composing loop transformations.  A script names a
procedure and a loop nest; CHiLL builds the iteration spaces of its statements
and the data dependences between them, applies the commands of the script
(`permute`, `tile`, `fuse`, `distribute`, `unroll`, ...) one after another, and
generates code.  Its central promise is in the manual (Manual/CHiLL.texi:140):
"any and all transformations that are applied preserve the dependences between
the statements in the original code".  Loops and statements are regrouped from
many sides to keep it, in code that stores the same facts several times over:
the iteration space transformations, the dependence vectors, the loop levels,
the lexical order and the cached result of the code generator.

This directory models the parts that decide whether a transformation is legal
and what order the result runs in: the topological sort, the typed fusion of
loops, the dependence vectors and how they are found, the commands that change
the iteration spaces and the loops of the statements, and the generator that
makes loops of those spaces again.  The TLC configurations check these on small
instances; the modules `*Proofs` prove the main results for every value of the
constants.

## 1. Inventory

Paths are relative to `src/`.

| Component | Source | State | Operations | What makes it correct |
|---|---|---|---|---|
| Graph, topoSort | graph.hh | vertices with a map of edge lists; in topoSort colours, a stack, an order | insert, connect, disconnect, hasEdge, topoSort, packed_topoSort, subGraph | components come out whole, once, none before one it can be reached from; a sorted acyclic graph keeps its order; every graph ends |
| Typed fusion | loop.cc 1561-1876 | the induced graph, work list, `cant_fuse_with`, `node_num`, the chain of groups | construct_induced_graph_at_level, typed_fusion, update_successors | bad edges separate, good edges never go back, every loop is placed, cycles are refused first, loops are not placed later than needed |
| Dependence vectors | dep.hh, dep.cc | bounds for each dimension, type, quasi flag; a graph of vectors | isCarried, has_been_carried_*, hasPositive, hasNegative, reverse, permute, normalize | a transformed vector stands for the transformed distances; a permutation is refused exactly when a distance becomes negative |
| Dependence analysis | omegatools.cc 1002-1300, irtools.cc, constructor of Loop | a worklist of partial vectors; the edges connected so far | relation2dependences, is_dependence_valid, test_data_dependences | no dependence is lost, none is made up, each runs from the access that comes first |
| permute and tile | loop_basic.cc 41-492, loop_tile.cc | `xform`, `loop_level`, the vectors | permute, tile, check, error | the three descriptions agree; the order of every dependence survives |
| distribute | loop_basic.cc 1427-1573 | the lexical order of the statements | distribute, getStatements, shiftLexicalOrder | dependences are preserved, only cycles are refused, the statements around keep their order |
| Lexical order, fuse, original | loop.cc 1365-2275, loop_basic.cc | the lexical order | setLexicalOrder, sort_by_same_loops, fuse, original | the text order agrees with the dependences of each level |
| split, skew, shift, scale, reverse, nonsingular, peel | loop_basic.cc, loop_extra.cc | `xform`, `IS`, the vectors, new statements | the commands | every iteration stays in one statement; vectors change with xform |
| Code generation cache | loop.cc 1150-1360 | `last_compute_cg_`, `last_compute_cgr_` | getCode, invalidateCodeGen, addKnown | what is printed and generated is what the commands have made |
| unroll | loop_unroll.cc | statements, vectors, overflow constraints | unroll, unroll_extra | copies and cleanup loops cover the iterations once |
| datacopy and the like | loop_datacopy.cc and others | new arrays and statements | datacopy, scalar_replace | a copy is filled before it is read and written back |
| Sparse and stencil | loop.cc, loop_stencil.cc, stencil.cc | expressions | compact, ELLify, make_dense, ... | the rewritten loops compute the same |
| CUDA back ends | loop_cuda_*.cc, cudaize_codegen_v2.cc | generated trees | cudaize, codegen | the kernel runs the loops of the nest |
| Intermediate representations | ir_*.cc, chill_ast.cc | trees of the compiler | parse, print | trees mean the program |
| Script front ends | parser.yy, chill_run.cc, chillmodule.cc | the session: a Loop, the mode | one function per command | an error leaves the session as the user believes it to be |
| Code generator | omega/code_gen | the spaces cut at every level; a tree of splits, loops and leaves | CodeGen::CodeGen, buildAST, recompute, liftOverhead, hoistGuard, printRepr | the code runs every instance once and in order; what a node takes for known holds there |
| Omega library | omega/omega_lib | formulas and relations | the Presburger operations, SimpleHull | answers are right |
| Tests of the graph | graph-test.cc | none | prints topoSort and packed_topoSort | |

How they interact.  Everything is calls on one thread.  The front end calls a
method of `Loop` for every command.  The constructor asks the analysis for the
vectors of every pair of accesses, connects them in `dep` and builds the first
lexical order (`setLexicalOrder`), which groups loops level by level with
construct_induced_graph_at_level and typed_fusion, which in turn asks topoSort
whether the induced graph has a cycle.  `fuse` uses the same grouping,
`distribute` uses topoSort directly.  `permute` and `tile` read and rewrite
`dep`, `loop_level` and `xform`; every later command relies on the three saying
the same.  An error is an exception that the front end catches: a script ends
(exit 2), an interactive session goes on with the `Loop` as it was when the
exception was thrown (parser.yy:905-911).

What is hard.  There are no threads and no messages.  The difficulties are
orders (two searches whose directions must match; vertices that come back on a
stack; groups renumbered while a queue is being worked off), long sequences of
legal commands that wear the descriptions of one nest apart, commands that fail
after half of their work, values computed early and used after something
changed, boundaries (`>` against `>=`, the sign of -1 compared with an unsigned
size, a group number used as an index), and worklists that must come to an end.
`PROJECT.json` lists each of these at its line.

## 2. Modules

| Module | Built on | Shown to implement | Proofs in |
|---|---|---|---|
| Reachability | | | OperatorProofs |
| SccOrder | Reachability | | |
| TopoSort | | SccOrder | TopoSortProofs, on OperatorProofs |
| Distribute | SccOrder | | DistributeProofs, on OperatorProofs |
| FusionPlan | | | |
| TypedFusion | Reachability | FusionPlan | FusionProofs, on OperatorProofs |
| DepVector | | | OperatorProofs |
| InducedLoops | TypedFusion, DepVector | | FusionProofs |
| LexicalOrder | DepVector, Reachability; states what FusionPlan and SccOrder allow | | LexicalOrderProofs, on OperatorProofs |
| DepBuild | DepVector | | DepBuildProofs, on OperatorProofs |
| LoopNest | DepVector | | LoopNestProofs, on OperatorProofs |
| AffineVector | DepVector | | LoopCommandsProofs |
| LoopCommands | AffineVector | | LoopCommandsProofs, on OperatorProofs |
| Zone, CodeTree, CodeText, CodeGen | each on the one before, Zone on Eager | | |

The modules `*MC` hold the values of the constants for TLC.  Definitions whose
names end in `Forgotten`, `Kept`, `OffByOne`, `AsLoop`, `Pure`, `First`,
`Touching` and the like stand in front of the definition they vary: each is a
plausible slip, and replacing the definition by it breaks the property the list
of mutants names.

**TopoSort** is `Graph::topoSort`, one action for each turn of its loops.  The
stack `S`, `color`, `order`, `c` and `result` are the locals of that name.
`scan` is the iterator of the loop over the neighbours and `v` the vertex whose
neighbours are pushed, so that the stack and the colours can be looked at in the
middle of that loop.  **SccOrder** says what the function promises: any order of
the components in which none comes out before a predecessor.  TopoSort
implements it with `result` for `result` (`EmitsComponentsInOrder`).
**Reachability** holds the reference definitions, by Warshall's recursion.

**TypedFusion** is `typed_fusion` with `update_successors` inlined.  One turn of
the work loop takes the node from the front, puts it into the first group of the
chain that it may join or opens one (`JoinGroup`, `OpenFusable`, `OpenAlone`),
raises `cant_fuse_with` of its successors and then, one by one, releases them
(`Release`).  **FusionPlan** is the plan that results, whatever order the work
list has: a loop goes behind all its bad edges, one that must stay alone does,
and if every loop may be fused each goes into the first group its dependences
allow.  TypedFusion implements it with `node_num` for `group` (`FollowsPlan`).

**InducedLoops** composes the vectors with the fusion: it derives good and bad
edges as `construct_induced_graph_at_level` does from every set of vectors of
the loops of one level, runs TypedFusion on them and asks what has become of the
vectors.  One statement in each loop.  The numbering of the loops is arbitrary,
as the order of a map of pointers is.  `SpecInduced` is the use of
setLexicalOrder, where every loop may be fused; `SpecFuse` is that of `fuse`,
which looks at the vectors between the loops it was given (`FuseRefused`) and
passes a type that only those have.

**LexicalOrder** is `original`: the recursion of `setLexicalOrder` from the
outermost loop inwards, one action for each call.  `calls` are the calls still
to be made, the first one running; `lex` is what `getLexicalOrder` returns,
without the components of the loops themselves.  A call for a level with loops
sorts its statements by the loops of the source, derives the edges between those
loops and takes the one grouping that FusionPlan allows when every loop may be
fused (`IsPlan`); a call below the innermost loop takes any order SccOrder
allows.  Here a loop holds several statements and a dependence is followed
through all the levels to the instances it orders.

**DepVector** has the queries and operations of dep.cc as operators.

**DepBuild** is the analysis of one pair of accesses: the worklist of
`relation2dependences` (`Direct`, `Split`, `Follow`, `Record`, `Drop`, one for
each branch), then the loops of the constructor that connect the vectors
(`ConnectForward`, `ConnectBackward`).  The relation from the Omega library is
the set `R` of distances; its queries are minima, maxima and tests for
emptiness over `R`, and where `open` says so a bound is answered "infinite" as
for a symbolic loop bound.

**LoopNest** is a nest under `permute(active, pi)` and `tile` with counted tiles:
one action for each way through a command, the refusals included (`Throw` is what
the front end does with the exception).  `xform` keeps which original loop each
loop of the nest runs through and in what steps; `loop_level` and `dep` are the
fields of that name.

**Distribute** is `distribute`: the sort, one component after the other (`Sort`;
any order that SccOrder allows, since the code relies on nothing else), the
statements asked for of each component (`Select`), the decision whether there is
more than one group of them (`Group`, `Refuse`), the association of the others
one by one (`Associate`, with `InsertionPoint`), `shiftLexicalOrder` and the new
places.  The place of a statement is the pair of the order of the loop around it
and the order within it.

**AffineVector** is what an affine command does to the vectors: intervals added,
scaled, rounded to the stride of copies, an infinite end kept infinite.
**LoopCommands** is a script of the commands that change
iteration spaces and statements: `Skew`, `Shift`, `Nonsingular`, `Split`,
`Peel`, `Unroll`, and `Known` and `GetCode`, one action each, with the refusals
of each command.  `stmt` is the list of statements, each with its instances, the
place `xform` gives each of them and its lexical order; `dep` the edges of the
dependence graph; `last_compute` what the kept code was built from, or none.  Beside the fields of
the code stand `alive`, whether the script goes on, `commands`, the bound on what
is still tried, and `unchecked`, whether a command that promises nothing about
order (nonsingular, or a shift or skew of a part of a loop) has been used, since
the properties hold it to less.  `peel` is a `split` for each
iteration and refuses a loop that runs once, whose hull has an equality at the
level and no bound (`PeelValues`); a full `unroll` of a short loop only drops the loop, and `unroll` of more makes the
clean-up statement by `split` as well, so these actions are composed of one
another as the methods are.
The condition of a `split` is a list of constraints, and the statement is cut
along one after the other.  The vectors a script starts with are those that
`relation2dependences` leaves (`VectorsAssumption`): in the loops around both
statements the distance is zero up to the first loop in which it is positive.

**CodeGen** is the way from spaces to text, one action for each pass:
`Construct` cuts the spaces level by level (`projected_IS_`, here `sp`),
`BuildTree` makes the tree, `RecomputeTree` settles what each node has to test
itself, `Lift` splits loops until no test is left below the given depth,
`Hoist` moves what every part of a node tests above it, `PrintText` writes the
loops out.  **CodeTree** holds the passes as operators on trees of `split`,
`loop` and `leaf` nodes, with `active` and the conditions known at a node as in
CG.cc; **CodeText** the printed form and `Trace`, which runs it.  **Zone** stands
for the library underneath: conjunctions of `x - y <= c`, on which projection,
complement, gist and intersection are exact operators.  SimpleHull is not exact
and is kept bound by bound: a conjunct that another contains is dropped
(`AddConjunct`); a dimension takes the bounds of one conjunct that hold in all
(`CommonBounds`); a side left without one takes bounds from which dimensions
that can be spared are projected away (`Removable`, `Approach`).  Its result
contains the conjuncts and may be larger.  The order in which a conjunct lists its
constraints is the library's own (`Listed`), and so is the sign of an equality;
the modules take one.  A dimension
is a number, 0 is the constant and 1 the parameter.  **Eager** has folds and
tables that compute a value once where TLC would compute it every time it is
used, and no meaning of its own.

## 3. Runs and bounds

| Run | Question | Bounds | Distinct states |
|---|---|---|---|
| TopoSort | does topoSort implement SccOrder, and end? | 4 vertices; every subset of ten edges, two cycles of two with edges between them both ways | 73598 |
| TypedFusion | does typed_fusion implement FusionPlan, and end? | every induced graph of 4 loops; every loop may be fused, or all but one | 659950 |
| InducedLoops | what becomes of the vectors, with every loop fused where possible? | 3 loops, at most one of 5 vectors for each ordered pair | 146496 |
| LexicalOrder | does `original` keep the dependences through all levels? | 3 statements, 2 levels of loops shared in every way, up to 2 vectors of 5 intervals for each level | 115362 |
| DepBuild | do the vectors stand for the distances there are? | 2 dimensions, distances from -2 to 2; every relation of one or two distances, and every symmetric one; 1 or 2 common loops; every choice of bounds answered "infinite" | 499248 |
| LoopNest | does a script of `permute` and `tile` keep order, levels and vectors? | 3 loops, up to 5 after tiling; any number of permutations | 19038 |
| LoopCommands | do the affine and the cutting commands keep the iterations, the order, the vectors and the code? | 12 programs of one or two statements in two loops of at most 5 iterations; every two commands, every three on one program | 23388 |
| CodeGen | does the code run every instance once, in order? | 11 shapes of spaces in two loops: every pair, every triple and every union of four of them; nothing or a bound of the parameter known; lifting depths 0 to 2; parameters -1 to 3 | 4628 |
| Distribute | does `distribute` keep order, and refuse only cycles? | 4 statements, every set of dependences, every choice of statements; 7 more statements around them | 424376 |
| DepBuildNoCommonLoop, InducedLoopsFuse, LoopCommandsStaleCode | violations, section 6 | | |

Why the bounds are enough.  TopoSort goes wrong when a vertex is pushed twice and
comes back finished, when a component is entered from its middle, and when one
component can reach another: four vertices give two components of two with edges
either way, one of three with a single one, and one of four.  All 65536 graphs of
four vertices would take longer and bring no new shape.  TypedFusion needs a loop
that waits for two others, one released late and one that follows on the chain:
four loops.  With six, mixed types fail in one more way (section 6).  In
InducedLoops a third loop is what a pair of loops is fused around; the five
vectors are carried outside, or zero, not negative, negative and of unknown sign
at the level, which are all that the code tells apart.  LexicalOrder adds a
second level, where what was fused outside decides what is compared inside; a
dependence concerns two statements and the third is what one of them is moved
across.  In DepBuild a bound of two tells `-1`, `1` and "more" apart, which the
splitting at zero needs, and one dimension follows another; `Infinity` is 9 where
the code has the largest value of its integer type.  LoopNest holds back from the
product of all scripts: its four kinds of script (MCScripts) vary one thing at a
time: any vector of boxes under permutation alone, tilings of every loop, tilings
of one loop again and again, and free exchanges where there is no dependence.  Two
tilings are needed to tile a tile loop.  In Distribute four selected or unselected
statements make two groups with a statement in between; the other statements lie
before, in, between and after the loops concerned.  LoopCommands has five skews,
two shifts, three matrices, six conditions of `split`, one of them of two
constraints, two amounts of `peel` and
four of `unroll`, each with a sign and a size that takes another branch; a loop
of five iterations leaves a remainder for every unroll amount, and a
distance of three is more than one amount and less than another.  Two commands
are what the vectors need to be wrong after the first and believed by the
second; the third is there for the code kept across both.  In CodeGen a pair of
statements is what a node compares, a third is what lies between them or joins
one of them, and the shapes meet in an end, overlap, contain one another or are
empty for some parameters; from -1 to 3 the parameter makes each of these happen
and leaves the loops with no, one and several iterations.

Every invariant and property of a passing run has an operator that varies the
code under which it fails.  Each is a slip that is easy to make here: an index before the increment, edges
not transposed for the second search, a copy on the stack not dropped, a maximum
forgotten, a successor released one predecessor too late, a vector split at zero
without being turned round, a `>` for `>=` in the shift of the levels, an
insertion point at the first instead of the last match, `hasNegative` where "may
be negative" is meant, a leaf that takes a loop's bounds for known though it has
no loop, a condition taken from the first part of a split for all of them, a
quotient rounded up where the vectors need it rounded down.

Fairness.  TopoSort, TypedFusion, DepBuild and InducedLoops assume weak fairness
of `Step`, and nothing else: there is one thread, it waits for nothing, so as long
as a turn of a loop is left it is taken.  `Terminates` holds because the loops run
out and not because a fair scheduler lets somebody else move.  LoopNest,
LoopCommands, Distribute, LexicalOrder and CodeGen have no liveness property: a
script may end after any command, and a command or a pass is one step, or a
bounded number of them.  LoopCommands and CodeGen are run without the check for
deadlock, as a script ends after its commands and the generator with its text.  The
stuttering actions (`Returned`, `Finished`, `Ended`, `EndOfScript`) stand for a
function that has returned.

## 4. What is proved

The modules `*Proofs` hold for every value of the constants, under the `ASSUME`s of
the modules: vertices are numbered from 0 and edges join vertices
(TopoSort), edges come from construct_induced_graph_at_level (TypedFusion), the
vectors have a lower bound that is not above the upper (InducedLoops).  Where a
theorem needs more it says so in an `ASSUME` of its own, which is named below:
nearly every such hypothesis shuts out a case in which the code does not keep the
property, and is listed with it in section 6; the others are what the proof does
not reach, and are listed in section 5.

**OperatorProofs**, for Reachability: `PathsTransitive`, `PathsLeast`, `ComponentsPartition`.
`Paths`, by which cycles and components are defined, is Warshall's recursion; it
gives the least reflexive and transitive relation that has the edges.  The
prover has no induction over a recursive function, so each of these proofs
unfolds the recursion into a chain of steps (`Steps`) and looks at the least
step that goes wrong.  From them follows `AcyclicHasFirst`: of every set of
vertices of an acyclic graph one is led to by no other, the one that the fewest
reach.

**OperatorProofs**, for DepVector: `PermuteKeepsDistances`, `PermuteExact` and
`ReverseNegatesDistances`.  permute looks at the bounds only, dimension by
dimension; `PermuteExact` shows that this is neither too strict nor too lax.  The
distance that proves a refusal justified is built from the lower bounds.

**TopoSortProofs**: `TypeCorrect`, `OrderCorrect`, `PartitionCorrect`,
`SortedKept` and `ComponentsInOrder`.  That
`order` is a permutation at the end of the first search is not inductive, because
a vertex is pushed as often as it is found: it may lie on the stack several times
and be finished when it comes up.  `IInv` therefore says what lies on the stack
under a vertex that is being expanded (`StackInv`, `ExpandInv`), that the part of
`order` that is filled holds exactly the finished vertices (`FirstInv`), that
`c` counts the others, which is why it never runs below zero, and that the sets
of `result` are disjoint and hold what the second search has left behind
(`SecondInv`, `PartInv`).  `SortedInv` is what a graph adds whose edges all lead
to greater numbers: the neighbours of a root are finished whenever it is one,
downwards in the first search and upwards in the second, so that no vertex is
ever pushed onto another.

`ComponentsInOrder` is the refinement: every step of topoSort emits a whole
component none of whose predecessors is still to come, or is a stutter of
SccOrder.  The invariant `PathInv` carries the theory of the two searches.  In the
first, what a vertex on the stack stands for can be reached from the vertices
being expanded under it (`ReachInv`), a neighbour of a vertex that has been expanded
is black or lies above it (`NeighbourInv`), and so a path that leaves
the finished vertices does so through the stack (`LeaveInv`).  `FinishInv` is what
remains of that at the end: if one vertex reaches another and is not reached by
it, something in its component comes later in `order`.  In the second search
`RootInv` says that what has been emitted is closed against the edges of the
transposed graph, so that the vertices reached from a root are its component and
no more (`WholeComponent`).  It needs the hypothesis that no edge leads from a
vertex to itself, as such an edge pushes a vertex that is being expanded again.

**FusionProofs**, for TypedFusion: `TypeCorrect`, `BadEdgesCorrect`, `GroupsCorrect`,
`RefusalCorrect`, `PlacementCorrect`, `GoodEdgesCorrect` and `PlanCorrect`.  That bad edges separate
follows from `cant_fuse_with` of a node never lying below the groups of its
predecessors, which has to be known of nodes not placed yet; hence the parts
`Queue` (who is waiting and who has been counted), `Edges` (an edge disappears
only when its source has been placed), `Chain` (the groups that loops may join come
in increasing order, each but the last possible one with its representative) and `Behind`.  `FInv` adds, where all
loops may be fused, that `cant_fuse_with` is not higher than it needs to be
(`Tight`), and from it each step of the code is a `Place` of FusionPlan or a
stutter: `PlanCorrect`.  `Shared` tells what loops of one group have in common for
mixed types.  `Progress` says that a node that waits for nothing is on the work
list; with `AcyclicHasFirst` no node is left when the list is empty, and a
graph without a cycle is not refused.

**FusionProofs**, for InducedLoops: `LegalAccepted` shows that the edges are among the pairs
of loops with a dependence between them, which form no cycle when the loops ran
one after another.  `CarriedKept` feeds the graph of the vectors to
`GoodEdgesCorrect` and `BadEdgesCorrect`: for any number of loops, vectors and
levels a dependence that has a distance at this level is kept.

**DistributeProofs**: `DistributionCorrect`, `SortedCorrect`, `RefusalJustified`
and `OthersCorrect`.  The invariant `DInv` follows the call: the components that
have come out are distinct and none is before one it depends on (`SortInv`); the
loops hold statements of different components in their order (`InOrder`,
`SelectInv`); the statements below `i` have been associated (`AssociateInv`);
and no dependence leads to an earlier loop (`EdgeOrder`).  Along a dependence
the components do not go back, so the loops of statements asked for do not.  A
statement that was not asked for goes into the first loop that depends on it, or
into the last it depends on if there is none; as the loops it depends on lie
before those that depend on it, by the dependences through it, either place is
right.  That is so of statements asked for only, hence the hypothesis
`UnselectedDependences = FALSE` of `DistributionCorrect`: statements not asked
for do not depend on each other.

**DepBuildProofs**: `TypeCorrect`, `FoundCorrect`, `FoundedCorrect` and
`ForwardCorrect`.  `FoundCorrect` follows the worklist: a distance that is not
covered by a recorded vector and not zero is still in one of the partial vectors
of the list, with everything that the constructor will make of it.
`FoundedCorrect` is the other direction: every partial vector is a part of `R`,
so that every edge that is connected has a distance within its bounds.  That
edges run from the access that comes first, `ForwardCorrect`, is by the sign of the
first interval that is not zero (`SignOfFirst`).  The three are under the
hypothesis `0 \notin CommonLoops`, the statements share a loop: without one TLC
finds each of them violated (the run DepBuildNoCommonLoop keeps the first).
`TypeCorrect` has no such hypothesis.

**LoopNestProofs**: `LevelsCorrect`, `DepsCorrect` and `OrderCorrect`, for any number
of loops, vectors, tile sizes and commands.  The levels and the vectors share one
invariant (`Nest`), since the permutation of the vectors is computed from the
levels and the new levels from the permutation: the original loops are numbered
by the dimensions of the vectors, increasing from the outside in (`Numbered`);
a tile loop refers to a loop further in, over the same iterations
(`Describes`), which is why the chain that tile follows ends (`ChainEnds`);
and at each number the vectors have the bounds that the original nest has for that
loop (`Follows`).  Loops that lie beside one another have consecutive numbers
(`Consecutive`), so that the permuted ones are contiguous and permute's second
check always passes.  For the order `Guarded` is added: a loop whose distance may be
negative lies inside an original loop whose distance must be positive.  The check
of permute says just that of the new order; a tile loop gets the same guard as
the loop it tiles because the first loop that carries the dependence is never
between the two (`LegalGuarded`).  From `Guarded` the first loop along which a
distance moves moves forward, and a tile loop never moves against its dimension
(`DivGrows`).

Three hypotheses leave out cases of section 6.  `Interactive = FALSE`: the script ends
with the first error.  `PermutedApart`: one permutation moves original loops or
tile loops, and tile loops only in scripts that tile a single dimension.  It takes
any permutation of original loops among which there are no tile loops; an
exchange that moves tile loops and original loops at once is only model-checked,
in the scripts without a dependence.  `OrderCorrect` needs `SignsKnown` as well: a
dimension that is tiled has no distance of unknown sign.

**LexicalOrderProofs**: `OwnCorrect`, `PreservedCorrect`, `DistinctCorrect` and
`NeverRefusedCorrect`.  The recursion is a list of calls, and what one call does to
the components of its level must not undo what was decided at the levels
outside.  The invariant is about pairs: any two statements are either in one
pending call, which shares the places of all levels outside it, or have been parted
at a level where every dependence between them that is not carried outside leads
the right way; and the numbers that are left to a call are below those of the
statement behind it.  No hypothesis is needed beyond the `ASSUME`s, which
say that the vectors come from the analysis and that the source ran in order; from
them no level has a cycle of loops, hence `NeverRefusedCorrect`.

**LoopCommandsProofs**, for AffineVector: `ShiftCovers`, `SkewTurnCovers`, `MultiplyTurnCovers`
and `LumpedCovers`.  Whatever the amounts, the vector a command leaves covers
every distance the old one covered, as the command has changed it: the sum of
intervals for `skew`, the product for a matrix, turned round where the dependence
now runs the other way, and the quotient for copies that `unroll` has lumped
together.  A bound may be infinite, and then stays so; half of the proof is that
case.

**LoopCommandsProofs**, for LoopCommands: `CodeKeptIsCurrent`.  If printed code is not split, the
kept code is that of the program after any script, for any programs and amounts.
The invariant is inductive as it stands: each command drops the code or changes
no statement.

`EveryInstanceRunsOnce` is about any sequence of all the commands, for any number
of loops, programs, amounts and conditions.  A *run* is a statement, a copy in its
code and a point.  Each command is shown to send the runs of the old statements
one to one to those of the new ones, so that each computes the instance it did
(`Follows`): split and peel to one half or the other, unroll to the copies that
are lumped together, the affine commands to themselves.  That no instance is lost
is not inductive alone.  apply_xform makes the loop variables the points of the
space, and would lose those that share a position; unroll divides the iterations
of a loop by its stride.  `OnceInv` therefore adds that the points of a statement
have different positions (`Proper`), and the lemmas about unroll that the copies
take the strides between the iterations that stay.  Three hypotheses are needed.
Matrices are regular, as the name of the command says and nothing in it tests.
"skew by other loops only" is left out, for the same reason: a skew has an amount
other than 0 for the loop itself.  And "cut beside another loop" is left out: the rest that `unroll_extra` unrolls
would lie in the loop of another statement, whose iterations are not known to fit
the strides of the rest; only this command needs it.

`DistancesCovered` and `OrderIsPreserved` are the promise of the manual for the
commands that move and cut: after any script of shift, skew, nonsingular, split
and peel, every two runs of which one depends on the other are covered by a vector
between their statements, and as long as only commands have run that check, the
source still comes first.  `CoverInv` adds to `OnceInv` that the vectors have the
type of vectors between the statements there are (`Edges`), that each pair of
dependent runs is covered (`AllExplained`), and, while nothing is `unchecked`,
that these runs are in order (`AllSooner`) and that each vector goes forward in
the loops around both its statements (`Forward`).  The last is what split relies
on when it connects the halves one way only: it asks the vectors, not the runs.
Runs and vectors meet in the lemmas of AffineVector, chained over the rows of a
matrix or the amounts of a skew (`SkewedTurns`, `MultiplyTurns`); for a cut the
lemmas say where each half runs (`SplitViews`) and which vectors there are between
the halves (`SplitDepsAre`).  The hypotheses (`Checked`) are the cases of section
6 in which TLC finds these properties violated, a session that ends with its first
error, regular matrices, and scripts without unroll.

**OperatorProofs** has besides what these proofs share: what a recursion over
`0 .. n` computes step by step, the ranks of the elements of an ordered set,
concatenations and flattened sequences, quotients and progressions.

## 5. What is model-checked only

Liveness (`Terminates`, and the fairness in `EmitsComponentsInOrder` and
`FollowsPlan`), which the prover used here cannot do; LoopNest where one permutation
moves loops of both kinds.  `VectorsCoverDistances` and `OrderPreserved` of
LoopCommands in scripts with unroll: `LumpedCovers` proves the vectors of one
distance, but only for bounds a stride away from `posInfinity`, and that the
lumped copies run in order takes an invariant about the iterations between the
copies of a stride.  `RunsEveryInstanceOnce` where a loop is cut beside another one,
with "cut beside another loop" taken out of `MCLeftOut`.  CodeGen, whose trees
are worked off by RECURSIVE operators (CodeTree, CodeText), about which nothing
can be proved here.

## 6. What the code does not keep

Three runs are expected to fail; each checks the sentence of the manual or of a
comment that is quoted in `PROJECT.json`.

* *DepBuildNoCommonLoop.* is_dependence_valid accepts a vector from the second
  statement back to the first when they share no loop.
* *InducedLoopsFuse.* A loop that fuse leaves alone is not minded by those fused.
* *LoopCommandsStaleCode.* split cuts the spaces and adds statements
  (loop_basic.cc:500) and leaves the code kept by getCode (loop.cc:1193), which
  the constructor has already computed (loop.cc:1056); the next getCode returns
  the program before the split.

Where a passing run would meet one of these, or one of the following, its bounds
or its property leave it out, and a definition of the MC module brings it back:

| Left out | Where | To see it |
|---|---|---|
| an edge from a vertex to itself | graph.hh:195; no caller makes one | TopoSortMC `SelfLoops`, N = 3: `EmitsComponentsInOrder` fails |
| groups of mixed types and good edges | loop.cc:1591 | TypedFusion `DependencesPreserved`: M = 3 with `AnyTypes`; M = 6 with `AllButFirst` and `LateGroup`, between two loops that may be fused |
| the representative of group n, stored one element past a vector of n | loop.cc:1831 | TypedFusion `RepresentativeStored` with `AllTrue` |
| unselected statements that depend on one another | loop_basic.cc:1534 | DistributeMC `MCChain` with `UnselectedDependences = TRUE`: `DependencesPreserved` fails |
| a permutation that takes three loops in a cycle: xform is moved by pi and loop_level by its inverse | loop_basic.cc:437 | LoopNestMC `MCRotation`: `LevelsDescribeNest` fails |
| a tile of loops whose vectors are of unknown sign: `hasNegative` is true only of a distance that must be negative | loop_tile.cc:75 | LoopNestMC `MCUnknown`: `OrderPreserved` fails |
| tile loops of two original loops exchanged; levels not updated | loop_basic.cc:353 | LoopNestMC `MCTilesSwapped`, NDim = 2, MaxLevels = 4: `LevelsDescribeNest` fails |
| a tile loop moved over the loop that carries a dependence | loop_basic.cc:343 | LoopNestMC `MCTilePermuted`: `OrderPreserved` fails |
| an interactive session that goes on after a refused permutation | loop_basic.cc:336 | LoopNestMC `MCRefused`, `Interactive = TRUE`: `OrderPreserved` fails |
| vectors of distance zero between loops that are parted | loop.cc:1660 | LexicalOrder `Unprotected`; InducedLoops `AllDependencesKept` fails |

In LoopCommands the constant `LeftOut` names such cases, and a case taken out of
`MCLeftOut` is met again:

| Case | Where | Property that fails |
|---|---|---|
| "split of printed code" | loop_basic.cc:500 | `CodeIsCurrent` (the run LoopCommandsStaleCode) |
| "cut after a command without a check": nonsingular, and shift and skew of a part of a loop, may leave vectors that run backwards | loop_basic.cc:500 | `VectorsCoverDistances` |
| "cut inside the loop that carries": the halves are connected one way only | loop_basic.cc:860 | `VectorsCoverDistances` |
| "cut beside another loop": the new statement has its place, then is shifted with those behind it | loop_basic.cc:842 | `OrderPreserved`, `VectorsCoverDistances` |
| "full unroll of an outer loop": amount 0 is always taken for safe | loop_unroll.cc:84 | `OrderPreserved` |
| "copies that others depend on" | loop_unroll.cc:1193 | `VectorsCoverDistances` |
| "copies of several statements": two vectors go to `i` where the other copy is meant | loop_unroll.cc:1180 | `VectorsCoverDistances` |
| "skew by an inner loop" | loop_basic.cc:1031 | `OrderPreserved`, `VectorsCoverDistances` |
| "skew by other loops only": an amount of 0 for the loop itself, which nothing refuses, makes xform singular | loop_basic.cc:917 | `OrderPreserved`, `RunsEveryInstanceOnce` |
| "matrix with constants": the constant, which moves both instances alike, is added to the bounds of their distance | loop.cc:2673 | `VectorsCoverDistances` |
| a singular matrix, which nothing tests: MCMatrices with `<<Row(0, 0, 0), Row(0, 1, 0)>>`, "cut after a command without a check" taken out | loop.cc:2582 | `RunsEveryInstanceOnce` |
| `Interactive = TRUE`: a session goes on after a refused skew, of which half is done | loop_basic.cc:1031 | `VectorsCoverDistances`, `OrderPreserved` |

Met while reading and not modelled: skew, shift and reverse take a vector whose
upper bound is 0 for one that is not positive, whatever the sign of the lower;
the copies that `unroll` keeps as statements of their own take the remainder of
`lb + t + 1` where the stride is not minded (loop_unroll.cc:875, 905); an
assignment stands for a comparison at loop.cc:1947; fuse drops the kept code and
applies xform before it checks its parameters (loop_basic.cc:1198).

## 7. What is not modelled, and the plan

Of the Omega library only what the code generator asks of it is there, on
constraints `x - y <= c` (Zone), every operator but SimpleHull with exact
answers.  The solver for Presburger formulas, its calculator and its parser are a project of
their own.  What the generator does with strides and wildcards, with
coefficients other than one, with uninterpreted functions and with the CUDA
marks (`smtNonSplitLevels`) is left out with them.  The order in which a node
tries the conditions it finds is the library's and arbitrary; the modules take
one.  What SimpleHull does with strides and wildcards (hull_simple.cc:116-377) is
left out with them.

The intermediate representations translate trees of Rose and Clang, the CUDA back
ends and the printers format them, and the readers of scripts call one method a
line; none of them decides anything about order.  Most of the lines of the
repository are there: the adapters, the parsers (some generated) and the
library.  The sparse and stencil commands rewrite expressions and have no
legality check of their own.  datacopy computes array footprints with the
library, and leaves Loop only the statements that fill and write back the copy.

In order of importance:

1. *setLexicalOrder for loops of different types* (loop.cc:1919-2051, with the
   assignment at 1947), for statements that other commands have copied, and
   permute(stmt, level, pi).
2. *split* with a condition on a loop inside the one that is cut
   (loop_basic.cc:556-805), *unroll* with copies that are statements of their own
   and with bounds that are not constant (loop_unroll.cc:289-1013), nonsingular
   on several statements.
3. *original, fuse, permute, tile and distribute* over the kept code of
   LoopCommands: original rebuilds the order and keeps the code
   (loop_basic.cc:30).
4. *Strides* in Zone and CodeGen: a space of every second iteration, whose loops
   step by two and whose leaves test a remainder.
5. *datacopy*: the statements added, the dependences they are given.

DependenceVector::normalize (dep.cc:331-357) is left out for good: it is called
by DependenceVector::permute alone, and of what that returns Loop uses the
exception only (loop_basic.cc:130, 365).

To prove next: the vectors and the order of LoopCommands under unroll, from
`LumpedCovers`, and the exactness of Zone's projection, with which CodeGen would
have to start.

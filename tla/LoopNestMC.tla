----------------------------- MODULE LoopNestMC -----------------------------
(* Vectors of two or three dimensions with bounds up to two, and the       *)
(* permutations of up to three loops.                                      *)
EXTENDS LoopNest

MCIntervals == {i \in (-1 .. 2) \X (-1 .. 2) : i[1] <= i[2]}
MCVector(b) == [type |-> "W2R", quasi |-> FALSE,
                lb |-> [k \in DOMAIN b |-> b[k][1]], ub |-> [k \in DOMAIN b |-> b[k][2]]]

\* The vectors of the constructor: zero up to a dimension with a positive one.
MCForward(intervals) ==
  {b \in [Dims -> intervals] :
     \E k \in 0 .. NDim : /\ \A h \in Before(k) \intersect Dims : b[h] = <<0, 0>>
                          /\ k \in Dims => b[k][1] > 0}
MCBoxes == {MCVector(b) : b \in MCForward(MCIntervals)}
MCDistances == {MCVector(b) : b \in MCForward({<<n, n>> : n \in -1 .. 1})}
MCUnknownSign == {MCVector(b) : b \in {[k \in Dims |-> IF k = 0 THEN <<1, 1>> ELSE <<-1, 1>>]}}

MCNone == {MCVector([k \in Dims |-> <<0, 0>>])}

MCSwaps == {<<2, 1>>, <<3, 2, 1>>}
MCAll == {<<2, 1>>} \union {p \in [1 .. 3 -> 1 .. 3] : ToSet(p) = 1 .. 3}
MCCycles == {<<2, 3, 1>>, <<3, 1, 2>>}

MCScript(vectors, sizes, tiled, orders, kinds) ==
  [vectors |-> vectors, sizes |-> sizes, tiled |-> tiled, orders |-> orders, kinds |-> kinds]

\* Permutations of any vectors; tilings and permutations of the original loops
\* for distances of a known sign; tilings of one dimension again and again and
\* exchanges of its tile loops; any exchange where there is no dependence.
MCScripts ==
  [permute |-> MCScript(MCBoxes, {}, Dims, MCAll, {"original"}),
   tile    |-> MCScript(MCDistances, {0, 2}, Dims, MCAll, {"original"}),
   strip   |-> MCScript(MCDistances, {0, 2}, {1}, MCAll, {"original", "tile"}),
   free    |-> MCScript(MCNone, {0, 2}, Dims, MCSwaps, {"original", "mixed"})]

\* Five more that fail.  LevelsDescribeNest: the rotation of three loops, one of
\* them a tile loop; two tile loops are exchanged.  OrderPreserved: a distance
\* of unknown sign is tiled; a tile loop is moved over the loop that carries the
\* dependence; and, with Interactive = TRUE, any refused permutation.
MCRotation == [rotate |-> MCScript(MCDistances, {2}, Dims, MCCycles, {"mixed"})]
MCUnknown  == [unknown |-> MCScript(MCUnknownSign, {2}, Dims, {}, {})]
MCTilesSwapped == [swap |-> MCScript(MCDistances, {2}, Dims, MCSwaps, {"tile"})]
MCTilePermuted == [move |-> MCScript(MCDistances, {2}, Dims, MCSwaps, {"mixed"})]
MCRefused      == [refuse |-> MCScript(MCDistances, {}, Dims, MCSwaps, {"original"})]
=============================================================================

------------------------------ MODULE LoopNest ------------------------------
(***************************************************************************)
(* A loop nest under permute and tile.  Loop keeps three descriptions of a *)
(* nest: xform, which the code is generated from; loop_level, which says   *)
(* of each loop whether it is an original one or the controlling loop of a *)
(* tile; and the dependence vectors, which have one dimension for each     *)
(* original loop.  The commands check the vectors to decide whether xform  *)
(* may change, and find their dimensions through loop_level.               *)
(*                                                                         *)
(* The statements of the nest share all its loops, so that one loop_level  *)
(* and one xform stand for all, no vector is quasi and no statement is     *)
(* left out.  Of xform the order of the loops is kept: xform[l] is the     *)
(* original loop whose iterations loop l runs through, and in steps of     *)
(* which size (CountedTile with lower bound 0; the size of an original     *)
(* loop is 1, that of the trivial loop of tile size 0 is 0).               *)
(***************************************************************************)
EXTENDS DepVector, Sequences, SequencesExt, FiniteSetsExt

CONSTANTS NDim,          \* num_dep_dim
          Scripts,       \* the kinds of scripts considered: their program's
                         \* vectors, the sizes and the dimensions they tile, the
                         \* permutations (of 1 .. n) and the kinds of loops they
                         \* apply these to
          Interactive,   \* the session goes on after an error
          MaxLevels      \* bound: loops in the nest

Dims == 0 .. NDim-1

ASSUME NDimAssumption == NDim \in Nat \ {0} /\ MaxLevels \in Nat
ASSUME InteractiveAssumption == Interactive \in BOOLEAN
ASSUME ScriptsAssumption ==
  \A k \in DOMAIN Scripts :
    /\ \A dv \in Scripts[k].vectors :
         /\ dv \in [type : STRING, quasi : {FALSE}, lb : [Dims -> Int], ub : [Dims -> Int]]
         /\ \A i \in Dims : dv.lb[i] <= dv.ub[i]
         /\ LexSign(dv.lb, NDim) >= 0      \* and so is that of all its distances
    /\ Scripts[k].sizes \subseteq Nat /\ Scripts[k].tiled \subseteq Dims
    /\ \A p \in Scripts[k].orders : p \in Seq(Nat) /\ ToSet(p) = 1 .. Len(p)
    /\ Scripts[k].kinds \subseteq {"original", "tile", "mixed"}

VARIABLES loop_level, dep, xform,
          script,    \* the kind of script
          vector,    \* the vector the original nest was given
          alive      \* the program still takes commands

given == <<script, vector>>
vars  == <<loop_level, dep, xform, given, alive>>

Original(payload) == [type |-> "original", payload |-> payload]
TileLoop(payload) == [type |-> "tile", payload |-> payload]

Init == /\ script \in DOMAIN Scripts
        /\ vector \in Scripts[script].vectors
        /\ dep = {vector}
        /\ loop_level = [l \in 1 .. NDim |-> Original(l-1)]
        /\ xform = [l \in 1 .. NDim |-> [kind |-> "original", dim |-> l-1, size |-> 1]]
        /\ alive = TRUE

Levels == 1 .. Len(loop_level)

\* An exception: the script is abandoned unless the session is interactive.
Throw == alive' = Interactive

-----------------------------------------------------------------------------
(* permute(active, pi): loop l of the new nest is loop pi[l] of the old.   *)

\* The loops from level on that p permutes, and all the others in place.
Moved(level, p) ==
  [l \in Levels |-> IF l \in level .. level+Len(p)-1 THEN level-1 + p[l-level+1] ELSE l]
\* reverse_pi: where an old loop goes.
MovedTo(pi) == [l \in Levels |-> CHOOSE m \in Levels : pi[m] = l]

RangeOf(level, p) == level .. level+Len(p)-1
KindOf(range) == IF \A l \in range : xform[l].kind = "original" THEN "original"
                 ELSE IF \A l \in range : xform[l].kind = "tile" THEN "tile" ELSE "mixed"

\* t: the dependence dimensions of the permuted loops, in their new order.
PermutedDims(level, p) ==
  LET pi == Moved(level, p)
      old == [k \in 1 .. Len(p) |-> loop_level[pi[level+k-1]]]
      originals == {k \in DOMAIN old : old[k].type = "original"}
      nth(n) == CHOOSE k \in originals : Cardinality({j \in originals : j < k}) = n-1
  IN  [n \in 1 .. Cardinality(originals) |-> old[nth(n)].payload]

MinDim(t) == Min(ToSet(t))
Contiguous(t) == Max(ToSet(t)) - MinDim(t) + 1 = Len(t)
DepPi(t) == [i \in Dims |-> IF i \in ToSet(t) THEN t[i - MinDim(t) + 1] ELSE i]

\* An original loop gets the next dependence dimension of the permuted ones,
\* a tile loop the new level of the loop it tiles.  The code looks the old
\* loop up with the inverse of the permutation.
LevelsAfter(level, p, t) ==
  LET inv == MovedTo(Moved(level, p))
      old == [l \in Levels |-> loop_level[inv[l]]]
      before(l) == {m \in level .. l-1 : old[m].type = "original"}
  IN  [l \in Levels |->
         IF old[l].type = "tile" THEN TileLoop(inv[old[l].payload])
         ELSE IF l \in RangeOf(level, p) THEN Original(MinDim(t) + Cardinality(before(l)))
         ELSE old[l]]

\* What every way out of permute has done to xform.
Rearrange(level, p) == xform' = [l \in Levels |-> xform[Moved(level, p)[l]]]

\* A command permute(active, pi) that passes the checks of its parameters.
Permutes(level, p) ==
  /\ alive /\ RangeOf(level, p) \subseteq Levels
  /\ KindOf(RangeOf(level, p)) \in Scripts[script].kinds

\* None of the loops has a dependence dimension: permute returns early.
PermuteTiles(level, p) ==
  /\ Permutes(level, p) /\ PermutedDims(level, p) = <<>>
  /\ Rearrange(level, p)
  /\ UNCHANGED <<loop_level, dep, given, alive>>

PermuteRefused(level, p) ==
  /\ Permutes(level, p)
  /\ LET t == PermutedDims(level, p)
     IN  /\ t # <<>>
         /\ \/ ~Contiguous(t)
            \/ \E dv \in dep : Violated(dv, DepPi(t))
  /\ Rearrange(level, p)
  /\ Throw
  /\ UNCHANGED <<loop_level, dep, given>>

PermuteUnchecked(level, p) ==
  /\ Permutes(level, p)
  /\ LET t == PermutedDims(level, p)
     IN  /\ t # <<>> /\ Contiguous(t)
         /\ dep' = {Permuted(dv, DepPi(t)) : dv \in dep}
         /\ loop_level' = LevelsAfter(level, p, t)
  /\ Rearrange(level, p)
  /\ UNCHANGED <<given, alive>>
PermuteDepKept(level, p) ==
  /\ Permutes(level, p)
  /\ LET t == PermutedDims(level, p)
     IN  /\ t # <<>> /\ Contiguous(t)
         /\ \A dv \in dep : ~Violated(dv, DepPi(t))
         /\ loop_level' = LevelsAfter(level, p, t)
  /\ Rearrange(level, p)
  /\ UNCHANGED <<dep, given, alive>>
Permute(level, p) ==
  /\ Permutes(level, p)
  /\ LET t == PermutedDims(level, p)
     IN  /\ t # <<>> /\ Contiguous(t)
         /\ \A dv \in dep : ~Violated(dv, DepPi(t))
         /\ dep' = {Permuted(dv, DepPi(t)) : dv \in dep}
         /\ loop_level' = LevelsAfter(level, p, t)
  /\ Rearrange(level, p)
  /\ UNCHANGED <<given, alive>>

-----------------------------------------------------------------------------
(* tile(stmt_num, level, tile_size, outer_level).                          *)

\* The dependence dimension of the loop a chain of tile loops leads to.
DepDimOf(level) ==
  LET follow[n \in 0 .. MaxLevels] ==
        [l \in Levels |-> IF n = 0 \/ loop_level[l].type = "original" THEN loop_level[l].payload
                          ELSE follow[n-1][loop_level[l].payload]]
  IN  follow[MaxLevels][level]

\* hasPositive throws when there is no such dimension, and tile with it.
PositiveAt(dv, dim) == dim \in DOMAIN dv.lb => HasPositive(dv, dim)

\* "Tiling is illegal": the tiled loop runs against a dependence that a loop
\* on its way out carries.  For a tile loop the check takes the level it
\* tiles for a dependence dimension.
CarriedOnTheWay(dv, level, outer) ==
  \E l \in outer .. level-1 :
     LET dim == loop_level[l].payload
     IN  /\ loop_level[l].type = "tile" => dim < level-1
         /\ IsCarried(dv, dim) /\ PositiveAt(dv, dim)
Illegal(level, outer) ==
  \E dv \in dep : HasNegative(dv, DepDimOf(level)) /\ CarriedOnTheWay(dv, level, outer)

Tiles(level, outer) == /\ alive /\ Len(loop_level) < MaxLevels
                       /\ level \in Levels /\ outer \in 1 .. level
                       /\ Scripts[script].sizes # {} /\ xform[level].dim \in Scripts[script].tiled

TileRefused(level, outer) ==
  /\ Tiles(level, outer) /\ Illegal(level, outer)
  /\ Throw
  /\ UNCHANGED <<loop_level, dep, xform, given>>

\* The levels that tile loops refer to move inwards with their loops.
ShiftedLevelsOffByOne(outer) ==
  [l \in Levels |-> IF loop_level[l].type = "tile" /\ loop_level[l].payload > outer
                    THEN TileLoop(loop_level[l].payload + 1) ELSE loop_level[l]]
ShiftedLevels(outer) ==
  [l \in Levels |-> IF loop_level[l].type = "tile" /\ loop_level[l].payload >= outer
                    THEN TileLoop(loop_level[l].payload + 1) ELSE loop_level[l]]

Tile(level, size, outer) ==
  /\ Tiles(level, outer) /\ ~Illegal(level, outer)
  /\ loop_level' = InsertAt(ShiftedLevels(outer), outer, TileLoop(level+1))
  /\ xform' = InsertAt(xform, outer, [kind |-> "tile", dim |-> xform[level].dim,
                                      size |-> xform[level].size * size])
  /\ UNCHANGED <<dep, given, alive>>

\* No further command.
EndOfScript == UNCHANGED vars

Next ==
  \/ \E level \in Levels, p \in Scripts[script].orders :
        PermuteTiles(level, p) \/ PermuteRefused(level, p) \/ Permute(level, p)
  \/ \E level, outer \in Levels :
        \/ TileRefused(level, outer)
        \/ \E size \in Scripts[script].sizes : Tile(level, size, outer)
  \/ EndOfScript

Spec == Init /\ [][Next]_vars

-----------------------------------------------------------------------------
(* Correctness.                                                            *)

OriginalsBefore(l) == {m \in 1 .. l-1 : xform[m].kind = "original"}

\* loop_level describes the nest the code will be generated for: the original
\* loops are numbered in the order in which they run and are told apart from
\* the tile loops, each of which refers to a loop over the same iterations.
LevelsDescribeNest ==
  alive => \A l \in Levels :
    /\ loop_level[l].type = xform[l].kind
    /\ IF xform[l].kind = "original"
       THEN loop_level[l].payload = Cardinality(OriginalsBefore(l))
       ELSE LET ref == loop_level[l].payload
            IN  ref \in Levels \ {l} /\ xform[ref].dim = xform[l].dim

\* The vectors are the ones of the original nest with their dimensions in the
\* order of the loops that run now.
DepsDescribeNest ==
  alive => LET place(dim) == CHOOSE l \in Levels : xform[l].kind = "original"
                                                   /\ xform[l].dim = dim
           IN  \A dv \in dep : \A dim \in Dims :
                 LET now == Cardinality(OriginalsBefore(place(dim)))
                 IN  dv.lb[now] = vector.lb[dim] /\ dv.ub[now] = vector.ub[dim]

\* The distance between two iterations in the order of the nest.
Coordinate(loop, x) == IF loop.size = 0 THEN 0 ELSE x[loop.dim] \div loop.size
Moves(d, x) == [i \in 0 .. Len(xform)-1 |->
                  LET y == [k \in Dims |-> x[k] + d[k]]
                  IN  Coordinate(xform[i+1], y) - Coordinate(xform[i+1], x)]

Period == Max({1} \union {xform[l].size : l \in Levels})

\* The nest runs the source of every dependence of the original nest before
\* its sink: what a transformation that was not refused must preserve, for
\* every distance within the bounds and wherever in the tiles its source is.
OrderPreserved ==
  alive =>
    \A d \in [Dims -> Min({vector.lb[k] : k \in Dims}) .. Max({vector.ub[k] : k \in Dims})] :
      HasDistance(vector, d) /\ LexSign(d, NDim) > 0 =>
        \A x \in [Dims -> 0 .. Period-1] : LexSign(Moves(d, x), Len(xform)) > 0
=============================================================================

----------------------------- MODULE NnStencil ------------------------------
(***************************************************************************)
(* The nearest-neighbour traversals (core/exec/nn_stencil.hpp and          *)
(* nn_split.hpp): hand-written nests, one per number of directions, that   *)
(* never divide.  A nest returns what its body is called with, in order:   *)
(* the site and the indices whose values it folds, in the order it folds   *)
(* them; the split-last nests fold a second sum, of the last direction.    *)
(* Directions are numbered from 1: L[1] is the row.                        *)
(***************************************************************************)
EXTENDS Partition, SequencesExt

(* The neighbour policies.                                                 *)
AllDirs == [fwd |-> TRUE, bwd |-> TRUE]
FwdOnly == [fwd |-> TRUE, bwd |-> FALSE]
BwdOnly == [fwd |-> FALSE, bwd |-> TRUE]

(* for (k = lo; k < hi; ++k)                                               *)
Each(lo, hi, Body(_)) == FlattenSeq([k \in 1 .. (hi - lo) |-> Body(lo + k - 1)])

(* Of the pairs fwd, bwd of each direction, those the policy folds.        *)
Folded(P, pairs) ==
  FlattenSeq([k \in DOMAIN pairs |->
    (IF P.fwd THEN <<pairs[k][1]>> ELSE <<>>) \o (IF P.bwd THEN <<pairs[k][2]>> ELSE <<>>)])

Up(x, l) == IF x + 1 = l THEN 0 ELSE x + 1
Down(x, l) == IF x = 0 THEN l - 1 ELSE x - 1

(* Only the ends the policy reads are peeled.                              *)
x_sweep(P, l0, At(_, _, _)) ==
  CASE P.fwd /\ P.bwd ->
         <<At(0, l0 - 1, 1)>> \o Each(1, l0 - 1, LAMBDA x : <<At(x, x - 1, x + 1)>>)
           \o <<At(l0 - 1, l0 - 2, 0)>>
    [] P.fwd /\ ~P.bwd ->
         Each(0, l0 - 1, LAMBDA x : <<At(x, x, x + 1)>>) \o <<At(l0 - 1, l0 - 1, 0)>>
    [] OTHER ->
         <<At(0, l0 - 1, 0)>> \o Each(1, l0, LAMBDA x : <<At(x, x - 1, x)>>)

Visit(i, agg) == [site |-> i, agg |-> agg, last |-> <<>>]

(* A chunk of the single direction: the wraps the chunk touches.           *)
Stencil1d(P, x0, xe, l0) ==
  LET at(i, xm, xp) == Visit(i, Folded(P, <<<<xp, xm>>>>))
      low == P.bwd /\ x0 = 0
      high == P.fwd /\ xe = l0
  IN  (IF low THEN <<at(0, l0 - 1, 1)>> ELSE <<>>)
        \o Each(IF low THEN 1 ELSE x0, IF high THEN l0 - 1 ELSE xe, LAMBDA x : <<at(x, x - 1, x + 1)>>)
        \o (IF high THEN <<at(l0 - 1, l0 - 2, 0)>> ELSE <<>>)

Stencil2d(P, L, lo, hi) ==
  Each(lo[2], hi[2], LAMBDA y :
    LET row == y * L[1]
        row_yp == Up(y, L[2]) * L[1]
        row_ym == Down(y, L[2]) * L[1]
    IN  x_sweep(P, L[1], LAMBDA x, xm, xp :
          Visit(row + x, Folded(P, <<<<row + xp, row + xm>>, <<row_yp + x, row_ym + x>>>>))))

WrongStencil3d(P, L, lo, hi) ==
  LET s2 == L[1] * L[2]
  IN  Each(lo[3], hi[3], LAMBDA z : Each(lo[2], hi[2], LAMBDA y :
        LET at(a, b) == a * s2 + b * L[1]
            row == at(z, y)
        IN  x_sweep(P, L[1], LAMBDA x, xm, xp :
              Visit(row + x, Folded(P, <<<<row + xp, row + xm>>,
                <<at(z, Up(y, L[2])) + x, at(z, Down(y, L[2])) + x>>,
                <<at(Up(z, L[2]), y) + x, at(Down(z, L[3]), y) + x>>>>)))))

(* The bases of the rows around are hoisted: z, y is the row at(z, y).     *)
Stencil3d(P, L, lo, hi) ==
  LET s2 == L[1] * L[2]
  IN  Each(lo[3], hi[3], LAMBDA z : Each(lo[2], hi[2], LAMBDA y :
        LET at(a, b) == a * s2 + b * L[1]
            row == at(z, y)
        IN  x_sweep(P, L[1], LAMBDA x, xm, xp :
              Visit(row + x, Folded(P, <<<<row + xp, row + xm>>,
                <<at(z, Up(y, L[2])) + x, at(z, Down(y, L[2])) + x>>,
                <<at(Up(z, L[3]), y) + x, at(Down(z, L[3]), y) + x>>>>)))))

Stencil4d(P, L, lo, hi) ==
  LET s2 == L[1] * L[2]
      s3 == s2 * L[3]
  IN  Each(lo[4], hi[4], LAMBDA w : Each(lo[3], hi[3], LAMBDA z : Each(lo[2], hi[2], LAMBDA y :
        LET at(a, b, c) == a * s3 + b * s2 + c * L[1]
            row == at(w, z, y)
        IN  x_sweep(P, L[1], LAMBDA x, xm, xp :
              Visit(row + x, Folded(P, <<<<row + xp, row + xm>>,
                <<at(w, z, Up(y, L[2])) + x, at(w, z, Down(y, L[2])) + x>>,
                <<at(w, Up(z, L[3]), y) + x, at(w, Down(z, L[3]), y) + x>>,
                <<at(Up(w, L[4]), z, y) + x, at(Down(w, L[4]), z, y) + x>>>>))))))
-----------------------------------------------------------------------------
(* The split-last nests: a total that ends with the sum of the last        *)
(* direction, and that sum again.                                          *)
Emit(i, before, last) == [site |-> i, agg |-> before \o last, last |-> last]

(* Maps fold both neighbours, reductions the forward one.                  *)
Split1d(P, x0, xe, l0) ==
  Each(x0, xe, LAMBDA x : <<Emit(x, <<>>, Folded(P, <<<<Up(x, l0), Down(x, l0)>>>>))>>)

SplitRow(P, row, l0, Outer(_), Final(_)) ==
  LET emit(i, xm, xp, off) == Emit(i, Folded(P, <<<<xp, xm>>>> \o Outer(off)), Folded(P, Final(off)))
  IN  IF P.bwd
      THEN <<emit(row, row + l0 - 1, row + 1, 0)>>
             \o Each(1, l0 - 1, LAMBDA x : <<emit(row + x, row + x - 1, row + x + 1, x)>>)
             \o <<emit(row + l0 - 1, row + l0 - 2, row, l0 - 1)>>
      ELSE Each(0, l0 - 1, LAMBDA x : <<emit(row + x, row + x, row + x + 1, x)>>)
             \o <<emit(row + l0 - 1, row + l0 - 1, row, l0 - 1)>>

Split2d(P, L, lo, hi) ==
  Each(lo[2], hi[2], LAMBDA y :
    SplitRow(P, y * L[1], L[1], LAMBDA off : <<>>,
             LAMBDA off : <<<<Up(y, L[2]) * L[1] + off, Down(y, L[2]) * L[1] + off>>>>))

Split3d(P, L, lo, hi) ==
  LET at(z, y) == z * L[1] * L[2] + y * L[1]
  IN  Each(lo[3], hi[3], LAMBDA z : Each(lo[2], hi[2], LAMBDA y :
        SplitRow(P, at(z, y), L[1],
          LAMBDA off : <<<<at(z, Up(y, L[2])) + off, at(z, Down(y, L[2])) + off>>>>,
          LAMBDA off : <<<<at(Up(z, L[3]), y) + off, at(Down(z, L[3]), y) + off>>>>)))

Split4d(P, L, lo, hi) ==
  LET at(w, z, y) == w * L[1] * L[2] * L[3] + z * L[1] * L[2] + y * L[1]
  IN  Each(lo[4], hi[4], LAMBDA w : Each(lo[3], hi[3], LAMBDA z : Each(lo[2], hi[2], LAMBDA y :
        SplitRow(P, at(w, z, y), L[1],
          LAMBDA off : <<<<at(w, z, Up(y, L[2])) + off, at(w, z, Down(y, L[2])) + off>>,
                         <<at(w, Up(z, L[3]), y) + off, at(w, Down(z, L[3]), y) + off>>>>,
          LAMBDA off : <<<<at(Up(w, L[4]), z, y) + off, at(Down(w, L[4]), z, y) + off>>>>))))
-----------------------------------------------------------------------------
(* The direction the partition cuts, and the length of its blocks.         *)
SplitDim(sh, p) ==
  CHOOSE mu \in 2 .. Len(sh) :
    /\ p.items <= Volume(sh, mu .. Len(sh))
    /\ mu = Len(sh) \/ p.items > Volume(sh, mu + 1 .. Len(sh))

(* run_partition_items_: item index to the box of its sites, blocks of the *)
(* split direction innermost.                                              *)
ItemBox(sh, p, it) ==
  LET m == SplitDim(sh, p)
      nblk == p.items \div Volume(sh, m + 1 .. Len(sh))
      block == sh[m] \div nblk
      above(mu) == (it \div (nblk * Volume(sh, m + 1 .. mu - 1))) % sh[mu]
      lo == [mu \in Dims(sh) |-> CASE mu < m -> 0 [] mu = m -> (it % nblk) * block [] OTHER -> above(mu)]
  IN  [lo |-> lo,
       hi |-> [mu \in Dims(sh) |->
                 CASE mu < m -> sh[mu] [] mu = m -> lo[mu] + block [] OTHER -> lo[mu] + 1]]

(* The items of a traversal: 1D lattices go by chunks of their own, not by *)
(* the partition.                                                          *)
ItemsOf(sh, p, chunk) == IF Len(sh) = 1 THEN Ceil(sh[1], chunk) ELSE p.items

(* nn_visit and nn_reduce                                                  *)
nn_item(P, sh, p, chunk, it) ==
  LET nest(box) == CASE Len(sh) = 2 -> Stencil2d(P, sh, box.lo, box.hi)
                     [] Len(sh) = 3 -> Stencil3d(P, sh, box.lo, box.hi)
                     [] OTHER -> Stencil4d(P, sh, box.lo, box.hi)
  IN  IF Len(sh) = 1 THEN Stencil1d(P, it * chunk, AtMost((it + 1) * chunk, sh[1]), sh[1])
      ELSE nest(ItemBox(sh, p, it))

(* nn_visit_split_last and nn_reduce_fwd_split_last                        *)
split_item(P, sh, p, chunk, it) ==
  LET nest(box) == CASE Len(sh) = 2 -> Split2d(P, sh, box.lo, box.hi)
                     [] Len(sh) = 3 -> Split3d(P, sh, box.lo, box.hi)
                     [] OTHER -> Split4d(P, sh, box.lo, box.hi)
  IN  IF Len(sh) = 1 THEN Split1d(P, it * chunk, AtMost((it + 1) * chunk, sh[1]), sh[1])
      ELSE nest(ItemBox(sh, p, it))
=============================================================================

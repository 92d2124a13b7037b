------------------------------ MODULE Regions -------------------------------
(***************************************************************************)
(* Parallel regions: what their items do, and which items there are.  The  *)
(* items are the slabs of a field, chunks of a buffer or blocks of a grid. *)
(***************************************************************************)
EXTENDS GroupLinks

CONSTANTS
  K,          \* threads of a block, a power of two
  MaxGrid     \* blocks of a reduction, at most

Region(op, items, arg) == <<[op |-> op, items |-> items, arg |-> arg]>>

field_visit(op, p, arg) == Region(op, SlabIds(p), arg)

(* The partial sums are added into dst in the order of the items.          *)
FoldInto(dst, items) == Region("fold", {0}, [dst |-> dst, count |-> items])

field_reduce(op, p, arg, dst) == Region(op, SlabIds(p), arg) \o FoldInto(dst, p.items)

(* n elements in chunks.                                                   *)
parallel_map_ranges(op, n, chunk, arg) == Region(op, 0 .. Ceil(n, chunk) - 1, arg)

InRange(n, chunk, it, Body(_)) == Each(it * chunk, AtMost((it + 1) * chunk, n), Body)

Grid(op, n, arg) == Region(op, 0 .. GridOf(n, K) - 1, arg)

(* Sums the n cells src on the device into dst.                            *)
reduce_sum_into(dst, src, n) ==
  LET grid == grid_for(n, K, MaxGrid)
  IN  Region("blocks", 0 .. grid - 1, [src |-> src, n |-> n, grid |-> grid])
        \o Region("final", {0}, [dst |-> dst, grid |-> grid])

Part(j) == PartitionOf(j.sh, j.team, j.perThread)

NLinks(sh) == Len(sh) * NSites(sh)

NPlanes(sh) == Len(Planes(Len(sh)))
-----------------------------------------------------------------------------
(* What an item writes: a partial sum, or more terms of a sum.             *)
Summed(it, terms) == <<Put(<<"partial", it>>, terms)>>

Into(M, cell, terms) == <<Put(cell, Holds(M, cell, <<>>) \o terms)>>

FoldPuts(M, arg) ==
  Into(M, arg.dst, FlattenSeq([k \in 1 .. arg.count |-> Holds(M, <<"partial", k - 1>>, <<>>)]))
=============================================================================

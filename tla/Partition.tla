----------------------------- MODULE Partition ------------------------------
(***************************************************************************)
(* How a lattice is cut into slabs (exec::partition): contiguous spans     *)
(* that depend on the shape, on the team and on the slabs per thread.  A   *)
(* partition is the number of slabs and the length of all but the last.    *)
(***************************************************************************)
EXTENDS Geometry

AtMost(x, y) == IF x < y THEN x ELSE y
AtLeast(x, y) == IF x < y THEN y ELSE x

Ceil(x, y) == (x + y - 1) \div y

(* traverse_threads: the bound team, or the ambient one.                   *)
TraverseThreads(team, ambient) ==
  AtLeast(1, IF team > 0 THEN team ELSE ambient)

WrongFlat(sites, target) ==
  LET want == AtLeast(1, AtMost(target, sites))
  IN  [items |-> want, len |-> Ceil(sites, want)]

(* A 1D lattice: equal chunks, the last one ragged.                        *)
Flat(sites, target) ==
  LET chunk == Ceil(sites, AtLeast(1, AtMost(target, sites)))
  IN  [items |-> Ceil(sites, chunk), len |-> chunk]

(* The slab counts within reach: one outer direction cut into equal        *)
(* blocks, those above it into single indices, those below it whole.       *)
Counts(sh) ==
  UNION {{nb * Volume(sh, mu + 1 .. Len(sh)) : nb \in {x \in 1 .. sh[mu] : sh[mu] % x = 0}}
           : mu \in 2 .. Len(sh)}

Distance(x, y) == IF x > y THEN x - y ELSE y - x

(* Slabs for every thread alike, then near the target, then many.          *)
BetterSlabs(items, best, target, team) ==
  LET even(x) == x % team = 0
      near == Distance(items, target)
      other == Distance(best, target)
  IN  IF even(items) # even(best) THEN even(items)
      ELSE near < other \/ (near = other /\ items > best)

Slabs(sh, target, team) ==
  LET reach == {c \in Counts(sh) : c >= team}
  IN  IF reach = {} THEN NSites(sh) \div sh[1]
      ELSE CHOOSE c \in reach : \A b \in reach \ {c} : BetterSlabs(c, b, target, team)

PartitionOf(sh, team, perThread) ==
  LET target == team * AtLeast(1, perThread)
  IN  IF Len(sh) = 1 THEN Flat(sh[1], target)
      ELSE LET items == Slabs(sh, target, team)
           IN  [items |-> items, len |-> NSites(sh) \div items]

(* Slabs are numbered from 0, as their streams are.                        *)
SlabIds(p) == 0 .. p.items - 1

Base(p, i) == i * p.len

Count(sh, p, i) == AtMost(p.len, NSites(sh) - Base(p, i))

Span(sh, p, i) == Base(p, i) .. Base(p, i) + Count(sh, p, i) - 1
=============================================================================

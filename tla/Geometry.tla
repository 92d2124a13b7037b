------------------------------ MODULE Geometry ------------------------------
(***************************************************************************)
(* A periodic lattice: a shape is the sequence of its extents, a site its  *)
(* flat index (core/field/lattice_geometry.hpp).                           *)
(***************************************************************************)
EXTENDS Integers, Sequences, Functions

Dims(sh) == DOMAIN sh

(* k_max_dims                                                              *)
MaxDims == 4

(* The product of the extents of the directions ds, at most four.          *)
Volume(sh, ds) ==
  LET extent(mu) == IF mu \in ds THEN sh[mu] ELSE 1
  IN  extent(1) * extent(2) * extent(3) * extent(4)

(* What build_ accepts.                                                    *)
IsShape(sh) ==
  /\ sh \in Seq(Nat \ {0})
  /\ Len(sh) \in 1 .. MaxDims

NSites(sh) == Volume(sh, Dims(sh))

Sites(sh) == 0 .. NSites(sh) - 1

Stride(sh, mu) == Volume(sh, 1 .. mu - 1)

Coord(sh, s, mu) == (s \div Stride(sh, mu)) % sh[mu]

NextSite(sh, s, mu) ==
  IF Coord(sh, s, mu) + 1 < sh[mu] THEN s + Stride(sh, mu)
  ELSE s - (sh[mu] - 1) * Stride(sh, mu)

PrevSite(sh, s, mu) ==
  IF Coord(sh, s, mu) > 0 THEN s - Stride(sh, mu)
  ELSE s + (sh[mu] - 1) * Stride(sh, mu)

(* The sum of the coordinates in the directions ds.                        *)
CoordSum(sh, s, ds) ==
  LET coord(mu) == IF mu \in ds THEN Coord(sh, s, mu) ELSE 0
  IN  coord(1) + coord(2) + coord(3) + coord(4)
=============================================================================

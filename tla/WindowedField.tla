--------------------------- MODULE WindowedField ----------------------------
(***************************************************************************)
(* What the samplers of an LLR ladder work on: fields with a base action S *)
(* and a constraint observable, and per replica a window (centre, squared  *)
(* width).  Integers stand for reals: rounding is not modelled.            *)
(***************************************************************************)
EXTENDS WindowFormula

CONSTANTS
  N,            \* replicas of the ladder, 1 .. N
  L,            \* lattice sites, 0 .. L - 1
  Vals,         \* values of the field at a site
  Tilts,        \* values of the tilt
  Thresholds,   \* scaled values of log(uniform draw): never positive
  Self,         \* SelfConstraint::k_self: the window is on S itself
  S(_),         \* base action of a field
  O(_),         \* separate constraint observable of a field
  LocalS(_, _, _), \* site, value, field: local energy of that value there
  LocalO(_, _, _), \* the same for the observable
  Centre(_),    \* E_n of a replica
  Width2(_)     \* its delta squared

Reps  == 1 .. N
Sites == 0 .. L - 1
Field == [Sites -> Vals]

(* What the constraint couples to: S in mode A, the observable otherwise.  *)
Q(c) == IF Self THEN S(c) ELSE O(c)

ASSUME FieldAssumption ==
  /\ N \in Nat /\ N >= 2 /\ L \in Nat
  /\ Tilts \subseteq Int /\ Thresholds \subseteq Int
  /\ Self \in BOOLEAN
  /\ \A c \in Field : S(c) \in Int /\ O(c) \in Int
  /\ \A r \in Reps : Centre(r) \in Int /\ Width2(r) \in Int /\ Width2(r) > 0

(* local_energy_kernel times local_energy_scale: the difference of two     *)
(* local energies is the difference of the totals.                         *)
ASSUME LocalAssumption ==
  \A c \in Field, i \in Sites, v \in Vals :
    /\ LocalS(i, v, c) \in Int /\ LocalO(i, v, c) \in Int
    /\ S([c EXCEPT ![i] = v]) = S(c) + (LocalS(i, v, c) - LocalS(i, c[i], c))
    /\ O([c EXCEPT ![i] = v]) = O(c) + (LocalO(i, v, c) - LocalO(i, c[i], c))

(* WindowedAction::s_full of replica r with tilt t on the field c.         *)
WindowedAction(r, t, c) == WindowedValue(S(c), Q(c), t, Centre(r), Width2(r))
=============================================================================

--------------------------- MODULE WindowedIdeal ----------------------------
(***************************************************************************)
(* What sampling a ladder of windows promises, with no caches and no       *)
(* bookkeeping: every decision is taken on the windowed action of the      *)
(* fields as they are.  A trajectory is kept or leaves no trace, a local   *)
(* move is a Metropolis step on the windowed action, and an exchange is a  *)
(* Metropolis step on the sum over the pair.                               *)
(***************************************************************************)
EXTENDS WindowedField

VARIABLES
  sampler,  \* whole-field trajectories ("hmc") or local moves
  phase,    \* "init": fields are being set up; "wave"; "exch"
  phi, a,   \* per replica
  verdict   \* the latest decision, and the log(uniform) it was taken with

(* log p of exchanging the fields of i and j: the drop of the pair's total *)
(* windowed action, scaled.                                                *)
Drop(i, j) ==
    Width2(j) * (WindowedAction(i, a[i], phi[i]) - WindowedAction(i, a[i], phi[j]))
  + Width2(i) * (WindowedAction(j, a[j], phi[j]) - WindowedAction(j, a[j], phi[i]))

SetUp(r) ==
  /\ phase = "init"
  /\ \E c \in Field, t \in Tilts : phi' = [phi EXCEPT ![r] = c] /\ a' = [a EXCEPT ![r] = t]
  /\ UNCHANGED <<phase, verdict>>

Trajectory(r) ==
  /\ sampler = "hmc" /\ phase = "wave"
  /\ \/ \E c \in Field : phi' = [phi EXCEPT ![r] = c] /\ verdict' = [yes |-> TRUE, draw |-> 0]
     \/ phi' = phi /\ verdict' = [yes |-> FALSE, draw |-> 0]
  /\ UNCHANGED <<phase, a>>

LocalMove(r, i, v, t) ==
  LET moved == [phi[r] EXCEPT ![i] = v]
      yes   == WindowedAction(r, a[r], phi[r]) - WindowedAction(r, a[r], moved) >= t
  IN  /\ sampler = "metropolis" /\ phase = "wave"
      /\ phi' = IF yes THEN [phi EXCEPT ![r] = moved] ELSE phi
      /\ verdict' = [yes |-> yes, draw |-> t]
      /\ UNCHANGED <<phase, a>>

Exchange(i, t) ==
  LET yes == Drop(i, i + 1) >= 0 \/ t < Drop(i, i + 1)
  IN  /\ phase = "exch"
      /\ phi' = IF yes THEN [phi EXCEPT ![i] = phi[i + 1], ![i + 1] = phi[i]] ELSE phi
      /\ verdict' = [yes |-> yes, draw |-> t]
      /\ UNCHANGED <<phase, a>>

Retilt ==
  /\ phase = "wave" /\ phase' = "exch"
  /\ a' \in [Reps -> Tilts]
  /\ UNCHANGED <<phi, verdict>>

StartWave == phase' = "wave" /\ UNCHANGED <<phi, a, verdict>>

IInit ==
  /\ phase = "init"
  /\ phi \in [Reps -> Field] /\ a \in [Reps -> Tilts]
  /\ verdict = [yes |-> FALSE, draw |-> 0]

INext ==
  \/ \E r \in Reps : SetUp(r) \/ Trajectory(r)
  \/ \E r \in Reps, i \in Sites, v \in Vals, t \in Thresholds : LocalMove(r, i, v, t)
  \/ \E i \in 1 .. N - 1, t \in Thresholds : Exchange(i, t)
  \/ Retilt
  \/ StartWave

ISpec == IInit /\ [][INext /\ UNCHANGED sampler]_<<sampler, phase, phi, a, verdict>>
=============================================================================

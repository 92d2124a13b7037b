----------------------------- MODULE LlrPhysics -----------------------------
(***************************************************************************)
(* The parameters of one LLR run (orch::llr::Orchestrator::Spec) and the   *)
(* Monte Carlo it drives, as uninterpreted functions.  Given its           *)
(* configuration, its random streams and its tilt, a replica's work is     *)
(* deterministic, so the physics of a replica is a handful of CONSTANT     *)
(* operators: what the schedule, the exchange and the checkpoint do with   *)
(* it is what LlrRun and LlrSerial specify.                                *)
(***************************************************************************)
EXTENDS Integers

CONSTANTS
  N,          \* n_rep_: replicas of the window ladder, slot n pinned at E_n
  NNr,        \* Spec::n_nr
  MaxIter,    \* no phase is asked for more iterations than this
  WarmOn,     \* Spec::warm_max_traj > 0
  Exchange,   \* Spec::exchange
  Smoothed,   \* run_smoothed rather than run
  Cfg,        \* field configurations
  Rng,        \* generator states
  Tilt,       \* values of the tilt `a`
  Obs,        \* values of the constraint observable Q
  ExchSeed,   \* the exchange generator as seeded from Spec::seed
  Fresh(_),                \* slot n's member as constructed and initialised
  Seat(_, _),              \* warm_into_window on slot n
  Move(_, _, _, _),        \* phase, job, slot, member: cfg and rng afterwards
  MeanDE(_, _, _),         \* phase, slot, member: what sample() returns
  Update(_, _, _, _, _),   \* phase, iteration, slot, a, <dE>: nr_ or rm_update
  Shrink(_, _),            \* iteration, all a_rm: the smoothed tilts
  Q(_),                    \* constraint observable of a configuration
  Sure(_, _, _, _, _),     \* pair, a_i, a_j, q_i, q_j: log_p >= 0
  Lucky(_, _, _, _, _, _), \* ... and the uniform drawn is below exp(log_p)
  Draw(_),                 \* the exchange generator after one uniform()
  Walker(_)                \* the chain a configuration belongs to

Slots == 0 .. N - 1

(* What a checkpoint keeps of a replica: field, stream states, tilt.       *)
Member == [cfg : Cfg, rng : Rng, a : Tilt]

ASSUME RunAssumption ==
  /\ N \in Nat /\ N >= 2
  /\ MaxIter \in Nat /\ NNr \in 0 .. MaxIter
  /\ WarmOn \in BOOLEAN /\ Exchange \in BOOLEAN /\ Smoothed \in BOOLEAN

ASSUME PhysicsAssumption ==
  /\ ExchSeed \in Rng
  /\ \A n \in Slots : Fresh(n) \in Member
  /\ \A n \in Slots, m \in Member : Seat(n, m) \in Member
  /\ \A ph \in {0, 1}, job \in {"therm", "meas"}, n \in Slots, m \in Member :
        Move(ph, job, n, m) \in [cfg : Cfg, rng : Rng]
  /\ \A ph \in {0, 1}, n \in Slots, m \in Member : MeanDE(ph, n, m) \in Obs
  /\ \A ph \in {0, 1}, k \in 0 .. MaxIter, n \in Slots, a \in Tilt, d \in Obs :
        Update(ph, k, n, a, d) \in Tilt
  /\ \A c \in Cfg : Q(c) \in Obs
  /\ \A g \in Rng : Draw(g) \in Rng

ASSUME ShrinkAssumption ==
  \A s \in 0 .. MaxIter, f \in [Slots -> Tilt] : Shrink(s, f) \in [Slots -> Tilt]

(* Trajectories evolve a configuration, they never exchange it.            *)
ASSUME WalkerAssumption ==
  /\ \A n \in Slots : Walker(Fresh(n).cfg) = n
  /\ \A n \in Slots, m \in Member : Walker(Seat(n, m).cfg) = Walker(m.cfg)
  /\ \A ph \in {0, 1}, job \in {"therm", "meas"}, n \in Slots, m \in Member :
        Walker(Move(ph, job, n, m).cfg) = Walker(m.cfg)
-----------------------------------------------------------------------------
(* Replica::thermalize and Replica::sample: field and streams move on, the *)
(* tilt stays.                                                             *)
Moved(ph, job, n, m) ==
  [cfg |-> Move(ph, job, n, m).cfg, rng |-> Move(ph, job, n, m).rng, a |-> m.a]

Thermalized(ph, n, m) == Moved(ph, "therm", n, m)
Sampled(ph, n, m)     == Moved(ph, "meas", n, m)
=============================================================================

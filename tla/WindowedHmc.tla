---------------------------- MODULE WindowedHmc -----------------------------
(***************************************************************************)
(* updater::Hmc on a windowed action: a trajectory is a snapshot, force    *)
(* evaluations and drifts that move the field and may overwrite caches,    *)
(* and an accept test that keeps the new field or puts everything back.    *)
(***************************************************************************)
EXTENDS WindowedReplica

CONSTANT Fused   \* the base and the observable have s_full_and_force

VARIABLES
  old,   \* old_field_
  snap   \* s0, and capture_action_cache_()

NoSnapshot == [s0 |-> NaN, cache |-> Empty]

(* The constructor evaluates nothing.                                      *)
HmcBuilt ==
  /\ sampler = "hmc"
  /\ cache = [r \in Reps |-> Empty]
  /\ lastS = [r \in Reps |-> NaN]

Snapshot(r) == [s0 |-> WindowedAction(r, a[r], phi[r]), cache |-> Swept(phi[r])]

(* Momenta are sampled, the field is copied, h0 is computed (which fills   *)
(* the caches), and the caches are captured.                               *)
Begin(r) ==
  /\ MayRun(r)
  /\ stage' = [stage EXCEPT ![r] = "kick"]
  /\ old' = [old EXCEPT ![r] = phi[r]]
  /\ cache' = [cache EXCEPT ![r] = Swept(phi[r])]
  /\ snap' = [snap EXCEPT ![r] = Snapshot(r)]
  /\ UNCHANGED <<phase, wave, next, phi, a, lastS, ran, verdict>>

(* kick_: a fused force leaves the caches alone, the two-sweep one calls   *)
(* s_full (mode A) or the constraint's value on the field of the moment.   *)
Kick(r) ==
  /\ stage[r] = "kick"
  /\ stage' = [stage EXCEPT ![r] = "drift"]
  /\ cache' = IF Fused THEN cache
              ELSE IF Self THEN [cache EXCEPT ![r].s = S(phi[r])]
              ELSE [cache EXCEPT ![r].q = O(phi[r])]
  /\ UNCHANGED <<phase, wave, next, phi, a, lastS, ran, verdict, old, snap>>

Drift(r) ==
  /\ stage[r] = "drift"
  /\ stage' = [stage EXCEPT ![r] = "kick"]
  /\ \E c \in Field : phi' = [phi EXCEPT ![r] = c]
  /\ UNCHANGED <<phase, wave, next, a, cache, lastS, ran, verdict, old, snap>>

(* After the last kick, h1 is computed (which fills the caches again).     *)
(* What old_field_ and the snapshot hold afterwards is never read.         *)
Finish(r, yes) ==
  /\ stage[r] = "drift"
  /\ stage' = [stage EXCEPT ![r] = "idle"]
  /\ ran' = [ran EXCEPT ![r] = "now"]
  /\ verdict' = [yes |-> yes, draw |-> 0]
  /\ old' = [old EXCEPT ![r] = phi'[r]]
  /\ snap' = [snap EXCEPT ![r] = NoSnapshot]
  /\ UNCHANGED <<phase, wave, next, a>>

Accept(r) ==
  /\ phi' = phi
  /\ cache' = [cache EXCEPT ![r] = Swept(phi[r])]
  /\ lastS' = [lastS EXCEPT ![r] = WindowedAction(r, a[r], phi[r])]
  /\ Finish(r, TRUE)

(* restore_action_cache_(cache_snap).                                      *)
Restored(r) == [cache EXCEPT ![r] = snap[r].cache]

WrongRejectedS(r) == WindowedAction(r, a[r], phi[r])
RejectedS(r) == snap[r].s0

(* Metropolis rejection, or a dH that is not a number.                     *)
Reject(r) ==
  /\ phi' = [phi EXCEPT ![r] = old[r]]
  /\ cache' = Restored(r)
  /\ lastS' = [lastS EXCEPT ![r] = RejectedS(r)]
  /\ Finish(r, FALSE)

Step(r) == Begin(r) \/ Kick(r) \/ Drift(r) \/ Accept(r) \/ Reject(r)
=============================================================================

-------------------------- MODULE WindowedReplica ---------------------------
(***************************************************************************)
(* The part of an orch::llr::Replica that does not depend on its sampler:  *)
(* the field, the tilt, the value caches of its WindowedAction, and what   *)
(* the orchestrator does to them between trajectories.  WindowedHmc and    *)
(* WindowedMetropolis add the two samplers, WindowedSamplers composes them.*)
(***************************************************************************)
EXTENDS WindowedField, FiniteSets

CONSTANTS
  Cold,     \* the field a Lattice is built with
  AInit,    \* Replica::Spec::a_init
  Lanes,    \* ThreadPlan::concurrency
  MaxWave,  \* bound: waves of one behaviour, which ends in the last one
  NaN       \* quiet_NaN: a cache nothing has been stored in

ASSUME ReplicaAssumption ==
  /\ Cold \in Field /\ AInit \in Tilts
  /\ Lanes \in Nat \ {0} /\ MaxWave \in Nat
  /\ NaN \notin Int

VARIABLES
  sampler,   \* Replica's template argument: "hmc" or "metropolis"
  phase,     \* what the orchestrator is doing
  wave,      \* iterations started
  next,      \* do_exchange's loop index
  phi, a,    \* Replica::field_, WindowedAction::a
  cache,     \* base.last_s_full_ and the constraint's cache
  lastS,     \* Hmc::last_s_full_ or Metropolis::last_s_full_
  stage,     \* where the replica's sampler is
  ran,       \* "never", in an "earlier" wave, or "now": updates since launch
  verdict    \* the latest accept test: its outcome and its log(uniform)

replica == <<sampler, phase, wave, next, phi, a, cache, lastS, stage, ran, verdict>>

(* The caches s_full leaves behind.                                        *)
Swept(c) == [s |-> S(c), q |-> IF Self THEN NaN ELSE O(c)]

Empty    == [s |-> NaN, q |-> NaN]

(* WindowedAction::last_constraint, which Replica::energy() returns.       *)
LastConstraint(r) == IF Self THEN cache[r].s ELSE cache[r].q

Busy == {r \in Reps : stage[r] # "idle"}

(* parallel_workers hands replicas to free lanes in ladder order; a lane   *)
(* runs any number of updates on the replica it has, at least one.         *)
MayRun(r) ==
  /\ phase = "wave" /\ stage[r] = "idle" /\ Cardinality(Busy) < Lanes
  /\ \A m \in Reps : m < r => m \in Busy \/ ran[m] = "now"

Built ==
  /\ phase = "init" /\ wave = 0 /\ next = N
  /\ phi = [r \in Reps |-> Cold] /\ a = [r \in Reps |-> AInit]
  /\ stage = [r \in Reps |-> "idle"]
  /\ ran = [r \in Reps |-> "never"]
  /\ verdict = [yes |-> FALSE, draw |-> 0]

(* hot_start, or load_ensemble: the field and the tilt change under the    *)
(* sampler and no cache is told.                                           *)
SetUp(r) ==
  /\ phase = "init"
  /\ \E c \in Field, t \in Tilts :
        phi' = [phi EXCEPT ![r] = c] /\ a' = [a EXCEPT ![r] = t]
  /\ UNCHANGED <<phase, wave, next, cache, lastS, stage, ran, verdict>>

(* The start of the next iteration's wave.                                 *)
StartWave ==
  /\ phase \in {"init", "exch"} /\ next + 1 > N
  /\ wave < MaxWave
  /\ phase' = "wave" /\ wave' = wave + 1
  /\ ran' = [r \in Reps |-> IF ran[r] = "never" THEN "never" ELSE "earlier"]
  /\ UNCHANGED <<next, phi, a, cache, lastS, stage, verdict>>

(* The drain: every replica has run, set_a on each; then do_exchange, on   *)
(* the pairs of the iteration's parity, or none (NR, or exchange off).     *)
Drain ==
  /\ phase = "wave" /\ wave < MaxWave /\ Busy = {}
  /\ \A r \in Reps : ran[r] = "now"
  /\ phase' = "exch"
  /\ a' \in [Reps -> Tilts]
  /\ next' \in {1, 2, N}
  /\ UNCHANGED <<wave, phi, cache, lastS, stage, ran, verdict>>

WrongSwappedCaches(i, j) == [cache EXCEPT ![i].s = cache[j].s, ![j].s = cache[i].s]

(* swap_energy_cache: the base action's cache, and the constraint's when   *)
(* there is one.                                                           *)
SwappedCaches(i, j) == [cache EXCEPT ![i] = cache[j], ![j] = cache[i]]

(* try_exchange on the pair, with the energies the caches hold.            *)
Exchange(t) ==
  LET i    == next
      j    == next + 1
      logP == ExchangeLogP(a[i], a[j], Centre(i), Centre(j), LastConstraint(i),
                           LastConstraint(j), Width2(i), Width2(j))
      yes  == logP >= 0 \/ t < logP
  IN  /\ phase = "exch" /\ j <= N
      /\ verdict' = [yes |-> yes, draw |-> t]
      /\ phi' = IF yes THEN [phi EXCEPT ![i] = phi[j], ![j] = phi[i]] ELSE phi
      /\ cache' = IF yes THEN SwappedCaches(i, j) ELSE cache
      /\ next' = next + 2
      /\ UNCHANGED <<phase, wave, a, lastS, stage, ran>>

Driver ==
  \/ \E r \in Reps : SetUp(r)
  \/ StartWave
  \/ Drain
  \/ \E t \in Thresholds : Exchange(t)

Caches == [s : {S(c) : c \in Field} \cup {NaN},
           q : IF Self THEN {NaN} ELSE {O(c) : c \in Field} \cup {NaN}]

ReplicaTypeOK ==
  /\ sampler \in {"hmc", "metropolis"}
  /\ phase \in {"init", "wave", "exch"} /\ wave \in 0 .. MaxWave /\ next \in Nat \ {0}
  /\ phi \in [Reps -> Field] /\ a \in [Reps -> Tilts]
  /\ cache \in [Reps -> Caches]
  /\ lastS \in [Reps -> Int \cup {NaN}]
  /\ stage \in [Reps -> {"idle", "kick", "drift", "sweep"}]
  /\ ran \in [Reps -> {"never", "earlier", "now"}]
  /\ verdict \in [yes : BOOLEAN, draw : Int]

(* Between updates a replica's caches describe the field it holds, from    *)
(* its first update on: after an accepted and a rejected trajectory, after *)
(* a sweep, after an exchange.  sample() and energy() read nothing else.   *)
CachesDescribeField ==
  \A r \in Reps : stage[r] = "idle" /\ ran[r] # "never" => cache[r] = Swept(phi[r])

(* last_s_full() of an Hmc: "S of the current config after the most recent *)
(* update" (updater/concepts.hpp).  A Metropolis carries its own by        *)
(* increments, and a hot start, a resume, an exchange or a new tilt puts   *)
(* it off for good; orch::llr never reads it.                              *)
LastSFullCurrent ==
  \A r \in Reps :
    sampler = "hmc" /\ phase = "wave" /\ stage[r] = "idle" /\ ran[r] = "now"
      => lastS[r] = WindowedAction(r, a[r], phi[r])

(* The scalars kept beside a field are those of that field.                *)
ScalarsDescribeField == CachesDescribeField /\ LastSFullCurrent
=============================================================================

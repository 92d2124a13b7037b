-------------------------- MODULE WindowedSamplers --------------------------
(***************************************************************************)
(* The ladder of replicas with either sampler: what the orchestrator does  *)
(* between updates, and the updates of an Hmc or of a Metropolis, in       *)
(* parallel lanes.                                                         *)
(***************************************************************************)
EXTENDS WindowedHmc, WindowedMetropolis

vars == <<replica, old, snap, pass>>

Init ==
  /\ Built
  /\ HmcBuilt \/ MetropolisBuilt
  /\ old = phi /\ snap = [r \in Reps |-> NoSnapshot]
  /\ pass = [r \in Reps |-> NoPass]

Update(r) ==
  \/ sampler = "hmc" /\ Step(r) /\ UNCHANGED pass
  \/ sampler = "metropolis" /\ Sweep(r) /\ UNCHANGED <<old, snap>>

Next ==
  /\ (Driver /\ UNCHANGED <<old, snap, pass>>) \/ \E r \in Reps : Update(r)
  /\ UNCHANGED sampler

Spec == Init /\ [][Next]_vars
-----------------------------------------------------------------------------
TypeOK ==
  /\ ReplicaTypeOK
  /\ old \in [Reps -> Field]
  /\ snap \in [Reps -> [s0 : Int \cup {NaN}, cache : Caches]]
  /\ pass \in [Reps -> [site : 0 .. L, s : Int, q : Int, ds : Int]]

(* A trajectory under way has not happened yet; a local move has.          *)
Settled == [r \in Reps |-> IF stage[r] \in {"kick", "drift"} THEN old[r] ELSE phi[r]]

Ideal == INSTANCE WindowedIdeal WITH phi <- Settled

(* A rejected trajectory leaves no trace, every accept test of a local     *)
(* sweep is the one a fresh evaluation of the windowed action would give,  *)
(* and so is every exchange, though all of them read caches and carried    *)
(* scalars.                                                                *)
ImplementsIdeal == Ideal!ISpec

(* What last_s_full() is off by; a sweep under way counts what it has done.*)
Offset(r) == lastS[r] + pass[r].ds - WindowedAction(r, a[r], phi[r])

(* The action a Metropolis carries from sweep to sweep: an update adds     *)
(* exactly what it changed ("Incremental S: exact to rounding"), so only   *)
(* code outside the sampler can put it out of step with the field.         *)
IncrementalExact ==
  [][sampler = "metropolis" /\ phase = "wave" /\ phase' = "wave"
       => \A r \in Reps : Offset(r)' = Offset(r)]_vars
=============================================================================

----------------------------- MODULE LlrSerial ------------------------------
(***************************************************************************)
(* What an LLR run promises: the sequence of ensembles that one            *)
(* uninterrupted, single-threaded process would compute.  No lanes, no     *)
(* caches, no checkpoints, no crashes: every replica takes a step of the   *)
(* schedule at once, exchanges go pair by pair in ladder order.  LlrReplay *)
(* shows that the parallel, checkpointed, crash-prone run of LlrRun        *)
(* computes this sequence and no other.                                    *)
(***************************************************************************)
EXTENDS LlrPhysics

VARIABLE pt   \* where the schedule stands and the ensemble it has there

(* At the start of iteration k of the NR phase, or of the RM phase when NR *)
(* has run its course.                                                     *)
InNr(k, reps, g) ==
  IF k < NNr
    THEN [stage |-> "wave", ph |-> 0, it |-> k, i |-> 0, reps |-> reps, exch |-> g]
    ELSE [stage |-> "wave", ph |-> 1, it |-> 0, i |-> 0, reps |-> reps, exch |-> g]

(* In RM iteration s, after the wave, with the pair (i, i+1) next; past    *)
(* the end of the ladder this is the start of the next iteration.          *)
InRm(s, i, reps, g) ==
  IF Exchange /\ i + 1 < N
    THEN [stage |-> "exch", ph |-> 1, it |-> s, i |-> i, reps |-> reps, exch |-> g]
    ELSE [stage |-> "wave", ph |-> 1, it |-> s + 1, i |-> 0, reps |-> reps, exch |-> g]

Start ==
  LET fresh == [n \in Slots |-> Fresh(n)]
  IN  IF WarmOn
        THEN [stage |-> "warm", ph |-> 0, it |-> 0, i |-> 0,
              reps |-> fresh, exch |-> ExchSeed]
        ELSE InNr(0, fresh, ExchSeed)

(* One replica's share of an iteration: new configuration and streams, and *)
(* the tilt a Newton or Robbins-Monro step proposes.                       *)
Swept(ph, n, m)    == Sampled(ph, n, Thermalized(ph, n, m))
Proposed(ph, k, n, m) == Update(ph, k, n, m.a, MeanDE(ph, n, Thermalized(ph, n, m)))

(* All replicas' share: the smoothed RM step mixes the proposals.          *)
Iterated(ph, k, reps) ==
  LET a == [n \in Slots |-> Proposed(ph, k, n, reps[n])]
      b == IF Smoothed /\ ph = 1 THEN Shrink(k, a) ELSE a
  IN  [n \in Slots |-> [Swept(ph, n, reps[n]) EXCEPT !.a = b[n]]]

(* Metropolis test of the pair (i, i+1): the generator is drawn from only  *)
(* when log_p < 0; configurations trade places, tilts and streams stay.    *)
Test(i, reps, g) ==
  LET r == reps[i]  s == reps[i + 1]
      sure == Sure(i, r.a, s.a, Q(r.cfg), Q(s.cfg))
  IN  [accept |-> sure \/ Lucky(i, r.a, s.a, Q(r.cfg), Q(s.cfg), g),
       exch   |-> IF sure THEN g ELSE Draw(g)]

Traded(i, reps) ==
  [reps EXCEPT ![i].cfg = reps[i + 1].cfg, ![i + 1].cfg = reps[i].cfg]

Succ(p) ==
  CASE p.stage = "warm" ->
         InNr(0, [n \in Slots |-> Seat(n, p.reps[n])], p.exch)
    [] p.stage = "wave" /\ p.ph = 0 ->
         InNr(p.it + 1, Iterated(0, p.it, p.reps), p.exch)
    [] p.stage = "wave" /\ p.ph = 1 ->
         InRm(p.it, p.it % 2, Iterated(1, p.it, p.reps), p.exch)
    [] p.stage = "exch" ->
         LET t == Test(p.i, p.reps, p.exch)
         IN  InRm(p.it, p.i + 2,
                  IF t.accept THEN Traded(p.i, p.reps) ELSE p.reps, t.exch)

SInit == pt = Start
SNext == pt' = Succ(pt)
SSpec == SInit /\ [][SNext]_pt
=============================================================================

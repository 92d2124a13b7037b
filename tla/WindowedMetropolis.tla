------------------------- MODULE WindowedMetropolis -------------------------
(***************************************************************************)
(* updater::Metropolis on a windowed action: one sequential pass over the  *)
(* sites that carries the base action and the constraint as running        *)
(* scalars and publishes them as caches at the end.                        *)
(***************************************************************************)
EXTENDS WindowedReplica

VARIABLE pass   \* the sweep of each replica: next site, running s and q, sum of ds

NoPass == [site |-> 0, s |-> 0, q |-> 0, ds |-> 0]

(* The constructor calls s_full on the field as built.                     *)
MetropolisBuilt ==
  /\ sampler = "metropolis"
  /\ cache = [r \in Reps |-> Swept(phi[r])]
  /\ lastS = [r \in Reps |-> WindowedAction(r, a[r], phi[r])]

WrongDerived(r) == [site |-> 0, s |-> cache[r].s, q |-> LastConstraint(r), ds |-> 0]

(* Both running scalars are derived from the field, not from the caches.   *)
Derived(r) == [site |-> 0, s |-> S(phi[r]), q |-> Q(phi[r]), ds |-> 0]

BeginSweep(r) ==
  /\ MayRun(r)
  /\ stage' = [stage EXCEPT ![r] = "sweep"]
  /\ pass' = [pass EXCEPT ![r] = Derived(r)]
  /\ cache' = [cache EXCEPT ![r] = Swept(phi[r])]
  /\ UNCHANGED <<phase, wave, next, phi, a, lastS, ran, verdict>>

(* One site of nn_sequential_reduce: proposal v, threshold t from logu.    *)
VisitSite(r, v, t) ==
  LET p  == pass[r]
      c  == phi[r]
      dS == LocalS(p.site, v, c) - LocalS(p.site, c[p.site], c)
      dQ == IF Self THEN dS ELSE LocalO(p.site, v, c) - LocalO(p.site, c[p.site], c)
      dw == WindowedDelta(dS, dQ, p.q, a[r], Centre(r), Width2(r))
      yes == -dw >= t
  IN  /\ stage[r] = "sweep" /\ p.site < L
      /\ verdict' = [yes |-> yes, draw |-> t]
      /\ phi' = IF yes THEN [phi EXCEPT ![r][p.site] = v] ELSE phi
      /\ pass' = [pass EXCEPT ![r] =
                    IF yes THEN [site |-> p.site + 1, s |-> p.s + dS, q |-> p.q + dQ,
                                 ds |-> p.ds + dw]
                    ELSE [p EXCEPT !.site = p.site + 1]]
      /\ UNCHANGED <<phase, wave, next, a, cache, lastS, stage, ran>>

Published(r) == [s |-> pass[r].s, q |-> IF Self THEN NaN ELSE pass[r].q]

EndSweep(r) ==
  /\ stage[r] = "sweep" /\ pass[r].site = L
  /\ stage' = [stage EXCEPT ![r] = "idle"]
  /\ ran' = [ran EXCEPT ![r] = "now"]
  /\ cache' = [cache EXCEPT ![r] = Published(r)]
  /\ lastS' = [lastS EXCEPT ![r] = lastS[r] + pass[r].ds]
  /\ pass' = [pass EXCEPT ![r] = NoPass]
  /\ UNCHANGED <<phase, wave, next, phi, a, verdict>>

Sweep(r) ==
  \/ BeginSweep(r)
  \/ \E v \in Vals, t \in Thresholds : VisitSite(r, v, t)
  \/ EndSweep(r)
=============================================================================

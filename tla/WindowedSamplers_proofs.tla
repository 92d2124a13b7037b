---------------------- MODULE WindowedSamplers_proofs -----------------------
(***************************************************************************)
(* The ladder with either sampler, for every number of replicas, lattice,  *)
(* action, window and kind of force: between updates the scalars kept      *)
(* beside a field are those of the field, and every decision is the one    *)
(* the fields call for.  First the formulas: they say what they are used   *)
(* for, for all integers.                                                  *)
(***************************************************************************)
EXTENDS WindowedSamplers, TLAPS

(* windowed_delta is the change of windowed_value_complex under a move.    *)
THEOREM DeltaExact ==
  ASSUME NEW b \in Int, NEW db \in Int, NEW q \in Int, NEW dq \in Int,
         NEW t \in Int, NEW e \in Int, NEW d \in Int
  PROVE  WindowedValue(b + db, q + dq, t, e, d)
           = WindowedValue(b, q, t, e, d) + WindowedDelta(db, dq, q, t, e, d)
BY SMT DEF WindowedValue, WindowedDelta

(* exchange_log_p is what the pair's total windowed action drops by when   *)
(* the fields trade places.                                                *)
THEOREM ExchangeExact ==
  ASSUME NEW bi \in Int, NEW bj \in Int, NEW qi \in Int, NEW qj \in Int,
         NEW ai \in Int, NEW aj \in Int, NEW ei \in Int, NEW ej \in Int,
         NEW di \in Int, NEW dj \in Int
  PROVE  ExchangeLogP(ai, aj, ei, ej, qi, qj, di, dj)
           = dj * (WindowedValue(bi, qi, ai, ei, di) - WindowedValue(bj, qj, ai, ei, di))
             + di * (WindowedValue(bj, qj, aj, ej, dj) - WindowedValue(bi, qi, aj, ej, dj))
BY SMT DEF WindowedValue, ExchangeLogP
-----------------------------------------------------------------------------

(* Each sampler has its own stages, and is in one only during a wave.      *)
StagesFit ==
  \A r \in Reps :
    /\ stage[r] \in IF sampler = "hmc" THEN {"idle", "kick", "drift"} ELSE {"idle", "sweep"}
    /\ stage[r] # "idle" => phase = "wave"

(* While a trajectory is under way, the snapshot describes the field that  *)
(* was saved.                                                              *)
SnapshotGood ==
  \A r \in Reps : stage[r] \in {"kick", "drift"} =>
    /\ snap[r].cache = Swept(old[r])
    /\ snap[r].s0 = WindowedAction(r, a[r], old[r])

(* While a sweep is under way, its running scalars are those of the field, *)
(* and what a Metropolis carries is a number.                              *)
PassGood ==
  /\ \A r \in Reps : stage[r] = "sweep" => pass[r].s = S(phi[r]) /\ pass[r].q = Q(phi[r])
  /\ \A r \in Reps : stage[r] # "sweep" => pass[r] = NoPass
  /\ sampler = "metropolis" => lastS \in [Reps -> Int]

(* Fields are set up before the first update, and exchanges happen only    *)
(* when every replica has run.                                             *)
InOrder ==
  /\ phase = "init" => \A r \in Reps : ran[r] = "never"
  /\ phase = "exch" => \A r \in Reps : ran[r] # "never"

Inv ==
  /\ TypeOK /\ StagesFit /\ SnapshotGood /\ PassGood /\ InOrder
  /\ CachesDescribeField /\ LastSFullCurrent

(* No replica is inside an update outside the waves.                       *)
LEMMA IdleOutside ==
  ASSUME Inv, phase # "wave" PROVE \A r \in Reps : stage[r] = "idle"
BY DEF Inv, StagesFit

LEMMA ValueInt ==
  ASSUME NEW r \in Reps, NEW t \in Tilts, NEW c \in Field
  PROVE  WindowedAction(r, t, c) \in Int
<1>1. S(c) \in Int /\ Q(c) \in Int /\ t \in Int /\ Centre(r) \in Int /\ Width2(r) \in Int
  BY FieldAssumption DEF Q
<1>2. QED BY <1>1 DEF WindowedAction, WindowedValue

LEMMA SweptCaches == ASSUME NEW c \in Field PROVE Swept(c) \in Caches
BY DEF Swept, Caches

LEMMA EmptyCaches == Empty \in Caches
BY DEF Empty, Caches

LEMMA InitInv == Init => Inv
<1> SUFFICES ASSUME Init PROVE Inv
  OBVIOUS
<1> USE DEF Init, Built
<1>1. phi \in [Reps -> Field] /\ a \in [Reps -> Tilts]
  BY ReplicaAssumption
<1>2. \A r \in Reps : Swept(phi[r]) \in Caches /\ WindowedAction(r, a[r], phi[r]) \in Int
  BY <1>1, SweptCaches, ValueInt
<1>3. cache \in [Reps -> Caches] /\ lastS \in [Reps -> Int \cup {NaN}]
  BY <1>2, EmptyCaches DEF HmcBuilt, MetropolisBuilt
<1>4. sampler = "metropolis" => lastS \in [Reps -> Int]
  BY <1>2 DEF HmcBuilt, MetropolisBuilt
<1>5. sampler \in {"hmc", "metropolis"}
  BY DEF HmcBuilt, MetropolisBuilt
<1>6. TypeOK
  <2>1. next \in Nat \ {0} /\ wave \in 0 .. MaxWave
    BY FieldAssumption, ReplicaAssumption
  <2>2. NoPass \in [site : 0 .. L, s : Int, q : Int, ds : Int]
    BY FieldAssumption DEF NoPass
  <2>3. NoSnapshot \in [s0 : Int \cup {NaN}, cache : Caches]
    BY EmptyCaches DEF NoSnapshot
  <2>4. ReplicaTypeOK
    BY <1>1, <1>3, <1>5, <2>1 DEF ReplicaTypeOK
  <2>5. old \in [Reps -> Field]
    BY <1>1
  <2>6. pass \in [Reps -> [site : 0 .. L, s : Int, q : Int, ds : Int]]
    BY <2>2
  <2>7. snap \in [Reps -> [s0 : Int \cup {NaN}, cache : Caches]]
    BY <2>3
  <2>8. QED BY <2>4, <2>5, <2>6, <2>7 DEF TypeOK
<1>7. StagesFit /\ SnapshotGood /\ PassGood /\ InOrder
  BY <1>4 DEF StagesFit, SnapshotGood, PassGood, InOrder
<1>8. CachesDescribeField /\ LastSFullCurrent
  BY DEF CachesDescribeField, LastSFullCurrent
<1>9. QED BY <1>6, <1>7, <1>8 DEF Inv
-----------------------------------------------------------------------------
(* What the orchestrator does between trajectories.                        *)
LEMMA SetUpInv ==
  ASSUME Inv, UNCHANGED sampler, NEW r \in Reps, SetUp(r), UNCHANGED <<old, snap, pass>>
  PROVE  Inv'
<1>1. TypeOK'
  BY DEF Inv, TypeOK, ReplicaTypeOK, SetUp
<1>2. \A q \in Reps : stage[q] = "idle" /\ ran[q] = "never"
  BY IdleOutside DEF Inv, InOrder, SetUp
<1>3. phase = "init" /\ phase' = phase /\ stage' = stage /\ ran' = ran /\ lastS' = lastS
  BY DEF SetUp
<1>4. QED
  BY <1>1, <1>2, <1>3
     DEF Inv, StagesFit, SnapshotGood, PassGood, InOrder, CachesDescribeField, LastSFullCurrent

LEMMA StartWaveInv ==
  ASSUME Inv, UNCHANGED sampler, StartWave, UNCHANGED <<old, snap, pass>>
  PROVE  Inv'
<1>1. TypeOK'
  BY ReplicaAssumption DEF Inv, TypeOK, ReplicaTypeOK, StartWave
<1>2. \A r \in Reps : stage[r] = "idle"
  BY IdleOutside DEF StartWave
<1>3. \A r \in Reps : ran'[r] # "now" /\ (ran'[r] # "never" => ran[r] # "never")
  BY DEF StartWave, Inv, TypeOK, ReplicaTypeOK
<1>4. QED
  BY <1>1, <1>2, <1>3
     DEF Inv, StagesFit, SnapshotGood, PassGood, InOrder, CachesDescribeField,
         LastSFullCurrent, StartWave

LEMMA DrainInv ==
  ASSUME Inv, UNCHANGED sampler, Drain, UNCHANGED <<old, snap, pass>>
  PROVE  Inv'
<1>1. TypeOK'
  BY FieldAssumption DEF Inv, TypeOK, ReplicaTypeOK, Drain
<1>2. \A r \in Reps : stage[r] = "idle"
  BY DEF Drain, Busy
<1>3. QED
  BY <1>1, <1>2
     DEF Inv, StagesFit, SnapshotGood, PassGood, InOrder, CachesDescribeField,
         LastSFullCurrent, Drain

LEMMA ExchangeInv ==
  ASSUME Inv, UNCHANGED sampler, NEW t \in Thresholds, Exchange(t),
         UNCHANGED <<old, snap, pass>>
  PROVE  Inv'
<1>1. \A r \in Reps : stage[r] = "idle" /\ ran[r] # "never" /\ cache[r] = Swept(phi[r])
  BY IdleOutside DEF Inv, InOrder, CachesDescribeField, Exchange
<1>2. phase = "exch" /\ UNCHANGED <<phase, wave, a, lastS, stage, ran>>
  BY DEF Exchange
<1>3. \/ phi' = phi /\ cache' = cache
      \/ /\ phi' = [phi EXCEPT ![next] = phi[next + 1], ![next + 1] = phi[next]]
         /\ cache' = [cache EXCEPT ![next] = cache[next + 1], ![next + 1] = cache[next]]
  BY DEF Exchange, SwappedCaches
<1>4. next \in Reps /\ next + 1 \in Reps /\ next + 2 \in Nat \ {0}
  BY FieldAssumption DEF Exchange, Reps, Inv, TypeOK, ReplicaTypeOK
<1>5. \A r \in Reps : cache'[r] = Swept(phi'[r])
  BY <1>1, <1>3, <1>4 DEF Inv, TypeOK, ReplicaTypeOK
<1>6. TypeOK'
  <2>1. phi' \in [Reps -> Field] /\ cache' \in [Reps -> Caches]
    BY <1>4, <1>3 DEF Inv, TypeOK, ReplicaTypeOK
  <2>2. verdict' \in [yes : BOOLEAN, draw : Int] /\ next' \in Nat \ {0}
    BY <1>4, FieldAssumption DEF Exchange
  <2>3. QED BY <1>2, <2>1, <2>2 DEF Inv, TypeOK, ReplicaTypeOK
<1>7. QED
  BY <1>1, <1>2, <1>5, <1>6
     DEF Inv, StagesFit, SnapshotGood, PassGood, InOrder, CachesDescribeField, LastSFullCurrent
-----------------------------------------------------------------------------
(* A trajectory of one replica.                                            *)
LEMMA BeginInv ==
  ASSUME Inv, UNCHANGED <<sampler, pass>>, sampler = "hmc", NEW r \in Reps, Begin(r)
  PROVE  Inv'
<1>1. /\ phi[r] \in Field /\ a[r] \in Tilts /\ Swept(phi[r]) \in Caches
      /\ WindowedAction(r, a[r], phi[r]) \in Int
  BY SweptCaches, ValueInt DEF Inv, TypeOK, ReplicaTypeOK
<1>2. TypeOK'
  BY <1>1 DEF Inv, TypeOK, ReplicaTypeOK, Begin, Snapshot
<1>3. StagesFit' /\ PassGood'
  BY DEF Inv, TypeOK, ReplicaTypeOK, StagesFit, PassGood, Begin, MayRun
<1>4. SnapshotGood'
  BY DEF Inv, TypeOK, ReplicaTypeOK, SnapshotGood, Begin, Snapshot
<1>5. InOrder' /\ CachesDescribeField' /\ LastSFullCurrent'
  BY DEF Inv, TypeOK, ReplicaTypeOK, InOrder, CachesDescribeField, LastSFullCurrent, Begin
<1>6. QED BY <1>2, <1>3, <1>4, <1>5 DEF Inv

LEMMA KickInv ==
  ASSUME Inv, UNCHANGED <<sampler, pass>>, sampler = "hmc", NEW r \in Reps, Kick(r)
  PROVE  Inv'
<1>1. S(phi[r]) \in {S(c) : c \in Field} /\ O(phi[r]) \in {O(c) : c \in Field}
  BY DEF Inv, TypeOK, ReplicaTypeOK
<1>2. cache' \in [Reps -> Caches] /\ \A q \in Reps : q # r => cache'[q] = cache[q]
  BY <1>1 DEF Inv, TypeOK, ReplicaTypeOK, Kick, Caches
<1>3. TypeOK'
  BY <1>2 DEF Inv, TypeOK, ReplicaTypeOK, Kick
<1>4. StagesFit' /\ PassGood'
  BY DEF Inv, TypeOK, ReplicaTypeOK, StagesFit, PassGood, Kick
<1>5. SnapshotGood' /\ InOrder'
  BY DEF Inv, TypeOK, ReplicaTypeOK, SnapshotGood, InOrder, Kick
<1>6. CachesDescribeField' /\ LastSFullCurrent'
  BY <1>2 DEF Inv, TypeOK, ReplicaTypeOK, CachesDescribeField, LastSFullCurrent, Kick
<1>7. QED BY <1>3, <1>4, <1>5, <1>6 DEF Inv

LEMMA DriftInv ==
  ASSUME Inv, UNCHANGED <<sampler, pass>>, sampler = "hmc", NEW r \in Reps, Drift(r)
  PROVE  Inv'
<1>1. TypeOK'
  BY DEF Inv, TypeOK, ReplicaTypeOK, Drift
<1>2. StagesFit' /\ PassGood'
  BY DEF Inv, TypeOK, ReplicaTypeOK, StagesFit, PassGood, Drift
<1>3. SnapshotGood' /\ InOrder'
  BY DEF Inv, TypeOK, ReplicaTypeOK, SnapshotGood, InOrder, Drift
<1>4. CachesDescribeField' /\ LastSFullCurrent'
  BY DEF Inv, TypeOK, ReplicaTypeOK, CachesDescribeField, LastSFullCurrent, Drift
<1>5. QED BY <1>1, <1>2, <1>3, <1>4 DEF Inv

(* Either end of a trajectory leaves the field, its caches and last_s_full *)
(* in agreement.                                                           *)
LEMMA FinishInv ==
  ASSUME Inv, UNCHANGED <<sampler, pass>>, sampler = "hmc",
         NEW r \in Reps, NEW yes \in BOOLEAN, NEW c \in Field,
         phi' = [phi EXCEPT ![r] = c],
         cache' = [cache EXCEPT ![r] = Swept(c)],
         lastS' = [lastS EXCEPT ![r] = WindowedAction(r, a[r], c)],
         Finish(r, yes)
  PROVE  Inv'
<1>1. WindowedAction(r, a[r], c) \in Int /\ Swept(c) \in Caches
  BY SweptCaches, ValueInt DEF Inv, TypeOK, ReplicaTypeOK
<1>2. TypeOK'
  BY <1>1, EmptyCaches DEF Inv, TypeOK, ReplicaTypeOK, Finish, NoSnapshot
<1>3. phase = "wave"
  BY DEF Inv, StagesFit, Finish
<1>4. StagesFit' /\ PassGood'
  BY DEF Inv, TypeOK, ReplicaTypeOK, StagesFit, PassGood, Finish
<1>5. SnapshotGood' /\ InOrder'
  BY <1>3 DEF Inv, TypeOK, ReplicaTypeOK, SnapshotGood, InOrder, Finish
<1>6. CachesDescribeField' /\ LastSFullCurrent'
  BY DEF Inv, TypeOK, ReplicaTypeOK, CachesDescribeField, LastSFullCurrent, Finish
<1>7. QED BY <1>2, <1>4, <1>5, <1>6 DEF Inv

LEMMA AcceptInv ==
  ASSUME Inv, UNCHANGED <<sampler, pass>>, sampler = "hmc", NEW r \in Reps, Accept(r)
  PROVE  Inv'
<1>1. phi[r] \in Field /\ phi' = [phi EXCEPT ![r] = phi[r]]
  BY DEF Inv, TypeOK, ReplicaTypeOK, Accept
<1>2. QED BY <1>1, FinishInv DEF Accept

LEMMA RejectInv ==
  ASSUME Inv, UNCHANGED <<sampler, pass>>, sampler = "hmc", NEW r \in Reps, Reject(r)
  PROVE  Inv'
<1>1. old[r] \in Field
  BY DEF Inv, TypeOK
<1>2. snap[r].cache = Swept(old[r]) /\ snap[r].s0 = WindowedAction(r, a[r], old[r])
  BY DEF Inv, SnapshotGood, Reject, Finish
<1>3. QED BY <1>1, <1>2, FinishInv DEF Reject, Restored, RejectedS
-----------------------------------------------------------------------------
(* A sweep of one replica.                                                 *)
LEMMA BeginSweepInv ==
  ASSUME Inv, UNCHANGED <<sampler, old, snap>>, sampler = "metropolis",
         NEW r \in Reps, BeginSweep(r)
  PROVE  Inv'
<1>1. /\ phi[r] \in Field /\ Swept(phi[r]) \in Caches
      /\ Derived(r) \in [site : 0 .. L, s : Int, q : Int, ds : Int]
  BY SweptCaches, FieldAssumption DEF Inv, TypeOK, ReplicaTypeOK, Derived, Q
<1>2. TypeOK'
  BY <1>1 DEF Inv, TypeOK, ReplicaTypeOK, BeginSweep
<1>3. StagesFit' /\ SnapshotGood'
  BY DEF Inv, TypeOK, ReplicaTypeOK, StagesFit, SnapshotGood, BeginSweep, MayRun
<1>4. PassGood'
  BY DEF Inv, TypeOK, ReplicaTypeOK, PassGood, BeginSweep, Derived
<1>5. InOrder' /\ CachesDescribeField' /\ LastSFullCurrent'
  BY DEF Inv, TypeOK, ReplicaTypeOK, InOrder, CachesDescribeField, LastSFullCurrent, BeginSweep
<1>6. QED BY <1>2, <1>3, <1>4, <1>5 DEF Inv

(* The changes a proposal is judged by, and those of the fields.           *)
Changed(r, v) == [phi[r] EXCEPT ![pass[r].site] = v]

DS(r, v) == LocalS(pass[r].site, v, phi[r]) - LocalS(pass[r].site, phi[r][pass[r].site], phi[r])

DQ(r, v) ==
  IF Self THEN DS(r, v)
  ELSE LocalO(pass[r].site, v, phi[r]) - LocalO(pass[r].site, phi[r][pass[r].site], phi[r])

DW(r, v) == WindowedDelta(DS(r, v), DQ(r, v), pass[r].q, a[r], Centre(r), Width2(r))

LEMMA MoveExact ==
  ASSUME Inv, NEW r \in Reps, stage[r] = "sweep", pass[r].site < L, NEW v \in Vals
  PROVE  /\ pass[r].site \in Sites /\ Changed(r, v) \in Field
         /\ DS(r, v) \in Int /\ DQ(r, v) \in Int /\ DW(r, v) \in Int
         /\ S(Changed(r, v)) = S(phi[r]) + DS(r, v)
         /\ Q(Changed(r, v)) = Q(phi[r]) + DQ(r, v)
         /\ WindowedAction(r, a[r], Changed(r, v))
              = WindowedAction(r, a[r], phi[r]) + DW(r, v)
<1> DEFINE i == pass[r].site
           c == phi[r]
<1>1. c \in Field /\ a[r] \in Tilts /\ pass[r].q = Q(c) /\ i \in 0 .. L
  BY DEF Inv, TypeOK, ReplicaTypeOK, PassGood
<1>2. i \in Sites
  BY <1>1, FieldAssumption DEF Sites
<1>3. Changed(r, v) \in Field /\ c[i] \in Vals
  BY <1>1, <1>2 DEF Changed, Field
<1>4. /\ LocalS(i, v, c) \in Int /\ LocalO(i, v, c) \in Int
      /\ LocalS(i, c[i], c) \in Int /\ LocalO(i, c[i], c) \in Int
      /\ S(Changed(r, v)) = S(c) + (LocalS(i, v, c) - LocalS(i, c[i], c))
      /\ O(Changed(r, v)) = O(c) + (LocalO(i, v, c) - LocalO(i, c[i], c))
  BY <1>1, <1>2, <1>3, LocalAssumption DEF Changed
<1>5. DS(r, v) \in Int /\ DQ(r, v) \in Int
  BY <1>4 DEF DS, DQ
<1>6. S(Changed(r, v)) = S(c) + DS(r, v)
  BY <1>4 DEF DS
<1>7. Q(Changed(r, v)) = Q(c) + DQ(r, v)
  BY <1>4, <1>6 DEF DQ, Q
<1>8. /\ S(c) \in Int /\ Q(c) \in Int /\ a[r] \in Int
      /\ Centre(r) \in Int /\ Width2(r) \in Int
  BY <1>1, FieldAssumption DEF Q
<1>9. DW(r, v) \in Int
  BY <1>1, <1>5, <1>8 DEF DW, WindowedDelta
<1>10. WindowedValue(S(c) + DS(r, v), Q(c) + DQ(r, v), a[r], Centre(r), Width2(r))
         = WindowedValue(S(c), Q(c), a[r], Centre(r), Width2(r))
             + WindowedDelta(DS(r, v), DQ(r, v), Q(c), a[r], Centre(r), Width2(r))
  BY <1>5, <1>8, SMTT(60) DEF WindowedValue, WindowedDelta
<1>11. WindowedAction(r, a[r], Changed(r, v)) = WindowedAction(r, a[r], c) + DW(r, v)
  BY <1>1, <1>6, <1>7, <1>10 DEF WindowedAction, DW
<1>12. QED BY <1>2, <1>3, <1>5, <1>6, <1>7, <1>9, <1>11

(* A visit in those terms.                                                 *)
LEMMA VisitIs ==
  ASSUME NEW r \in Reps, NEW v \in Vals, NEW t \in Thresholds, VisitSite(r, v, t), Inv
  PROVE  /\ stage[r] = "sweep" /\ pass[r].site < L
         /\ verdict' = [yes |-> -DW(r, v) >= t, draw |-> t]
         /\ phi' = IF -DW(r, v) >= t THEN [phi EXCEPT ![r] = Changed(r, v)] ELSE phi
         /\ pass' = [pass EXCEPT ![r] =
                       IF -DW(r, v) >= t
                       THEN [site |-> pass[r].site + 1, s |-> pass[r].s + DS(r, v),
                             q |-> pass[r].q + DQ(r, v), ds |-> pass[r].ds + DW(r, v)]
                       ELSE [pass[r] EXCEPT !.site = pass[r].site + 1]]
         /\ UNCHANGED <<phase, wave, next, a, cache, lastS, stage, ran>>
BY DEF VisitSite, Changed, DS, DQ, DW

LEMMA VisitSiteInv ==
  ASSUME Inv, UNCHANGED <<sampler, old, snap>>, sampler = "metropolis",
         NEW r \in Reps, NEW v \in Vals, NEW t \in Thresholds, VisitSite(r, v, t)
  PROVE  Inv'
<1>1. /\ stage[r] = "sweep" /\ pass[r].site < L
      /\ UNCHANGED <<phase, wave, next, a, cache, lastS, stage, ran>>
      /\ verdict' = [yes |-> -DW(r, v) >= t, draw |-> t]
  BY VisitIs
<1>2. /\ DS(r, v) \in Int /\ DQ(r, v) \in Int /\ DW(r, v) \in Int
      /\ Changed(r, v) \in Field
      /\ S(Changed(r, v)) = S(phi[r]) + DS(r, v)
      /\ Q(Changed(r, v)) = Q(phi[r]) + DQ(r, v)
  BY <1>1, MoveExact
<1>3. PICK p \in [site : 0 .. L, s : Int, q : Int, ds : Int] :
        /\ pass' = [pass EXCEPT ![r] = p]
        /\ \/ /\ phi' = [phi EXCEPT ![r] = Changed(r, v)]
              /\ p.s = pass[r].s + DS(r, v) /\ p.q = pass[r].q + DQ(r, v)
           \/ phi' = phi /\ p.s = pass[r].s /\ p.q = pass[r].q
  <2>1. pass[r] \in [site : 0 .. L, s : Int, q : Int, ds : Int] /\ pass[r].site + 1 \in 0 .. L
    BY <1>1, FieldAssumption DEF Inv, TypeOK
  <2>2. CASE -DW(r, v) >= t
    <3> DEFINE p == [site |-> pass[r].site + 1, s |-> pass[r].s + DS(r, v),
                     q |-> pass[r].q + DQ(r, v), ds |-> pass[r].ds + DW(r, v)]
    <3>1. p \in [site : 0 .. L, s : Int, q : Int, ds : Int]
      BY <1>2, <2>1
    <3>2. pass' = [pass EXCEPT ![r] = p] /\ phi' = [phi EXCEPT ![r] = Changed(r, v)]
      BY <2>2, VisitIs
    <3>3. QED BY <3>1, <3>2
  <2>3. CASE ~(-DW(r, v) >= t)
    <3> DEFINE p == [pass[r] EXCEPT !.site = pass[r].site + 1]
    <3>1. p \in [site : 0 .. L, s : Int, q : Int, ds : Int] /\ p.s = pass[r].s /\ p.q = pass[r].q
      BY <2>1
    <3>2. pass' = [pass EXCEPT ![r] = p] /\ phi' = phi
      BY <2>3, VisitIs
    <3>3. QED BY <3>1, <3>2
  <2>4. QED BY <2>2, <2>3
<1>4. phi' \in [Reps -> Field] /\ \A q \in Reps : q # r => phi'[q] = phi[q]
  BY <1>2, <1>3, SMTT(60) DEF Inv, TypeOK, ReplicaTypeOK
<1>5. TypeOK'
  <2>1. verdict' \in [yes : BOOLEAN, draw : Int]
    BY <1>1, FieldAssumption
  <2>2. QED BY <1>1, <1>3, <1>4, <2>1 DEF Inv, TypeOK, ReplicaTypeOK
<1>6. p.s = S(phi'[r]) /\ p.q = Q(phi'[r])
  <2>1. pass[r].s = S(phi[r]) /\ pass[r].q = Q(phi[r])
    BY <1>1 DEF Inv, PassGood
  <2>2. QED BY <1>2, <1>3, <2>1 DEF Inv, TypeOK, ReplicaTypeOK
<1>7. PassGood'
  BY <1>1, <1>3, <1>4, <1>6 DEF Inv, TypeOK, PassGood
<1>8. StagesFit' /\ SnapshotGood' /\ InOrder'
  BY <1>1 DEF Inv, StagesFit, SnapshotGood, InOrder
<1>9. CachesDescribeField' /\ LastSFullCurrent'
  BY <1>1, <1>4 DEF Inv, CachesDescribeField, LastSFullCurrent
<1>10. QED BY <1>5, <1>7, <1>8, <1>9 DEF Inv

LEMMA PublishedIs ==
  ASSUME Inv, NEW r \in Reps, stage[r] = "sweep"
  PROVE  Published(r) = Swept(phi[r])
<1>1. pass[r].s = S(phi[r]) /\ pass[r].q = Q(phi[r])
  BY DEF Inv, PassGood
<1>2. QED BY <1>1 DEF Published, Swept, Q

LEMMA EndSweepInv ==
  ASSUME Inv, UNCHANGED <<sampler, old, snap>>, sampler = "metropolis",
         NEW r \in Reps, EndSweep(r)
  PROVE  Inv'
<1>1. cache' = [cache EXCEPT ![r] = Swept(phi[r])] /\ Swept(phi[r]) \in Caches
  BY PublishedIs, SweptCaches DEF EndSweep, Inv, TypeOK, ReplicaTypeOK
<1>2. lastS' \in [Reps -> Int]
  BY DEF EndSweep, Inv, TypeOK, PassGood
<1>3. NoPass \in [site : 0 .. L, s : Int, q : Int, ds : Int]
  BY FieldAssumption DEF NoPass
<1>4. TypeOK'
  BY <1>1, <1>2, <1>3 DEF Inv, TypeOK, ReplicaTypeOK, EndSweep
<1>5. StagesFit' /\ SnapshotGood' /\ InOrder'
  BY DEF Inv, TypeOK, ReplicaTypeOK, StagesFit, SnapshotGood, InOrder, EndSweep
<1>6. PassGood'
  BY <1>2 DEF Inv, TypeOK, ReplicaTypeOK, PassGood, EndSweep
<1>7. CachesDescribeField' /\ LastSFullCurrent'
  BY <1>1 DEF Inv, TypeOK, ReplicaTypeOK, CachesDescribeField, LastSFullCurrent, EndSweep
<1>8. QED BY <1>4, <1>5, <1>6, <1>7 DEF Inv

LEMMA StepInv == Inv /\ [Next]_vars => Inv'
<1> SUFFICES ASSUME Inv, [Next]_vars PROVE Inv'
  OBVIOUS
<1>1. CASE UNCHANGED vars
  BY <1>1 DEF vars, replica, Inv, TypeOK, ReplicaTypeOK, StagesFit, SnapshotGood, PassGood,
              InOrder, CachesDescribeField, LastSFullCurrent
<1>2. CASE Driver /\ UNCHANGED <<old, snap, pass>> /\ UNCHANGED sampler
  BY <1>2, SetUpInv, StartWaveInv, DrainInv, ExchangeInv DEF Driver
<1>3. ASSUME NEW r \in Reps, sampler = "hmc", Step(r), UNCHANGED <<sampler, pass>>
      PROVE  Inv'
  BY <1>3, BeginInv, KickInv, DriftInv, AcceptInv, RejectInv DEF Step
<1>4. ASSUME NEW r \in Reps, sampler = "metropolis", Sweep(r), UNCHANGED <<sampler, old, snap>>
      PROVE  Inv'
  BY <1>4, BeginSweepInv, VisitSiteInv, EndSweepInv DEF Sweep
<1>5. QED BY <1>1, <1>2, <1>3, <1>4 DEF Next, Update

(* Caches, snapshots, running scalars and decisions stay in their types.   *)
THEOREM SamplerTypes == Spec => []TypeOK
<1>1. Inv => TypeOK
  BY DEF Inv
<1>2. QED BY <1>1, InitInv, StepInv, PTL DEF Spec

(* Whatever is accepted, rejected or exchanged, a replica that is not      *)
(* inside an update has caches that describe its field; and last_s_full()  *)
(* of an Hmc is the windowed action of the field after every trajectory,   *)
(* the rejected ones included.                                             *)
THEOREM ScalarsFollowField == Spec => []ScalarsDescribeField
<1>1. Inv => ScalarsDescribeField
  BY DEF Inv, ScalarsDescribeField
<1>2. QED BY <1>1, InitInv, StepInv, PTL DEF Spec
-----------------------------------------------------------------------------
(* What a sweep adds is what it changed.                                   *)
LEMMA SweepKeepsOffset ==
  ASSUME Inv, sampler = "metropolis", NEW r \in Reps, Sweep(r), NEW q \in Reps
  PROVE  Offset(q)' = Offset(q)
<1>1. a' = a
  BY DEF Sweep, BeginSweep, VisitSite, EndSweep
<1>2. CASE q # r
  <2>1. lastS'[q] = lastS[q] /\ pass'[q] = pass[q] /\ phi'[q] = phi[q]
    <3>1. CASE BeginSweep(r)
      BY <1>2, <3>1 DEF BeginSweep, Inv, TypeOK
    <3>2. ASSUME NEW v \in Vals, NEW t \in Thresholds, VisitSite(r, v, t)
          PROVE  lastS'[q] = lastS[q] /\ pass'[q] = pass[q] /\ phi'[q] = phi[q]
      BY <1>2, <3>2 DEF VisitSite, Inv, TypeOK, ReplicaTypeOK
    <3>3. CASE EndSweep(r)
      BY <1>2, <3>3 DEF EndSweep, Inv, TypeOK, ReplicaTypeOK
    <3>4. QED BY <3>1, <3>2, <3>3 DEF Sweep
  <2>2. QED BY <1>1, <2>1 DEF Offset
<1>3. CASE q = r
  <2>1. /\ lastS[r] \in Int /\ pass[r].ds \in Int /\ phi[r] \in Field
        /\ WindowedAction(r, a[r], phi[r]) \in Int
    BY ValueInt DEF Inv, TypeOK, ReplicaTypeOK, PassGood
  <2>2. CASE BeginSweep(r)
    <3>1. pass[r].ds = 0 /\ pass'[r].ds = 0
      BY <2>2 DEF BeginSweep, MayRun, Derived, NoPass, Inv, PassGood, TypeOK
    <3>2. lastS' = lastS /\ phi' = phi
      BY <2>2 DEF BeginSweep
    <3>3. QED BY <1>1, <1>3, <3>1, <3>2 DEF Offset
  <2>3. ASSUME NEW v \in Vals, NEW t \in Thresholds, VisitSite(r, v, t)
        PROVE  Offset(q)' = Offset(q)
    <3>1. /\ stage[r] = "sweep" /\ pass[r].site < L /\ lastS' = lastS
      BY <2>3, VisitIs
    <3>2. /\ DW(r, v) \in Int
          /\ WindowedAction(r, a[r], Changed(r, v))
               = WindowedAction(r, a[r], phi[r]) + DW(r, v)
      BY <3>1, MoveExact
    <3>3. CASE -DW(r, v) >= t
      <4>1. phi'[r] = Changed(r, v) /\ pass'[r].ds = pass[r].ds + DW(r, v)
        <5>1. /\ phi' = [phi EXCEPT ![r] = Changed(r, v)]
              /\ pass' = [pass EXCEPT ![r] =
                            [site |-> pass[r].site + 1, s |-> pass[r].s + DS(r, v),
                             q |-> pass[r].q + DQ(r, v), ds |-> pass[r].ds + DW(r, v)]]
          BY <2>3, <3>3, VisitIs
        <5>2. QED BY <5>1 DEF Inv, TypeOK, ReplicaTypeOK
      <4>2. QED BY <1>1, <1>3, <2>1, <3>1, <3>2, <4>1 DEF Offset
    <3>4. CASE ~(-DW(r, v) >= t)
      <4>1. phi'[r] = phi[r] /\ pass'[r].ds = pass[r].ds
        <5>1. /\ phi' = phi
              /\ pass' = [pass EXCEPT ![r] = [pass[r] EXCEPT !.site = pass[r].site + 1]]
          BY <2>3, <3>4, VisitIs
        <5>2. QED BY <5>1 DEF Inv, TypeOK
      <4>2. QED BY <1>1, <1>3, <3>1, <4>1 DEF Offset
    <3>5. QED BY <3>3, <3>4
  <2>4. CASE EndSweep(r)
    <3>1. lastS'[r] = lastS[r] + pass[r].ds /\ pass'[r].ds = 0 /\ phi' = phi
      BY <2>4 DEF EndSweep, NoPass, Inv, TypeOK, ReplicaTypeOK
    <3>2. QED BY <1>1, <1>3, <2>1, <3>1 DEF Offset
  <2>5. QED BY <2>2, <2>3, <2>4 DEF Sweep
<1>4. QED BY <1>2, <1>3

(* The running action of a Metropolis is off by the same amount after any  *)
(* number of its own steps, for any action, observable and window.         *)
THEOREM IncrementsAreExact == Spec => IncrementalExact
<1> DEFINE Adds == sampler = "metropolis" /\ phase = "wave" /\ phase' = "wave"
                     => \A r \in Reps : Offset(r)' = Offset(r)
<1>1. Inv /\ [Next]_vars => [Adds]_vars
  <2> SUFFICES ASSUME Inv, Next, sampler = "metropolis", phase = "wave", phase' = "wave",
                      NEW r \in Reps
               PROVE  Offset(r)' = Offset(r)
    OBVIOUS
  <2>1. ~Driver
    BY DEF Driver, SetUp, StartWave, Drain, Exchange
  <2>2. PICK q \in Reps : Sweep(q)
    BY <2>1 DEF Next, Update
  <2>3. QED BY <2>2, SweepKeepsOffset
<1>2. QED BY <1>1, InitInv, StepInv, PTL DEF Spec, IncrementalExact
-----------------------------------------------------------------------------
(* The refinement.  Each step of the sampler is a step of the ideal one on *)
(* the settled fields, or none.                                            *)
ivars == <<sampler, phase, Settled, a, verdict>>

(* The ideal specification speaks of the same fields and actions.          *)
LEMMA SameField ==
  /\ Ideal!Reps = Reps /\ Ideal!Field = Field
  /\ \A r, t, c : Ideal!WindowedAction(r, t, c) = WindowedAction(r, t, c)
BY DEF Ideal!Reps, Reps, Ideal!Field, Field, Ideal!Sites, Sites, Ideal!WindowedAction,
       WindowedAction, Ideal!WindowedValue, WindowedValue, Ideal!Q, Q

LEMMA SettledIdle ==
  ASSUME TypeOK, \A r \in Reps : stage[r] = "idle"
  PROVE  Settled = phi
BY DEF Settled, TypeOK, ReplicaTypeOK

PairDrop(i, j, ai, aj, ci, cj) ==
    Width2(j) * (WindowedAction(i, ai, ci) - WindowedAction(i, ai, cj))
  + Width2(i) * (WindowedAction(j, aj, cj) - WindowedAction(j, aj, ci))

LEMMA LogPIsPairDrop ==
  ASSUME NEW i \in Reps, NEW j \in Reps, NEW ai \in Tilts, NEW aj \in Tilts,
         NEW ci \in Field, NEW cj \in Field
  PROVE  ExchangeLogP(ai, aj, Centre(i), Centre(j), Q(ci), Q(cj), Width2(i), Width2(j))
           = PairDrop(i, j, ai, aj, ci, cj)
<1>1. /\ S(ci) \in Int /\ S(cj) \in Int /\ Q(ci) \in Int /\ Q(cj) \in Int
      /\ ai \in Int /\ aj \in Int /\ Centre(i) \in Int /\ Centre(j) \in Int
      /\ Width2(i) \in Int /\ Width2(j) \in Int
  BY FieldAssumption DEF Q
<1>2. ExchangeLogP(ai, aj, Centre(i), Centre(j), Q(ci), Q(cj), Width2(i), Width2(j))
        = Width2(j) * (WindowedValue(S(ci), Q(ci), ai, Centre(i), Width2(i))
                       - WindowedValue(S(cj), Q(cj), ai, Centre(i), Width2(i)))
          + Width2(i) * (WindowedValue(S(cj), Q(cj), aj, Centre(j), Width2(j))
                         - WindowedValue(S(ci), Q(ci), aj, Centre(j), Width2(j)))
  BY <1>1, SMTT(60) DEF ExchangeLogP, WindowedValue
<1>3. QED BY <1>2 DEF PairDrop, WindowedAction

(* What energy() reads when the caches describe the field.                 *)
LEMMA SweptReads ==
  ASSUME NEW r \in Reps, cache[r] = Swept(phi[r])
  PROVE  LastConstraint(r) = Q(phi[r])
<1>1. cache[r].s = S(phi[r]) /\ (~Self => cache[r].q = O(phi[r]))
  BY DEF Swept
<1>2. CASE Self
  BY <1>1, <1>2 DEF LastConstraint, Q
<1>3. CASE ~Self
  BY <1>1, <1>3 DEF LastConstraint, Q
<1>4. QED BY <1>2, <1>3

LEMMA ExchangeRefines ==
  ASSUME Inv, UNCHANGED sampler, NEW t \in Thresholds, Exchange(t)
  PROVE  Ideal!Exchange(next, t)
<1>1. \A r \in Reps : stage[r] = "idle" /\ ran[r] # "never" /\ cache[r] = Swept(phi[r])
  BY IdleOutside DEF Inv, InOrder, CachesDescribeField, Exchange
<1>2. stage' = stage
  BY DEF Exchange
<1>3. Settled = phi
  BY <1>1, SettledIdle DEF Inv
<1>4. Settled' = phi'
  BY <1>1, <1>2, ExchangeInv DEF Settled, Exchange, Inv, TypeOK, ReplicaTypeOK
<1> DEFINE i == next
           j == next + 1
           logP == ExchangeLogP(a[i], a[j], Centre(i), Centre(j), LastConstraint(i),
                                LastConstraint(j), Width2(i), Width2(j))
<1>5. i \in Reps /\ j \in Reps
  BY FieldAssumption DEF Exchange, Reps, Inv, TypeOK, ReplicaTypeOK
<1>6. LastConstraint(i) = Q(phi[i]) /\ LastConstraint(j) = Q(phi[j])
  BY <1>1, <1>5, SweptReads
<1>7. logP = Ideal!Drop(i, j)
  <2>1. a[i] \in Tilts /\ a[j] \in Tilts /\ phi[i] \in Field /\ phi[j] \in Field
    BY <1>5 DEF Inv, TypeOK, ReplicaTypeOK
  <2>2. ExchangeLogP(a[i], a[j], Centre(i), Centre(j), Q(phi[i]), Q(phi[j]),
                     Width2(i), Width2(j))
          = PairDrop(i, j, a[i], a[j], phi[i], phi[j])
    BY <1>5, <2>1, LogPIsPairDrop
  <2>3. Ideal!Drop(i, j) = PairDrop(i, j, a[i], a[j], phi[i], phi[j])
    BY <1>3, SameField DEF Ideal!Drop, PairDrop
  <2>4. QED BY <1>6, <2>2, <2>3
<1>8. QED
  BY <1>3, <1>4, <1>7 DEF Exchange, Ideal!Exchange

LEMMA DriverRefines ==
  ASSUME Inv, UNCHANGED sampler, Driver, UNCHANGED <<old, snap, pass>>
  PROVE  Ideal!INext
<1>1. ASSUME NEW r \in Reps, SetUp(r) PROVE Ideal!SetUp(r)
  <2>1. \A q \in Reps : stage[q] = "idle"
    BY <1>1, IdleOutside DEF SetUp
  <2>2. Settled = phi
    BY <2>1, SettledIdle DEF Inv
  <2>3. stage' = stage /\ phi' \in [Reps -> Field]
    BY <1>1 DEF SetUp, Inv, TypeOK, ReplicaTypeOK
  <2>4. Settled' = phi'
    BY <2>1, <2>3 DEF Settled
  <2>5. QED BY <1>1, <2>2, <2>4, SameField DEF SetUp, Ideal!SetUp
<1>2. CASE StartWave
  <2>1. Settled' = Settled
    BY <1>2 DEF StartWave, Settled
  <2>2. QED BY <1>2, <2>1 DEF StartWave, Ideal!StartWave, Ideal!INext
<1>3. CASE Drain
  <2>1. Settled' = Settled
    BY <1>3 DEF Drain, Settled
  <2>2. QED BY <1>3, <2>1, SameField DEF Drain, Ideal!Retilt, Ideal!INext
<1>4. ASSUME NEW t \in Thresholds, Exchange(t) PROVE Ideal!INext
  <2>1. next \in 1 .. N - 1
    <3>1. next \in Nat /\ next + 1 <= N /\ next # 0
      BY <1>4 DEF Exchange, Inv, TypeOK, ReplicaTypeOK
    <3>2. QED BY <3>1, FieldAssumption
  <2>2. QED BY <1>4, <2>1, ExchangeRefines DEF Ideal!INext
<1>5. QED BY <1>1, <1>2, <1>3, <1>4, SameField DEF Driver, Ideal!INext

LEMMA StepRefines ==
  ASSUME Inv, sampler = "hmc", UNCHANGED sampler, NEW r \in Reps, Step(r)
  PROVE  Ideal!INext \/ UNCHANGED ivars
<1>1. CASE Begin(r)
  <2>1. Settled' = Settled
    BY <1>1 DEF Begin, MayRun, Settled, Inv, TypeOK, ReplicaTypeOK
  <2>2. QED BY <1>1, <2>1 DEF Begin, ivars
<1>2. CASE Kick(r)
  <2>1. Settled' = Settled
    BY <1>2 DEF Kick, Settled, Inv, TypeOK, ReplicaTypeOK
  <2>2. QED BY <1>2, <2>1 DEF Kick, ivars
<1>3. CASE Drift(r)
  <2>1. Settled' = Settled
    BY <1>3 DEF Drift, Settled, Inv, TypeOK, ReplicaTypeOK
  <2>2. QED BY <1>3, <2>1 DEF Drift, ivars
<1>4. CASE Accept(r)
  <2>1. phase = "wave" /\ phi[r] \in Field
    BY <1>4 DEF Inv, StagesFit, Accept, Finish, TypeOK, ReplicaTypeOK
  <2>2. Settled' = [Settled EXCEPT ![r] = phi[r]]
    BY <1>4 DEF Accept, Finish, Settled, Inv, TypeOK, ReplicaTypeOK
  <2>3. Ideal!Trajectory(r)
    BY <1>4, <2>1, <2>2, SameField DEF Accept, Finish, Ideal!Trajectory
  <2>4. QED BY <2>3, SameField DEF Ideal!INext
<1>5. CASE Reject(r)
  <2>1. phase = "wave"
    BY <1>5 DEF Inv, StagesFit, Reject, Finish
  <2>2. Settled' = Settled
    BY <1>5 DEF Reject, Finish, Settled, Inv, TypeOK, ReplicaTypeOK
  <2>3. Ideal!Trajectory(r)
    BY <1>5, <2>1, <2>2 DEF Reject, Finish, Ideal!Trajectory
  <2>4. QED BY <2>3, SameField DEF Ideal!INext
<1>6. QED BY <1>1, <1>2, <1>3, <1>4, <1>5 DEF Step

(* A decision on running scalars is the one on the windowed action of the  *)
(* field before and after the move.                                        *)
LEMMA VisitRefines ==
  ASSUME Inv, sampler = "metropolis", NEW r \in Reps, NEW v \in Vals, NEW t \in Thresholds,
         VisitSite(r, v, t)
  PROVE  Ideal!INext
<1> DEFINE moved == [Settled[r] EXCEPT ![pass[r].site] = v]
           yes == Ideal!WindowedAction(r, a[r], Settled[r])
                    - Ideal!WindowedAction(r, a[r], moved) >= t
<1>1. /\ stage[r] = "sweep" /\ pass[r].site < L
      /\ verdict' = [yes |-> -DW(r, v) >= t, draw |-> t]
      /\ phi' = IF -DW(r, v) >= t THEN [phi EXCEPT ![r] = Changed(r, v)] ELSE phi
      /\ UNCHANGED <<phase, a, stage>>
  BY VisitIs
<1>2. \A q \in Reps : stage[q] \in {"idle", "sweep"}
  BY DEF Inv, StagesFit
<1>3. Settled = phi
  BY <1>2 DEF Settled, Inv, TypeOK, ReplicaTypeOK
<1>4. phi' \in [Reps -> Field]
  BY <1>1, MoveExact DEF Inv, TypeOK, ReplicaTypeOK
<1>5. Settled' = phi'
  BY <1>1, <1>2, <1>4 DEF Settled
<1>6. pass[r].site \in Sites /\ t \in Int /\ DW(r, v) \in Int
  BY <1>1, MoveExact, FieldAssumption
<1>7. moved = Changed(r, v)
  BY <1>3 DEF Changed
<1>8. yes <=> -DW(r, v) >= t
  <2>1. /\ WindowedAction(r, a[r], phi[r]) \in Int
        /\ WindowedAction(r, a[r], Changed(r, v))
             = WindowedAction(r, a[r], phi[r]) + DW(r, v)
    BY <1>1, MoveExact, ValueInt DEF Inv, TypeOK, ReplicaTypeOK
  <2>2. QED BY <1>3, <1>6, <1>7, <2>1, SameField
<1>9. phase = "wave"
  BY <1>1 DEF Inv, StagesFit
<1>10. verdict' = [yes |-> yes, draw |-> t]
  BY <1>1, <1>8
<1>11. Settled' = IF yes THEN [Settled EXCEPT ![r] = moved] ELSE Settled
  BY <1>1, <1>3, <1>5, <1>7, <1>8
<1>12. Ideal!LocalMove(r, pass[r].site, v, t)
  BY <1>1, <1>9, <1>10, <1>11 DEF Ideal!LocalMove
<1>13. pass[r].site \in Ideal!Sites
  BY <1>6 DEF Ideal!Sites, Sites
<1>14. QED BY <1>12, <1>13, SameField DEF Ideal!INext

LEMMA SweepRefines ==
  ASSUME Inv, sampler = "metropolis", UNCHANGED sampler, NEW r \in Reps, Sweep(r),
         UNCHANGED <<old, snap>>
  PROVE  Ideal!INext \/ UNCHANGED ivars
<1>1. CASE BeginSweep(r)
  <2>1. \A q \in Reps : stage[q] \in {"idle", "sweep"} /\ stage'[q] \in {"idle", "sweep"}
    BY <1>1 DEF BeginSweep, Inv, StagesFit, TypeOK, ReplicaTypeOK
  <2>2. Settled' = Settled
    BY <1>1, <2>1 DEF BeginSweep, Settled
  <2>3. QED BY <1>1, <2>2 DEF BeginSweep, ivars
<1>2. CASE EndSweep(r)
  <2>1. \A q \in Reps : stage[q] \in {"idle", "sweep"} /\ stage'[q] \in {"idle", "sweep"}
    BY <1>2 DEF EndSweep, Inv, StagesFit, TypeOK, ReplicaTypeOK
  <2>2. Settled' = Settled
    BY <1>2, <2>1 DEF EndSweep, Settled
  <2>3. QED BY <1>2, <2>2 DEF EndSweep, ivars
<1>3. QED BY <1>1, <1>2, VisitRefines DEF Sweep

(* The ladder with caches and running scalars implements the one without:  *)
(* a rejected trajectory leaves no trace, local moves and exchanges are    *)
(* decided on the fields.                                                  *)
THEOREM SamplersImplementIdeal == Spec => ImplementsIdeal
<1>1. Init => Ideal!IInit
  <2> SUFFICES ASSUME Init PROVE Ideal!IInit
    OBVIOUS
  <2>1. TypeOK /\ \A r \in Reps : stage[r] = "idle"
    BY InitInv DEF Inv, Init, Built
  <2>2. Settled = phi
    BY <2>1, SettledIdle
  <2>3. QED BY <2>1, <2>2, SameField DEF Init, Built, Ideal!IInit, TypeOK, ReplicaTypeOK
<1>2. Inv /\ [Next]_vars => [Ideal!INext /\ UNCHANGED sampler]_ivars
  <2> SUFFICES ASSUME Inv, [Next]_vars PROVE (Ideal!INext /\ UNCHANGED sampler) \/ UNCHANGED ivars
    OBVIOUS
  <2>1. CASE UNCHANGED vars
    BY <2>1 DEF vars, replica, ivars, Settled
  <2>2. QED BY <2>1, DriverRefines, StepRefines, SweepRefines DEF Next, Update
<1>3. QED
  BY <1>1, <1>2, InitInv, StepInv, PTL DEF Spec, ImplementsIdeal, Ideal!ISpec, ivars
=============================================================================

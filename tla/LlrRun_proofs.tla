---------------------------- MODULE LlrRun_proofs ---------------------------
(* Type correctness of the orchestrator, and the safety properties that    *)
(* need no history: the file at <path>, the permutation of the walkers,    *)
(* the coherence of the energy caches.  Then, with the history of          *)
(* LlrReplay, that a resumed run is bit exact and computes what the serial *)
(* one does.                                                               *)
EXTENDS LlrReplay, TLAPS

(* What the control flow adds to the types: a slot being run is below its  *)
(* phase's budget, the exchange index names a pair, a file being written   *)
(* holds what the loop has written, a file in place holds every replica,   *)
(* a lane that is done has stored its mean, and no lane runs between two   *)
(* waves.                                                                  *)
InBudget ==
  /\ pc = "wave" => it < IF ph = 0 THEN NNr ELSE nrm
  /\ pc = "exch" => ph = 1 /\ it < nrm /\ xi + 1 < N

FilesWhole ==
  /\ pc = "write" => tmp \in File(wn)
  /\ live # NoFile => live \in File(N)

LanesInStep ==
  /\ pc = "wave" => \A n \in Slots : lane[n] = "done" => deBuf[n] \in Obs
  /\ pc \notin {"warm", "wave"} => \A n \in Slots : lane[n] = "wait"

Control == InBudget /\ FilesWhole /\ LanesInStep

TypeInv == TypeOK /\ Control

USE RunAssumption, ScheduleAssumption DEF Slots

LEMMA MovedType ==
  ASSUME NEW p \in {0, 1}, NEW job \in {"therm", "meas"}, NEW n \in Slots,
         NEW m \in Member
  PROVE  Moved(p, job, n, m) \in Member
BY PhysicsAssumption DEF Moved, Member

LEMMA BudgetType == \A b \in RmBudgets : b \in 1 .. MaxIter
OBVIOUS

(* The control operators only ever assign a legal slot and program point.  *)
Landed == /\ ph' \in {0, 1} /\ it' \in 0 .. MaxIter
          /\ pc' \in {"wave", "open", "done"}
          /\ pc' = "wave" => it' < IF ph' = 0 THEN NNr ELSE nrm'

LEMMA ToRmLands ==
  ASSUME nrm' \in RmBudgets, NEW s \in 0 .. MaxIter, ToRm(s)
  PROVE  Landed
BY BudgetType DEF ToRm, Landed

LEMMA ToNrLands ==
  ASSUME nrm' \in RmBudgets, NEW k \in 0 .. MaxIter, ToNr(k)
  PROVE  Landed
<1>1. CASE k < NNr
  BY <1>1 DEF ToNr, Landed
<1>2. CASE ~(k < NNr)
  <2>1. CASE Checkpointing
    BY <1>2, <2>1 DEF ToNr, Save, Landed
  <2>2. CASE ~Checkpointing
    BY <1>2, <2>2, ToRmLands DEF ToNr, Save
  <2>3. QED BY <2>1, <2>2
<1>3. QED BY <1>1, <1>2

LEMMA NrDoneLands ==
  ASSUME nrm' \in RmBudgets, NEW k \in 0 .. NNr - 1, NrDone(k)
  PROVE  Landed
<1>0. k + 1 \in 0 .. MaxIter
  OBVIOUS
<1>1. CASE Periodic(k + 1) /\ Checkpointing
  BY <1>0, <1>1 DEF NrDone, Save, Landed
<1>2. CASE ~(Periodic(k + 1) /\ Checkpointing)
  BY <1>0, <1>2, ToNrLands DEF NrDone, Save
<1>3. QED BY <1>1, <1>2

LEMMA RmDoneLands ==
  ASSUME nrm' \in RmBudgets, nrm \in RmBudgets, NEW s \in 0 .. nrm - 1, RmDone(s)
  PROVE  Landed
<1>0. s + 1 \in 0 .. MaxIter
  BY BudgetType
<1>1. CASE (s + 1 = nrm \/ Periodic(s + 1)) /\ Checkpointing
  BY <1>0, <1>1 DEF RmDone, Save, Landed
<1>2. CASE ~((s + 1 = nrm \/ Periodic(s + 1)) /\ Checkpointing)
  BY <1>0, <1>2, ToRmLands DEF RmDone, Save
<1>3. QED BY <1>1, <1>2
-----------------------------------------------------------------------------
LEMMA InitTypeInv == Init => TypeInv
<1> SUFFICES ASSUME Init PROVE TypeInv
  OBVIOUS
<1>1. [n \in Slots |-> Fresh(n)] \in Members
  BY PhysicsAssumption DEF Members
<1>2. [n \in Slots |-> Fresh(n).a] \in [Slots -> Tilt]
  BY PhysicsAssumption DEF Member
<1>3. ExchSeed \in Rng
  BY PhysicsAssumption
<1>4. QED
  BY <1>1, <1>2, <1>3
     DEF Init, TypeInv, TypeOK, Control, InBudget, FilesWhole, LanesInStep, Idle

LEMMA LaunchTypeInv ==
  ASSUME TypeInv, Launch
  PROVE  TypeInv'
<1> USE DEF TypeInv, TypeOK
<1>1. CASE LaunchFresh
  <2>1. /\ nrm' \in RmBudgets /\ launches' \in 0 .. MaxLaunch
        /\ energy' \in [Slots -> Obs \cup {NoObs}] /\ lane' = Idle
        /\ deBuf' \in [Slots -> Obs \cup {NoObs}] /\ aBuf' \in [Slots -> Tilt]
        /\ xi' = 0 /\ wn' = 0 /\ tmp' = tmp /\ live' = live
    BY <1>1, PhysicsAssumption DEF LaunchFresh, Constructed, files, Member
  <2>2. reps' \in Members /\ exch' \in Rng
    BY <1>1, PhysicsAssumption DEF LaunchFresh, Members
  <2>3. Landed \/ (pc' = "warm" /\ ph' = 0 /\ it' = 0)
    BY <1>1, <2>1, ToNrLands DEF LaunchFresh
  <2>4. QED
    BY <2>1, <2>2, <2>3
       DEF Landed, Control, InBudget, FilesWhole, LanesInStep, Idle, File
<1>2. CASE LaunchResume
  <2>1. /\ nrm' \in RmBudgets /\ launches' \in 0 .. MaxLaunch
        /\ energy' \in [Slots -> Obs \cup {NoObs}] /\ lane' = Idle
        /\ deBuf' \in [Slots -> Obs \cup {NoObs}] /\ aBuf' \in [Slots -> Tilt]
        /\ xi' = 0 /\ wn' = 0 /\ tmp' = tmp /\ live' = live
    BY <1>2, PhysicsAssumption DEF LaunchResume, Constructed, files, Member
  <2>2. live \in File(N)
    BY <1>2 DEF LaunchResume, Control, InBudget, FilesWhole, LanesInStep
  <2>3. reps' \in Members /\ exch' \in Rng /\ live.head.it \in 0 .. MaxIter
    BY <1>2, <2>2 DEF LaunchResume, LoadedExch, File, Header, Members
  <2>4. Landed \/ (pc' = "warm" /\ ph' = 0 /\ it' = 0)
    BY <1>2, <2>1, <2>3, ToNrLands, ToRmLands DEF LaunchResume
  <2>5. QED
    BY <2>1, <2>2, <2>3, <2>4
       DEF Landed, Control, InBudget, FilesWhole, LanesInStep, Idle, File
<1>3. QED BY <1>1, <1>2 DEF Launch

LEMMA WorkTypeInv ==
  ASSUME TypeInv, NEW n \in Slots, Work(n)
  PROVE  TypeInv'
<1> USE DEF TypeInv, TypeOK, Control, InBudget, FilesWhole, LanesInStep, File
<1>0. reps[n] \in Member
  BY DEF Members
<1>1. CASE Pick(n)
  BY <1>1 DEF Pick, files
<1>2. CASE WarmReplica(n)
  <2>1. Seat(n, reps[n]) \in Member /\ Q(Seat(n, reps[n]).cfg) \in Obs
    BY <1>0, PhysicsAssumption DEF Member
  <2>2. QED BY <1>2, <2>1 DEF WarmReplica, Members, files
<1>3. CASE Thermalize(n)
  <2>1. /\ Thermalized(ph, n, reps[n]) \in Member
        /\ Q(Thermalized(ph, n, reps[n]).cfg) \in Obs
    BY <1>0, MovedType, PhysicsAssumption DEF Thermalized, Member
  <2>2. QED BY <1>3, <2>1 DEF Thermalize, Members, files
<1>4. CASE Sample(n)
  <2>1. /\ Sampled(ph, n, reps[n]) \in Member
        /\ Q(Sampled(ph, n, reps[n]).cfg) \in Obs
    BY <1>0, MovedType, PhysicsAssumption DEF Sampled, Member
  <2>2. MeanDE(ph, n, reps[n]) \in Obs
    BY <1>0, PhysicsAssumption
  <2>3. Update(ph, it, n, reps[n].a, MeanDE(ph, n, reps[n])) \in Tilt
    BY <1>0, <2>2, PhysicsAssumption DEF Member
  <2>4. deBuf' \in [Slots -> Obs \cup {NoObs}] /\ aBuf' \in [Slots -> Tilt]
    BY <1>4, <2>2, <2>3 DEF Sample
  <2>5. \A m \in Slots : lane'[m] = "done" => deBuf'[m] \in Obs
    BY <1>4, <2>2 DEF Sample
  <2>6. /\ reps' \in Members /\ energy' \in [Slots -> Obs \cup {NoObs}]
        /\ lane' \in [Slots -> {"wait", "therm", "meas", "done"}]
    BY <1>4, <2>1 DEF Sample, Members
  <2>7. UNCHANGED <<pc, ph, it, nrm, exch, xi, wn, files, launches>>
    BY <1>4 DEF Sample
  <2>8. TypeOK'
    BY <2>4, <2>6, <2>7 DEF files
  <2>9. InBudget' /\ FilesWhole'
    BY <2>7 DEF files
  <2>10. LanesInStep'
    BY <1>4, <2>5, <2>7 DEF Sample
  <2>11. QED BY <2>8, <2>9, <2>10
<1>5. QED BY <1>1, <1>2, <1>3, <1>4 DEF Work

LEMMA DrainedType ==
  ASSUME reps \in Members, NEW a \in [Slots -> Tilt]
  PROVE  Drained(a) \in Members
BY DEF Drained, Members, Member

LEMMA SwappedType ==
  ASSUME reps \in Members, NEW i \in Slots, NEW j \in Slots
  PROVE  SwappedFields(i, j) \in Members
<1>1. [reps EXCEPT ![i].cfg = reps[j].cfg] \in Members
  BY DEF Members, Member
<1>2. \A f \in Members, c \in Cfg : [f EXCEPT ![j].cfg = c] \in Members
  BY DEF Members, Member
<1>3. reps[i].cfg \in Cfg
  BY DEF Members, Member
<1>4. QED BY <1>1, <1>2, <1>3 DEF SwappedFields

LEMMA SerialTypeInv ==
  ASSUME TypeInv, Serial
  PROVE  TypeInv'
<1> USE DEF TypeInv, TypeOK
<1>1. CASE WarmDone
  <2>1. Landed
    BY <1>1, ToNrLands DEF WarmDone
  <2>2. QED
    BY <1>1, <2>1
       DEF WarmDone, Idle, Landed, Control, InBudget, FilesWhole, LanesInStep, File, files
<1>2. CASE DrainNr
  <2>1. Landed
    BY <1>2, NrDoneLands
       DEF DrainNr, Control, InBudget, FilesWhole, LanesInStep
  <2>2. reps' \in Members
    BY <1>2, DrainedType DEF DrainNr
  <2>3. QED
    BY <1>2, <2>1, <2>2
       DEF DrainNr, Idle, Landed, Control, InBudget, FilesWhole, LanesInStep, File, files
<1>3. CASE DrainRm
  <2>0. it \in 0 .. nrm - 1 /\ FirstPair(it) \in {0, 1}
    BY <1>3, BudgetType
       DEF DrainRm, Control, InBudget, FilesWhole, LanesInStep, FirstPair
  <2>1. Landed \/ (pc' = "exch" /\ ph' = 1 /\ it' = it /\ xi' + 1 < N)
    <3>1. CASE Exchange /\ FirstPair(it) + 1 < N
      BY <1>3, <3>1 DEF DrainRm
    <3>2. CASE ~(Exchange /\ FirstPair(it) + 1 < N)
      <4>1. nrm' \in RmBudgets /\ RmDone(it)
        BY <1>3, <3>2 DEF DrainRm
      <4>2. QED BY <2>0, <4>1, RmDoneLands
    <3>3. QED BY <3>1, <3>2
  <2>2. aBuf' \in [Slots -> Tilt]
    <3>1. CASE Smoothed
      <4>1. \A n \in Slots : deBuf[n] \in Obs
        BY <1>3 DEF DrainRm, Joined, Control, InBudget, FilesWhole, LanesInStep
      <4>2. [n \in Slots |-> Update(1, it, n, reps[n].a, deBuf[n])] \in [Slots -> Tilt]
        BY <4>1, PhysicsAssumption DEF Members, Member
      <4>3. QED BY <1>3, <3>1, <4>2, ShrinkAssumption DEF DrainRm, SmoothedTilts
    <3>2. CASE ~Smoothed
      BY <1>3, <3>2 DEF DrainRm
    <3>3. QED BY <3>1, <3>2
  <2>3. reps' \in Members
    BY <1>3, <2>2, DrainedType DEF DrainRm
  <2>4. /\ nrm' = nrm /\ xi' \in Nat /\ lane' = Idle
        /\ UNCHANGED <<energy, deBuf, exch, wn, tmp, live, launches>>
    BY <1>3, <2>0 DEF DrainRm, files
  <2>5. pc' # "write"
    BY <2>1 DEF Landed
  <2>6. ph' \in {0, 1} /\ it' \in 0 .. MaxIter
    BY <2>1 DEF Landed
  <2>7. TypeOK'
    BY <2>1, <2>2, <2>3, <2>4, <2>6 DEF Idle, Landed, File
  <2>8. Control'
    <3>1. InBudget'
      BY <1>3, <2>0, <2>1, <2>4 DEF Landed, InBudget, DrainRm
    <3>2. FilesWhole'
      BY <2>4, <2>5 DEF Control, FilesWhole, File
    <3>3. LanesInStep'
      BY <2>4 DEF Idle, LanesInStep
    <3>4. QED BY <3>1, <3>2, <3>3 DEF Control
  <2>9. QED BY <2>7, <2>8
<1>4. CASE ExchangePair
  <2>0. it \in 0 .. nrm - 1 /\ xi \in Slots /\ xi + 1 \in Slots
    BY <1>4, BudgetType
       DEF ExchangePair, Control, InBudget, FilesWhole, LanesInStep
  <2>1. Landed \/ (pc' = "exch" /\ ph' = 1 /\ it' = it /\ xi' + 1 < N)
    <3>1. CASE xi + 3 < N
      BY <1>4, <3>1
         DEF ExchangePair, Control, InBudget, FilesWhole, LanesInStep
    <3>2. CASE ~(xi + 3 < N)
      <4>1. nrm' \in RmBudgets /\ RmDone(it)
        BY <1>4, <3>2 DEF ExchangePair
      <4>2. QED BY <2>0, <4>1, RmDoneLands
    <3>3. QED BY <3>1, <3>2
  <2>2. SwappedFields(xi, xi + 1) \in Members
    BY <2>0, SwappedType
  <2>3. SwappedCaches(xi, xi + 1) \in [Slots -> Obs \cup {NoObs}]
    BY <2>0 DEF SwappedCaches
  <2>4. exch' \in Rng /\ reps' \in Members /\ energy' \in [Slots -> Obs \cup {NoObs}]
    BY <1>4, <2>2, <2>3, PhysicsAssumption DEF ExchangePair, TryExchange
  <2>5. /\ nrm' = nrm /\ xi' \in Nat
        /\ UNCHANGED <<lane, deBuf, aBuf, wn, tmp, live, launches>>
    BY <1>4, <2>0 DEF ExchangePair, files
  <2>6. ph' \in {0, 1} /\ it' \in 0 .. MaxIter /\ pc' # "write"
    BY <2>1 DEF Landed
  <2>7. TypeOK'
    BY <2>1, <2>4, <2>5, <2>6 DEF Landed, File
  <2>8. Control'
    <3>1. InBudget'
      <4>1. CASE Landed
        BY <4>1 DEF Landed, InBudget
      <4>2. CASE pc' = "exch" /\ ph' = 1 /\ it' = it /\ xi' + 1 < N
        <5>1. it < nrm
          BY <1>4 DEF ExchangePair, Control, InBudget
        <5>2. QED BY <2>5, <4>2, <5>1 DEF InBudget
      <4>3. QED BY <2>1, <4>1, <4>2
    <3>2. FilesWhole'
      BY <2>5, <2>6 DEF Control, FilesWhole, File
    <3>3. LanesInStep'
      BY <1>4, <2>5 DEF ExchangePair, Control, LanesInStep
    <3>4. QED BY <3>1, <3>2, <3>3 DEF Control
  <2>9. QED BY <2>7, <2>8
<1>5. QED BY <1>1, <1>2, <1>3, <1>4 DEF Serial

LEMMA SavingTypeInv ==
  ASSUME TypeInv, Saving
  PROVE  TypeInv'
<1> USE DEF TypeInv, TypeOK
<1>1. CASE OpenTmp
  <2>1. tmp' \in File(0)
    BY <1>1 DEF OpenTmp, File, Header
  <2>2. /\ wn' = 0 /\ pc' = "write"
        /\ UNCHANGED <<ph, it, nrm, reps, energy, lane, deBuf, aBuf, exch, xi, live, launches>>
    BY <1>1 DEF OpenTmp
  <2>3. (\E k \in 0 .. N : tmp \in File(k))'
    BY <2>1
  <2>4. TypeOK'
    BY <2>2, <2>3 DEF File
  <2>5. Control'
    BY <1>1, <2>1, <2>2
       DEF OpenTmp, Control, InBudget, FilesWhole, LanesInStep, File
  <2>6. QED BY <2>4, <2>5
<1>2. CASE WriteMember
  <2>1. tmp \in File(wn) /\ wn \in Slots
    BY <1>2 DEF WriteMember, Control, InBudget, FilesWhole, LanesInStep
  <2>2. [n \in 0 .. wn |-> IF n < wn THEN tmp.saved[n] ELSE reps[n]]
          \in [0 .. wn -> Member]
    BY <2>1 DEF File, Members
  <2>3. tmp' = [head  |-> tmp.head,
                saved |-> [n \in 0 .. wn |-> IF n < wn THEN tmp.saved[n] ELSE reps[n]]]
    BY <1>2 DEF WriteMember
  <2>4. tmp' \in File(wn + 1)
    BY <2>1, <2>2, <2>3 DEF File
  <2>5. /\ pc = "write" /\ pc' = "write" /\ wn' = wn + 1
        /\ UNCHANGED <<ph, it, nrm, reps, energy, lane, deBuf, aBuf, exch, xi, live, launches>>
    BY <1>2 DEF WriteMember
  <2>6. (\E k \in 0 .. N : tmp \in File(k))'
    BY <2>1, <2>4
  <2>7. TypeOK'
    BY <2>1, <2>5, <2>6 DEF File
  <2>8. Control'
    BY <2>4, <2>5 DEF Control, InBudget, FilesWhole, LanesInStep, File
  <2>9. QED BY <2>7, <2>8
<1>3. CASE Rename
  <2>1. tmp \in File(N)
    BY <1>3 DEF Rename, Control, InBudget, FilesWhole, LanesInStep, AllWritten
  <2>2. Landed
    BY <1>3, ToNrLands, ToRmLands DEF Rename, AfterSave
  <2>3. /\ pc = "write" /\ live' = tmp /\ tmp' = NoFile
        /\ UNCHANGED <<nrm, reps, energy, lane, deBuf, aBuf, exch, xi, wn, launches>>
    BY <1>3 DEF Rename
  <2>4. (\E k \in 0 .. N : live \in File(k))'
    BY <2>1, <2>3 DEF File
  <2>5. TypeOK'
    BY <2>2, <2>3, <2>4 DEF Landed
  <2>6. Control'
    BY <2>1, <2>2, <2>3
       DEF Landed, Control, InBudget, FilesWhole, LanesInStep, File
  <2>7. QED BY <2>5, <2>6
<1>4. QED BY <1>1, <1>2, <1>3 DEF Saving

LEMMA CrashTypeInv ==
  ASSUME TypeInv, Crash
  PROVE  TypeInv'
<1>1. [n \in Slots |-> Fresh(n)] \in Members
  BY PhysicsAssumption DEF Members
<1>2. [n \in Slots |-> Fresh(n).a] \in [Slots -> Tilt]
  BY PhysicsAssumption DEF Member
<1>3. ExchSeed \in Rng
  BY PhysicsAssumption
<1>4. /\ pc' = "down" /\ ph' = 0 /\ it' = 0 /\ xi' = 0 /\ wn' = 0 /\ lane' = Idle
      /\ energy' = [n \in Slots |-> NoObs] /\ deBuf' = [n \in Slots |-> NoObs]
      /\ UNCHANGED <<nrm, tmp, live, launches>>
  BY DEF Crash, files
<1>5. reps' \in Members /\ aBuf' \in [Slots -> Tilt] /\ exch' \in Rng
  BY <1>1, <1>2, <1>3 DEF Crash
<1>6. TypeOK'
  BY <1>4, <1>5 DEF TypeInv, TypeOK, Idle, File
<1>7. Control'
  BY <1>4 DEF TypeInv, Control, InBudget, FilesWhole, LanesInStep, Idle, File
<1>8. QED BY <1>6, <1>7 DEF TypeInv

LEMMA StepTypeInv == TypeInv /\ [Next]_vars => TypeInv'
<1> SUFFICES ASSUME TypeInv, [Next]_vars PROVE TypeInv'
  OBVIOUS
<1>1. CASE UNCHANGED vars
  BY <1>1
     DEF vars, volatile, files, TypeInv, TypeOK, Control, InBudget, FilesWhole, LanesInStep, File
<1>2. CASE Next
  BY <1>2, LaunchTypeInv, WorkTypeInv, SerialTypeInv, SavingTypeInv, CrashTypeInv
     DEF Next
<1>3. QED BY <1>1, <1>2

(* Every variable stays in its type: slots, budgets, indices and files.    *)
THEOREM TypeCorrect == Spec => []TypeOK
<1>1. TypeInv => TypeOK
  BY DEF TypeInv
<1>2. QED BY <1>1, InitTypeInv, StepTypeInv, PTL DEF Spec
-----------------------------------------------------------------------------
HIDE DEF Slots

(* A file in place holds every replica.                                    *)
THEOREM LiveFileComplete == Spec => []LiveNeverTruncated
<1>1. TypeInv => LiveNeverTruncated
  BY DEF TypeInv, Control, FilesWhole, File, LiveNeverTruncated, Complete, Slots
<1>2. QED BY <1>1, InitTypeInv, StepTypeInv, PTL DEF Spec
-----------------------------------------------------------------------------
(* Energy caches.  A slot's cache is empty or right; it is right once the  *)
(* slot has thermalized in this wave, hence everywhere when the wave has   *)
(* joined and the exchange begins.                                         *)
Right(n) == energy[n] = Q(reps[n].cfg)

EnergyInv ==
  /\ \A n \in Slots : Right(n) \/ energy[n] = NoObs
  /\ pc = "wave" => \A n \in Slots : lane[n] \in {"meas", "done"} => Right(n)
  /\ pc = "exch" => \A n \in Slots : Right(n)

LEMMA InitEnergyInv == Init => EnergyInv
BY DEF Init, EnergyInv

LEMMA LaunchEnergyInv ==
  ASSUME TypeInv, EnergyInv, Launch
  PROVE  EnergyInv'
<1>1. energy' = [n \in Slots |-> NoObs] /\ lane' = Idle
  BY DEF Launch, LaunchFresh, LaunchResume, Constructed
<1>2. pc' # "exch"
  BY DEF Launch, LaunchFresh, LaunchResume, ToNr, ToRm, Save
<1>3. QED BY <1>1, <1>2 DEF EnergyInv, Idle

LEMMA WorkEnergyInv ==
  ASSUME TypeInv, EnergyInv, NEW n \in Slots, Work(n)
  PROVE  EnergyInv'
<1> USE DEF TypeInv, TypeOK, Members
<1>1. CASE Pick(n)
  BY <1>1 DEF Pick, EnergyInv, Right
<1>2. CASE WarmReplica(n)
  BY <1>2 DEF WarmReplica, EnergyInv, Right
<1>3. CASE Thermalize(n)
  BY <1>3 DEF Thermalize, EnergyInv, Right
<1>4. CASE Sample(n)
  BY <1>4 DEF Sample, EnergyInv, Right
<1>5. QED BY <1>1, <1>2, <1>3, <1>4 DEF Work

LEMMA SerialEnergyInv ==
  ASSUME TypeInv, EnergyInv, Serial
  PROVE  EnergyInv'
<1> USE DEF TypeInv, TypeOK
<1>1. CASE WarmDone
  <2>1. pc' # "exch"
    BY <1>1 DEF WarmDone, ToNr, ToRm, Save
  <2>2. QED BY <1>1, <2>1 DEF WarmDone, EnergyInv, Right, Idle
<1>2. CASE DrainNr
  <2>1. pc' # "exch"
    BY <1>2 DEF DrainNr, NrDone, ToNr, ToRm, Save
  <2>2. \A n \in Slots : reps'[n].cfg = reps[n].cfg
    BY <1>2 DEF DrainNr, Drained, Members, Member
  <2>3. lane' = Idle /\ energy' = energy
    BY <1>2 DEF DrainNr
  <2>4. QED BY <2>1, <2>2, <2>3 DEF EnergyInv, Right, Idle
<1>3. CASE DrainRm
  <2>1. \A n \in Slots : Right(n)
    BY <1>3 DEF DrainRm, Joined, EnergyInv
  <2>2. \A n \in Slots : reps'[n].cfg = reps[n].cfg
    <3>1. reps' = Drained(aBuf')
      BY <1>3 DEF DrainRm
    <3>2. QED BY <3>1 DEF Drained, Members, Member
  <2>3. energy' = energy
    BY <1>3 DEF DrainRm
  <2>4. QED BY <2>1, <2>2, <2>3 DEF EnergyInv, Right
<1>4. CASE ExchangePair
  <2>1. xi \in Slots /\ xi + 1 \in Slots /\ \A n \in Slots : Right(n)
    BY <1>4, RunAssumption DEF ExchangePair, Control, InBudget, EnergyInv, Slots
  <2>2. CASE UNCHANGED <<reps, energy>>
    BY <2>1, <2>2 DEF EnergyInv, Right
  <2>3. CASE reps' = SwappedFields(xi, xi + 1) /\ energy' = SwappedCaches(xi, xi + 1)
    <3>1. /\ reps'[xi].cfg = reps[xi + 1].cfg
          /\ reps'[xi + 1].cfg = reps[xi].cfg
          /\ \A n \in Slots \ {xi, xi + 1} : reps'[n] = reps[n]
      BY <2>1, <2>3 DEF SwappedFields, Members, Member
    <3>2. /\ energy'[xi] = energy[xi + 1] /\ energy'[xi + 1] = energy[xi]
          /\ \A n \in Slots \ {xi, xi + 1} : energy'[n] = energy[n]
      BY <2>1, <2>3 DEF SwappedCaches
    <3>3. \A n \in Slots : Right(n)'
      BY <2>1, <3>1, <3>2 DEF Right
    <3>4. QED BY <3>3 DEF EnergyInv
  <2>4. QED BY <1>4, <2>2, <2>3 DEF ExchangePair, TryExchange
<1>5. QED BY <1>1, <1>2, <1>3, <1>4 DEF Serial

LEMMA SavingEnergyInv ==
  ASSUME TypeInv, EnergyInv, Saving
  PROVE  EnergyInv'
<1>1. UNCHANGED <<reps, energy, lane>>
  BY DEF Saving, OpenTmp, WriteMember, Rename
<1>2. pc' # "exch"
  BY DEF Saving, OpenTmp, WriteMember, Rename, AfterSave, ToNr, ToRm, Save
<1>3. \A n \in Slots : lane[n] = "wait"
  BY DEF Saving, OpenTmp, WriteMember, Rename, TypeInv, Control, LanesInStep
<1>4. QED BY <1>1, <1>2, <1>3 DEF EnergyInv, Right

LEMMA StepEnergyInv == TypeInv /\ EnergyInv /\ [Next]_vars => EnergyInv'
<1> SUFFICES ASSUME TypeInv, EnergyInv, [Next]_vars PROVE EnergyInv'
  OBVIOUS
<1>1. CASE UNCHANGED vars
  BY <1>1 DEF vars, volatile, EnergyInv, Right
<1>2. CASE Crash
  BY <1>2 DEF Crash, EnergyInv
<1>3. CASE Next /\ ~Crash
  BY <1>3, LaunchEnergyInv, WorkEnergyInv, SerialEnergyInv, SavingEnergyInv DEF Next
<1>4. QED BY <1>1, <1>2, <1>3

(* The exchange reads energies of the fields the slots hold now.           *)
THEOREM ExchangeReadsTheField == Spec => []EnergyFollowsField
<1>1. EnergyInv => EnergyFollowsField
  BY DEF EnergyInv, EnergyFollowsField, Right
<1>2. QED
  BY <1>1, InitTypeInv, StepTypeInv, InitEnergyInv, StepEnergyInv, PTL DEF Spec
-----------------------------------------------------------------------------
(* Walkers.  The ensemble in memory and the one in the file are both       *)
(* permutations of the chains, and while a checkpoint is being written the *)
(* file and the memory agree on what has been written.                     *)
Permuted(f) ==
  /\ \A n \in Slots : Walker(f[n].cfg) \in Slots
  /\ Injective(f)

WalkInv ==
  /\ Permuted(reps)
  /\ live # NoFile => Permuted(live.saved)
  /\ pc = "write" => \A n \in 0 .. wn - 1 : tmp.saved[n] = reps[n]

FreshReps == [n \in Slots |-> Fresh(n)]

LEMMA FreshPermuted == Permuted(FreshReps)
BY WalkerAssumption DEF FreshReps, Permuted, Injective

LEMMA SameWalkers ==
  ASSUME NEW f, NEW g, Permuted(f),
         \A n \in Slots : Walker(g[n].cfg) = Walker(f[n].cfg)
  PROVE  Permuted(g)
BY DEF Permuted, Injective

LEMMA InitWalkInv == Init => WalkInv
BY FreshPermuted DEF Init, WalkInv, FreshReps

LEMMA LaunchWalkInv ==
  ASSUME TypeInv, WalkInv, Launch
  PROVE  WalkInv'
<1>1. live' = live /\ pc' # "write"
  BY DEF Launch, LaunchFresh, LaunchResume, Constructed, files, ToNr, ToRm, Save
<1>2. Permuted(reps')
  <2>1. CASE LaunchFresh
    BY <2>1, FreshPermuted DEF LaunchFresh, FreshReps
  <2>2. CASE LaunchResume
    BY <2>2 DEF LaunchResume, WalkInv
  <2>3. QED BY <2>1, <2>2 DEF Launch
<1>3. QED BY <1>1, <1>2 DEF WalkInv, Permuted, Injective

LEMMA MovedWalker ==
  ASSUME NEW p \in {0, 1}, NEW job \in {"therm", "meas"}, NEW n \in Slots,
         NEW m \in Member
  PROVE  Walker(Moved(p, job, n, m).cfg) = Walker(m.cfg)
BY WalkerAssumption DEF Moved

LEMMA WorkWalkInv ==
  ASSUME TypeInv, WalkInv, NEW n \in Slots, Work(n)
  PROVE  WalkInv'
<1>1. live' = live /\ pc' = pc /\ pc # "write"
  BY DEF Work, Pick, WarmReplica, Thermalize, Sample, files
<1>2. reps \in Members /\ reps[n] \in Member /\ ph \in {0, 1}
  BY DEF TypeInv, TypeOK, Members
<1>3. \A k \in Slots : Walker(reps'[k].cfg) = Walker(reps[k].cfg)
  <2>1. CASE Pick(n)
    BY <2>1 DEF Pick
  <2>2. CASE WarmReplica(n)
    BY <1>2, <2>2, WalkerAssumption DEF WarmReplica, Members
  <2>3. CASE Thermalize(n)
    BY <1>2, <2>3, MovedWalker DEF Thermalize, Thermalized, Members
  <2>4. CASE Sample(n)
    BY <1>2, <2>4, MovedWalker DEF Sample, Sampled, Members
  <2>5. QED BY <2>1, <2>2, <2>3, <2>4 DEF Work
<1>4. Permuted(reps')
  BY <1>3, SameWalkers DEF WalkInv
<1>5. QED BY <1>1, <1>4 DEF WalkInv, Permuted, Injective

LEMMA SwapPermutes ==
  ASSUME reps \in Members, Permuted(reps), NEW i \in Slots, NEW j \in Slots, i # j
  PROVE  Permuted(SwappedFields(i, j))
<1>1. /\ SwappedFields(i, j)[i].cfg = reps[j].cfg
      /\ SwappedFields(i, j)[j].cfg = reps[i].cfg
      /\ \A n \in Slots \ {i, j} : SwappedFields(i, j)[n] = reps[n]
  BY DEF SwappedFields, Members, Member
<1>2. QED BY <1>1 DEF Permuted, Injective

LEMMA SerialWalkInv ==
  ASSUME TypeInv, WalkInv, Serial
  PROVE  WalkInv'
<1> USE DEF TypeInv, TypeOK
<1>1. live' = live /\ pc' # "write"
  BY DEF Serial, WarmDone, DrainNr, DrainRm, ExchangePair, files,
         NrDone, RmDone, ToNr, ToRm, Save
<1>2. CASE WarmDone
  BY <1>1, <1>2 DEF WarmDone, WalkInv, Permuted, Injective
<1>3. CASE DrainNr \/ DrainRm
  <2>1. reps' = Drained(aBuf')
    BY <1>3 DEF DrainNr, DrainRm
  <2>2. \A n \in Slots : reps'[n].cfg = reps[n].cfg
    BY <2>1 DEF Drained, Members, Member
  <2>3. Permuted(reps')
    BY <2>2, SameWalkers DEF WalkInv
  <2>4. QED BY <1>1, <2>3 DEF WalkInv, Permuted, Injective
<1>4. CASE ExchangePair
  <2>1. xi \in Slots /\ xi + 1 \in Slots /\ xi # xi + 1
    BY <1>4, RunAssumption DEF ExchangePair, Control, InBudget, Slots
  <2>2. reps' = reps \/ reps' = SwappedFields(xi, xi + 1)
    BY <1>4 DEF ExchangePair, TryExchange
  <2>3. Permuted(reps')
    BY <2>1, <2>2, SwapPermutes DEF WalkInv
  <2>4. QED BY <1>1, <2>3 DEF WalkInv, Permuted, Injective
<1>5. QED BY <1>2, <1>3, <1>4 DEF Serial

LEMMA SavingWalkInv ==
  ASSUME TypeInv, WalkInv, Saving
  PROVE  WalkInv'
<1> USE RunAssumption DEF TypeInv, TypeOK
<1>1. CASE OpenTmp
  BY <1>1 DEF OpenTmp, WalkInv, Permuted, Injective
<1>2. CASE WriteMember
  <2>1. \A n \in 0 .. wn : tmp'.saved[n] = reps[n]
    BY <1>2 DEF WriteMember, WalkInv
  <2>2. wn' = wn + 1 /\ reps' = reps /\ live' = live
    BY <1>2 DEF WriteMember
  <2>3. QED BY <2>1, <2>2 DEF WalkInv, Permuted, Injective
<1>3. CASE Rename
  <2>1. reps' = reps /\ live' = tmp /\ pc' # "write" /\ pc = "write" /\ wn = N
    BY <1>3 DEF Rename, AllWritten, AfterSave, ToNr, ToRm, Save
  <2>2. \A n \in Slots : tmp.saved[n] = reps[n]
    BY <2>1 DEF WalkInv, Slots
  <2>3. Permuted(tmp.saved)
    BY <2>2, SameWalkers DEF WalkInv
  <2>4. QED BY <2>1, <2>3 DEF WalkInv, Permuted, Injective
<1>4. QED BY <1>1, <1>2, <1>3 DEF Saving

LEMMA StepWalkInv == TypeInv /\ WalkInv /\ [Next]_vars => WalkInv'
<1> SUFFICES ASSUME TypeInv, WalkInv, [Next]_vars PROVE WalkInv'
  OBVIOUS
<1>1. CASE UNCHANGED vars
  BY <1>1 DEF vars, volatile, files, WalkInv, Permuted, Injective
<1>2. CASE Crash
  BY <1>2, FreshPermuted DEF Crash, files, WalkInv, FreshReps, Permuted, Injective
<1>3. CASE Next /\ ~Crash
  BY <1>3, LaunchWalkInv, WorkWalkInv, SerialWalkInv, SavingWalkInv DEF Next
<1>4. QED BY <1>1, <1>2, <1>3

(* No chain is ever lost or held twice.                                    *)
THEOREM ChainsPermuted == Spec => []WalkersPermuted
<1>1. WalkInv => WalkersPermuted
  BY DEF WalkInv, WalkersPermuted, Permuted
<1>2. QED
  BY <1>1, InitTypeInv, StepTypeInv, InitWalkInv, StepWalkInv, PTL DEF Spec
-----------------------------------------------------------------------------
(* Lost work.  Since the last multiple of Every, counted in the phase the  *)
(* run is in, a checkpoint has been put in place; the iteration that       *)
(* completes a period is saved before the next begins, and the file being  *)
(* written is of the slot about to be saved.                               *)
Base == IF ph = 0 THEN 0 ELSE NNr

Within(kept, base, k) ==
  \E q \in Nat : base + Every * q <= kept /\ k < Every * q + Every

StartInv == pc \in {"down", "warm"} => ph = 0 /\ it = 0

LossInv ==
  Checkpointing =>
    /\ pc = "write" => tmp.head.ph = ph /\ tmp.head.it = it
    /\ pc = "done" => Lost = 0
    /\ Every > 0 /\ pc \in {"wave", "exch"} => Within(Kept, Base, it)
    /\ Every > 0 /\ pc \in {"open", "write"} => Lost <= Every

LEMMA Euclid ==
  ASSUME NEW e \in Nat \ {0}, NEW k \in Nat
  PROVE  \E q \in Nat : e * q <= k /\ k < e * q + e
<1>1. k \div e \in Nat /\ e * (k \div e) <= k /\ k < e * (k \div e) + e
  BY SMTT(30)
<1>2. QED BY <1>1

LEMMA NoMultipleBetween ==
  ASSUME NEW e \in Nat \ {0}, NEW k \in Nat, NEW q \in Nat,
         k < e * q + e, (k + 1) % e # 0
  PROVE  k + 1 < e * q + e
<1>1. \A r \in Int : (e * r + 0) % e = 0
  BY SMTT(30)
<1>2. e * q \in Nat /\ e * (q + 1) + 0 = e * q + e
  OBVIOUS
<1>3. k + 1 # e * q + e
  BY <1>1, <1>2
<1>4. QED BY <1>2, <1>3

LEMMA KeptNat == TypeInv => Kept \in Nat
<1> SUFFICES ASSUME TypeInv PROVE Kept \in Nat
  OBVIOUS
<1>1. CASE live = NoFile
  BY <1>1 DEF Kept
<1>2. CASE live # NoFile
  <2>1. live \in File(N)
    BY <1>2 DEF TypeInv, Control, FilesWhole
  <2>2. live.head \in Header
    BY <2>1 DEF File
  <2>3. live.head.it \in Nat
    BY <2>2, RunAssumption DEF Header
  <2>4. QED BY <1>2, <2>3, RunAssumption DEF Kept, Position
<1>3. QED BY <1>1, <1>2

(* The start of a run, and a slot that was just put in place, are within   *)
(* a period of the file.                                                   *)
LEMMA ZeroWithin ==
  ASSUME NEW kept \in Nat, Every > 0
  PROVE  Within(kept, 0, 0)
<1>1. Every * 0 = 0
  BY ScheduleAssumption
<1>2. 0 + Every * 0 <= kept /\ 0 < Every * 0 + Every
  BY <1>1, ScheduleAssumption
<1>3. \E q \in Nat : 0 + Every * q <= kept /\ 0 < Every * q + Every
  <2> WITNESS 0 \in Nat
  <2> QED BY <1>2
<1>4. QED BY <1>3 DEF Within

LEMMA SavedWithin ==
  ASSUME NEW base \in Nat, NEW k \in Nat, Every > 0
  PROVE  Within(base + k, base, k)
<1>e. Every \in Nat \ {0}
  BY ScheduleAssumption
<1>w. \E q \in Nat : Every * q <= k /\ k < Every * q + Every
  BY <1>e, Euclid
<1>1. PICK q \in Nat : Every * q <= k /\ k < Every * q + Every
  BY <1>w
<1>2. Every * q \in Int
  BY ScheduleAssumption
<1>3. base + Every * q <= base + k
  BY <1>1, <1>2
<1>4. QED BY <1>1, <1>3 DEF Within

LEMMA NextWithin ==
  ASSUME NEW kept \in Nat, NEW base \in Nat, NEW k \in Nat, Every > 0,
         Within(kept, base, k), ~Periodic(k + 1)
  PROVE  Within(kept, base, k + 1)
<1>1. PICK q \in Nat : base + Every * q <= kept /\ k < Every * q + Every
  BY DEF Within
<1>e. Every \in Nat \ {0} /\ (k + 1) % Every # 0
  BY ScheduleAssumption DEF Periodic
<1>2. k + 1 < Every * q + Every
  BY <1>1, <1>e, NoMultipleBetween
<1>3. QED BY <1>1, <1>2 DEF Within

(* Within a period of the file, the iterations it lacks are less than a    *)
(* period; one more makes at most a period.                                *)
LEMMA WithinLoss ==
  ASSUME NEW kept \in Nat, NEW base \in Nat, NEW k \in Nat, Every > 0,
         Within(kept, base, k)
  PROVE  base + k - kept < Every /\ base + (k + 1) - kept <= Every
<1>1. PICK q \in Nat : base + Every * q <= kept /\ k < Every * q + Every
  BY DEF Within
<1>2. Every * q \in Int /\ Every \in Int
  BY ScheduleAssumption
<1>3. QED BY <1>1, <1>2

LEMMA StepStartInv == StartInv /\ [Next]_vars => StartInv'
<1> SUFFICES ASSUME StartInv, [Next]_vars, pc' \in {"down", "warm"}
             PROVE  ph' = 0 /\ it' = 0
  BY DEF StartInv
<1>1. CASE UNCHANGED vars \/ \E n \in Slots : Work(n)
  BY <1>1 DEF vars, volatile, StartInv, Work, Pick, WarmReplica, Thermalize, Sample
<1>2. CASE Crash
  BY <1>2 DEF Crash
<1>3. CASE Launch
  BY <1>3 DEF Launch, LaunchFresh, LaunchResume, ToNr, ToRm, Save
<1>4. CASE Serial
  <2>1. CASE WarmDone \/ DrainNr
    BY <2>1 DEF WarmDone, DrainNr, NrDone, ToNr, ToRm, Save
  <2>2. CASE DrainRm \/ ExchangePair
    BY <2>2 DEF DrainRm, ExchangePair, RmDone, ToRm, Save
  <2>3. QED BY <1>4, <2>1, <2>2 DEF Serial
<1>5. CASE Saving
  BY <1>5 DEF Saving, OpenTmp, WriteMember, Rename, AfterSave, ToNr, ToRm, Save
<1>6. QED BY <1>1, <1>2, <1>3, <1>4, <1>5 DEF Next

(* The beginning of the schedule: nothing has been computed.               *)
Begun == \/ pc' = "wave" /\ ph' = 0 /\ it' = 0
         \/ pc' = "open" /\ ph' = 1 /\ it' = 0 /\ NNr = 0

LEMMA BegunLossInv ==
  ASSUME TypeInv, Begun, Kept' = Kept
  PROVE  LossInv'
<1>1. Kept \in Nat /\ Kept' \in Nat
  BY KeptNat
<1>2. CASE pc' = "wave" /\ ph' = 0 /\ it' = 0
  <2>1. Base' = 0
    BY <1>2 DEF Base
  <2>2. Every > 0 => Within(Kept', Base', it')
    BY <1>1, <1>2, <2>1, ZeroWithin
  <2>3. QED BY <1>2, <2>2 DEF LossInv
<1>3. CASE pc' = "open" /\ ph' = 1 /\ it' = 0 /\ NNr = 0
  <2>1. Lost' = 0 - Kept'
    BY <1>1, <1>3 DEF Lost, Position
  <2>2. QED BY <1>1, <1>3, <2>1, ScheduleAssumption DEF LossInv
<1>4. QED BY <1>2, <1>3 DEF Begun

LEMMA LaunchLossInv ==
  ASSUME TypeInv, Launch, Checkpointing
  PROVE  LossInv'
<1> USE RunAssumption
<1>1. live' = live /\ Kept' = Kept /\ Kept \in Nat
  BY KeptNat DEF Launch, LaunchFresh, LaunchResume, Constructed, files, Kept, Position
<1>2. CASE LaunchFresh
  <2>1. pc' = "warm" \/ Begun
    BY <1>2 DEF LaunchFresh, ToNr, Save, Begun
  <2>2. QED BY <1>1, <2>1, BegunLossInv DEF LossInv
<1>3. CASE LaunchResume
  <2>1. /\ live # NoFile /\ live.head.ph \in {0, 1} /\ live.head.it \in Nat
    BY <1>3 DEF LaunchResume, TypeInv, Control, FilesWhole, File, Header
  <2>2. \/ pc' = "warm"
        \/ pc' = "wave" /\ ph' = live.head.ph /\ it' = live.head.it
        \/ pc' = "done" /\ ph' = 1 /\ live.head.ph = 1 /\ it' = live.head.it
        \/ pc' = "open" /\ ph' = 1 /\ it' = 0 /\ live.head.ph = 0 /\ NNr <= live.head.it
    BY <1>3, <2>1 DEF LaunchResume, ToNr, ToRm, Save
  <2>3. Kept = (IF live.head.ph = 0 THEN 0 ELSE NNr) + live.head.it
    BY <2>1 DEF Kept, Position
  <2>4. CASE pc' = "warm"
    BY <2>4 DEF LossInv
  <2>5. CASE pc' = "wave" /\ ph' = live.head.ph /\ it' = live.head.it
    <3>1. Base' = IF live.head.ph = 0 THEN 0 ELSE NNr
      BY <2>5 DEF Base
    <3>2. Base' \in Nat
      BY <3>1
    <3>3. Every > 0 => Within(Kept', Base', it')
      BY <1>1, <2>1, <2>3, <2>5, <3>1, <3>2, SavedWithin
    <3>4. QED BY <2>5, <3>3 DEF LossInv
  <2>6. CASE pc' = "done" /\ ph' = 1 /\ live.head.ph = 1 /\ it' = live.head.it
    <3>1. Lost' = 0
      BY <1>1, <2>1, <2>3, <2>6 DEF Lost, Position
    <3>2. QED BY <2>6, <3>1 DEF LossInv
  <2>7. CASE pc' = "open" /\ ph' = 1 /\ it' = 0 /\ live.head.ph = 0 /\ NNr <= live.head.it
    <3>1. Lost' = NNr - live.head.it
      BY <1>1, <2>1, <2>3, <2>7 DEF Lost, Position
    <3>2. Every > 0 => Lost' <= Every
      BY <2>1, <2>7, <3>1, ScheduleAssumption
    <3>3. QED BY <2>7, <3>2 DEF LossInv
  <2>8. QED BY <2>2, <2>4, <2>5, <2>6, <2>7
<1>4. QED BY <1>2, <1>3 DEF Launch

(* A wave that ends completes one iteration more.                          *)
LEMMA SerialLossInv ==
  ASSUME TypeInv, LossInv, Serial, Checkpointing
  PROVE  LossInv'
<1> USE RunAssumption
<1>1. /\ live' = live /\ Kept' = Kept /\ Kept \in Nat /\ it \in Nat
  BY KeptNat DEF Serial, WarmDone, DrainNr, DrainRm, ExchangePair, files, Kept,
                 Position, TypeInv, TypeOK
<1>2. CASE WarmDone
  <2>1. Begun
    BY <1>2 DEF WarmDone, ToNr, Save, Begun
  <2>2. QED BY <1>1, <2>1, BegunLossInv
<1>3. CASE DrainNr
  <2>1. it < NNr /\ (Every > 0 => Within(Kept, 0, it))
    BY <1>3 DEF DrainNr, LossInv, Base, TypeInv, Control, InBudget
  <2>2. \/ pc' = "wave" /\ ph' = 0 /\ it' = it + 1 /\ ~Periodic(it + 1)
        \/ pc' = "open" /\ ph' = 0 /\ it' = it + 1
        \/ pc' = "open" /\ ph' = 1 /\ it' = 0 /\ ~(it + 1 < NNr)
    BY <1>3 DEF DrainNr, NrDone, ToNr, Save
  <2>3. CASE pc' = "wave" /\ ph' = 0 /\ it' = it + 1 /\ ~Periodic(it + 1)
    <3>1. Every > 0 => Within(Kept, 0, it + 1)
      BY <1>1, <2>1, <2>3, NextWithin
    <3>2. QED BY <1>1, <2>3, <3>1 DEF LossInv, Base
  <2>4. CASE pc' = "open"
    <3>1. Lost' = 0 + (it + 1) - Kept
      BY <1>1, <2>1, <2>2, <2>4 DEF Lost, Position
    <3>2. Every > 0 => Lost' <= Every
      BY <1>1, <2>1, <3>1, WithinLoss
    <3>3. QED BY <2>4, <3>2 DEF LossInv
  <2>5. QED BY <2>2, <2>3, <2>4
<1>4. CASE DrainRm \/ ExchangePair
  <2>1. ph = 1 /\ it < nrm /\ nrm \in Nat
    BY <1>4, BudgetType DEF DrainRm, ExchangePair, TypeInv, TypeOK, Control, InBudget
  <2>2. Every > 0 => Within(Kept, NNr, it)
    BY <1>4, <2>1 DEF DrainRm, ExchangePair, LossInv, Base
  <2>3. \/ pc' = "exch" /\ ph' = 1 /\ it' = it
        \/ pc' = "wave" /\ ph' = 1 /\ it' = it + 1 /\ ~Periodic(it + 1)
        \/ pc' = "open" /\ ph' = 1 /\ it' = it + 1
    BY <1>1, <1>4, <2>1 DEF DrainRm, ExchangePair, RmDone, ToRm, Save
  <2>4. CASE pc' = "exch" /\ ph' = 1 /\ it' = it
    BY <1>1, <2>2, <2>4 DEF LossInv, Base
  <2>5. CASE pc' = "wave" /\ ph' = 1 /\ it' = it + 1 /\ ~Periodic(it + 1)
    <3>1. Every > 0 => Within(Kept, NNr, it + 1)
      BY <1>1, <2>2, <2>5, NextWithin
    <3>2. QED BY <1>1, <2>5, <3>1 DEF LossInv, Base
  <2>6. CASE pc' = "open" /\ ph' = 1 /\ it' = it + 1
    <3>1. Lost' = NNr + (it + 1) - Kept
      BY <1>1, <2>6 DEF Lost, Position
    <3>2. Every > 0 => Lost' <= Every
      BY <1>1, <2>2, <3>1, WithinLoss
    <3>3. QED BY <2>6, <3>2 DEF LossInv
  <2>7. QED BY <2>3, <2>4, <2>5, <2>6
<1>5. QED BY <1>2, <1>3, <1>4 DEF Serial

LEMMA SavingLossInv ==
  ASSUME TypeInv, LossInv, Saving, Checkpointing
  PROVE  LossInv'
<1> USE RunAssumption
<1>1. CASE OpenTmp
  <2>1. Lost' = Lost
    BY <1>1 DEF OpenTmp, Lost, Kept, Position
  <2>2. QED BY <1>1, <2>1 DEF OpenTmp, LossInv
<1>2. CASE WriteMember
  <2>1. Lost' = Lost
    BY <1>2 DEF WriteMember, Lost, Kept, Position
  <2>2. QED BY <1>2, <2>1 DEF WriteMember, LossInv
<1>3. CASE Rename
  <2>1. /\ live' = tmp /\ tmp.head.ph = ph /\ tmp.head.it = it
        /\ ph \in {0, 1} /\ it \in Nat /\ tmp \in File(N)
    BY <1>3 DEF Rename, AllWritten, LossInv, TypeInv, TypeOK, Control, FilesWhole
  <2>2. tmp # NoFile
    BY <2>1, FileAssumption
  <2>3. Kept' = Base + it
    BY <2>1, <2>2 DEF Kept, Position, Base
  <2>4. \/ pc' = "wave" /\ ph' = ph /\ it' = it
        \/ pc' = "done" /\ ph' = 1 /\ ph = 1 /\ it' = it
        \/ pc' = "open" /\ ph' = 1 /\ it' = 0 /\ ph = 0 /\ NNr <= it
    BY <1>3, <2>1 DEF Rename, AfterSave, ToNr, ToRm, Save
  <2>5. CASE pc' = "wave" /\ ph' = ph /\ it' = it
    <3>1. Base' = Base /\ Base \in Nat
      BY <2>5 DEF Base
    <3>2. Every > 0 => Within(Kept', Base', it')
      BY <2>1, <2>3, <2>5, <3>1, SavedWithin
    <3>3. QED BY <2>5, <3>2 DEF LossInv
  <2>6. CASE pc' = "done" /\ ph' = 1 /\ ph = 1 /\ it' = it
    <3>1. Lost' = 0
      BY <2>1, <2>3, <2>6 DEF Lost, Position, Base
    <3>2. QED BY <2>6, <3>1 DEF LossInv
  <2>7. CASE pc' = "open" /\ ph' = 1 /\ it' = 0 /\ ph = 0 /\ NNr <= it
    <3>1. Lost' = NNr - it
      BY <2>1, <2>3, <2>7 DEF Lost, Position, Base
    <3>2. Every > 0 => Lost' <= Every
      BY <2>1, <2>7, <3>1, ScheduleAssumption
    <3>3. QED BY <2>7, <3>2 DEF LossInv
  <2>8. QED BY <2>4, <2>5, <2>6, <2>7
<1>4. QED BY <1>1, <1>2, <1>3 DEF Saving

LEMMA StepLossInv == TypeInv /\ LossInv /\ [Next]_vars => LossInv'
<1> SUFFICES ASSUME TypeInv, LossInv, [Next]_vars, Checkpointing
             PROVE  LossInv'
  BY DEF LossInv
<1>1. CASE UNCHANGED vars
  BY <1>1 DEF vars, volatile, files, LossInv, Base, Kept, Lost, Position
<1>2. CASE Crash
  BY <1>2 DEF Crash, LossInv
<1>3. CASE \E n \in Slots : Work(n)
  <2>1. UNCHANGED <<pc, ph, it, tmp, live>>
    BY <1>3 DEF Work, Pick, WarmReplica, Thermalize, Sample, files
  <2>2. QED BY <2>1 DEF LossInv, Base, Kept, Lost, Position
<1>4. CASE Launch \/ Serial \/ Saving
  BY <1>4, LaunchLossInv, SerialLossInv, SavingLossInv
<1>5. QED BY <1>1, <1>2, <1>3, <1>4 DEF Next

LEMMA InitLossInv == Init => StartInv /\ LossInv
BY DEF Init, StartInv, LossInv

(* A death costs less than one period of completed iterations, the whole   *)
(* period if it comes while that is being saved, nothing after the end     *)
(* (checkpoint_every and the `last` save of the schedule).                 *)
THEOREM LittleIsLost == Spec => []LossBounded
<1>1. TypeInv /\ StartInv /\ LossInv => LossBounded
  <2> SUFFICES ASSUME TypeInv, StartInv, LossInv, Checkpointing
               PROVE  /\ Every > 0 => IF pc \in {"open", "write"} THEN Lost <= Every ELSE Lost < Every
                      /\ pc = "done" => Lost = 0
    BY DEF LossBounded
  <2>1. Kept \in Nat /\ it \in Nat /\ Base \in Nat
    BY KeptNat, RunAssumption, ScheduleAssumption DEF TypeInv, TypeOK, Base
  <2>2. Lost = Base + it - Kept
    BY <2>1 DEF Lost, Position, Base
  <2>3. CASE pc \in {"down", "warm"}
    <3>1. Lost = 0 - Kept
      BY <2>1, <2>2, <2>3 DEF StartInv, Base
    <3>2. QED BY <2>1, <2>3, <3>1, ScheduleAssumption
  <2>4. CASE pc \in {"wave", "exch"}
    <3>1. Every > 0 => Lost < Every
      BY <2>1, <2>2, <2>4, WithinLoss DEF LossInv
    <3>2. QED BY <2>4, <3>1
  <2>5. CASE pc \in {"open", "write"}
    BY <2>5 DEF LossInv
  <2>6. CASE pc = "done"
    BY <2>6 DEF LossInv
  <2>7. QED BY <2>3, <2>4, <2>5, <2>6 DEF TypeInv, TypeOK
<1>2. QED
  BY <1>1, InitTypeInv, StepTypeInv, InitLossInv, StepStartInv, StepLossInv, PTL DEF Spec
-----------------------------------------------------------------------------
(* With the history: the parallel, checkpointed, crash-prone run computes  *)
(* the ensembles of the uninterrupted serial one, because a process        *)
(* between two waves is at the point of the history it should be at, and   *)
(* the history is the serial schedule's.                                   *)
Pt(st, p, k, i, r, g) ==
  [stage |-> st, ph |-> p, it |-> k, i |-> i, reps |-> r, exch |-> g]

Points == [stage : {"warm", "wave", "exch"}, ph : {0, 1}, it : Nat, i : Nat,
           reps : Members, exch : Rng]

(* The point the process is at, or whose wave it is running.               *)
Origin == trace[cur]

(* How far slot n has come from its member m at the start of the wave.     *)
Partial(n, m) ==
  /\ lane[n] \in {"wait", "therm"} => reps[n] = m
  /\ pc = "warm" => lane[n] # "meas"
  /\ pc = "warm" /\ lane[n] = "done" => reps[n] = Seat(n, m)
  /\ pc = "wave" /\ lane[n] = "meas" => reps[n] = Thermalized(ph, n, m)
  /\ pc = "wave" /\ lane[n] = "done" =>
       /\ reps[n] = Sampled(ph, n, Thermalized(ph, n, m))
       /\ deBuf[n] = MeanDE(ph, n, Thermalized(ph, n, m))
       /\ ~(Smoothed /\ ph = 1) => aBuf[n] = Update(ph, it, n, m.a, deBuf[n])

InStep ==
  /\ pc \in {"warm", "wave"} =>
       /\ Origin = Pt(pc, ph, it, 0, Origin.reps, exch)
       /\ \A n \in Slots : Partial(n, Origin.reps[n])
  /\ pc \in {"exch", "open", "write", "done"} => Origin = Here
  /\ pc = "exch" => Exchange

(* The point a checkpoint file stands for.                                 *)
Stored(f) ==
  IF f.head.ph = 0 /\ f.head.it = NNr
    THEN Pt("wave", 1, 0, 0, f.saved, f.head.exch)
    ELSE Pt("wave", f.head.ph, f.head.it, 0, f.saved, f.head.exch)

FilesKnown ==
  /\ pc \in {"open", "write"} /\ ph = 0 => it \in 1 .. NNr
  /\ pc = "write" =>
       /\ tmp.head = [ph |-> ph, it |-> it, exch |-> exch]
       /\ \A n \in 0 .. wn - 1 : tmp.saved[n] = reps[n]
  /\ live # NoFile =>
       /\ live.head.ph = 0 => live.head.it \in 1 .. NNr
       /\ trace[liveCur] = Stored(live)

Computed ==
  /\ trace \in Seq(Points)
  /\ cur \in 1 .. Len(trace) /\ liveCur \in 1 .. Len(trace)
  /\ trace[1] = Ideal!Start
  /\ \A k \in 1 .. Len(trace) - 1 : trace[k + 1] = Ideal!Succ(trace[k])

HistoryInv == Computed /\ InStep /\ FilesKnown

AllInv == TypeInv /\ EnergyInv /\ HistoryInv

USE RunAssumption, ScheduleAssumption DEF Slots
-----------------------------------------------------------------------------
(* The abstract step, one lemma per stage.                                 *)
LEMMA SuccWarm ==
  ASSUME NEW p, NEW k, NEW r, NEW g
  PROVE  Ideal!Succ(Pt("warm", p, k, 0, r, g))
           = Ideal!InNr(0, [n \in Slots |-> Seat(n, r[n])], g)
BY DEF Ideal!Succ, Pt, Ideal!Slots

LEMMA SuccNr ==
  ASSUME NEW k, NEW r, NEW g
  PROVE  Ideal!Succ(Pt("wave", 0, k, 0, r, g))
           = Ideal!InNr(k + 1, Ideal!Iterated(0, k, r), g)
BY DEF Ideal!Succ, Pt

LEMMA SuccRm ==
  ASSUME NEW k, NEW r, NEW g
  PROVE  Ideal!Succ(Pt("wave", 1, k, 0, r, g))
           = Ideal!InRm(k, k % 2, Ideal!Iterated(1, k, r), g)
BY DEF Ideal!Succ, Pt

LEMMA SuccExch ==
  ASSUME NEW p, NEW k, NEW i, NEW r, NEW g
  PROVE  Ideal!Succ(Pt("exch", p, k, i, r, g))
           = Ideal!InRm(k, i + 2,
               IF Ideal!Test(i, r, g).accept THEN Ideal!Traded(i, r) ELSE r,
               Ideal!Test(i, r, g).exch)
BY DEF Ideal!Succ, Pt
-----------------------------------------------------------------------------
(* The control operators lead to the point the schedule names.             *)
LEMMA ToRmHere ==
  ASSUME NEW s, ToRm(s)
  PROVE  /\ Here' = Pt("wave", 1, s, 0, reps', exch')
         /\ pc' \in {"wave", "done"} /\ ph' = 1 /\ it' = s
BY DEF ToRm, Here, Pt

LEMMA SaveHere ==
  ASSUME NEW p \in {0, 1}, NEW k \in Nat, ph' = p, it' = k, pc' = "open"
  PROVE  Here' = IF p = 0 /\ k = NNr THEN Pt("wave", 1, 0, 0, reps', exch')
                                     ELSE Pt("wave", p, k, 0, reps', exch')
BY DEF Here, Pt

LEMMA ToNrHere ==
  ASSUME NEW k \in 0 .. NNr, ToNr(k)
  PROVE  /\ Here' = Ideal!InNr(k, reps', exch')
         /\ pc' \in {"wave", "open", "done"}
         /\ pc' = "open" => ph' = 1
<1>1. CASE k < NNr
  BY <1>1 DEF ToNr, Here, Ideal!InNr
<1>2. CASE ~(k < NNr) /\ Checkpointing
  BY <1>2, SaveHere DEF ToNr, Save, Ideal!InNr, Pt
<1>3. CASE ~(k < NNr) /\ ~Checkpointing
  BY <1>3, ToRmHere DEF ToNr, Save, Ideal!InNr, Pt
<1>4. QED BY <1>1, <1>2, <1>3

LEMMA NrDoneHere ==
  ASSUME NEW k \in 0 .. NNr - 1, NrDone(k)
  PROVE  /\ Here' = Ideal!InNr(k + 1, reps', exch')
         /\ pc' \in {"wave", "open", "done"}
         /\ pc' = "open" /\ ph' = 0 => it' \in 1 .. NNr
<1>1. CASE Periodic(k + 1) /\ Checkpointing
  <2>1. ph' = 0 /\ it' = k + 1 /\ pc' = "open"
    BY <1>1 DEF NrDone, Save
  <2>2. QED BY <2>1, SaveHere DEF Ideal!InNr, Pt
<1>2. CASE ~(Periodic(k + 1) /\ Checkpointing)
  <2>1. ToNr(k + 1)
    BY <1>2 DEF NrDone, Save
  <2>2. QED BY <2>1, ToNrHere
<1>3. QED BY <1>1, <1>2

LEMMA RmDoneHere ==
  ASSUME NEW s \in Nat, RmDone(s)
  PROVE  /\ Here' = Pt("wave", 1, s + 1, 0, reps', exch')
         /\ pc' \in {"wave", "open", "done"} /\ ph' = 1
<1>1. CASE (s + 1 = nrm \/ Periodic(s + 1)) /\ Checkpointing
  <2>1. ph' = 1 /\ it' = s + 1 /\ pc' = "open"
    BY <1>1 DEF RmDone, Save
  <2>2. QED BY <2>1, SaveHere
<1>2. CASE ~((s + 1 = nrm \/ Periodic(s + 1)) /\ Checkpointing)
  <2>1. ToRm(s + 1)
    BY <1>2 DEF RmDone, Save
  <2>2. QED BY <2>1, ToRmHere
<1>3. QED BY <1>1, <1>2
-----------------------------------------------------------------------------
(* What a serial step establishes: the next point of the serial schedule.  *)
Arrived ==
  /\ Here' = Ideal!Succ(Origin)
  /\ pc' \in {"wave", "exch", "open", "done"}
  /\ pc' = "exch" => Exchange
  /\ pc' = "open" /\ ph' = 0 => it' \in 1 .. NNr
  /\ \A n \in Slots : lane'[n] = "wait"

LEMMA WarmDoneArrives ==
  ASSUME AllInv, WarmDone
  PROVE  Arrived
<1>1. /\ Origin = Pt("warm", ph, it, 0, Origin.reps, exch)
      /\ \A n \in Slots : reps[n] = Seat(n, Origin.reps[n])
  BY DEF WarmDone, Joined, AllInv, HistoryInv, InStep, Partial
<1>2. reps = [n \in Slots |-> Seat(n, Origin.reps[n])]
  BY <1>1 DEF AllInv, TypeInv, TypeOK, Members
<1>3. Ideal!Succ(Origin) = Ideal!InNr(0, reps, exch)
  <2>1. Ideal!Succ(Pt("warm", ph, it, 0, Origin.reps, exch))
          = Ideal!InNr(0, [n \in Slots |-> Seat(n, Origin.reps[n])], exch)
    BY SuccWarm
  <2>2. QED BY <1>1, <1>2, <2>1
<1>4. /\ Here' = Ideal!InNr(0, reps', exch') /\ pc' \in {"wave", "open", "done"}
      /\ pc' = "open" => ph' = 1
  <2>1. ToNr(0) /\ 0 \in 0 .. NNr
    BY DEF WarmDone
  <2>2. QED BY <2>1, ToNrHere
<1>5. reps' = reps /\ exch' = exch /\ lane' = Idle
  BY DEF WarmDone
<1>6. QED BY <1>3, <1>4, <1>5 DEF Arrived, Idle

(* A wave, once joined and drained, has done an abstract iteration.        *)
LEMMA DrainedIterated ==
  ASSUME AllInv, pc = "wave", Joined, NEW a \in [Slots -> Tilt],
         a = LET b == [n \in Slots |-> Ideal!Proposed(ph, it, n, Origin.reps[n])]
             IN  IF Smoothed /\ ph = 1 THEN Shrink(it, b) ELSE b
  PROVE  Drained(a) = Ideal!Iterated(ph, it, Origin.reps)
<1>1. \A n \in Slots : reps[n] = Ideal!Swept(ph, n, Origin.reps[n])
  BY DEF AllInv, HistoryInv, InStep, Partial, Joined, Ideal!Swept, Ideal!Sampled,
         Ideal!Thermalized, Ideal!Moved, Sampled, Thermalized, Moved
<1>2. QED BY <1>1 DEF Drained, Ideal!Iterated, Ideal!Slots

LEMMA DrainNrArrives ==
  ASSUME AllInv, DrainNr
  PROVE  Arrived
<1>1. pc = "wave" /\ ph = 0 /\ Joined /\ it \in 0 .. NNr - 1
  BY DEF DrainNr, AllInv, TypeInv, TypeOK, Control, InBudget
<1>2. aBuf = [n \in Slots |-> Ideal!Proposed(0, it, n, Origin.reps[n])]
  <2>1. \A n \in Slots : aBuf[n] = Ideal!Proposed(0, it, n, Origin.reps[n])
    BY <1>1 DEF AllInv, HistoryInv, InStep, Partial, Joined, Ideal!Proposed,
                Ideal!Thermalized, Ideal!Moved, Thermalized, Moved
  <2>2. QED BY <2>1 DEF AllInv, TypeInv, TypeOK
<1>3. aBuf \in [Slots -> Tilt]
  BY DEF AllInv, TypeInv, TypeOK
<1>4. Drained(aBuf) = Ideal!Iterated(0, it, Origin.reps)
  BY <1>1, <1>2, <1>3, DrainedIterated
<1>5. reps' = Drained(aBuf) /\ exch' = exch /\ lane' = Idle /\ NrDone(it)
  BY DEF DrainNr
<1>6. Origin = Pt("wave", 0, it, 0, Origin.reps, exch)
  BY <1>1 DEF AllInv, HistoryInv, InStep
<1>7. Ideal!Succ(Origin) = Ideal!InNr(it + 1, reps', exch')
  BY <1>4, <1>5, <1>6, SuccNr
<1>8. QED BY <1>1, <1>5, <1>7, NrDoneHere DEF Arrived, Idle

LEMMA DrainRmArrives ==
  ASSUME AllInv, DrainRm
  PROVE  Arrived
<1>1. /\ pc = "wave" /\ ph = 1 /\ Joined /\ it \in Nat
      /\ Origin = Pt("wave", 1, it, 0, Origin.reps, exch)
  BY DEF DrainRm, AllInv, TypeInv, TypeOK, HistoryInv, InStep
<1>2. aBuf' = LET b == [n \in Slots |-> Ideal!Proposed(1, it, n, Origin.reps[n])]
              IN  IF Smoothed /\ ph = 1 THEN Shrink(it, b) ELSE b
  <2>1. CASE Smoothed
    <3>1. \A n \in Slots : Update(1, it, n, reps[n].a, deBuf[n])
                             = Ideal!Proposed(1, it, n, Origin.reps[n])
      <4> TAKE n \in Slots
      <4>1. /\ reps[n] = Sampled(1, n, Thermalized(1, n, Origin.reps[n]))
            /\ deBuf[n] = MeanDE(1, n, Thermalized(1, n, Origin.reps[n]))
        BY <1>1 DEF AllInv, HistoryInv, InStep, Partial, Joined
      <4>2. reps[n].a = Origin.reps[n].a
        BY <4>1 DEF Sampled, Thermalized, Moved
      <4>3. QED
        BY <4>1, <4>2 DEF Ideal!Proposed, Ideal!Thermalized, Ideal!Moved,
                          Thermalized, Moved
    <3>2. aBuf' = Shrink(it, [n \in Slots |-> Update(1, it, n, reps[n].a, deBuf[n])])
      BY <2>1 DEF DrainRm, SmoothedTilts
    <3> DEFINE F == [n \in Slots |-> Update(1, it, n, reps[n].a, deBuf[n])]
               G == [n \in Slots |-> Ideal!Proposed(1, it, n, Origin.reps[n])]
    <3>3. F = G
      BY <3>1
    <3>4. aBuf' = Shrink(it, G)
      <4>1. aBuf' = Shrink(it, F)
        BY <3>2
      <4> HIDE DEF F, G
      <4>2. QED BY <3>3, <4>1
    <3>5. QED BY <1>1, <2>1, <3>4
  <2>2. CASE ~Smoothed
    <3>1. \A n \in Slots : aBuf[n] = Ideal!Proposed(1, it, n, Origin.reps[n])
      BY <1>1, <2>2 DEF AllInv, HistoryInv, InStep, Partial, Joined, Ideal!Proposed,
                        Ideal!Thermalized, Ideal!Moved, Thermalized, Moved
    <3>2. aBuf' = aBuf
      BY <2>2 DEF DrainRm
    <3>3. QED BY <2>2, <3>1, <3>2 DEF AllInv, TypeInv, TypeOK
  <2>3. QED BY <2>1, <2>2
<1>3. aBuf' \in [Slots -> Tilt]
  BY SerialTypeInv DEF Serial, AllInv, TypeInv, TypeOK
<1>4. Drained(aBuf') = Ideal!Iterated(1, it, Origin.reps)
  BY <1>1, <1>2, <1>3, DrainedIterated
<1>5. reps' = Drained(aBuf') /\ exch' = exch /\ lane' = Idle /\ xi' = it % 2
  BY DEF DrainRm, FirstPair
<1>6. Ideal!Succ(Origin) = Ideal!InRm(it, it % 2, reps', exch')
  BY <1>1, <1>4, <1>5, SuccRm
<1>7. CASE Exchange /\ (it % 2) + 1 < N
  <2>1. pc' = "exch" /\ ph' = 1 /\ it' = it
    BY <1>1, <1>7 DEF DrainRm, FirstPair
  <2>2. Here' = Pt("exch", 1, it, it % 2, reps', exch')
    BY <1>5, <2>1 DEF Here, Pt
  <2>3. QED BY <1>5, <1>6, <1>7, <2>1, <2>2 DEF Arrived, Idle, Ideal!InRm, Pt
<1>8. CASE ~(Exchange /\ (it % 2) + 1 < N)
  <2>1. RmDone(it)
    BY <1>8 DEF DrainRm, FirstPair
  <2>2. QED BY <1>1, <1>5, <1>6, <1>8, <2>1, RmDoneHere DEF Arrived, Idle, Ideal!InRm, Pt
<1>9. QED BY <1>7, <1>8

LEMMA ExchangeArrives ==
  ASSUME AllInv, ExchangePair
  PROVE  Arrived
<1> DEFINE j == xi + 1
           t == Ideal!Test(xi, reps, exch)
<1>1. /\ pc = "exch" /\ ph = 1 /\ it \in Nat /\ xi \in Slots /\ j \in Slots
      /\ \A n \in Slots : energy[n] = Q(reps[n].cfg) /\ lane[n] = "wait"
  BY DEF ExchangePair, AllInv, TypeInv, TypeOK, Control, InBudget, LanesInStep,
         EnergyInv, Right
<1>2. Origin = Pt("exch", 1, it, xi, reps, exch) /\ Exchange
  BY <1>1 DEF AllInv, HistoryInv, InStep, Here, Pt
<1>3. /\ exch' = t.exch
      /\ reps' = IF t.accept THEN Ideal!Traded(xi, reps) ELSE reps
  BY <1>1 DEF ExchangePair, TryExchange, SwappedFields, Ideal!Test, Ideal!Traded
<1>4. Ideal!Succ(Origin) = Ideal!InRm(it, xi + 2, reps', exch')
  BY <1>2, <1>3, SuccExch
<1>5. lane' = lane /\ xi' = xi + 2
  BY DEF ExchangePair
<1>6. CASE xi + 3 < N
  <2>1. pc' = "exch" /\ ph' = 1 /\ it' = it /\ Exchange
    BY <1>1, <1>2, <1>6 DEF ExchangePair
  <2>2. Here' = Pt("exch", 1, it, xi + 2, reps', exch')
    BY <1>5, <2>1 DEF Here, Pt
  <2>3. QED BY <1>1, <1>4, <1>5, <1>6, <2>1, <2>2 DEF Arrived, Ideal!InRm, Pt
<1>7. CASE ~(xi + 3 < N)
  <2>1. RmDone(it)
    BY <1>7 DEF ExchangePair
  <2>2. QED BY <1>1, <1>4, <1>5, <1>7, <2>1, RmDoneHere DEF Arrived, Ideal!InRm, Pt
<1>8. QED BY <1>6, <1>7

LEMMA SerialArrives == AllInv /\ Serial => Arrived
BY WarmDoneArrives, DrainNrArrives, DrainRmArrives, ExchangeArrives DEF Serial
-----------------------------------------------------------------------------
(* The history invariant.                                                  *)
LEMMA HereType ==
  ASSUME TypeInv'
  PROVE  Here' \in Points
<1>1. (IF pc' \in {"warm", "exch"} THEN pc' ELSE "wave") \in {"warm", "wave", "exch"}
  OBVIOUS
<1>2. /\ (IF ph' = 0 /\ it' = NNr /\ pc' # "warm" THEN 1 ELSE ph') \in {0, 1}
      /\ (IF ph' = 0 /\ it' = NNr /\ pc' # "warm" THEN 0 ELSE it') \in Nat
      /\ (IF pc' = "exch" THEN xi' ELSE 0) \in Nat
      /\ reps' \in Members /\ exch' \in Rng
  BY DEF TypeInv, TypeOK
<1>3. QED BY <1>1, <1>2 DEF Here, Points

LEMMA InitHistory == HInit => HistoryInv
<1> SUFFICES ASSUME HInit PROVE HistoryInv
  OBVIOUS
<1>1. [n \in Slots |-> Fresh(n)] \in Members /\ ExchSeed \in Rng
  BY PhysicsAssumption DEF Members
<1>2. Ideal!Start \in Points
  BY <1>1 DEF Ideal!Start, Ideal!InNr, Ideal!Slots, Points
<1>3. Computed
  BY <1>2 DEF HInit, Computed
<1>4. QED BY <1>3 DEF HInit, Init, HistoryInv, InStep, FilesKnown

(* Between two waves, being at the right point is all there is to be.      *)
LEMMA Settles ==
  ASSUME TypeInv', Origin' = Here', pc' \in {"warm", "wave", "exch", "open", "done"},
         pc' = "exch" => Exchange, \A n \in Slots : lane'[n] = "wait"
  PROVE  InStep'
<1>1. CASE pc' \in {"exch", "open", "done"}
  BY <1>1 DEF InStep
<1>2. CASE pc' \in {"warm", "wave"}
  <2>1. Here' = Pt(pc', ph', it', 0, reps', exch')
    BY <1>2 DEF Here, Pt, TypeInv, Control, InBudget
  <2>2. Origin'.reps = reps'
    BY <2>1 DEF Pt
  <2>3. QED BY <1>2, <2>1, <2>2 DEF InStep, Partial
<1>3. QED BY <1>1, <1>2

LEMMA ReachHistory ==
  ASSUME AllInv, TypeInv', Serial, Reach
  PROVE  HistoryInv'
<1>1. Arrived
  BY SerialArrives
<1>2. Here' \in Points
  BY HereType
<1>3. /\ trace \in Seq(Points) /\ cur \in 1 .. Len(trace)
      /\ liveCur \in 1 .. Len(trace) /\ liveCur' = liveCur /\ cur' = cur + 1
      /\ trace[1] = Ideal!Start
      /\ \A k \in 1 .. Len(trace) - 1 : trace[k + 1] = Ideal!Succ(trace[k])
      /\ Here' = Ideal!Succ(trace[cur])
  BY <1>1 DEF AllInv, HistoryInv, Computed, Reach, Arrived, Origin
<1>4. Computed' /\ trace'[cur'] = Here' /\ trace'[liveCur'] = trace[liveCur]
  <2>1. CASE cur = Len(trace)
    <3>1. trace' = Append(trace, Here')
      BY <2>1 DEF Reach
    <3>2. /\ trace' \in Seq(Points) /\ Len(trace') = Len(trace) + 1
          /\ \A k \in 1 .. Len(trace) : trace'[k] = trace[k]
          /\ trace'[Len(trace) + 1] = Here'
      BY <1>2, <1>3, <3>1
    <3>3. \A k \in 1 .. Len(trace) : trace'[k + 1] = Ideal!Succ(trace'[k])
      <4> TAKE k \in 1 .. Len(trace)
      <4>1. CASE k = Len(trace)
        BY <1>3, <2>1, <3>2, <4>1
      <4>2. CASE k < Len(trace)
        <5>1. k \in 1 .. Len(trace) - 1 /\ k + 1 \in 1 .. Len(trace)
          BY <1>3, <4>2
        <5>2. trace'[k + 1] = trace[k + 1] /\ trace'[k] = trace[k]
          BY <3>2, <5>1
        <5>3. QED BY <1>3, <5>1, <5>2
      <4>3. QED BY <1>3, <4>1, <4>2
    <3>4. QED BY <1>3, <2>1, <3>2, <3>3 DEF Computed
  <2>2. CASE cur # Len(trace)
    <3>1. trace' = trace /\ cur \in 1 .. Len(trace) - 1
      BY <1>3, <2>2 DEF Reach
    <3>2. QED BY <1>3, <3>1 DEF Computed
  <2>3. QED BY <2>1, <2>2
<1>5. InStep'
  BY <1>1, <1>4, Settles DEF Arrived, Origin
<1>6. live' = live
  BY DEF Serial, WarmDone, DrainNr, DrainRm, ExchangePair, files
<1>7. FilesKnown'
  BY <1>1, <1>4, <1>6 DEF AllInv, HistoryInv, FilesKnown, Arrived, Stored
<1>8. QED BY <1>4, <1>5, <1>7 DEF HistoryInv

LEMMA FreshHistory ==
  ASSUME AllInv, TypeInv', LaunchFresh, cur' = 1, UNCHANGED <<trace, liveCur>>
  PROVE  HistoryInv'
<1>1. /\ reps' = [n \in Slots |-> Fresh(n)] /\ exch' = ExchSeed
      /\ lane' = Idle /\ live' = live
  BY DEF LaunchFresh, Constructed, files
<1>2. /\ Here' = Ideal!Start
      /\ pc' \in {"warm", "wave", "open", "done"}
      /\ pc' = "open" => ph' = 1
  <2>1. CASE WarmOn
    <3>1. pc' = "warm" /\ ph' = 0 /\ it' = 0
      BY <2>1 DEF LaunchFresh
    <3>2. QED BY <1>1, <2>1, <3>1 DEF Here, Ideal!Start, Ideal!Slots
  <2>2. CASE ~WarmOn
    <3>1. ToNr(0) /\ 0 \in 0 .. NNr
      BY <2>2 DEF LaunchFresh
    <3>2. Ideal!Start = Ideal!InNr(0, [n \in Slots |-> Fresh(n)], ExchSeed)
      BY <2>2 DEF Ideal!Start, Ideal!Slots
    <3>3. QED BY <1>1, <3>1, <3>2, ToNrHere
  <2>3. QED BY <2>1, <2>2
<1>3. Computed' /\ trace'[cur'] = Here'
  BY <1>2 DEF AllInv, HistoryInv, Computed
<1>4. InStep'
  BY <1>1, <1>2, <1>3, Settles DEF Origin, Idle
<1>5. FilesKnown'
  BY <1>1, <1>2 DEF AllInv, HistoryInv, FilesKnown, Stored
<1>6. QED BY <1>3, <1>4, <1>5 DEF HistoryInv

LEMMA ResumeHistory ==
  ASSUME AllInv, TypeInv', LaunchResume, cur' = liveCur, UNCHANGED <<trace, liveCur>>
  PROVE  HistoryInv'
<1>1. /\ live # NoFile /\ reps' = live.saved /\ exch' = live.head.exch
      /\ lane' = Idle /\ live' = live
  BY DEF LaunchResume, Constructed, files, LoadedExch
<1>2. /\ live.head.ph \in {0, 1} /\ live.head.it \in 0 .. MaxIter
      /\ live.head.ph = 0 => live.head.it \in 1 .. NNr
      /\ trace[liveCur] = Stored(live)
  BY <1>1 DEF AllInv, TypeInv, Control, FilesWhole, File, Header, HistoryInv, FilesKnown
<1>3. /\ Here' = Stored(live)
      /\ pc' \in {"wave", "open", "done"}
      /\ pc' = "open" => ph' = 1
  <2>1. CASE live.head.ph = 0
    <3>1. ToNr(live.head.it) /\ live.head.it \in 0 .. NNr
      BY <1>2, <2>1 DEF LaunchResume
    <3>2. /\ Here' = Ideal!InNr(live.head.it, reps', exch')
          /\ pc' \in {"wave", "open", "done"}
          /\ pc' = "open" => ph' = 1
      BY <3>1, ToNrHere
    <3>3. QED BY <1>1, <1>2, <2>1, <3>2 DEF Ideal!InNr, Stored, Pt
  <2>2. CASE live.head.ph = 1
    <3>1. ToRm(live.head.it)
      BY <2>2 DEF LaunchResume
    <3>2. QED BY <1>1, <2>2, <3>1, ToRmHere DEF Stored
  <2>3. QED BY <1>2, <2>1, <2>2
<1>4. Computed' /\ trace'[cur'] = Here'
  BY <1>2, <1>3 DEF AllInv, HistoryInv, Computed
<1>5. InStep'
  BY <1>1, <1>3, <1>4, Settles DEF Origin, Idle
<1>6. FilesKnown'
  BY <1>1, <1>3 DEF AllInv, HistoryInv, FilesKnown, Stored
<1>7. QED BY <1>4, <1>5, <1>6 DEF HistoryInv

LEMMA WorkHistory ==
  ASSUME AllInv, NEW n \in Slots, Work(n), UNCHANGED history
  PROVE  HistoryInv'
<1>1. /\ pc' = pc /\ pc \in {"warm", "wave"} /\ ph' = ph /\ it' = it /\ exch' = exch
      /\ live' = live /\ trace' = trace /\ cur' = cur /\ liveCur' = liveCur
  BY DEF Work, Pick, WarmReplica, Thermalize, Sample, files, history
<1>2. \A k \in Slots : Partial(k, Origin.reps[k])
  BY <1>1 DEF AllInv, HistoryInv, InStep
<1>3. /\ reps \in Members /\ lane \in [Slots -> {"wait", "therm", "meas", "done"}]
      /\ DOMAIN deBuf = Slots /\ DOMAIN aBuf = Slots
  BY DEF AllInv, TypeInv, TypeOK
<1>4. /\ deBuf \in [Slots -> Obs \cup {NoObs}] /\ aBuf \in [Slots -> Tilt]
      /\ DOMAIN reps = Slots
  BY DEF AllInv, TypeInv, TypeOK, Members
<1>5. \A k \in Slots \ {n} : Partial(k, Origin.reps[k])'
  <2> TAKE k \in Slots \ {n}
  <2>1. /\ lane'[k] = lane[k] /\ reps'[k] = reps[k]
        /\ deBuf'[k] = deBuf[k] /\ aBuf'[k] = aBuf[k]
    BY <1>3, <1>4 DEF Work, Pick, WarmReplica, Thermalize, Sample, Members
  <2>2. QED BY <1>1, <1>2, <2>1 DEF Partial, Origin
<1>6. Partial(n, Origin.reps[n])'
  <2>1. CASE Pick(n)
    BY <1>1, <1>2, <1>3, <2>1 DEF Pick, Partial, Origin
  <2>2. CASE WarmReplica(n)
    BY <1>1, <1>2, <1>3, <2>2 DEF WarmReplica, Partial, Origin, Members
  <2>3. CASE Thermalize(n)
    BY <1>1, <1>2, <1>3, <2>3 DEF Thermalize, Partial, Origin, Members
  <2>4. CASE Sample(n)
    <3>1. /\ pc = "wave" /\ lane'[n] = "done"
          /\ reps[n] = Thermalized(ph, n, Origin.reps[n])
      BY <1>2, <1>3, <2>4 DEF Sample, Partial
    <3>2. reps[n].a = Origin.reps[n].a
      BY <3>1 DEF Thermalized, Moved
    <3>3. /\ reps'[n] = Sampled(ph, n, reps[n])
          /\ deBuf'[n] = MeanDE(ph, n, reps[n])
          /\ ~(Smoothed /\ ph = 1) => aBuf'[n] = Update(ph, it, n, reps[n].a, deBuf'[n])
      BY <1>3, <1>4, <2>4 DEF Sample
    <3>4. QED BY <1>1, <3>1, <3>2, <3>3 DEF Partial, Origin
  <2>5. QED BY <2>1, <2>2, <2>3, <2>4 DEF Work
<1>7. InStep'
  BY <1>1, <1>5, <1>6 DEF AllInv, HistoryInv, InStep, Origin
<1>8. Computed' /\ FilesKnown'
  BY <1>1 DEF AllInv, HistoryInv, Computed, FilesKnown, Stored
<1>9. QED BY <1>7, <1>8 DEF HistoryInv

LEMMA WritingHistory ==
  ASSUME AllInv, OpenTmp \/ WriteMember, UNCHANGED history
  PROVE  HistoryInv'
<1>1. /\ pc \in {"open", "write"} /\ pc' = "write"
      /\ UNCHANGED <<ph, it, reps, exch, xi, lane, live, trace, cur, liveCur>>
  BY DEF OpenTmp, WriteMember, history
<1>2. Here' = Here
  BY <1>1 DEF Here
<1>3. InStep'
  BY <1>1, <1>2 DEF AllInv, HistoryInv, InStep, Origin
<1>4. /\ tmp'.head = [ph |-> ph, it |-> it, exch |-> exch]
      /\ \A n \in 0 .. wn' - 1 : tmp'.saved[n] = reps[n]
  <2>1. CASE OpenTmp
    BY <2>1 DEF OpenTmp
  <2>2. CASE WriteMember
    <3>1. wn \in 0 .. N /\ wn' = wn + 1 /\ tmp.head = [ph |-> ph, it |-> it, exch |-> exch]
      BY <2>2 DEF WriteMember, AllInv, TypeInv, TypeOK, HistoryInv, FilesKnown
    <3>2. \A n \in 0 .. wn : tmp'.saved[n] = reps[n]
      <4>1. \A n \in 0 .. wn - 1 : tmp.saved[n] = reps[n]
        BY <1>1, <2>2 DEF WriteMember, AllInv, HistoryInv, FilesKnown
      <4>2. tmp'.saved = [n \in 0 .. wn |-> IF n < wn THEN tmp.saved[n] ELSE reps[n]]
        BY <2>2 DEF WriteMember
      <4>3. \A n \in 0 .. wn : n < wn \/ n = wn
        BY <3>1
      <4>4. QED BY <3>1, <4>1, <4>2, <4>3
    <3>3. tmp'.head = tmp.head
      BY <2>2 DEF WriteMember
    <3>4. QED BY <3>1, <3>2, <3>3
  <2>3. QED BY <2>1, <2>2
<1>5. FilesKnown'
  BY <1>1, <1>4 DEF AllInv, HistoryInv, FilesKnown, Stored
<1>6. Computed'
  BY <1>1 DEF AllInv, HistoryInv, Computed
<1>7. QED BY <1>3, <1>5, <1>6 DEF HistoryInv

LEMMA RenameHistory ==
  ASSUME AllInv, TypeInv', Rename, liveCur' = cur, UNCHANGED <<trace, cur>>
  PROVE  HistoryInv'
<1>1. /\ pc = "write" /\ wn = N /\ live' = tmp /\ AfterSave
      /\ UNCHANGED <<reps, exch, lane>>
  BY DEF Rename, AllWritten
<1>2. /\ Origin = Here /\ ph \in {0, 1} /\ it \in Nat
      /\ ph = 0 => it \in 1 .. NNr
      /\ tmp.head = [ph |-> ph, it |-> it, exch |-> exch]
      /\ \A n \in Slots : lane[n] = "wait"
  BY <1>1 DEF AllInv, HistoryInv, InStep, FilesKnown, TypeInv, TypeOK, Control, LanesInStep
<1>3. tmp.saved = reps
  <2>1. tmp.saved \in [Slots -> Member] /\ reps \in [Slots -> Member]
    BY <1>1 DEF AllInv, TypeInv, TypeOK, Members, Control, FilesWhole, File
  <2>2. \A n \in Slots : tmp.saved[n] = reps[n]
    BY <1>1 DEF AllInv, HistoryInv, FilesKnown
  <2>3. QED BY <2>1, <2>2
<1>4. Stored(tmp) = Here
  BY <1>1, <1>2, <1>3 DEF Stored, Here, Pt
<1>5. /\ Here' = Here
      /\ pc' \in {"wave", "open", "done"}
      /\ pc' = "open" => ph' = 1
  <2>1. CASE ph = 0
    <3>1. ToNr(it) /\ it \in 0 .. NNr
      BY <1>1, <1>2, <2>1 DEF AfterSave
    <3>2. /\ Here' = Ideal!InNr(it, reps', exch')
          /\ pc' \in {"wave", "open", "done"}
          /\ pc' = "open" => ph' = 1
      BY <3>1, ToNrHere
    <3>3. QED BY <1>1, <1>2, <2>1, <3>2 DEF Ideal!InNr, Here
  <2>2. CASE ph = 1
    <3>1. ToRm(it)
      BY <1>1, <2>2 DEF AfterSave
    <3>2. QED BY <1>1, <2>2, <3>1, ToRmHere DEF Here, Pt
  <2>3. QED BY <1>2, <2>1, <2>2
<1>6. InStep'
  BY <1>1, <1>2, <1>5, Settles DEF Origin
<1>7. live'.head.ph = 0 => live'.head.it \in 1 .. NNr
  BY <1>1, <1>2
<1>8. trace'[liveCur'] = Stored(live')
  BY <1>1, <1>2, <1>4 DEF Origin
<1>9. FilesKnown'
  BY <1>5, <1>7, <1>8 DEF FilesKnown, Stored
<1>10. Computed'
  BY DEF AllInv, HistoryInv, Computed
<1>11. QED BY <1>6, <1>9, <1>10 DEF HistoryInv

LEMMA CrashHistory ==
  ASSUME AllInv, Crash, UNCHANGED history
  PROVE  HistoryInv'
BY DEF AllInv, HistoryInv, Computed, InStep, FilesKnown, Stored, Crash, files, history

LEMMA StepRun == HNext => Next
BY DEF HNext, Next, Launch, Saving

LEMMA StepHistory == AllInv /\ [HNext]_hvars => AllInv'
<1> SUFFICES ASSUME AllInv, [HNext]_hvars PROVE AllInv'
  OBVIOUS
<1>1. [Next]_vars
  BY StepRun DEF hvars
<1>2. TypeInv' /\ EnergyInv'
  BY <1>1, StepTypeInv, StepEnergyInv DEF AllInv
<1>3. HistoryInv'
  <2>1. CASE UNCHANGED hvars
    BY <2>1 DEF hvars, vars, volatile, files, history, AllInv, HistoryInv, Computed,
                InStep, Partial, Origin, Here, FilesKnown, Stored
  <2>2. CASE HNext
    BY <1>2, <2>2, FreshHistory, ResumeHistory, ReachHistory, RenameHistory,
       WorkHistory, WritingHistory, CrashHistory DEF HNext
  <2>3. QED BY <2>1, <2>2
<1>4. QED BY <1>2, <1>3 DEF AllInv

LEMMA InitAll == HInit => AllInv
BY InitTypeInv, InitEnergyInv, InitHistory DEF AllInv, HInit
-----------------------------------------------------------------------------
(* A process between two waves holds what the uninterrupted run holds.     *)
THEOREM ResumeIsExact == HSpec => []BitExactResume
<1>1. AllInv => BitExactResume
  <2> SUFFICES ASSUME AllInv, Settled PROVE cur \in 1 .. Len(trace) /\ Here = trace[cur]
    BY DEF BitExactResume
  <2>1. cur \in 1 .. Len(trace)
    BY DEF AllInv, HistoryInv, Computed
  <2>2. CASE pc \in {"exch", "open", "write", "done"}
    BY <2>1, <2>2 DEF AllInv, HistoryInv, InStep, Origin
  <2>3. CASE pc \in {"warm", "wave"}
    <3>1. /\ Origin = Pt(pc, ph, it, 0, Origin.reps, exch)
          /\ \A n \in Slots : reps[n] = Origin.reps[n]
      BY <2>3 DEF AllInv, HistoryInv, InStep, Partial, Settled, Idle
    <3>2. Origin.reps = reps
      <4>1. Origin.reps \in Members
        <5>1. Origin \in Points
          BY <2>1 DEF AllInv, HistoryInv, Computed, Origin
        <5>2. QED BY <5>1 DEF Points
      <4>2. QED BY <3>1, <4>1 DEF AllInv, TypeInv, TypeOK, Members
    <3>3. Here = Pt(pc, ph, it, 0, reps, exch)
      BY <2>3 DEF Here, Pt, AllInv, TypeInv, Control, InBudget
    <3>4. QED BY <2>1, <3>1, <3>2, <3>3 DEF Origin
  <2>4. QED BY <2>2, <2>3 DEF Settled, AllInv, TypeInv, TypeOK
<1>2. QED BY <1>1, InitAll, StepHistory, PTL DEF HSpec

(* Every ensemble computed is the serial schedule's next one.              *)
THEOREM RunImplementsSerial == HSpec => ImplementsSerial
<1>1. HInit => Ideal!SInit
  BY DEF HInit, Ideal!SInit
<1>2. AllInv /\ [HNext]_hvars => [Ideal!SNext]_(trace[Len(trace)])
  <2> SUFFICES ASSUME AllInv, [HNext]_hvars, trace' # trace
               PROVE  Ideal!SNext
    OBVIOUS
  <2>1. Serial /\ Reach
    BY DEF HNext, hvars, history
  <2>2. /\ trace \in Seq(Points) /\ cur = Len(trace) /\ trace' = Append(trace, Here')
    BY <2>1 DEF Reach, AllInv, HistoryInv, Computed
  <2>3. Here' = Ideal!Succ(trace[Len(trace)])
    BY <2>1, <2>2, SerialArrives DEF Arrived, Origin
  <2>4. TypeInv'
    BY StepHistory DEF AllInv
  <2>5. trace'[Len(trace')] = Here'
    BY <2>2, <2>4, HereType
  <2>6. QED BY <2>3, <2>5 DEF Ideal!SNext
<1>3. QED
  BY <1>1, <1>2, InitAll, StepHistory, PTL DEF HSpec, ImplementsSerial, Ideal!SSpec
=============================================================================

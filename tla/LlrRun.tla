------------------------------- MODULE LlrRun -------------------------------
(***************************************************************************)
(* orch::llr::Orchestrator: a process that is launched (setup), seats its  *)
(* replicas, runs NR waves and RM waves over parallel lanes with a serial  *)
(* drain, exchanges neighbours, checkpoints by write-to-tmp and rename,    *)
(* may be killed at any point, and is relaunched fresh or with --resume.   *)
(* A definition named Wrong... is not part of the model: it is what a      *)
(* plausible mistake would make of the definition after it, and shows that *)
(* a property notices the mistake.                                         *)
(***************************************************************************)
EXTENDS LlrPhysics, FiniteSets

CONSTANTS
  RmBudgets,      \* values of Spec::n_rm a launch may be given
  Every,          \* Spec::checkpoint_every
  Checkpointing,  \* Spec::checkpoint_path is not empty
  Lanes,          \* ThreadPlan::concurrency
  MaxLaunch,      \* bound: launches of the program in one behaviour
  NoFile,         \* no file at that path
  NoObs           \* an energy cache or buffer nothing has been stored in yet

ASSUME ScheduleAssumption ==
  /\ RmBudgets # {} /\ RmBudgets \subseteq 1 .. MaxIter
  /\ Every \in Nat /\ Lanes \in Nat \ {0} /\ MaxLaunch \in Nat \ {0}
  /\ Checkpointing \in BOOLEAN
  /\ NoObs \notin Obs

VARIABLES
  pc,        \* where the orchestrator's serial thread is
  ph, it,    \* the schedule slot being run, or about to be saved
  nrm,       \* this launch's n_rm
  reps,      \* what each replica slot holds: field, streams, tilt
  energy,    \* last_constraint() of each slot
  lane,      \* how far the wave has got with each slot
  deBuf,     \* de_buf_, written by the lanes, read by the drain
  aBuf,      \* a_buf_
  exch,      \* exch_rng_
  xi,        \* do_exchange's loop index
  wn,        \* save_ensemble's loop index: replicas written to tmp
  tmp,       \* the file <path>.tmp
  live,      \* the file <path>
  launches

volatile == <<ph, it, nrm, reps, energy, lane, deBuf, aBuf, exch, xi, wn>>
files    == <<tmp, live>>
vars     == <<pc, volatile, files, launches>>

Members == [Slots -> Member]

(* A checkpoint file: header, exchange generator, and the replicas written *)
(* so far, in ladder order.                                                *)
Header == [ph : {0, 1}, it : 0 .. MaxIter, exch : Rng]
File(k) == [head : Header, saved : [0 .. k - 1 -> Member]]
Complete(f) == DOMAIN f.saved = Slots

ASSUME FileAssumption == \A k \in 0 .. N : NoFile \notin File(k)
-----------------------------------------------------------------------------
(* Control flow between the serial thread's program points.                *)

\* Head of the RM loop.
WrongToRm(s) ==
  /\ ph' = 1 /\ it' = s
  /\ pc' = IF s <= nrm' THEN "wave" ELSE "done"

ToRm(s) ==
  /\ ph' = 1 /\ it' = s
  /\ pc' = IF s < nrm' THEN "wave" ELSE "done"

\* checkpoint(p, k): nothing when no path was given.
Save(p, k, skipped) ==
  IF Checkpointing
    THEN ph' = p /\ it' = k /\ pc' = "open"
    ELSE skipped

\* Head of the NR loop; falling out of it saves slot (1, 0).
ToNr(k) ==
  IF k < NNr
    THEN ph' = 0 /\ it' = k /\ pc' = "wave"
    ELSE Save(1, 0, ToRm(0))

Periodic(k) == Every > 0 /\ k % Every = 0

NrDone(k) == IF Periodic(k + 1) THEN Save(0, k + 1, ToNr(k + 1)) ELSE ToNr(k + 1)
WrongRmDone(s) == IF s + 1 = nrm THEN Save(1, s + 1, ToRm(s + 1)) ELSE ToRm(s + 1)

RmDone(s) == IF s + 1 = nrm \/ Periodic(s + 1)
               THEN Save(1, s + 1, ToRm(s + 1)) ELSE ToRm(s + 1)
-----------------------------------------------------------------------------
Idle == [n \in Slots |-> "wait"]

Init ==
  /\ pc = "down" /\ ph = 0 /\ it = 0 /\ nrm \in RmBudgets
  /\ reps = [n \in Slots |-> Fresh(n)]
  /\ energy = [n \in Slots |-> NoObs]
  /\ lane = Idle
  /\ deBuf = [n \in Slots |-> NoObs]
  /\ aBuf = [n \in Slots |-> Fresh(n).a]
  /\ exch = ExchSeed /\ xi = 0 /\ wn = 0
  /\ tmp = NoFile /\ live = NoFile
  /\ launches = 0

(* The constructor and setup(), as every launch runs them: replicas seeded *)
(* from Spec::seed, caches empty.                                          *)
Constructed ==
  /\ pc \in {"down", "done"}
  /\ launches < MaxLaunch
  /\ launches' = launches + 1
  /\ nrm' \in RmBudgets
  /\ energy' = [n \in Slots |-> NoObs]
  /\ deBuf' = [n \in Slots |-> NoObs]
  /\ aBuf' = [n \in Slots |-> Fresh(n).a]
  /\ lane' = Idle
  /\ xi' = 0 /\ wn' = 0
  /\ UNCHANGED files

LaunchFresh ==
  /\ Constructed
  /\ reps' = [n \in Slots |-> Fresh(n)]
  /\ exch' = ExchSeed
  /\ IF WarmOn THEN pc' = "warm" /\ ph' = 0 /\ it' = 0 ELSE ToNr(0)

WrongLoadedExch == ExchSeed

LoadedExch == live.head.exch

(* load_ensemble, then run(): warm_fresh and nr_phase are skipped by the   *)
(* slot the file names.  A truncated file makes the reader throw.          *)
LaunchResume ==
  /\ live # NoFile /\ Complete(live)
  /\ Constructed
  /\ reps' = live.saved
  /\ exch' = LoadedExch
  /\ IF live.head.ph = 0
       THEN IF live.head.it = 0 /\ WarmOn
              THEN pc' = "warm" /\ ph' = 0 /\ it' = 0
              ELSE ToNr(live.head.it)
       ELSE ToRm(live.head.it)
-----------------------------------------------------------------------------
(* parallel_workers: schedule(dynamic, 1) over `Lanes` threads.            *)

Running == {n \in Slots : lane[n] \in {"therm", "meas"}}

WrongLaneFree == Cardinality(Running) < Lanes - 1

LaneFree == Cardinality(Running) < Lanes

Pick(n) ==
  /\ pc \in {"warm", "wave"}
  /\ lane[n] = "wait"
  /\ \A m \in Slots : m < n => lane[m] # "wait"
  /\ LaneFree
  /\ lane' = [lane EXCEPT ![n] = "therm"]
  /\ UNCHANGED <<pc, ph, it, nrm, reps, energy, deBuf, aBuf, exch, xi, wn, files, launches>>

WarmReplica(n) ==
  /\ pc = "warm" /\ lane[n] = "therm"
  /\ reps' = [reps EXCEPT ![n] = Seat(n, reps[n])]
  /\ energy' = [energy EXCEPT ![n] = Q(Seat(n, reps[n]).cfg)]
  /\ lane' = [lane EXCEPT ![n] = "done"]
  /\ UNCHANGED <<pc, ph, it, nrm, deBuf, aBuf, exch, xi, wn, files, launches>>

Thermalize(n) ==
  /\ pc = "wave" /\ lane[n] = "therm"
  /\ reps' = [reps EXCEPT ![n] = Thermalized(ph, n, reps[n])]
  /\ energy' = [energy EXCEPT ![n] = Q(Thermalized(ph, n, reps[n]).cfg)]
  /\ lane' = [lane EXCEPT ![n] = "meas"]
  /\ UNCHANGED <<pc, ph, it, nrm, deBuf, aBuf, exch, xi, wn, files, launches>>

(* sample() and, where the step is per replica, the tilt it proposes.      *)
Sample(n) ==
  /\ pc = "wave" /\ lane[n] = "meas"
  /\ LET d == MeanDE(ph, n, reps[n])
     IN  /\ deBuf' = [deBuf EXCEPT ![n] = d]
         /\ aBuf' = IF Smoothed /\ ph = 1 THEN aBuf
                    ELSE [aBuf EXCEPT ![n] = Update(ph, it, n, reps[n].a, d)]
  /\ reps' = [reps EXCEPT ![n] = Sampled(ph, n, reps[n])]
  /\ energy' = [energy EXCEPT ![n] = Q(Sampled(ph, n, reps[n]).cfg)]
  /\ lane' = [lane EXCEPT ![n] = "done"]
  /\ UNCHANGED <<pc, ph, it, nrm, exch, xi, wn, files, launches>>

Joined == \A n \in Slots : lane[n] = "done"

WarmDone ==
  /\ pc = "warm" /\ Joined
  /\ nrm' = nrm
  /\ lane' = Idle
  /\ ToNr(0)
  /\ UNCHANGED <<reps, energy, deBuf, aBuf, exch, xi, wn, files, launches>>
-----------------------------------------------------------------------------
(* The serial drain after a wave: set_a on every slot.                     *)
Drained(a) == [n \in Slots |-> [reps[n] EXCEPT !.a = a[n]]]

DrainNr ==
  /\ pc = "wave" /\ ph = 0 /\ Joined
  /\ nrm' = nrm
  /\ reps' = Drained(aBuf)
  /\ lane' = Idle
  /\ NrDone(it)
  /\ UNCHANGED <<energy, deBuf, aBuf, exch, xi, wn, files, launches>>

WrongFirstPair(s) == (s + launches) % 2

FirstPair(s) == s % 2

WrongSmoothedTilts == Shrink(it, aBuf)

SmoothedTilts ==
  Shrink(it, [n \in Slots |-> Update(1, it, n, reps[n].a, deBuf[n])])

DrainRm ==
  /\ pc = "wave" /\ ph = 1 /\ Joined
  /\ nrm' = nrm
  /\ aBuf' = IF Smoothed THEN SmoothedTilts ELSE aBuf
  /\ reps' = Drained(aBuf')
  /\ lane' = Idle
  /\ xi' = FirstPair(it)
  /\ IF Exchange /\ FirstPair(it) + 1 < N
       THEN pc' = "exch" /\ UNCHANGED <<ph, it>>
       ELSE RmDone(it)
  /\ UNCHANGED <<energy, deBuf, exch, wn, files, launches>>

(* On accept the fields and the energy caches trade places; a, E_n and the *)
(* streams stay with the slot.                                             *)
WrongSwappedFields(i, j) == [reps EXCEPT ![i].cfg = reps[j].cfg]

SwappedFields(i, j) ==
  [reps EXCEPT ![i].cfg = reps[j].cfg, ![j].cfg = reps[i].cfg]

WrongSwappedCaches(i, j) == energy

SwappedCaches(i, j) == [energy EXCEPT ![i] = energy[j], ![j] = energy[i]]

(* try_exchange on (xi, xi + 1): draws only when log_p < 0.                *)
TryExchange(i, j) ==
  LET sure == Sure(i, reps[i].a, reps[j].a, energy[i], energy[j])
      accept == sure \/ Lucky(i, reps[i].a, reps[j].a, energy[i], energy[j], exch)
  IN  /\ exch' = IF sure THEN exch ELSE Draw(exch)
      /\ reps' = IF accept THEN SwappedFields(i, j) ELSE reps
      /\ energy' = IF accept THEN SwappedCaches(i, j) ELSE energy

ExchangePair ==
  /\ pc = "exch"
  /\ nrm' = nrm
  /\ TryExchange(xi, xi + 1)
  /\ xi' = xi + 2
  /\ IF xi + 3 < N THEN UNCHANGED <<pc, ph, it>> ELSE RmDone(it)
  /\ UNCHANGED <<lane, deBuf, aBuf, wn, files, launches>>
-----------------------------------------------------------------------------
(* save_ensemble: truncate <path>.tmp, write the header and the exchange   *)
(* generator, write the replicas one by one, close, rename over <path>.    *)
OpenTmp ==
  /\ pc = "open"
  /\ tmp' = [head |-> [ph |-> ph, it |-> it, exch |-> exch], saved |-> <<>>]
  /\ wn' = 0
  /\ pc' = "write"
  /\ UNCHANGED <<ph, it, nrm, reps, energy, lane, deBuf, aBuf, exch, xi, live, launches>>

WriteMember ==
  /\ pc = "write"
  /\ wn < N
  /\ tmp' = [head  |-> tmp.head,
             saved |-> [n \in 0 .. wn |-> IF n < wn THEN tmp.saved[n] ELSE reps[n]]]
  /\ wn' = wn + 1
  /\ UNCHANGED <<pc, ph, it, nrm, reps, energy, lane, deBuf, aBuf, exch, xi, live, launches>>

WrongAllWritten == wn = N - 1

AllWritten == wn = N

AfterSave == IF ph = 0 THEN ToNr(it) ELSE ToRm(it)

Rename ==
  /\ pc = "write"
  /\ nrm' = nrm
  /\ AllWritten
  /\ live' = tmp
  /\ tmp' = NoFile
  /\ AfterSave
  /\ UNCHANGED <<reps, energy, lane, deBuf, aBuf, exch, xi, wn, launches>>
-----------------------------------------------------------------------------
(* The process dies: a kill, or an exception leaving main.  Files stay as  *)
(* they are, memory is gone.  A later launch is always possible.           *)
Crash ==
  /\ pc \notin {"down", "done"}
  /\ launches < MaxLaunch
  /\ pc' = "down"
  /\ ph' = 0 /\ it' = 0 /\ xi' = 0 /\ wn' = 0
  /\ reps' = [n \in Slots |-> Fresh(n)]
  /\ energy' = [n \in Slots |-> NoObs]
  /\ deBuf' = [n \in Slots |-> NoObs]
  /\ aBuf' = [n \in Slots |-> Fresh(n).a]
  /\ exch' = ExchSeed
  /\ lane' = Idle
  /\ UNCHANGED <<nrm, files, launches>>

Launch == LaunchFresh \/ LaunchResume
Work(n) == Pick(n) \/ WarmReplica(n) \/ Thermalize(n) \/ Sample(n)
Serial == WarmDone \/ DrainNr \/ DrainRm \/ ExchangePair
Saving == OpenTmp \/ WriteMember \/ Rename

Next ==
  \/ Launch
  \/ \E n \in Slots : Work(n)
  \/ Serial
  \/ Saving
  \/ Crash

Spec == Init /\ [][Next]_vars

(* The operating system runs every runnable thread, a call that does not   *)
(* fail returns, and somebody relaunches a killed run with --resume when   *)
(* there is a file to resume from.  Nothing forces a crash.                *)
Fairness ==
  /\ \A n \in Slots : WF_vars(Work(n))
  /\ WF_vars(Serial) /\ WF_vars(Saving)
  /\ WF_vars(pc = "down" /\ IF live = NoFile THEN LaunchFresh ELSE LaunchResume)

FairSpec == Spec /\ Fairness
-----------------------------------------------------------------------------
TypeOK ==
  /\ pc \in {"down", "warm", "wave", "exch", "open", "write", "done"}
  /\ ph \in {0, 1} /\ it \in 0 .. MaxIter /\ nrm \in RmBudgets
  /\ reps \in Members
  /\ energy \in [Slots -> Obs \cup {NoObs}]
  /\ lane \in [Slots -> {"wait", "therm", "meas", "done"}]
  /\ deBuf \in [Slots -> Obs \cup {NoObs}]
  /\ aBuf \in [Slots -> Tilt]
  /\ exch \in Rng /\ xi \in Nat /\ wn \in 0 .. N
  /\ tmp # NoFile => \E k \in 0 .. N : tmp \in File(k)
  /\ live # NoFile => \E k \in 0 .. N : live \in File(k)
  /\ launches \in 0 .. MaxLaunch

(* The file at <path> is never a partial one: whatever instant the process *)
(* dies at, a relaunch finds a complete checkpoint or none at all          *)
(* (save_ensemble's write-to-tmp and rename).                              *)
LiveNeverTruncated == live # NoFile => Complete(live)

(* Exchange permutes configurations and nothing else does: no chain is     *)
(* lost or held twice, across swaps, waves, crashes and resumes.           *)
Injective(f) == \A m, n \in Slots : Walker(f[m].cfg) = Walker(f[n].cfg) => m = n

WalkersPermuted ==
  /\ \A n \in Slots : Walker(reps[n].cfg) \in Slots
  /\ Injective(reps)

(* The exchange test reads energies that describe the fields the slots     *)
(* hold now: measured since the launch, and moved along with every swap    *)
(* (Replica::energy is a cache, "valid once at least one trajectory has    *)
(* run").                                                                  *)
EnergyFollowsField ==
  \A n \in Slots : energy[n] = Q(reps[n].cfg) \/ (energy[n] = NoObs /\ pc # "exch")

(* What a death would cost now, in completed iterations of either phase    *)
(* that the file at <path> does not have: less than a period, but the      *)
(* whole period while its save is under way, until the rename; nothing     *)
(* when the run has ended, though its last iteration may be off the        *)
(* period.  Across the change from NR to RM, too.                          *)
Position(p, k) == IF p = 0 THEN k ELSE NNr + k
Kept == IF live = NoFile THEN 0 ELSE Position(live.head.ph, live.head.it)
Lost == Position(ph, it) - Kept
LossBounded ==
  Checkpointing =>
    /\ Every > 0 => IF pc \in {"open", "write"} THEN Lost <= Every ELSE Lost < Every
    /\ pc = "done" => Lost = 0

(* A run that is relaunched after its crashes ends, and leaves a           *)
(* checkpoint at (or beyond) the budget it was given.                      *)
Finishes ==
  <>[](/\ pc = "done"
       /\ live # NoFile /\ live.head.ph = 1 /\ live.head.it >= nrm)
=============================================================================

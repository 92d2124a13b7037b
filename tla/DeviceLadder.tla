---------------------------- MODULE DeviceLadder ----------------------------
(***************************************************************************)
(* The CUDA ladder: one host thread runs warm_all and run, and queues work *)
(* on one stream per replica.  Each stream executes in order, on its own,  *)
(* while the host goes on; the host waits only where it reads a result.    *)
(* What a trajectory computes is left out: the model follows under which   *)
(* window it ran, and into which mean it went.                             *)
(***************************************************************************)
EXTENDS Integers, Sequences

CONSTANTS
  NRep,        \* replicas
  NBase,       \* warm_all's n_base
  Batch,       \* and its batch
  MaxBatches,  \* and its max_batches
  NTherm, NMeas,  \* DriverSpec: trajectories per iteration
  NNr, NRm,    \* DriverSpec: iterations
  Exchange,    \* DriverSpec::exchange
  MaxRamp,     \* bound: hops a replica may be away from its centre
  None, Mixed  \* no window; a change of window under way

ASSUME LadderAssumption ==
  /\ NRep \in Nat \ {0} /\ Batch \in Nat \ {0} /\ NMeas \in Nat \ {0}
  /\ NBase \in Nat /\ MaxBatches \in Nat /\ NTherm \in Nat /\ MaxRamp \in Nat
  /\ NNr \in Nat /\ NRm \in Nat /\ Exchange \in BOOLEAN

Slots == 1 .. NRep

(* E_n of the window that slot w was built with, or the k-th centre of its *)
(* ramp; a tilt of that window after u updates.                            *)
Centre(w, k) == [of |-> w, hop |-> k]
Tilt(w, u)   == [of |-> w, updates |-> u]
Zero         == Tilt(0, 0)

Centres == [of : Slots, hop : 0 .. MaxRamp]
Tilts   == [of : Slots, updates : Nat] \cup {Zero}
Windows == [tilt : Tilts, centre : Centres, flat : BOOLEAN]

ASSUME MarkAssumption == None \notin Windows /\ Mixed \notin Windows

Ops == [do : {"base", "traj", "zero", "acc"}, at : Centres]

VARIABLES
  pc, i, k, t,  \* the host: what it does, for which slot, hop or batch or
                \* iteration, and trajectory of a block
  ramp,         \* n_ramp
  done,         \* slots seated
  win,          \* WindowedAction's a_h_, e_n_h_, delta_h_ ("flat": times 1e8)
  eN,           \* Replica::e_n_
  mean,         \* what end_measure returned last
  rows,         \* the latest row of each slot's three series
  params,       \* device: params_
  queue,        \* device: what is pending on md_stream_
  flight,       \* device: the window a trajectory under way began under
  ran,          \* device: the window the latest trajectory ran under
  acc           \* device: de_accum_, as the window and the number of its terms

host == <<pc, i, k, t, ramp, done, win, eN, mean, rows>>
device == <<queue, flight, ran, acc>>
vars == <<host, params, device>>

Op(do, n) == [do |-> do, at |-> eN[n]]

Run(n, count) == [j \in 1 .. count |-> Op("traj", n)]

Nothing == [under |-> None, terms |-> 0]

Init ==
  /\ pc = IF NBase > 0 THEN "base" ELSE "plan"
  /\ i = 1 /\ k = 1 /\ t = 0
  /\ ramp = [n \in Slots |-> 0] /\ done = {}
  /\ win = [n \in Slots |-> [tilt |-> Tilt(n, 0), centre |-> Centre(n, 0), flat |-> FALSE]]
  /\ eN = [n \in Slots |-> Centre(n, 0)]
  /\ mean = [n \in Slots |-> Nothing] /\ rows = [n \in Slots |-> None]
  /\ params = win
  /\ queue = [n \in Slots |-> <<>>]
  /\ flight = [n \in Slots |-> None] /\ ran = [n \in Slots |-> None]
  /\ acc = [n \in Slots |-> Nothing]
-----------------------------------------------------------------------------
(* The device.  A trajectory reads params_ for its first energy, for every *)
(* force and for its last energy.                                          *)
Begin(n) ==
  /\ queue[n] # <<>> /\ Head(queue[n]).do \in {"base", "traj"} /\ flight[n] = None
  /\ flight' = [flight EXCEPT ![n] = params[n]]
  /\ UNCHANGED <<queue, ran, acc>>

End(n) ==
  /\ flight[n] # None
  /\ ran' = [ran EXCEPT ![n] = IF flight[n] = params[n] THEN params[n] ELSE Mixed]
  /\ flight' = [flight EXCEPT ![n] = None]
  /\ queue' = [queue EXCEPT ![n] = Tail(@)]
  /\ UNCHANGED acc

ZeroAcc(n) ==
  /\ queue[n] # <<>> /\ Head(queue[n]).do = "zero"
  /\ acc' = [acc EXCEPT ![n] = Nothing]
  /\ queue' = [queue EXCEPT ![n] = Tail(@)]
  /\ UNCHANGED <<flight, ran>>

(* constraint_s_full_into and accumulate_de_kernel, whose E_n is a literal.*)
Term(n) ==
  LET known == ran[n] \notin {None, Mixed}
  IN  IF known /\ ran[n].centre = Head(queue[n]).at /\ acc[n].under \in {None, ran[n]}
      THEN ran[n] ELSE Mixed

Accumulate(n) ==
  /\ queue[n] # <<>> /\ Head(queue[n]).do = "acc"
  /\ acc' = [acc EXCEPT ![n] = [under |-> Term(n), terms |-> @.terms + 1]]
  /\ queue' = [queue EXCEPT ![n] = Tail(@)]
  /\ UNCHANGED <<flight, ran>>

Execute(n) == Begin(n) \/ End(n) \/ ZeroAcc(n) \/ Accumulate(n)
-----------------------------------------------------------------------------
(* The host.  upload_ is a cudaMemcpy on the default stream, which does    *)
(* not wait for the non-blocking streams.                                  *)
Upload(n, w) ==
  /\ win' = [win EXCEPT ![n] = w]
  /\ params' = [params EXCEPT ![n] = w]

Enqueue(n, ops) ==
  /\ queue' = [queue EXCEPT ![n] = @ \o ops]
  /\ UNCHANGED <<flight, ran, acc>>

(* cudaStreamSynchronize.                                                  *)
Synced(n) == queue[n] = <<>>

(* end_measure.                                                            *)
Read(n) == mean' = [mean EXCEPT ![n] = acc[n]]

(* The loop over the replicas in step `here`, then step `there`.           *)
Advance(here, there) ==
  /\ pc = here
  /\ IF i < NRep THEN i' = i + 1 /\ pc' = here ELSE i' = 1 /\ pc' = there

SetCentre(n, c) == Upload(n, [win[n] EXCEPT !.centre = c]) /\ eN' = [eN EXCEPT ![n] = c]

(* set_a with a Newton-Raphson or Robbins-Monro step.                      *)
Updated(n) == Upload(n, [win[n] EXCEPT !.tilt.updates = @ + 1])

BaseLaunch ==
  /\ Advance("base", "widths")
  /\ Upload(i, [win[i] EXCEPT !.tilt = Zero, !.flat = TRUE])
  /\ Enqueue(i, [j \in 1 .. NBase |-> Op("base", i)])
  /\ UNCHANGED <<k, t, ramp, done, eN, mean, rows>>

(* warm_base_end uploads twice and waits for nothing.                      *)
BaseWidth ==
  /\ pc = "widths" /\ pc' = "tilts"
  /\ Upload(i, [win[i] EXCEPT !.flat = FALSE])
  /\ UNCHANGED <<i, k, t, ramp, done, eN, mean, rows, device>>

(* saved_a_, which warm_base_begin has kept from before its set_a(0).      *)
Saved(n) == Tilt(n, 0)

BaseTilt ==
  /\ pc = "tilts"
  /\ IF i < NRep THEN i' = i + 1 /\ pc' = "widths" ELSE i' = 1 /\ pc' = "plan"
  /\ Upload(i, [win[i] EXCEPT !.tilt = Saved(i)])
  /\ UNCHANGED <<k, t, ramp, done, eN, mean, rows, device>>

(* warm_ramp_plan: the number of hops is that of the field as it is.       *)
Plan ==
  /\ Advance("plan", "hop") /\ Synced(i)
  /\ \E h \in 0 .. MaxRamp : ramp' = [ramp EXCEPT ![i] = h]
  /\ UNCHANGED <<k, t, done, win, eN, mean, rows, params, device>>

Deepest == CHOOSE h \in 0 .. MaxRamp :
             /\ \A n \in Slots : ramp[n] <= h
             /\ h = 0 \/ \E n \in Slots : ramp[n] = h

Hops(n) == k <= ramp[n]

(* measure_trajectory: the literal is e_n_ when it is queued.              *)
Measured(n) == <<Op("traj", n), Op("acc", n)>>

Block(c, n) ==
  [j \in 1 .. 2 * Batch |-> [do |-> IF j % 2 = 1 THEN "traj" ELSE "acc", at |-> c]]

Hop ==
  /\ IF k <= Deepest THEN Advance("hop", "adapt")
     ELSE pc = "hop" /\ pc' = "restore" /\ UNCHANGED i
  /\ IF Hops(i)
     THEN /\ SetCentre(i, Centre(i, k))
          /\ Enqueue(i, <<[do |-> "zero", at |-> Centre(i, k)]>> \o Block(Centre(i, k), i))
     ELSE UNCHANGED <<win, eN, params, device>>
  /\ UNCHANGED <<k, t, ramp, done, mean, rows>>

Adapt ==
  /\ Advance("adapt", "hop")
  /\ k' = IF i = NRep THEN k + 1 ELSE k
  /\ IF Hops(i) THEN Synced(i) /\ Read(i) /\ Updated(i) ELSE UNCHANGED <<mean, win, params>>
  /\ UNCHANGED <<t, ramp, done, eN, rows, device>>

Restore ==
  /\ Advance("restore", IF MaxBatches > 0 THEN "seat" ELSE "therm")
  /\ k' = 1
  /\ IF ramp[i] > 0 THEN SetCentre(i, Centre(i, 0)) ELSE UNCHANGED <<win, eN, params>>
  /\ UNCHANGED <<t, ramp, done, mean, rows, device>>

Seat ==
  /\ Advance("seat", "reached")
  /\ IF i \in done THEN UNCHANGED device ELSE Enqueue(i, Run(i, Batch))
  /\ UNCHANGED <<k, t, ramp, done, win, eN, mean, rows, params>>

(* Another batch for those not within threshold_sigmas of their centre.    *)
Reached ==
  /\ pc = "reached"
  /\ \/ i \in done /\ UNCHANGED done
     \/ i \notin done /\ Synced(i) /\ done' \in {done, done \cup {i}}
  /\ IF i < NRep THEN i' = i + 1 /\ UNCHANGED <<pc, k>>
     ELSE /\ i' = 1
          /\ IF done' = Slots \/ k = MaxBatches
             THEN pc' = "therm" /\ k' = 1
             ELSE pc' = "seat" /\ k' = k + 1
  /\ UNCHANGED <<t, ramp, win, eN, mean, rows, params, device>>
-----------------------------------------------------------------------------
(* An iteration of either phase: k counts them.                            *)
Iterating == k <= NNr + NRm

Therm ==
  /\ Iterating
  /\ Advance("therm", "meas") /\ t' = 1
  /\ Enqueue(i, Append(Run(i, NTherm), Op("zero", i)))
  /\ UNCHANGED <<k, ramp, done, win, eN, mean, rows, params>>

Meas ==
  /\ Advance("meas", IF t < NMeas THEN "meas" ELSE "gather")
  /\ t' = IF i = NRep THEN t + 1 ELSE t
  /\ Enqueue(i, Measured(i))
  /\ UNCHANGED <<k, ramp, done, win, eN, mean, rows, params>>

WrongGather ==
  /\ Advance("gather", "set")
  /\ Read(i)
  /\ UNCHANGED <<k, t, ramp, done, win, eN, rows, params, device>>

Gather ==
  /\ Advance("gather", "set") /\ Synced(i)
  /\ Read(i)
  /\ UNCHANGED <<k, t, ramp, done, win, eN, rows, params, device>>

SetTilt ==
  /\ Advance("set", "rows")
  /\ Updated(i)
  /\ UNCHANGED <<k, t, ramp, done, eN, mean, rows, device>>

(* The parity of the exchanges is that of the RM iteration.                *)
Drain ==
  /\ pc = "rows"
  /\ rows' = [n \in Slots |-> [tilt |-> win[n].tilt, eN |-> eN[n]]]
  /\ IF k > NNr /\ Exchange
     THEN pc' = "exch" /\ i' = 1 + ((k - NNr - 1) % 2) /\ UNCHANGED k
     ELSE pc' = "therm" /\ i' = 1 /\ k' = k + 1
  /\ UNCHANGED <<t, ramp, done, win, eN, mean, params, device>>

WrongSwapped(m, n) ==
  /\ win' = [win EXCEPT ![m].centre = win[n].centre, ![n].centre = win[m].centre]
  /\ params' = win'
  /\ eN' = [eN EXCEPT ![m] = eN[n], ![n] = eN[m]]

(* swap_window: {a, E_n} change sides, on the host and on the device;      *)
(* fields, counters and generators stay where they are.                    *)
Swapped(m, n) ==
  /\ win' = [win EXCEPT ![m].tilt = win[n].tilt, ![m].centre = eN[n],
                        ![n].tilt = win[m].tilt, ![n].centre = eN[m]]
  /\ params' = [params EXCEPT ![m] = win'[m], ![n] = win'[n]]
  /\ eN' = [eN EXCEPT ![m] = eN[n], ![n] = eN[m]]

WrongNextPair == i

NextPair == i + 2

(* energy() of both slots waits for their streams.                         *)
TryExchange ==
  /\ pc = "exch" /\ i + 1 <= NRep
  /\ Synced(i) /\ Synced(i + 1)
  /\ Swapped(i, i + 1) \/ UNCHANGED <<win, params, eN>>
  /\ i' = NextPair
  /\ UNCHANGED <<pc, k, t, ramp, done, mean, rows, device>>

NextIteration ==
  /\ pc = "exch" /\ i + 1 > NRep
  /\ pc' = "therm" /\ i' = 1 /\ k' = k + 1
  /\ UNCHANGED <<t, ramp, done, win, eN, mean, rows, params, device>>

Warm ==
  \/ BaseLaunch \/ BaseWidth \/ BaseTilt
  \/ Plan \/ Hop \/ Adapt \/ Restore
  \/ Seat \/ Reached

Iterate == Therm \/ Meas \/ Gather \/ SetTilt \/ Drain \/ TryExchange \/ NextIteration

Host == Warm \/ Iterate

Next == Host \/ \E n \in Slots : Execute(n) /\ UNCHANGED <<host, params>>

(* The host thread runs, and a stream with work makes progress.            *)
Spec ==
  /\ Init /\ [][Next]_vars
  /\ WF_vars(Host)
  /\ \A n \in Slots : WF_vars(Execute(n) /\ UNCHANGED <<host, params>>)
-----------------------------------------------------------------------------
TypeOK ==
  /\ pc \in {"base", "widths", "tilts", "plan", "hop", "adapt", "restore", "seat", "reached",
              "therm", "meas", "gather", "set", "rows", "exch"}
  /\ i \in Nat \ {0} /\ (pc # "exch" => i \in Slots) /\ k \in Nat \ {0} /\ t \in Nat
  /\ ramp \in [Slots -> 0 .. MaxRamp] /\ done \subseteq Slots
  /\ win \in [Slots -> Windows] /\ eN \in [Slots -> Centres] /\ params \in [Slots -> Windows]
  /\ queue \in [Slots -> Seq(Ops)]
  /\ flight \in [Slots -> Windows \cup {None}]
  /\ ran \in [Slots -> Windows \cup {None, Mixed}]
  /\ acc \in [Slots -> [under : Windows \cup {None, Mixed}, terms : Nat]]
  /\ mean \in [Slots -> [under : Windows \cup {None, Mixed}, terms : Nat]]
  /\ rows \in [Slots -> [tilt : Tilts, eN : Centres] \cup {None}]

(* A tilt is only ever moved by a mean over all the trajectories of its    *)
(* block and no other, each of them run from end to end under the window   *)
(* and the tilt that the slot still has, and measured from that centre.    *)
UpdatesUseTheirBlock ==
  [][\A n \in Slots :
       win'[n].tilt = Tilt(win[n].tilt.of, win[n].tilt.updates + 1)
         => mean'[n] = [under |-> win[n], terms |-> IF pc = "adapt" THEN Batch ELSE NMeas]]_vars

(* Exchanges move windows from slot to slot, each with its own tilt; the   *)
(* host's two copies and the device's agree about who holds which.         *)
WindowsPermuted ==
  /\ \A w \in Slots : \E n \in Slots : win[n].centre.of = w
  /\ \A n \in Slots :
       /\ win[n].tilt.of \in {win[n].centre.of, 0}
       /\ win[n].tilt.of = 0 => pc \in {"base", "widths", "tilts"}
       /\ eN[n] = win[n].centre /\ params[n] = win[n]

(* "E_n is written as a per-slot series and analysis groups by E_n": each  *)
(* iteration has one row for each window, and along a window's rows the    *)
(* tilt is the one updated once more, wherever the window was.             *)
RowsGroupByWindow ==
  pc \in {"therm", "exch"} /\ rows # [n \in Slots |-> None] =>
    /\ \A w \in Slots : \E n \in Slots : rows[n].eN = Centre(w, 0)
    /\ \A n \in Slots :
         LET w == rows[n].eN.of
         IN  rows[n].tilt = Tilt(w, ramp[w] + IF pc = "exch" THEN k ELSE k - 1)

(* The streams and the host get through the whole schedule.                *)
Finishes == <>(pc = "therm" /\ ~Iterating)

(* "Stage 1: thermalize under the base action (window flattened)", and of  *)
(* warm_base_end "syncs via the param upload ordering" (driver.hpp).       *)
BaseUnderFlatWindow ==
  \A n \in Slots : flight[n] # None /\ Head(queue[n]).do = "base" => params[n].flat

(* "param-swap gives the identical acceptance and a slot-relabeled state,  *)
(* so the ensemble matches the CPU config-swap" (driver.hpp), where slot n *)
(* always has the n-th window and neighbours are exchanged.                *)
NeighboursExchanged ==
  pc = "exch" /\ i + 1 <= NRep =>
    win[i].centre.of - win[i + 1].centre.of \in {-1, 1}
=============================================================================

----------------------------- MODULE ReplicaWarm ----------------------------
(***************************************************************************)
(* One replica from its hot start to the NR phase: warm_into_window        *)
(* thermalizes on the base action, ramps the window centre from where the  *)
(* field is to E_n, and seats the tilt; thermalize and sample follow.  A   *)
(* trajectory may take the constraint anywhere, or be rejected.            *)
(***************************************************************************)
EXTENDS Ramp

CONSTANTS
  En, Delta,    \* the replica's window
  NTherm,       \* trajectories on the base action
  Batch,        \* k_batch
  MaxTraj,      \* max_traj
  Threshold,    \* threshold_sigmas
  Qs,           \* values of the constraint
  MaxMeasured   \* bound: trajectories after the warm-up

ASSUME WarmAssumption ==
  /\ En \in Int /\ Delta \in Nat /\ Qs \subseteq Int
  /\ NTherm \in Nat /\ Batch \in Nat \ {0} /\ MaxTraj \in Nat /\ Threshold \in Nat
  /\ MaxMeasured \in Nat

VARIABLES
  pc,         \* "base"; "ramp", "hop": its outer and inner loop; "seat",
              \* "batch": likewise; "warm": returned
  i, k, n, cnt, traj,
  sum,        \* of Q - E_n over a batch of the seat loop
  q, q0,      \* the constraint now, and where the ramp began
  centre,     \* windowed_.E_n, a fraction
  width,      \* windowed_.delta: "window" or "none"
  tilt,       \* windowed_.a: "given", "none" or "adapted"
  nTraj,      \* ReplicaStats::n_traj
  measured    \* trajectories since the warm-up

loops == <<i, k, n, cnt, traj, sum, q0>>
window == <<centre, width, tilt>>
stats == <<nTraj>>
vars == <<pc, loops, q, window, stats, measured>>

Fraction(num, den) == [num |-> num, den |-> den]

Init ==
  /\ pc = "base" /\ i = 0 /\ k = 0 /\ n = 0 /\ cnt = 0 /\ traj = 0 /\ sum = 0
  /\ q \in Qs /\ q0 = q
  /\ centre = Fraction(En, 1) /\ width = "none" /\ tilt = "none"
  /\ nTraj = 0 /\ measured = 0

(* sampler_.step(): rejected, it leaves the field where it was.            *)
Trajectory == q' \in Qs /\ nTraj' = nTraj + 1

Stepped == Trajectory /\ UNCHANGED measured

BaseStep ==
  /\ pc = "base" /\ i < NTherm
  /\ Stepped
  /\ i' = i + 1
  /\ UNCHANGED <<pc, k, n, cnt, traj, sum, q0, window>>

(* The saved width and tilt come back.                                     *)
WindowOn == width' = "window" /\ tilt' = "given"

StartRamp ==
  /\ pc = "base" /\ i >= NTherm
  /\ WindowOn
  /\ q0' = q /\ n' = RampSteps(En - q, Delta) /\ k' = 0
  /\ pc' = "ramp"
  /\ UNCHANGED <<i, cnt, traj, sum, q, centre, stats, measured>>

WrongHopsOn == k < n

HopsOn == k < n /\ traj < MaxTraj

NextHop ==
  /\ pc = "ramp" /\ HopsOn
  /\ k' = k + 1
  /\ centre' = Fraction(RampCentre(q0, En - q0, k + 1, n), n)
  /\ cnt' = 0
  /\ pc' = "hop"
  /\ UNCHANGED <<i, n, traj, sum, q, q0, width, tilt, stats, measured>>

BatchOn == cnt < Batch /\ traj < MaxTraj

HopStep ==
  /\ pc = "hop" /\ BatchOn
  /\ Stepped
  /\ cnt' = cnt + 1 /\ traj' = traj + 1
  /\ UNCHANGED <<pc, i, k, n, sum, q0, window>>

HopUpdate ==
  /\ pc = "hop" /\ ~BatchOn
  /\ tilt' = "adapted"
  /\ pc' = "ramp"
  /\ UNCHANGED <<loops, q, centre, width, stats, measured>>

WrongCentred == UNCHANGED centre

(* However the ramp ended, the real centre comes back.                     *)
Centred == centre' = Fraction(En, 1)

EndRamp ==
  /\ pc = "ramp" /\ ~HopsOn
  /\ Centred
  /\ pc' = "seat"
  /\ UNCHANGED <<loops, q, width, tilt, stats, measured>>

WrongSeatOn == TRUE

SeatOn == traj < MaxTraj

StartBatch ==
  /\ pc = "seat" /\ SeatOn
  /\ cnt' = 0 /\ sum' = 0
  /\ pc' = "batch"
  /\ UNCHANGED <<i, k, n, traj, q0, q, window, stats, measured>>

WrongCount == UNCHANGED traj

Count == traj' = traj + 1

BatchStep ==
  /\ pc = "batch" /\ BatchOn
  /\ Stepped
  /\ cnt' = cnt + 1 /\ Count
  /\ sum' = sum + (q' - En)
  /\ UNCHANGED <<pc, i, k, n, q0, window>>

(* |mean| / delta < threshold, with 0 for a degenerate delta.              *)
Seated ==
  IF Delta = 0 THEN 0 < Threshold ELSE Size(sum) < Threshold * Delta * cnt

SeatUpdate ==
  /\ pc = "batch" /\ ~BatchOn
  /\ \/ Seated /\ pc' = "warm" /\ UNCHANGED tilt
     \/ ~Seated /\ pc' = "seat" /\ tilt' = "adapted"
  /\ UNCHANGED <<loops, q, centre, width, stats, measured>>

GiveUp ==
  /\ pc = "seat" /\ ~SeatOn
  /\ pc' = "warm"
  /\ UNCHANGED <<loops, q, window, stats, measured>>

Warming ==
  \/ BaseStep \/ StartRamp \/ NextHop \/ HopStep \/ HopUpdate \/ EndRamp
  \/ StartBatch \/ BatchStep \/ SeatUpdate \/ GiveUp

(* A trajectory of thermalize or sample.                                   *)
Measure ==
  /\ pc = "warm" /\ measured < MaxMeasured
  /\ Trajectory
  /\ measured' = measured + 1
  /\ UNCHANGED <<pc, loops, window>>

Next == Warming \/ Measure

Spec == Init /\ [][Next]_vars /\ WF_vars(Warming)
-----------------------------------------------------------------------------
TypeOK ==
  /\ pc \in {"base", "ramp", "hop", "seat", "batch", "warm"}
  /\ i \in 0 .. NTherm /\ k \in 0 .. n /\ n \in Nat /\ cnt \in 0 .. Batch
  /\ traj \in 0 .. MaxTraj /\ sum \in Int /\ q \in Qs /\ q0 \in Qs
  /\ centre \in [num : Int, den : Nat \ {0}]
  /\ width \in {"window", "none"} /\ tilt \in {"given", "none", "adapted"}
  /\ nTraj \in Nat
  /\ measured \in 0 .. MaxMeasured

(* The window is off, with its tilt, exactly while the base action is      *)
(* sampled; whatever loop the budget cut short, the replica that NR gets   *)
(* has its own centre, width and a tilt of its own.                        *)
WindowRestored ==
  /\ pc = "base" <=> width = "none"
  /\ width = "none" <=> tilt = "none"
  /\ pc \in {"base", "seat", "batch", "warm"} => centre = Fraction(En, 1)

(* The mean of a batch is never taken over no trajectory, in whichever     *)
(* iteration the budget runs out.                                          *)
NoEmptyBatch == pc \in {"hop", "batch"} /\ ~BatchOn => cnt > 0

(* What warm_into_window returns is what it ran.                           *)
BudgetKept == nTraj = i + traj + measured /\ traj <= MaxTraj

Previous == IF k = 0 THEN Fraction(q0, 1) ELSE centre

Near(x, y) == 2 * Size(x.num * y.den - y.num * x.den) <= Delta * x.den * y.den

(* "steps of at most half a delta" (ramp.hpp): from where the field was,   *)
(* hop by hop, and on to the real centre, unless the budget cut the ramp.  *)
HopsSmall ==
  [][/\ NextHop => Near(Previous, centre')
     /\ EndRamp /\ Delta > 0 /\ k = n => Near(Previous, centre')]_vars

(* Seated or not, the warm-up ends.                                        *)
Ends == <>(pc = "warm")
=============================================================================

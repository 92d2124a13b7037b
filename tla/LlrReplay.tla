----------------------------- MODULE LlrReplay ------------------------------
(***************************************************************************)
(* LlrRun with a history: `trace` is the sequence of ensembles the run has *)
(* computed at its serial points, over all launches, each entered once;    *)
(* `cur` says which of them the running process is at, `liveCur` which of  *)
(* them the file holds.  The history restricts nothing: every behaviour of *)
(* LlrRun is one of LlrReplay.                                             *)
(***************************************************************************)
EXTENDS LlrRun, Sequences

VARIABLES trace, cur, liveCur

history == <<trace, cur, liveCur>>
hvars   == <<vars, history>>

(* The serial point a process is at when no wave is under way.             *)
Here ==
  LET nrOver == ph = 0 /\ it = NNr /\ pc # "warm"
  IN  [stage |-> IF pc \in {"warm", "exch"} THEN pc ELSE "wave",
       ph    |-> IF nrOver THEN 1 ELSE ph,
       it    |-> IF nrOver THEN 0 ELSE it,
       i     |-> IF pc = "exch" THEN xi ELSE 0,
       reps  |-> reps,
       exch  |-> exch]

Settled == pc # "down" /\ lane = Idle

Ideal == INSTANCE LlrSerial WITH pt <- trace[Len(trace)]

HInit == Init /\ trace = <<Ideal!Start>> /\ cur = 1 /\ liveCur = 1

(* A serial point is computed: for the first time, or again by a relaunch. *)
Reach ==
  /\ cur' = cur + 1
  /\ trace' = IF cur = Len(trace) THEN Append(trace, Here') ELSE trace
  /\ UNCHANGED liveCur

HNext ==
  \/ LaunchFresh  /\ cur' = 1       /\ UNCHANGED <<trace, liveCur>>
  \/ LaunchResume /\ cur' = liveCur /\ UNCHANGED <<trace, liveCur>>
  \/ Serial /\ Reach
  \/ Rename /\ liveCur' = cur /\ UNCHANGED <<trace, cur>>
  \/ (\E n \in Slots : Work(n)) /\ UNCHANGED history
  \/ (OpenTmp \/ WriteMember \/ Crash) /\ UNCHANGED history

HSpec == HInit /\ [][HNext]_hvars
HFairSpec == HSpec /\ Fairness
-----------------------------------------------------------------------------
(* A process between two waves holds exactly the ensemble the              *)
(* uninterrupted run has there: fields, streams, tilts, exchange           *)
(* generator and schedule slot (test_phi4_llr_resume_equivalence).         *)
BitExactResume == Settled => cur \in 1 .. Len(trace) /\ Here = trace[cur]

(* Whatever the lanes, crashes and relaunches do, the ensembles computed   *)
(* are those of the serial schedule, in its order.                         *)
ImplementsSerial == Ideal!SSpec
=============================================================================

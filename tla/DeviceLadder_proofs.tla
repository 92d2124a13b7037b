------------------------ MODULE DeviceLadder_proofs -------------------------
(***************************************************************************)
(* The safety of the device schedule, for any number of replicas, ramps,   *)
(* batches and iterations, and any speeds of the streams: windows are      *)
(* permuted, each with its tilt and in all its copies; a tilt is moved     *)
(* only by the mean of its own block; the rows group by window.            *)
(***************************************************************************)
EXTENDS DeviceLadder, WellFoundedInduction, TLAPS

Warming ==
  {"base", "widths", "tilts", "plan", "hop", "adapt", "restore", "seat", "reached"}

Lesser(a, b) == IF a <= b THEN a ELSE b

(* The hop or the iteration that slot n has completed, in a step that      *)
(* completes it.                                                           *)
Swept(n) == IF n < i THEN k ELSE k - 1

(* The updates that the window of slot n has had on its ramp, and in the   *)
(* iterations.                                                             *)
Climbed(n) ==
  LET w == win[n].centre.of IN
  IF pc \in {"base", "widths", "tilts", "plan"} THEN 0
  ELSE IF pc = "hop" THEN Lesser(k - 1, ramp[w])
  ELSE IF pc = "adapt" THEN Lesser(Swept(n), ramp[w])
  ELSE ramp[w]

Iterated(n) ==
  IF pc \in Warming THEN 0
  ELSE IF pc \in {"therm", "meas", "gather"} THEN k - 1
  ELSE IF pc = "set" THEN Swept(n)
  ELSE k

(* The hop at which the centre of slot n is.                               *)
Hopped(n) ==
  IF pc = "hop" THEN Lesser(Swept(n), ramp[n])
  ELSE IF pc = "adapt" THEN Lesser(k, ramp[n])
  ELSE IF pc = "restore" /\ ~(n < i) THEN ramp[n]
  ELSE 0

Flattened(n) ==
  \/ pc = "base" /\ n < i
  \/ pc \in {"widths", "tilts"} /\ ~(n < i)

Counters ==
  /\ pc \in {"base", "widths", "tilts", "plan"} => k = 1
  /\ pc = "hop" /\ i > 1 => k <= Deepest
  /\ pc = "meas" => t \in 1 .. NMeas
  /\ pc = "gather" => t = NMeas + 1

PlacedAt(n) ==
  /\ eN[n] = win[n].centre /\ params[n] = win[n]
  /\ pc \in Warming => win[n].centre.of = n
  /\ win[n].centre = Centre(win[n].centre.of, Hopped(n))
  /\ win[n].tilt = IF Flattened(n) THEN Zero
                    ELSE Tilt(win[n].centre.of, Climbed(n) + Iterated(n))

Placed == \A n \in Slots : PlacedAt(n)

Permuted ==
  /\ \A w \in Slots : \E n \in Slots : win[n].centre.of = w
  /\ \A m, n \in Slots : win[m].centre.of = win[n].centre.of => m = n

(* The last rows are those after u updates of each window since its ramp.  *)
Written(u) ==
  /\ \A w \in Slots : \E n \in Slots : rows[n].eN = Centre(w, 0)
  /\ \A n \in Slots : rows[n].tilt = Tilt(rows[n].eN.of, ramp[rows[n].eN.of] + u)

RowsInv ==
  \/ rows = [n \in Slots |-> None]
  \/ pc \notin Warming /\ Written(IF pc = "exch" THEN k ELSE k - 1)

(* Once the base phase is over no window changes under a trajectory.       *)
FlightInv ==
  \A n \in Slots : flight[n] # None =>
    /\ queue[n] # <<>> /\ Head(queue[n]).do \in {"base", "traj"}
    /\ flight[n] = params[n] \/ pc \in {"base", "widths", "tilts", "plan"}

(* The slots in the middle of a block, the trajectories queued for it so   *)
(* far, and the slots whose queue is of trajectories that no one measures. *)
Open(n) ==
  \/ pc = "hop" /\ n < i /\ Hops(n)
  \/ pc = "adapt" /\ ~(n < i) /\ Hops(n)
  \/ pc = "therm" /\ n < i
  \/ pc = "meas"
  \/ pc = "gather" /\ ~(n < i)

Marks(n) ==
  IF pc \in {"hop", "adapt"} THEN Batch
  ELSE IF pc = "therm" THEN 0
  ELSE IF n < i THEN t ELSE t - 1

Free(n) ==
  \/ pc \in {"base", "widths", "tilts"}
  \/ pc = "plan" /\ ~(n < i)
  \/ pc = "seat" /\ n < i /\ n \notin done
  \/ pc = "reached" /\ ~(n < i) /\ n \notin done

(* The operation of a block of m trajectories that d others follow.        *)
Kind(d, m) ==
  IF d = 2 * m THEN "zero" ELSE IF d < 2 * m /\ d % 2 = 0 THEN "acc" ELSE "traj"

(* The queue is the rest of a block.  Of its trajectories r are still to   *)
(* be accumulated, and if one of them has ended it ran under the window.   *)
InBlock(n, m) ==
  LET q == queue[n]
      r == m - acc[n].terms
  IN  /\ \A j \in 1 .. Len(q) : q[j] = [do |-> Kind(Len(q) - j, m), at |-> eN[n]]
      /\ Len(q) <= 2 * m =>
           /\ Len(q) = 2 * r \/ (Len(q) = 2 * r - 1 /\ ran[n] = win[n])
           /\ acc[n].under = IF acc[n].terms = 0 THEN None ELSE win[n]

QueueAt(n) ==
  /\ Open(n) => InBlock(n, Marks(n))
  /\ ~Open(n) /\ ~Free(n) => queue[n] = <<>>

QueueInv == \A n \in Slots : QueueAt(n)

Averaged ==
  \A n \in Slots :
    (pc = "gather" /\ n < i) \/ (pc = "set" /\ ~(n < i))
      => mean[n] = [under |-> win[n], terms |-> NMeas]

HostInv == TypeOK /\ Counters /\ Placed /\ Permuted /\ RowsInv

Inv == HostInv /\ FlightInv /\ QueueInv /\ Averaged
-----------------------------------------------------------------------------
LEMMA LeastOf ==
  ASSUME NEW T, T \subseteq Nat, T # {}
  PROVE  \E m \in T : \A x \in T : m <= x
<1>1. PICK m \in T : \A x \in T : <<x, m>> \notin OpToRel(<, Nat)
  BY NatLessThanWellFounded, WFMin
<1>2. \A x \in T : ~(x < m)
  BY <1>1 DEF OpToRel
<1>3. QED BY <1>2

(* The deepest ramp exists and bounds the others.                          *)
LEMMA DeepestBounds ==
  ASSUME ramp \in [Slots -> 0 .. MaxRamp]
  PROVE  Deepest \in 0 .. MaxRamp /\ \A n \in Slots : ramp[n] <= Deepest
<1> DEFINE Above == {h \in 0 .. MaxRamp : \A n \in Slots : ramp[n] <= h}
           Top(h) == /\ \A n \in Slots : ramp[n] <= h
                     /\ h = 0 \/ \E n \in Slots : ramp[n] = h
<1>1. Above \subseteq Nat /\ MaxRamp \in Above
  BY LadderAssumption
<1>2. PICK h \in Above : \A x \in Above : h <= x
  BY <1>1, LeastOf
<1>3. Top(h)
  <2>1. SUFFICES ASSUME h # 0 PROVE \E n \in Slots : ramp[n] = h
    BY <1>2
  <2>2. h - 1 \in 0 .. MaxRamp /\ h - 1 \notin Above
    BY <1>2, <2>1, LadderAssumption
  <2>3. QED BY <1>2, <2>2, LadderAssumption
<1>4. \E x \in 0 .. MaxRamp : Top(x)
  BY <1>2, <1>3
<1>5. Deepest \in 0 .. MaxRamp /\ Top(Deepest)
  BY <1>4 DEF Deepest
<1>6. QED BY <1>5

LEMMA WindowParts ==
  ASSUME NEW w \in Windows
  PROVE  /\ w = [tilt |-> w.tilt, centre |-> w.centre, flat |-> w.flat]
         /\ w.tilt \in Tilts /\ w.centre \in Centres /\ w.flat \in BOOLEAN
         /\ w.centre.of \in Slots
BY DEF Windows, Centres

LEMMA InitInv == Init => Inv
<1> SUFFICES ASSUME Init PROVE Inv
  OBVIOUS
<1> USE LadderAssumption DEF Init, Slots, Centre, Tilt, Nothing
<1>1. TypeOK
  BY DEF TypeOK, Windows, Tilts, Centres, Zero
<1>2. Counters /\ RowsInv /\ Averaged
  BY DEF Counters, RowsInv, Averaged
<1>3. Placed /\ Permuted
  BY DEF Placed, PlacedAt, Permuted, Warming, Hopped, Climbed, Iterated, Flattened
<1>4. FlightInv
  BY DEF FlightInv
<1>5. QueueInv
  BY DEF QueueInv, QueueAt, Open, Free
<1>6. QED BY <1>1, <1>2, <1>3, <1>4, <1>5 DEF Inv, HostInv
-----------------------------------------------------------------------------
(* The device executes an operation of one stream.                         *)
LEMMA TailParts ==
  ASSUME NEW q \in Seq(Ops), q # <<>>
  PROVE  /\ Len(q) \in Nat \ {0} /\ Head(q) = q[1] /\ Head(q) \in Ops
         /\ Tail(q) \in Seq(Ops) /\ Len(Tail(q)) = Len(q) - 1
         /\ \A j \in 1 .. Len(q) - 1 : Tail(q)[j] = q[j + 1]
OBVIOUS

LEMMA DeviceTypes ==
  ASSUME TypeOK, FlightInv, NEW m \in Slots, Execute(m), UNCHANGED <<host, params>>
  PROVE  TypeOK'
<1> USE DEF TypeOK, host
<1>1. queue[m] \in Seq(Ops)
  OBVIOUS
<1>2. CASE Begin(m)
  BY <1>2 DEF Begin
<1>3. CASE End(m)
  <2>1. queue[m] # <<>>
    BY <1>3 DEF End, FlightInv
  <2>2. queue' \in [Slots -> Seq(Ops)]
    BY <1>1, <1>3, <2>1, TailParts DEF End
  <2>3. ran' \in [Slots -> Windows \cup {None, Mixed}] /\ flight' \in [Slots -> Windows \cup {None}]
    BY <1>3 DEF End
  <2>4. QED BY <1>3, <2>2, <2>3 DEF End
<1>4. CASE ZeroAcc(m)
  <2>1. queue' \in [Slots -> Seq(Ops)]
    BY <1>1, <1>4, TailParts DEF ZeroAcc
  <2>2. QED BY <1>4, <2>1 DEF ZeroAcc, Nothing
<1>5. CASE Accumulate(m)
  <2>1. queue' \in [Slots -> Seq(Ops)]
    BY <1>1, <1>5, TailParts DEF Accumulate
  <2>2. Term(m) \in Windows \cup {None, Mixed}
    BY DEF Term
  <2>3. acc' \in [Slots -> [under : Windows \cup {None, Mixed}, terms : Nat]]
    BY <1>5, <2>2 DEF Accumulate
  <2>4. QED BY <1>5, <2>1, <2>3 DEF Accumulate
<1>6. QED BY <1>2, <1>3, <1>4, <1>5 DEF Execute

(* What is said of the host stays so.                                      *)
LEMMA DeviceLeavesHost ==
  ASSUME HostInv, Averaged, TypeOK', UNCHANGED <<host, params>>
  PROVE  /\ HostInv' /\ Averaged'
         /\ \A n \in Slots : /\ Open(n)' <=> Open(n)
                             /\ Free(n)' <=> Free(n)
                             /\ Marks(n)' = Marks(n)
<1> USE DEF HostInv, host
<1>1. Deepest' = Deepest
  BY DEF Deepest
<1>2. Counters' /\ Averaged'
  BY <1>1 DEF Counters, Averaged
<1>3. Placed' /\ Permuted' /\ RowsInv'
  BY DEF Placed, PlacedAt, Permuted, RowsInv, Written, Hopped, Climbed, Iterated, Flattened, Swept
<1>4. QED BY <1>2, <1>3 DEF Open, Free, Marks, Hops

LEMMA MarksNat ==
  ASSUME TypeOK, Counters, NEW n \in Slots, Open(n)
  PROVE  Marks(n) \in Nat
BY LadderAssumption DEF TypeOK, Counters, Marks, Open

(* Only one stream is at work.                                             *)
LEMMA OthersKept ==
  ASSUME TypeOK, QueueInv, NEW m \in Slots, NEW n \in Slots, n # m, Execute(m)
  PROVE  UNCHANGED <<queue[n], flight[n], ran[n], acc[n]>>
BY DEF TypeOK, Execute, Begin, End, ZeroAcc, Accumulate

(* The next operation of a block, and what is left after it.               *)
LEMMA BlockHead ==
  ASSUME TypeOK, NEW n \in Slots, NEW c \in Nat, InBlock(n, c), queue[n] # <<>>
  PROVE  /\ Head(queue[n]) = [do |-> Kind(Len(queue[n]) - 1, c), at |-> eN[n]]
         /\ \A j \in 1 .. Len(Tail(queue[n])) :
              Tail(queue[n])[j] = [do |-> Kind(Len(Tail(queue[n])) - j, c), at |-> eN[n]]
<1> DEFINE q == queue[n]
<1>1. q \in Seq(Ops)
  BY DEF TypeOK
<1>2. Len(q) \in Nat \ {0} /\ Head(q) = q[1] /\ Len(Tail(q)) = Len(q) - 1
      /\ \A j \in 1 .. Len(q) - 1 : Tail(q)[j] = q[j + 1]
  BY <1>1, TailParts
<1>3. \A j \in 1 .. Len(q) : q[j] = [do |-> Kind(Len(q) - j, c), at |-> eN[n]]
  BY DEF InBlock
<1>4. ASSUME NEW j \in 1 .. Len(Tail(q))
      PROVE  Tail(q)[j] = [do |-> Kind(Len(Tail(q)) - j, c), at |-> eN[n]]
  <2>1. j + 1 \in 1 .. Len(q) /\ Tail(q)[j] = q[j + 1] /\ Len(Tail(q)) - j = Len(q) - (j + 1)
    BY <1>2
  <2>2. QED BY <1>3, <2>1
<1>5. QED BY <1>2, <1>3, <1>4

(* Trajectories are followed by an odd number of operations of their block *)
(* and accumulations by an even one.                                       *)
LEMMA KindParity ==
  ASSUME NEW d \in Nat, NEW c \in Nat
  PROVE  /\ Kind(d, c) = "zero" => d = 2 * c
         /\ Kind(d, c) \in {"base", "traj"} /\ d <= 2 * c
              => d < 2 * c /\ \A r \in Int : d # 2 * r
         /\ Kind(d, c) = "acc" => d < 2 * c /\ \A r \in Int : d # 2 * r - 1
<1>1. \A r \in Int : (2 * r) % 2 = 0 /\ (2 * r - 1) % 2 = 1
  BY Z3
<1>2. d % 2 \in {0, 1}
  BY Z3
<1>3. QED BY <1>1, <1>2 DEF Kind

LEMMA BlockStep ==
  ASSUME Inv, NEW n \in Slots, Open(n), Execute(n), UNCHANGED <<host, params>>
  PROVE  InBlock(n, Marks(n))'
<1> DEFINE c == Marks(n)
           q == queue[n]
           r == c - acc[n].terms
<1> USE DEF Inv, HostInv
<1>1. c \in Nat /\ c' = c /\ eN'[n] = eN[n] /\ win'[n] = win[n] /\ params[n] = win[n]
      /\ win[n] \in Windows /\ eN[n] = win[n].centre
  <2>1. c' = c
    BY DEF Marks, host
  <2>2. QED BY <2>1, MarksNat DEF TypeOK, Placed, PlacedAt, host
<1>2. InBlock(n, c)
  BY DEF QueueInv, QueueAt
<1>3. q \in Seq(Ops) /\ acc[n].terms \in Nat /\ acc \in [Slots -> [under : Windows \cup {None, Mixed}, terms : Nat]]
  BY DEF TypeOK
<1> HIDE DEF c
<1>4. SUFFICES /\ \A j \in 1 .. Len(queue'[n]) :
                    queue'[n][j] = [do |-> Kind(Len(queue'[n]) - j, c), at |-> eN[n]]
               /\ Len(queue'[n]) <= 2 * c =>
                    LET s == c - acc'[n].terms IN
                    /\ \/ Len(queue'[n]) = 2 * s
                       \/ Len(queue'[n]) = 2 * s - 1 /\ ran'[n] = win[n]
                    /\ acc'[n].under = IF acc'[n].terms = 0 THEN None ELSE win[n]
  BY <1>1 DEF InBlock, c, Kind
<1>5. CASE Begin(n)
  BY <1>2, <1>5 DEF Begin, InBlock
<1>6. CASE ~Begin(n)
  <2>1. q # <<>> /\ queue'[n] = Tail(q)
    BY <1>6 DEF Execute, End, ZeroAcc, Accumulate, FlightInv, TypeOK
  <2>2. Len(q) \in Nat \ {0} /\ Len(queue'[n]) = Len(q) - 1
    BY <1>3, <2>1, TailParts
  <2>3. /\ Head(q) = [do |-> Kind(Len(q) - 1, c), at |-> eN[n]]
        /\ \A j \in 1 .. Len(queue'[n]) :
             queue'[n][j] = [do |-> Kind(Len(queue'[n]) - j, c), at |-> eN[n]]
    BY <1>1, <1>2, <2>1, BlockHead
  <2>4. CASE End(n)
    <3>1. acc' = acc /\ ran'[n] = win[n]
      <4>1. flight[n] = params[n]
        BY <2>4 DEF End, FlightInv, Open
      <4>2. QED BY <1>1, <2>4, <4>1 DEF End, TypeOK
    <3>2. Kind(Len(q) - 1, c) \in {"base", "traj"}
      BY <2>3, <2>4 DEF End, FlightInv
    <3>3. Len(q) - 1 <= 2 * c => Len(q) <= 2 * c /\ \A s \in Int : Len(q) - 1 # 2 * s
      BY <1>1, <2>2, <3>2, KindParity
    <3>4. Len(q) <= 2 * c => /\ Len(q) = 2 * r \/ Len(q) = 2 * r - 1
                             /\ acc[n].under = IF acc[n].terms = 0 THEN None ELSE win[n]
      BY <1>2 DEF InBlock
    <3>5. r \in Int
      BY <1>1, <1>3
    <3>6. Len(queue'[n]) <= 2 * c =>
            /\ Len(queue'[n]) = 2 * r - 1
            /\ acc[n].under = IF acc[n].terms = 0 THEN None ELSE win[n]
      <4>1. c \in Nat /\ 2 * c \in Nat
        BY <1>1
      <4>2. r - 1 \in Int /\ 2 * (r - 1) = 2 * r - 2 /\ 2 * r \in Int
        BY <3>5
      <4>3. Len(q) <= 2 * c + 1 => Len(q) <= 2 * c /\ Len(q) - 1 # 2 * (r - 1)
        BY <2>2, <3>3, <4>1, <4>2, SMTT(60)
      <4> HIDE DEF r, q
      <4>4. QED BY <2>2, <3>4, <3>5, <4>1, <4>2, <4>3
    <3>7. QED BY <2>3, <3>1, <3>6
  <2>5. CASE ZeroAcc(n)
    <3>1. acc'[n] = Nothing /\ Kind(Len(q) - 1, c) = "zero"
      BY <1>3, <2>3, <2>5 DEF ZeroAcc
    <3>2. Len(q) - 1 = 2 * c
      <4>1. Len(q) - 1 \in Nat /\ c \in Nat
        BY <1>1, <2>2
      <4>2. QED BY <3>1, <4>1, KindParity
    <3>3. acc'[n].terms = 0 /\ acc'[n].under = None
      BY <3>1 DEF Nothing
    <3>4. Len(queue'[n]) = 2 * (c - acc'[n].terms)
      BY <1>1, <2>2, <3>2, <3>3
    <3> HIDE DEF q, r
    <3>5. QED BY <2>3, <3>3, <3>4
  <2>6. CASE Accumulate(n)
    <3>1. /\ acc'[n] = [under |-> Term(n), terms |-> acc[n].terms + 1]
          /\ Kind(Len(q) - 1, c) = "acc"
      BY <1>3, <2>3, <2>6 DEF Accumulate
    <3>2. Len(q) <= 2 * c /\ Len(q) # 2 * r
      <4>1. Len(q) - 1 < 2 * c /\ \A s \in Int : Len(q) - 1 # 2 * s - 1
        BY <1>1, <2>2, <3>1, KindParity
      <4>2. r \in Int
        BY <1>1, <1>3
      <4>3. QED BY <1>1, <2>2, <4>1, <4>2
    <3>3. /\ Len(q) = 2 * r - 1 /\ ran[n] = win[n]
          /\ acc[n].under = IF acc[n].terms = 0 THEN None ELSE win[n]
      BY <1>1, <1>2, <1>3, <2>2, <3>2 DEF InBlock
    <3>4. Term(n) = win[n]
      <4>1. win[n] \notin {None, Mixed} /\ Head(q).at = win[n].centre
        BY <1>1, <2>3, MarkAssumption
      <4>2. acc[n].under \in {None, win[n]}
        BY <3>3
      <4>3. QED BY <3>3, <4>1, <4>2 DEF Term
    <3>5. c - acc'[n].terms = r - 1 /\ acc'[n].terms # 0 /\ acc'[n].under = win[n]
      <4>1. acc'[n].terms = acc[n].terms + 1 /\ acc'[n].under = win[n]
        BY <3>1, <3>4
      <4>2. c \in Nat /\ acc[n].terms \in Nat
        BY <1>1, <1>3
      <4>3. QED BY <4>1, <4>2
    <3>6. Len(queue'[n]) = 2 * (r - 1)
      BY <1>1, <1>3, <2>2, <3>3
    <3>7. Len(queue'[n]) = 2 * (c - acc'[n].terms)
      BY <3>5, <3>6
    <3> HIDE DEF q, r
    <3>8. QED BY <2>3, <3>5, <3>7
  <2>7. QED BY <1>6, <2>4, <2>5, <2>6 DEF Execute
<1>7. QED BY <1>5, <1>6

LEMMA DeviceStep ==
  ASSUME Inv, NEW m \in Slots, Execute(m), UNCHANGED <<host, params>>
  PROVE  Inv'
<1> USE DEF Inv
<1>1. TypeOK /\ TypeOK'
  BY DeviceTypes DEF HostInv
<1>2. HostInv' /\ Averaged'
  BY <1>1, DeviceLeavesHost
<1>3. \A n \in Slots : (Open(n)' <=> Open(n)) /\ (Free(n)' <=> Free(n)) /\ Marks(n)' = Marks(n)
  BY <1>1, DeviceLeavesHost
<1>4. FlightInv'
  <2>1. SUFFICES ASSUME NEW n \in Slots, flight'[n] # None
                 PROVE  /\ queue'[n] # <<>> /\ Head(queue'[n]).do \in {"base", "traj"}
                        /\ flight'[n] = params[n] \/ pc \in {"base", "widths", "tilts", "plan"}
    BY DEF FlightInv, host
  <2>2. CASE n # m
    BY <1>1, <2>1, <2>2, OthersKept DEF FlightInv
  <2>3. CASE n = m
    BY <1>1, <2>1, <2>3 DEF Execute, Begin, End, ZeroAcc, Accumulate, FlightInv, TypeOK
  <2>4. QED BY <2>2, <2>3
<1>5. QueueInv'
  <2>1. SUFFICES ASSUME NEW n \in Slots
                 PROVE  /\ Open(n) => InBlock(n, Marks(n))'
                        /\ ~Open(n) /\ ~Free(n) => queue'[n] = <<>>
    BY <1>3 DEF QueueInv, QueueAt
  <2>2. CASE n # m
    <3>1. UNCHANGED <<queue[n], flight[n], ran[n], acc[n], eN[n], win[n]>>
      BY <1>1, <2>2, OthersKept DEF host
    <3>2. QED BY <1>3, <3>1 DEF QueueInv, QueueAt, InBlock
  <2>3. CASE n = m
    <3>1. queue[n] # <<>>
      BY <2>3 DEF Execute, Begin, End, ZeroAcc, Accumulate, FlightInv
    <3>2. QED BY <2>3, <3>1, BlockStep DEF QueueInv, QueueAt
  <2>4. QED BY <2>2, <2>3
<1>6. QED BY <1>2, <1>4, <1>5
-----------------------------------------------------------------------------
(* What the steps of the host have in common.                              *)
LEMMA WindowMoved ==
  ASSUME NEW w \in Windows
  PROVE  /\ \A c \in Centres : LET v == [w EXCEPT !.centre = c] IN
              v \in Windows /\ v.centre = c /\ v.tilt = w.tilt
         /\ \A a \in Tilts : LET v == [w EXCEPT !.tilt = a] IN
              v \in Windows /\ v.tilt = a /\ v.centre = w.centre
         /\ LET v == [w EXCEPT !.tilt = Zero, !.flat = TRUE] IN
              v \in Windows /\ v.tilt = Zero /\ v.centre = w.centre
         /\ LET v == [w EXCEPT !.flat = FALSE] IN
              v \in Windows /\ v.tilt = w.tilt /\ v.centre = w.centre
BY DEF Windows, Tilts

LEMMA WindowUpdated ==
  ASSUME NEW w \in Windows, NEW u \in Nat, NEW s \in Slots, w.tilt = Tilt(s, u)
  PROVE  LET v == [w EXCEPT !.tilt.updates = @ + 1] IN
         v \in Windows /\ v.tilt = Tilt(s, u + 1) /\ v.centre = w.centre
<1> DEFINE v == [w EXCEPT !.tilt.updates = @ + 1]
<1>1. w = [tilt |-> w.tilt, centre |-> w.centre, flat |-> w.flat]
  BY WindowParts
<1>2. v.tilt = Tilt(s, u + 1) /\ v.centre = w.centre /\ v.flat = w.flat
  BY <1>1 DEF Tilt
<1>3. v = [tilt |-> v.tilt, centre |-> v.centre, flat |-> v.flat]
  BY <1>1
<1>4. Tilt(s, u + 1) \in Tilts /\ w.centre \in Centres /\ w.flat \in BOOLEAN
  BY WindowParts DEF Tilts, Tilt
<1>5. QED BY <1>2, <1>3, <1>4 DEF Windows

LEMMA TiltsInTilts ==
  ASSUME NEW s \in Slots, NEW u \in Nat
  PROVE  Tilt(s, u) \in Tilts
BY DEF Tilt, Tilts

LEMMA CentresInCentres ==
  ASSUME NEW s \in Slots, NEW u \in 0 .. MaxRamp
  PROVE  Centre(s, u) \in Centres
BY DEF Centre, Centres

(* A loop over the slots in step h goes on with the next slot, or after    *)
(* the last one with the first slot in step g.                             *)
LEMMA AdvanceParts ==
  ASSUME NEW h, NEW g, i \in Slots, Advance(h, g)
  PROVE  /\ pc = h /\ i' \in Slots /\ i' \in Nat \ {0}
         /\ \/ pc' = h /\ i' = i + 1 /\ i # NRep /\ \A n \in Slots : n < i' <=> n < i \/ n = i
            \/ /\ pc' = g /\ i' = 1 /\ i = NRep
               /\ \A n \in Slots : ~(n < i') /\ (n < i \/ n = i)
BY LadderAssumption DEF Advance, Slots

LEMMA Uploaded ==
  ASSUME TypeOK, NEW m \in Slots, NEW w \in Windows, Upload(m, w)
  PROVE  /\ win' \in [Slots -> Windows] /\ params' \in [Slots -> Windows]
         /\ win'[m] = w /\ params'[m] = w
         /\ \A n \in Slots : n # m => win'[n] = win[n] /\ params'[n] = params[n]
BY DEF TypeOK, Upload

(* The placement of a slot that is left alone is the one it has to have.   *)
LEMMA PlacedKept ==
  ASSUME NEW n \in Slots, PlacedAt(n), UNCHANGED <<eN[n], win[n], params[n]>>,
         pc' \in Warming => pc \in Warming,
         Hopped(n)' = Hopped(n), Flattened(n)' <=> Flattened(n),
         Flattened(n) \/ Climbed(n)' + Iterated(n)' = Climbed(n) + Iterated(n)
  PROVE  PlacedAt(n)'
BY DEF PlacedAt

LEMMA PermutedKept ==
  ASSUME Permuted, \A n \in Slots : win'[n].centre.of = win[n].centre.of
  PROVE  Permuted'
BY DEF Permuted

LEMMA QueueEmpty ==
  ASSUME FlightInv, QueueInv, NEW n \in Slots, ~Open(n), ~Free(n)
  PROVE  queue[n] = <<>> /\ flight[n] = None
BY DEF FlightInv, QueueInv, QueueAt

LEMMA QueueKept ==
  ASSUME NEW n \in Slots, QueueAt(n), UNCHANGED <<queue[n], acc[n], ran[n]>>,
         Open(n)' => /\ Open(n) /\ Marks(n)' = Marks(n)
                     /\ UNCHANGED <<win[n], eN[n]>>,
         ~Open(n)' /\ ~Free(n)' => queue[n] = <<>>
  PROVE  QueueAt(n)'
BY DEF QueueAt, InBlock

(* The mean that is read once the block has run.                           *)
LEMMA BlockRead ==
  ASSUME TypeOK, NEW n \in Slots, NEW c \in Nat \ {0}, InBlock(n, c), Synced(n)
  PROVE  acc[n] = [under |-> win[n], terms |-> c]
<1>1. Len(queue[n]) = 0 /\ acc[n] \in [under : Windows \cup {None, Mixed}, terms : Nat]
  BY DEF Synced, TypeOK
<1>2. acc[n].terms = c
  BY <1>1 DEF InBlock
<1>3. QED BY <1>1, <1>2 DEF InBlock

LEMMA ConcatParts ==
  ASSUME NEW q \in Seq(Ops), NEW s \in Seq(Ops)
  PROVE  /\ q \o s \in Seq(Ops) /\ Len(q \o s) = Len(q) + Len(s)
         /\ \A j \in 1 .. Len(q) + Len(s) :
              (q \o s)[j] = IF j <= Len(q) THEN q[j] ELSE s[j - Len(q)]
         /\ q = <<>> => q \o s = s
         /\ q # <<>> => q \o s # <<>> /\ Head(q \o s) = Head(q)
OBVIOUS
-----------------------------------------------------------------------------
(* The base phase.  No window need be the one a trajectory started under.  *)
LEMMA StepBaseLaunch == ASSUME Inv, BaseLaunch PROVE Inv'
<1> USE DEF Inv, HostInv
<1> DEFINE w == [win[i] EXCEPT !.tilt = Zero, !.flat = TRUE]
           s == [j \in 1 .. NBase |-> Op("base", i)]
<1>1. i \in Slots /\ pc = "base"
  BY DEF TypeOK, BaseLaunch, Advance
<1>2. /\ i' \in Slots /\ i' \in Nat \ {0}
      /\ \/ pc' = "base" /\ \A n \in Slots : n < i' <=> n < i \/ n = i
         \/ pc' = "widths" /\ \A n \in Slots : ~(n < i') /\ (n < i \/ n = i)
  BY <1>1, AdvanceParts DEF BaseLaunch
<1>3. w \in Windows /\ w.tilt = Zero /\ w.centre = win[i].centre
  BY <1>1, WindowMoved DEF TypeOK
<1>4. /\ win' \in [Slots -> Windows] /\ params' \in [Slots -> Windows]
      /\ win'[i] = w /\ params'[i] = w
      /\ \A n \in Slots : n # i => win'[n] = win[n] /\ params'[n] = params[n]
  BY <1>1, <1>3, Uploaded DEF BaseLaunch
<1>5. s \in Seq(Ops)
  BY <1>1, LadderAssumption DEF Op, Ops, TypeOK
<1>6. /\ queue' \in [Slots -> Seq(Ops)]
      /\ \A n \in Slots : queue[n] # <<>> => queue'[n] # <<>> /\ Head(queue'[n]) = Head(queue[n])
  BY <1>1, <1>5, ConcatParts DEF BaseLaunch, Enqueue, TypeOK
<1>7. TypeOK'
  BY <1>1, <1>2, <1>4, <1>6 DEF BaseLaunch, Enqueue, TypeOK
<1>8. Counters' /\ RowsInv' /\ Averaged' /\ FlightInv'
  <2>1. Counters' /\ RowsInv' /\ Averaged'
    BY <1>1, <1>2 DEF BaseLaunch, Counters, RowsInv, Averaged, Warming
  <2>2. flight' = flight /\ pc' \in {"base", "widths"}
    BY <1>2 DEF BaseLaunch, Enqueue
  <2>3. FlightInv'
    BY <1>6, <2>2 DEF FlightInv
  <2>4. QED BY <2>1, <2>3
<1>9. Placed'
  <2>1. SUFFICES ASSUME NEW n \in Slots PROVE PlacedAt(n)'
    BY DEF Placed
  <2>2. PlacedAt(n)
    BY DEF Placed
  <2>3. CASE n = i
    BY <1>1, <1>2, <1>3, <1>4, <2>2, <2>3 DEF BaseLaunch, PlacedAt, Flattened, Hopped, Warming
  <2>4. CASE n # i
    BY <1>1, <1>2, <1>4, <2>2, <2>4
       DEF BaseLaunch, PlacedAt, Flattened, Hopped, Climbed, Iterated, Warming, TypeOK, Slots
  <2>5. QED BY <2>3, <2>4
<1>10. Permuted'
  BY <1>1, <1>3, <1>4, PermutedKept
<1>11. QueueInv'
  BY <1>2 DEF QueueInv, QueueAt, Open, Free
<1>12. QED BY <1>7, <1>8, <1>9, <1>10, <1>11

LEMMA StepBaseWidth == ASSUME Inv, BaseWidth PROVE Inv'
<1> USE DEF Inv, HostInv
<1> DEFINE w == [win[i] EXCEPT !.flat = FALSE]
<1>1. i \in Slots /\ pc = "widths" /\ pc' = "tilts" /\ i' = i
  BY DEF TypeOK, BaseWidth
<1>2. w \in Windows /\ w.tilt = win[i].tilt /\ w.centre = win[i].centre
  BY <1>1, WindowMoved DEF TypeOK
<1>3. /\ win' \in [Slots -> Windows] /\ params' \in [Slots -> Windows]
      /\ win'[i] = w /\ params'[i] = w
      /\ \A n \in Slots : n # i => win'[n] = win[n] /\ params'[n] = params[n]
  BY <1>1, <1>2, Uploaded DEF BaseWidth
<1>4. TypeOK'
  BY <1>1, <1>3 DEF BaseWidth, device, TypeOK
<1>5. Counters' /\ RowsInv' /\ Averaged' /\ FlightInv' /\ QueueInv'
  BY <1>1 DEF BaseWidth, device, Counters, RowsInv, Averaged, FlightInv, QueueInv, QueueAt,
              Open, Free, Warming
<1>6. \A n \in Slots : win'[n].tilt = win[n].tilt /\ win'[n].centre = win[n].centre
                       /\ (params[n] = win[n] => params'[n] = win'[n])
  BY <1>2, <1>3
<1>7. Placed'
  BY <1>1, <1>6 DEF BaseWidth, Placed, PlacedAt, Flattened, Hopped, Climbed, Iterated, Warming
<1>8. Permuted'
  BY <1>6, PermutedKept
<1>9. QED BY <1>4, <1>5, <1>7, <1>8

LEMMA StepBaseTilt == ASSUME Inv, BaseTilt PROVE Inv'
<1> USE DEF Inv, HostInv
<1> DEFINE w == [win[i] EXCEPT !.tilt = Tilt(i, 0)]
<1>1. i \in Slots /\ pc = "tilts"
  BY DEF TypeOK, BaseTilt
<1>2. /\ i' \in Slots /\ i' \in Nat \ {0}
      /\ \/ pc' = "widths" /\ \A n \in Slots : n < i' <=> n < i \/ n = i
         \/ pc' = "plan" /\ \A n \in Slots : ~(n < i') /\ (n < i \/ n = i)
  BY <1>1, LadderAssumption DEF BaseTilt, Slots
<1>3. w \in Windows /\ w.tilt = Tilt(i, 0) /\ w.centre = win[i].centre
  BY <1>1, WindowMoved, TiltsInTilts DEF TypeOK
<1>4. /\ win' \in [Slots -> Windows] /\ params' \in [Slots -> Windows]
      /\ win'[i] = w /\ params'[i] = w
      /\ \A n \in Slots : n # i => win'[n] = win[n] /\ params'[n] = params[n]
  BY <1>1, <1>3, Uploaded DEF BaseTilt, Saved
<1>5. TypeOK'
  BY <1>1, <1>2, <1>4 DEF BaseTilt, device, TypeOK
<1>6. Counters' /\ RowsInv' /\ Averaged' /\ FlightInv' /\ QueueInv'
  <2>1. Counters' /\ RowsInv' /\ Averaged'
    BY <1>1, <1>2 DEF BaseTilt, Counters, RowsInv, Averaged, Warming
  <2>2. FlightInv'
    BY <1>1, <1>2 DEF BaseTilt, device, FlightInv
  <2>3. QueueInv'
    BY <1>1, <1>2 DEF QueueInv, QueueAt, Open, Free
  <2>4. QED BY <2>1, <2>2, <2>3
<1>7. Placed'
  <2>1. SUFFICES ASSUME NEW n \in Slots PROVE PlacedAt(n)'
    BY DEF Placed
  <2>2. PlacedAt(n)
    BY DEF Placed
  <2>3. CASE n = i
    <3>1. ~Flattened(n)' /\ Climbed(n)' = 0 /\ Iterated(n)' = 0 /\ Hopped(n)' = Hopped(n)
      BY <1>1, <1>2, <2>3 DEF Flattened, Climbed, Iterated, Hopped, Warming
    <3>2. win[n].centre.of = n
      BY <1>1, <2>2, <2>3 DEF PlacedAt, Warming
    <3>3. win'[n].tilt = Tilt(n, Climbed(n)' + Iterated(n)') /\ win'[n].centre = win[n].centre
      <4>1. Climbed(n)' + Iterated(n)' = 0
        BY <3>1
      <4>2. QED BY <1>3, <1>4, <2>3, <4>1
    <3>4. eN'[n] = eN[n] /\ params'[n] = win'[n]
      BY <1>4, <2>3 DEF BaseTilt
    <3>5. QED BY <2>2, <3>1, <3>2, <3>3, <3>4 DEF PlacedAt
  <2>4. CASE n # i
    BY <1>1, <1>2, <1>4, <2>2, <2>4
       DEF BaseTilt, PlacedAt, Flattened, Hopped, Climbed, Iterated, Warming, TypeOK, Slots
  <2>5. QED BY <2>3, <2>4
<1>8. Permuted'
  BY <1>1, <1>3, <1>4, PermutedKept
<1>9. QED BY <1>5, <1>6, <1>7, <1>8
-----------------------------------------------------------------------------
(* The ramp.                                                               *)
LEMMA StepPlan == ASSUME Inv, Plan PROVE Inv'
<1> USE DEF Inv, HostInv
<1>1. i \in Slots /\ pc = "plan"
  BY DEF TypeOK, Plan, Advance
<1>2. /\ i' \in Slots /\ i' \in Nat \ {0}
      /\ \/ pc' = "plan" /\ \A n \in Slots : n < i' <=> n < i \/ n = i
         \/ pc' = "hop" /\ i' = 1 /\ \A n \in Slots : ~(n < i') /\ (n < i \/ n = i)
  BY <1>1, AdvanceParts DEF Plan
<1>3. ramp' \in [Slots -> 0 .. MaxRamp]
  BY DEF Plan, TypeOK
<1>4. TypeOK'
  BY <1>1, <1>2, <1>3 DEF Plan, device, TypeOK
<1>5. Counters' /\ RowsInv' /\ Averaged' /\ Permuted'
  BY <1>1, <1>2 DEF Plan, Counters, RowsInv, Averaged, Permuted, Warming
<1>6. \A n \in Slots : n < i \/ n = i => queue[n] = <<>> /\ flight[n] = None
  BY <1>1, QueueEmpty DEF Plan, Synced, FlightInv, Open, Free
<1>7. FlightInv'
  BY <1>1, <1>2, <1>6 DEF Plan, device, FlightInv
<1>8. QueueInv'
  BY <1>1, <1>2, <1>6 DEF Plan, device, QueueInv, QueueAt, Open, Free
<1>9. Placed'
  <2>1. ASSUME NEW n \in Slots PROVE PlacedAt(n)'
    <3>1. PlacedAt(n) /\ win[n].centre.of = n
      BY <1>1 DEF Placed, PlacedAt, Warming
    <3>2. /\ ~Flattened(n) /\ ~Flattened(n)' /\ Hopped(n) = 0 /\ Climbed(n) = 0
          /\ Iterated(n)' = Iterated(n)
      BY <1>1, <1>2 DEF Flattened, Hopped, Climbed, Iterated, Warming
    <3>3. Hopped(n)' = 0 /\ Climbed(n)' = 0
      <4>1. ramp'[n] \in Nat /\ k' = k /\ k \in Nat \ {0} /\ win'[n].centre.of = n
        BY <1>3, <3>1, LadderAssumption DEF Plan, TypeOK
      <4>2. pc' = "hop" => k = 1
        BY <1>1 DEF Counters
      <4>3. pc' = "hop" => Swept(n)' = 0 /\ k' - 1 = 0
        BY <1>2, <4>1, <4>2 DEF Swept
      <4>4. QED BY <1>2, <4>1, <4>3 DEF Hopped, Climbed, Lesser
    <3>4. QED BY <3>1, <3>2, <3>3 DEF PlacedAt, Plan, Warming
  <2>2. QED BY <2>1 DEF Placed
<1>10. QED BY <1>4, <1>5, <1>7, <1>8, <1>9

LEMMA DeepestKept == TypeOK /\ UNCHANGED ramp => Deepest' = Deepest
BY DEF Deepest

LEMMA BlockWhole ==
  ASSUME NEW c \in Centres, NEW n \in Slots
  PROVE  LET b == <<[do |-> "zero", at |-> c]>> \o Block(c, n) IN
         /\ b \in Seq(Ops) /\ Len(b) = 2 * Batch + 1
         /\ \A j \in 1 .. Len(b) : b[j] = [do |-> Kind(Len(b) - j, Batch), at |-> c]
<1> DEFINE z == <<[do |-> "zero", at |-> c]>>
           b == z \o Block(c, n)
<1>1. z \in Seq(Ops) /\ Len(z) = 1 /\ z[1] = [do |-> "zero", at |-> c]
  BY DEF Ops
<1>2. Block(c, n) \in Seq(Ops) /\ Len(Block(c, n)) = 2 * Batch
  BY LadderAssumption DEF Block, Ops
<1>3. \A j \in 1 .. 2 * Batch :
        Block(c, n)[j] = [do |-> IF j % 2 = 1 THEN "traj" ELSE "acc", at |-> c]
  BY DEF Block
<1>4. b \in Seq(Ops) /\ Len(b) = 2 * Batch + 1 /\ b[1] = z[1]
      /\ \A j \in 2 .. Len(b) : b[j] = Block(c, n)[j - 1]
  <2>1. /\ b \in Seq(Ops) /\ Len(b) = 1 + 2 * Batch
        /\ \A j \in 1 .. 1 + 2 * Batch : b[j] = IF j <= 1 THEN z[j] ELSE Block(c, n)[j - 1]
    BY <1>1, <1>2, ConcatParts
  <2> HIDE DEF b, z
  <2>2. 2 * Batch \in Nat
    BY LadderAssumption
  <2>3. QED BY <2>1, <2>2
<1> HIDE DEF b
<1>5. ASSUME NEW j \in 1 .. Len(b)
      PROVE  b[j] = [do |-> Kind(Len(b) - j, Batch), at |-> c]
  <2>1. CASE j = 1
    <3>1. Kind(2 * Batch, Batch) = "zero"
      BY DEF Kind
    <3>2. QED BY <1>1, <1>4, <2>1, <3>1, LadderAssumption
  <2>2. CASE j # 1
    <3>1. 2 * Batch \in Nat
      BY LadderAssumption
    <3>2. /\ Len(b) - j = 2 * Batch - (j - 1) /\ j - 1 \in 1 .. 2 * Batch /\ j \in 2 .. Len(b)
      BY <1>4, <2>2, <3>1
    <3>3. (2 * Batch - (j - 1)) % 2 = (j - 1) % 2 /\ (j - 1) % 2 \in {0, 1}
      <4>1. \A x, y \in Int : (2 * x - y) % 2 = y % 2 /\ y % 2 \in {0, 1}
        BY Z3
      <4>2. QED BY <3>2, <4>1, LadderAssumption
    <3>4. Kind(Len(b) - j, Batch) = IF (j - 1) % 2 = 1 THEN "traj" ELSE "acc"
      BY <3>1, <3>2, <3>3 DEF Kind
    <3>5. QED BY <1>3, <1>4, <3>2, <3>4
  <2>3. QED BY <2>1, <2>2
<1>6. QED BY <1>4, <1>5 DEF b

LEMMA StepHop == ASSUME Inv, Hop PROVE Inv'
<1> USE DEF Inv, HostInv
<1> DEFINE c == Centre(i, k)
           w == [win[i] EXCEPT !.centre = c]
           b == <<[do |-> "zero", at |-> c]>> \o Block(c, i)
<1>1. i \in Slots /\ pc = "hop" /\ k \in Nat \ {0} /\ k' = k /\ ramp' = ramp
      /\ ramp \in [Slots -> 0 .. MaxRamp]
  BY DEF TypeOK, Hop, Advance
<1>2. Deepest' = Deepest /\ Deepest \in Nat /\ \A n \in Slots : ramp[n] \in Nat /\ ramp[n] <= Deepest
  BY <1>1, DeepestKept, DeepestBounds, LadderAssumption
<1>3. /\ i' \in Slots /\ i' \in Nat \ {0}
      /\ \/ pc' = "hop" /\ k <= Deepest /\ \A n \in Slots : n < i' <=> n < i \/ n = i
         \/ pc' = "adapt" /\ k <= Deepest /\ \A n \in Slots : ~(n < i') /\ (n < i \/ n = i)
         \/ /\ pc' = "restore" /\ ~(k <= Deepest) /\ i' = i
            /\ \A n \in Slots : ~(n < i) /\ ~Hops(n) /\ ramp[n] <= k - 1
  <2>1. CASE k <= Deepest
    <3>1. Advance("hop", "adapt")
      BY <2>1 DEF Hop
    <3>2. QED BY <1>1, <2>1, <3>1, AdvanceParts
  <2>2. CASE ~(k <= Deepest)
    <3>1. pc' = "restore" /\ i' = i
      BY <2>2 DEF Hop
    <3>2. i = 1
      BY <1>1, <2>2 DEF Counters, Slots
    <3>3. \A n \in Slots : ~(n < i) /\ ~Hops(n) /\ ramp[n] <= k - 1
      BY <1>1, <1>2, <2>2, <3>2 DEF Hops, Slots
    <3>4. QED BY <1>1, <2>2, <3>1, <3>3 DEF Slots
  <2>3. QED BY <2>1, <2>2
<1>4. Hops(i) => /\ c \in Centres /\ w \in Windows /\ w.tilt = win[i].tilt /\ w.centre = c
                 /\ win' \in [Slots -> Windows] /\ params' \in [Slots -> Windows]
                 /\ eN' \in [Slots -> Centres] /\ eN'[i] = c /\ win'[i] = w /\ params'[i] = w
                 /\ \A n \in Slots : n # i => UNCHANGED <<win[n], params[n], eN[n]>>
  <2>1. SUFFICES ASSUME Hops(i)
                 PROVE  /\ c \in Centres /\ w \in Windows /\ w.tilt = win[i].tilt /\ w.centre = c
                        /\ win' \in [Slots -> Windows] /\ params' \in [Slots -> Windows]
                        /\ eN' \in [Slots -> Centres] /\ eN'[i] = c /\ win'[i] = w /\ params'[i] = w
                        /\ \A n \in Slots : n # i => UNCHANGED <<win[n], params[n], eN[n]>>
    OBVIOUS
  <2>2. k \in 0 .. MaxRamp
    BY <1>1, <2>1, LadderAssumption DEF Hops
  <2>3. c \in Centres
    BY <1>1, <2>2, CentresInCentres
  <2>4. w \in Windows /\ w.tilt = win[i].tilt /\ w.centre = c
    <3>1. win[i] \in Windows
      BY <1>1 DEF TypeOK
    <3> HIDE DEF c
    <3>2. QED BY <2>3, <3>1, WindowMoved
  <2>5. Upload(i, w) /\ eN' = [eN EXCEPT ![i] = c]
    BY <2>1 DEF Hop, SetCentre
  <2>6. QED BY <1>1, <2>3, <2>4, <2>5, Uploaded, SMTT(60) DEF TypeOK
<1>5. ~Hops(i) => UNCHANGED <<win, eN, params, queue, flight, ran, acc>>
  BY DEF Hop, device
<1>6. queue[i] = <<>> /\ flight[i] = None
  BY <1>1, QueueEmpty DEF Open, Free, Slots
<1>7. Hops(i) => /\ UNCHANGED <<flight, ran, acc>>
                 /\ queue' = [queue EXCEPT ![i] = b] /\ queue'[i] = b /\ b \in Seq(Ops)
  <2>1. SUFFICES ASSUME Hops(i)
                 PROVE  /\ UNCHANGED <<flight, ran, acc>>
                        /\ queue' = [queue EXCEPT ![i] = b] /\ queue'[i] = b /\ b \in Seq(Ops)
    OBVIOUS
  <2>2. b \in Seq(Ops)
    BY <1>1, <1>4, <2>1, BlockWhole
  <2>3. queue' = [queue EXCEPT ![i] = @ \o b] /\ UNCHANGED <<flight, ran, acc>>
    BY <2>1 DEF Hop, Enqueue
  <2>4. queue[i] \o b = b
    BY <1>1, <1>6, <2>2, ConcatParts DEF TypeOK
  <2>5. QED BY <1>1, <2>2, <2>3, <2>4 DEF TypeOK
<1>8. TypeOK'
  <2>1. /\ win' \in [Slots -> Windows] /\ params' \in [Slots -> Windows]
        /\ eN' \in [Slots -> Centres]
    BY <1>4, <1>5 DEF TypeOK
  <2>2. queue' \in [Slots -> Seq(Ops)] /\ UNCHANGED <<flight, ran, acc>>
    <3> HIDE DEF b
    <3>1. QED BY <1>5, <1>7, ZenonT(60) DEF TypeOK
  <2>3. QED BY <1>1, <1>3, <2>1, <2>2 DEF Hop, TypeOK
<1>9. Counters'
  BY <1>1, <1>2, <1>3 DEF Counters
<1>10. RowsInv' /\ Averaged'
  BY <1>1, <1>3 DEF Hop, RowsInv, Averaged, Warming
<1>11. Placed'
  <2>1. SUFFICES ASSUME NEW n \in Slots PROVE PlacedAt(n)'
    BY DEF Placed
  <2>2. PlacedAt(n) /\ win[n].centre.of = n /\ ramp[n] \in Nat
    BY <1>1, <1>2 DEF Placed, PlacedAt, Warming
  <2>3. CASE Hops(i) /\ n = i
    <3>1. win'[n].centre = Centre(n, k) /\ win'[n].tilt = win[n].tilt
          /\ eN'[n] = win'[n].centre /\ params'[n] = win'[n]
      BY <1>4, <2>3
    <3>2. Hopped(n)' = k
      BY <1>1, <1>3, <2>2, <2>3 DEF Hopped, Hops, Lesser, Swept
    <3>3. Climbed(n)' + Iterated(n)' = Climbed(n) + Iterated(n)
      BY <1>1, <1>3, <2>2, <2>3, <3>1 DEF Climbed, Iterated, Warming, Lesser, Swept, Centre
    <3>4. QED BY <1>1, <1>3, <2>2, <3>1, <3>2, <3>3 DEF PlacedAt, Flattened, Centre
  <2>4. CASE ~(Hops(i) /\ n = i)
    <3>1. UNCHANGED <<win[n], eN[n], params[n]>>
      BY <1>4, <1>5, <2>4
    <3>2. Hopped(n)' = Hopped(n)
      BY <1>1, <1>3, <2>2, <2>4, <3>1 DEF Hopped, Hops, Lesser, Swept
    <3>3. Climbed(n)' + Iterated(n)' = Climbed(n) + Iterated(n)
      BY <1>1, <1>3, <2>2, <3>1 DEF Climbed, Iterated, Warming, Lesser, Swept
    <3>4. QED BY <1>1, <1>3, <2>2, <3>1, <3>2, <3>3, PlacedKept DEF Flattened, Warming
  <2>5. QED BY <2>3, <2>4
<1>12. Permuted'
  <2>1. win[i].centre.of = i
    BY <1>1 DEF Placed, PlacedAt, Warming
  <2>2. Hops(i) => win'[i].centre.of = i
    <3>1. c.of = i
      BY DEF Centre
    <3>2. Hops(i) => win'[i].centre = c
      <4> HIDE DEF c
      <4>1. QED BY <1>4
    <3>3. QED BY <3>1, <3>2
  <2>3. QED BY <1>4, <1>5, <2>1, <2>2, PermutedKept
<1>13. FlightInv'
  <2>1. SUFFICES ASSUME NEW n \in Slots, flight'[n] # None
                 PROVE  /\ queue'[n] # <<>> /\ Head(queue'[n]).do \in {"base", "traj"}
                        /\ flight'[n] = params'[n]
    BY DEF FlightInv
  <2>2. flight' = flight /\ n # i
    BY <1>5, <1>6, <1>7, <2>1
  <2>3. UNCHANGED <<queue[n], params[n]>>
    <3> HIDE DEF b
    <3>1. QED BY <1>4, <1>5, <1>7, <2>2 DEF TypeOK
  <2>4. QED BY <1>1, <2>1, <2>2, <2>3 DEF FlightInv
<1>14. QueueInv'
  <2>1. SUFFICES ASSUME NEW n \in Slots PROVE QueueAt(n)'
    BY DEF QueueInv
  <2>2. QueueAt(n)
    BY DEF QueueInv
  <2>3. CASE Hops(i) /\ n = i
    <3>1. Open(n)' /\ Marks(n)' = Batch
      BY <1>1, <1>3, <2>3 DEF Open, Marks, Hops
    <3>2. /\ queue'[n] = b /\ eN'[n] = c /\ Len(b) = 2 * Batch + 1
          /\ \A j \in 1 .. Len(b) : b[j] = [do |-> Kind(Len(b) - j, Batch), at |-> c]
      BY <1>1, <1>4, <1>7, <2>3, BlockWhole
    <3> HIDE DEF b, c
    <3>3. InBlock(n, Batch)'
      BY <3>2, LadderAssumption DEF InBlock, Kind
    <3>4. QED BY <3>1, <3>3 DEF QueueAt
  <2>4. CASE ~(Hops(i) /\ n = i)
    <3>1. UNCHANGED <<queue[n], acc[n], ran[n], win[n], eN[n]>>
      BY <1>4, <1>5, <1>7, <2>4 DEF TypeOK
    <3>2. /\ Open(n)' => Open(n) /\ Marks(n)' = Marks(n)
          /\ ~Open(n)' => ~Open(n)
          /\ ~Free(n)
      BY <1>1, <1>3, <2>4 DEF Open, Marks, Free, Hops
    <3>3. QED BY <2>2, <3>1, <3>2, QueueKept DEF QueueAt
  <2>5. QED BY <2>3, <2>4
<1>15. QED BY <1>8, <1>9, <1>10, <1>11, <1>12, <1>13, <1>14

LEMMA StepAdapt == ASSUME Inv, Adapt PROVE Inv'
<1> USE DEF Inv, HostInv
<1> DEFINE w == [win[i] EXCEPT !.tilt.updates = @ + 1]
<1>1. i \in Slots /\ pc = "adapt" /\ k \in Nat \ {0} /\ ramp' = ramp /\ eN' = eN
      /\ UNCHANGED <<queue, flight, ran, acc>> /\ ramp \in [Slots -> 0 .. MaxRamp]
  BY DEF TypeOK, Adapt, Advance, device
<1>2. Deepest' = Deepest /\ \A n \in Slots : ramp[n] \in Nat
  BY <1>1, DeepestKept, LadderAssumption
<1>3. /\ i' \in Slots /\ i' \in Nat \ {0}
      /\ \/ pc' = "adapt" /\ k' = k /\ \A n \in Slots : n < i' <=> n < i \/ n = i
         \/ pc' = "hop" /\ k' = k + 1 /\ i' = 1 /\ \A n \in Slots : ~(n < i') /\ (n < i \/ n = i)
  <2>1. Advance("adapt", "hop")
    BY DEF Adapt
  <2>2. k' = IF i = NRep THEN k + 1 ELSE k
    BY DEF Adapt
  <2>3. QED BY <1>1, <2>1, <2>2, AdvanceParts
<1>4. PlacedAt(i) /\ win[i].centre.of = i /\ win[i].tilt = Tilt(i, Lesser(k - 1, ramp[i]))
      /\ Lesser(k - 1, ramp[i]) \in Nat
  <2>1. PlacedAt(i)
    BY <1>1 DEF Placed
  <2>2. win[i].centre.of = i
    BY <1>1, <2>1 DEF PlacedAt, Warming
  <2>3. Lesser(k - 1, ramp[i]) \in Nat
    BY <1>1, <1>2 DEF Lesser
  <2>4. ~Flattened(i) /\ Climbed(i) = Lesser(k - 1, ramp[i]) /\ Iterated(i) = 0
    BY <1>1, <2>2 DEF Flattened, Climbed, Iterated, Swept, Warming, Slots
  <2>5. QED BY <2>1, <2>2, <2>3, <2>4 DEF PlacedAt
<1>5. Hops(i) => /\ win' \in [Slots -> Windows] /\ params' \in [Slots -> Windows]
                 /\ win'[i] = w /\ params'[i] = w
                 /\ w.tilt = Tilt(i, k) /\ w.centre = win[i].centre
                 /\ \A n \in Slots : n # i => UNCHANGED <<win[n], params[n]>>
  <2>1. SUFFICES ASSUME Hops(i)
                 PROVE  /\ win' \in [Slots -> Windows] /\ params' \in [Slots -> Windows]
                        /\ win'[i] = w /\ params'[i] = w
                        /\ w.tilt = Tilt(i, k) /\ w.centre = win[i].centre
                        /\ \A n \in Slots : n # i => UNCHANGED <<win[n], params[n]>>
    OBVIOUS
  <2>2. win[i] \in Windows /\ win[i].tilt = Tilt(i, k - 1) /\ k - 1 \in Nat
    BY <1>1, <1>2, <1>4, <2>1 DEF Hops, Lesser, TypeOK
  <2>3. w \in Windows /\ w.tilt = Tilt(i, k) /\ w.centre = win[i].centre
    <3>1. w \in Windows /\ w.tilt = Tilt(i, (k - 1) + 1) /\ w.centre = win[i].centre
      BY <1>1, <2>2, WindowUpdated
    <3>2. (k - 1) + 1 = k
      BY <1>1
    <3>3. QED BY <3>1, <3>2
  <2>4. Upload(i, w)
    BY <2>1 DEF Adapt, Updated
  <2> HIDE DEF w
  <2>5. QED BY <1>1, <2>3, <2>4, Uploaded
<1>6. ~Hops(i) => UNCHANGED <<win, params, mean>>
  BY DEF Adapt
<1>7. Hops(i) => queue[i] = <<>> /\ mean' = [mean EXCEPT ![i] = acc[i]]
  BY DEF Adapt, Synced, Read
<1>8. TypeOK'
  <2>1. win' \in [Slots -> Windows] /\ params' \in [Slots -> Windows]
    <3> HIDE DEF w
    <3>1. QED BY <1>5, <1>6 DEF TypeOK
  <2>2. mean' \in [Slots -> [under : Windows \cup {None, Mixed}, terms : Nat]]
    BY <1>1, <1>6, <1>7 DEF TypeOK
  <2>3. k' \in Nat \ {0}
    BY <1>1, <1>3
  <2>4. QED BY <1>1, <1>3, <2>1, <2>2, <2>3 DEF Adapt, TypeOK
<1>9. Counters' /\ RowsInv' /\ Averaged'
  BY <1>1, <1>3 DEF Adapt, Counters, RowsInv, Averaged, Warming
<1>10. Placed'
  <2>1. SUFFICES ASSUME NEW n \in Slots PROVE PlacedAt(n)'
    BY DEF Placed
  <2>2. PlacedAt(n) /\ win[n].centre.of = n /\ ramp[n] \in Nat
    BY <1>1, <1>2 DEF Placed, PlacedAt, Warming
  <2>3. Hopped(n)' = Hopped(n)
    BY <1>1, <1>3, <2>2 DEF Hopped, Swept, Lesser
  <2>4. CASE Hops(i) /\ n = i
    <3>1. win'[n].centre = win[n].centre /\ win'[n].tilt = Tilt(n, k) /\ params'[n] = win'[n]
      <4> HIDE DEF w
      <4>1. QED BY <1>5, <2>4
    <3>2. Climbed(n)' = k /\ Iterated(n)' = 0
      BY <1>1, <1>3, <2>2, <2>4, <3>1 DEF Climbed, Iterated, Warming, Lesser, Swept, Hops
    <3>3. Climbed(n)' + Iterated(n)' = k
      BY <1>1, <3>2
    <3>4. QED BY <1>1, <1>3, <2>2, <2>3, <3>1, <3>3 DEF PlacedAt, Flattened
  <2>5. CASE ~(Hops(i) /\ n = i)
    <3>1. UNCHANGED <<win[n], eN[n], params[n]>>
      BY <1>1, <1>5, <1>6, <2>5
    <3>2. Climbed(n)' + Iterated(n)' = Climbed(n) + Iterated(n)
      BY <1>1, <1>3, <2>2, <2>5, <3>1 DEF Climbed, Iterated, Warming, Lesser, Swept, Hops, Slots
    <3>3. QED BY <1>1, <1>3, <2>2, <2>3, <3>1, <3>2, PlacedKept DEF Flattened, Warming
  <2>6. QED BY <2>4, <2>5
<1>11. Permuted'
  <2> HIDE DEF w
  <2>1. QED BY <1>5, <1>6, PermutedKept
<1>12. FlightInv'
  <2>1. SUFFICES ASSUME NEW n \in Slots, flight'[n] # None
                 PROVE  /\ queue'[n] # <<>> /\ Head(queue'[n]).do \in {"base", "traj"}
                        /\ flight'[n] = params'[n]
    BY DEF FlightInv
  <2>2. ~(Hops(i) /\ n = i)
    BY <1>1, <1>7, <2>1 DEF FlightInv
  <2>3. params'[n] = params[n]
    BY <1>5, <1>6, <2>2
  <2>4. QED BY <1>1, <2>1, <2>3 DEF FlightInv
<1>13. QueueInv'
  <2>1. SUFFICES ASSUME NEW n \in Slots PROVE QueueAt(n)'
    BY DEF QueueInv
  <2>2. QueueAt(n)
    BY DEF QueueInv
  <2>3. Open(n)' => /\ Open(n) /\ Marks(n)' = Marks(n)
                    /\ UNCHANGED <<win[n], eN[n]>>
    <3>1. Open(n)' => pc' = "adapt" /\ n # i
      BY <1>1, <1>3 DEF Open, Hops, Slots
    <3>2. n # i => win'[n] = win[n]
      BY <1>5, <1>6
    <3>3. QED BY <1>1, <1>3, <3>1, <3>2 DEF Open, Marks, Hops
  <2>4. ~Open(n)' => queue[n] = <<>>
    <3>1. ~Free(n)
      BY <1>1 DEF Free
    <3>2. ~Open(n)' => ~Open(n) \/ (n = i /\ Hops(i))
      <4>1. SUFFICES ASSUME Open(n), ~(n = i /\ Hops(i)) PROVE Open(n)'
        OBVIOUS
      <4>2. ~(n < i) /\ Hops(n) /\ n # i
        BY <1>1, <4>1 DEF Open
      <4>3. pc' = "adapt" /\ ~(n < i') /\ Hops(n)'
        BY <1>1, <1>3, <4>2 DEF Hops
      <4>4. QED BY <4>3 DEF Open
    <3>3. QED BY <1>7, <2>2, <3>1, <3>2 DEF QueueAt
  <2>5. QED BY <1>1, <2>2, <2>3, <2>4, QueueKept
<1>14. QED BY <1>8, <1>9, <1>10, <1>11, <1>12, <1>13

LEMMA StepRestore == ASSUME Inv, Restore PROVE Inv'
<1> USE DEF Inv, HostInv
<1> DEFINE c == Centre(i, 0)
           w == [win[i] EXCEPT !.centre = c]
<1>1. i \in Slots /\ pc = "restore" /\ k' = 1 /\ ramp' = ramp
      /\ UNCHANGED <<queue, flight, ran, acc, mean, rows, t, done>> /\ ramp \in [Slots -> 0 .. MaxRamp]
  BY DEF TypeOK, Restore, Advance, device
<1>2. /\ i' \in Slots /\ i' \in Nat \ {0}
      /\ \/ pc' = "restore" /\ \A n \in Slots : n < i' <=> n < i \/ n = i
         \/ pc' \in {"seat", "therm"} /\ i' = 1 /\ \A n \in Slots : ~(n < i') /\ (n < i \/ n = i)
  <2>1. Advance("restore", IF MaxBatches > 0 THEN "seat" ELSE "therm")
    BY DEF Restore
  <2>2. QED BY <1>1, <2>1, AdvanceParts
<1>3. ramp[i] > 0 => /\ win' \in [Slots -> Windows] /\ params' \in [Slots -> Windows]
                     /\ eN' \in [Slots -> Centres] /\ eN'[i] = c /\ win'[i] = w /\ params'[i] = w
                     /\ w.tilt = win[i].tilt /\ w.centre = c
                     /\ \A n \in Slots : n # i => UNCHANGED <<win[n], params[n], eN[n]>>
  <2>1. c \in Centres /\ win[i] \in Windows
    BY <1>1, CentresInCentres, LadderAssumption DEF TypeOK
  <2>2. ramp[i] > 0 => Upload(i, w) /\ eN' = [eN EXCEPT ![i] = c]
    BY DEF Restore, SetCentre
  <2> HIDE DEF c
  <2>3. w \in Windows /\ w.tilt = win[i].tilt /\ w.centre = c
    BY <2>1, WindowMoved
  <2> HIDE DEF w
  <2>4. QED BY <1>1, <2>1, <2>2, <2>3, Uploaded, ZenonT(60) DEF TypeOK
<1>4. ~(ramp[i] > 0) => UNCHANGED <<win, eN, params>>
  BY DEF Restore
<1> HIDE DEF w
<1>5. TypeOK'
  <2>1. win' \in [Slots -> Windows] /\ params' \in [Slots -> Windows] /\ eN' \in [Slots -> Centres]
    BY <1>3, <1>4 DEF TypeOK
  <2>2. k' \in Nat \ {0} /\ i' \in Nat \ {0} /\ pc' \in {"restore", "seat", "therm"}
    BY <1>1, <1>2
  <2>3. QED BY <1>1, <1>2, <2>1, <2>2 DEF TypeOK
<1>6. Counters' /\ RowsInv' /\ Averaged'
  BY <1>1, <1>2 DEF Counters, RowsInv, Averaged, Warming
<1>7. Placed'
  <2>1. SUFFICES ASSUME NEW n \in Slots PROVE PlacedAt(n)'
    BY DEF Placed
  <2>2. PlacedAt(n) /\ win[n].centre.of = n /\ ramp[n] \in Nat
    BY <1>1, LadderAssumption DEF Placed, PlacedAt, Warming
  <2>3. /\ win'[n].tilt = win[n].tilt /\ win'[n].centre.of = n
        /\ eN'[n] = win'[n].centre /\ params'[n] = win'[n]
        /\ win'[n].centre = IF n = i THEN Centre(n, 0) ELSE win[n].centre
    <3>1. CASE ramp[i] > 0 /\ n = i
      BY <1>3, <3>1 DEF Centre
    <3>2. CASE ~(ramp[i] > 0) /\ n = i
      <4>1. Hopped(n) = 0
        BY <1>1, <2>2, <3>2 DEF Hopped
      <4>2. QED BY <1>4, <2>2, <3>2, <4>1 DEF PlacedAt
    <3>3. CASE n # i
      BY <1>3, <1>4, <2>2, <3>3 DEF PlacedAt
    <3>4. QED BY <3>1, <3>2, <3>3
  <2>4. Hopped(n)' = IF n = i THEN 0 ELSE Hopped(n)
    BY <1>1, <1>2, <2>2 DEF Hopped
  <2>5. Climbed(n) = ramp[n] /\ Climbed(n)' = ramp[n] /\ Iterated(n) = 0 /\ Iterated(n)' = 0
    BY <1>1, <1>2, <2>2, <2>3 DEF Climbed, Iterated, Warming
  <2>6. ~Flattened(n) /\ ~Flattened(n)'
    BY <1>1, <1>2 DEF Flattened
  <2>7. win'[n].centre = Centre(n, Hopped(n)')
    BY <2>2, <2>3, <2>4 DEF PlacedAt
  <2>8. QED BY <2>2, <2>3, <2>5, <2>6, <2>7 DEF PlacedAt
<1>8. Permuted'
  <2>1. win[i].centre.of = i
    BY <1>1 DEF Placed, PlacedAt, Warming
  <2>2. ramp[i] > 0 => win'[i].centre.of = i
    BY <1>3 DEF Centre
  <2>3. QED BY <1>3, <1>4, <2>1, <2>2, PermutedKept
<1>9. \A n \in Slots : queue[n] = <<>> /\ flight[n] = None
  BY <1>1, QueueEmpty DEF Open, Free
<1>10. FlightInv' /\ QueueInv'
  BY <1>1, <1>2, <1>9 DEF FlightInv, QueueInv, QueueAt, Open, Hops
<1>11. QED BY <1>5, <1>6, <1>7, <1>8, <1>10

LEMMA RunParts ==
  ASSUME TypeOK, NEW n \in Slots, NEW c \in Nat
  PROVE  /\ Run(n, c) \in Seq(Ops) /\ Len(Run(n, c)) = c
         /\ \A j \in 1 .. c : Run(n, c)[j] = [do |-> "traj", at |-> eN[n]]
BY DEF Run, Op, Ops, TypeOK

LEMMA StepSeat == ASSUME Inv, Seat PROVE Inv'
<1> USE DEF Inv, HostInv
<1>1. i \in Slots /\ pc = "seat" /\ UNCHANGED <<k, t, ramp, done, win, eN, mean, rows, params>>
      /\ ramp \in [Slots -> 0 .. MaxRamp]
  BY DEF TypeOK, Seat, Advance
<1>2. /\ i' \in Slots /\ i' \in Nat \ {0}
      /\ \/ pc' = "seat" /\ \A n \in Slots : n < i' <=> n < i \/ n = i
         \/ pc' = "reached" /\ \A n \in Slots : ~(n < i') /\ (n < i \/ n = i)
  <2>1. Advance("seat", "reached")
    BY DEF Seat
  <2>2. QED BY <1>1, <2>1, AdvanceParts
<1>3. i \in done => UNCHANGED <<queue, flight, ran, acc>>
  BY DEF Seat, device
<1>4. i \notin done => /\ UNCHANGED <<flight, ran, acc>> /\ queue' \in [Slots -> Seq(Ops)]
                       /\ \A n \in Slots : n # i => queue'[n] = queue[n]
  <2>1. Run(i, Batch) \in Seq(Ops) /\ queue[i] \in Seq(Ops)
    BY <1>1, RunParts, LadderAssumption DEF TypeOK
  <2>2. queue[i] \o Run(i, Batch) \in Seq(Ops)
    BY <2>1, ConcatParts
  <2>3. i \notin done => /\ UNCHANGED <<flight, ran, acc>>
                         /\ queue' = [queue EXCEPT ![i] = queue[i] \o Run(i, Batch)]
    BY DEF Seat, Enqueue
  <2>4. queue \in [Slots -> Seq(Ops)]
    BY DEF TypeOK
  <2> DEFINE q == queue[i] \o Run(i, Batch)
  <2> HIDE DEF q
  <2>5. QED BY <1>1, <2>2, <2>3, <2>4 DEF q
<1>5. queue[i] = <<>> /\ flight[i] = None
  BY <1>1, QueueEmpty DEF Open, Free, Slots
<1>6. TypeOK'
  <2>1. queue' \in [Slots -> Seq(Ops)] /\ UNCHANGED <<flight, ran, acc>>
    BY <1>3, <1>4 DEF TypeOK
  <2>2. QED BY <1>1, <1>2, <2>1 DEF TypeOK
<1>7. Counters' /\ RowsInv' /\ Averaged' /\ Permuted'
  BY <1>1, <1>2 DEF Counters, RowsInv, Averaged, Permuted, Warming
<1>8. Placed'
  BY <1>1, <1>2 DEF Placed, PlacedAt, Flattened, Hopped, Climbed, Iterated, Warming
<1>9. FlightInv'
  <2>1. SUFFICES ASSUME NEW n \in Slots, flight'[n] # None
                 PROVE  /\ queue'[n] # <<>> /\ Head(queue'[n]).do \in {"base", "traj"}
                        /\ flight'[n] = params'[n]
    BY DEF FlightInv
  <2>2. flight' = flight /\ n # i
    BY <1>3, <1>4, <1>5, <2>1
  <2>3. QED BY <1>1, <1>3, <1>4, <2>1, <2>2 DEF FlightInv
<1>10. QueueInv'
  <2>1. SUFFICES ASSUME NEW n \in Slots, ~Free(n)' PROVE queue'[n] = <<>>
    BY <1>2 DEF QueueInv, QueueAt, Open
  <2>2. CASE n = i
    BY <1>1, <1>2, <1>3, <1>5, <2>1, <2>2 DEF Free
  <2>3. CASE n # i
    <3>1. ~Free(n) /\ ~Open(n)
      BY <1>1, <1>2, <2>1, <2>3 DEF Free, Open
    <3>2. queue'[n] = queue[n]
      BY <1>3, <1>4, <2>3
    <3>3. QED BY <3>1, <3>2 DEF QueueInv, QueueAt
  <2>4. QED BY <2>2, <2>3
<1>11. QED BY <1>6, <1>7, <1>8, <1>9, <1>10

LEMMA StepReached == ASSUME Inv, Reached PROVE Inv'
<1> USE DEF Inv, HostInv
<1>1. i \in Slots /\ pc = "reached" /\ UNCHANGED <<t, ramp, win, eN, mean, rows, params, device>>
      /\ k \in Nat \ {0} /\ done \subseteq Slots /\ ramp \in [Slots -> 0 .. MaxRamp]
  BY DEF TypeOK, Reached
<1>2. \/ i' \in Slots /\ pc' = "reached" /\ k' = k /\ \A n \in Slots : n < i' <=> n < i \/ n = i
      \/ /\ i' = 1 /\ \A n \in Slots : ~(n < i') /\ (n < i \/ n = i)
         /\ (pc' = "therm" /\ k' = 1) \/ (pc' = "seat" /\ k' = k + 1)
  <2>1. CASE i < NRep
    <3>1. i' = i + 1 /\ pc' = pc /\ k' = k
      BY <2>1 DEF Reached
    <3>2. QED BY <1>1, <2>1, <3>1, LadderAssumption DEF Slots
  <2>2. CASE ~(i < NRep)
    <3>1. i' = 1 /\ ((pc' = "therm" /\ k' = 1) \/ (pc' = "seat" /\ k' = k + 1))
      BY <2>2 DEF Reached
    <3>2. \A n \in Slots : ~(n < 1) /\ (n < i \/ n = i)
      BY <1>1, <2>2, LadderAssumption DEF Slots
    <3>3. QED BY <3>1, <3>2
  <2>3. QED BY <2>1, <2>2
<1>3. done' \subseteq Slots /\ done \subseteq done' /\ done' \subseteq done \cup {i}
      /\ queue[i] = <<>>
  <2>1. i \in done => queue[i] = <<>>
    BY <1>1, QueueEmpty DEF Open, Free
  <2>2. QED BY <1>1, <2>1 DEF Reached, Synced
<1>4. TypeOK'
  <2>1. i' \in Slots /\ i' \in Nat \ {0} /\ k' \in Nat \ {0} /\ pc' \in {"reached", "seat", "therm"}
    BY <1>1, <1>2, LadderAssumption DEF Slots
  <2>2. QED BY <1>1, <1>3, <2>1 DEF TypeOK, device
<1>5. Counters' /\ RowsInv' /\ Averaged' /\ Permuted'
  BY <1>1, <1>2 DEF Counters, RowsInv, Averaged, Permuted, Warming
<1>6. Placed'
  <2>1. SUFFICES ASSUME NEW n \in Slots PROVE PlacedAt(n)'
    BY DEF Placed
  <2>2. PlacedAt(n) /\ ramp[n] \in Nat /\ win[n].centre.of = n
    BY <1>1, LadderAssumption DEF Placed, PlacedAt, Warming
  <2>3. Hopped(n)' = Hopped(n) /\ ~Flattened(n) /\ ~Flattened(n)'
    BY <1>1, <1>2 DEF Hopped, Flattened
  <2>4. Climbed(n)' = Climbed(n) /\ Iterated(n)' = 0 /\ Iterated(n) = 0
    BY <1>1, <1>2 DEF Climbed, Iterated, Warming
  <2>5. QED BY <1>1, <1>2, <2>2, <2>3, <2>4, PlacedKept DEF Warming
<1>7. FlightInv'
  BY <1>1 DEF FlightInv, device
<1>8. QueueInv'
  <2>1. SUFFICES ASSUME NEW n \in Slots, ~Free(n)' PROVE queue'[n] = <<>>
    BY <1>2 DEF QueueInv, QueueAt, Open
  <2>2. n = i \/ (~Free(n) /\ ~Open(n))
    BY <1>1, <1>2, <1>3, <2>1 DEF Free, Open
  <2>3. QED BY <1>1, <1>3, <2>2 DEF QueueInv, QueueAt, device
<1>9. QED BY <1>4, <1>5, <1>6, <1>7, <1>8
-----------------------------------------------------------------------------
(* An iteration.                                                           *)
LEMMA ThermParts ==
  ASSUME TypeOK, NEW n \in Slots
  PROVE  LET b == Append(Run(n, NTherm), Op("zero", n)) IN
         /\ b \in Seq(Ops) /\ Len(b) = NTherm + 1
         /\ \A j \in 1 .. Len(b) : b[j] = [do |-> Kind(Len(b) - j, 0), at |-> eN[n]]
<1> DEFINE r == Run(n, NTherm)
           b == Append(r, Op("zero", n))
<1>1. /\ r \in Seq(Ops) /\ Len(r) = NTherm
      /\ \A j \in 1 .. NTherm : r[j] = [do |-> "traj", at |-> eN[n]]
  BY RunParts, LadderAssumption
<1>2. Op("zero", n) \in Ops /\ Op("zero", n) = [do |-> "zero", at |-> eN[n]]
  BY DEF Op, Ops, TypeOK
<1> HIDE DEF r
<1>3. /\ b \in Seq(Ops) /\ Len(b) = NTherm + 1
      /\ \A j \in 1 .. NTherm : b[j] = r[j]
      /\ b[NTherm + 1] = [do |-> "zero", at |-> eN[n]]
  BY <1>1, <1>2, LadderAssumption
<1>4. ASSUME NEW j \in 1 .. Len(b)
      PROVE  b[j] = [do |-> Kind(Len(b) - j, 0), at |-> eN[n]]
  <2>1. CASE j = NTherm + 1
    BY <1>3, <2>1, LadderAssumption DEF Kind
  <2>2. CASE j # NTherm + 1
    <3>1. j \in 1 .. NTherm /\ Len(b) - j \in Nat \ {0}
      BY <1>3, <2>2, LadderAssumption
    <3>2. Kind(Len(b) - j, 0) = "traj"
      BY <3>1 DEF Kind
    <3>3. QED BY <1>1, <1>3, <3>1, <3>2
  <2>3. QED BY <2>1, <2>2
<1> HIDE DEF b
<1>5. QED BY <1>3, <1>4 DEF b, r

LEMMA StepTherm == ASSUME Inv, Therm PROVE Inv'
<1> USE DEF Inv, HostInv
<1> DEFINE b == Append(Run(i, NTherm), Op("zero", i))
<1>1. /\ i \in Slots /\ pc = "therm" /\ t' = 1
      /\ UNCHANGED <<k, ramp, done, win, eN, mean, rows, params, flight, ran, acc>>
      /\ k \in Nat \ {0} /\ ramp \in [Slots -> 0 .. MaxRamp]
  BY DEF TypeOK, Therm, Advance, Enqueue
<1>2. /\ i' \in Slots /\ i' \in Nat \ {0}
      /\ \/ pc' = "therm" /\ \A n \in Slots : n < i' <=> n < i \/ n = i
         \/ pc' = "meas" /\ \A n \in Slots : ~(n < i') /\ (n < i \/ n = i)
  <2>1. Advance("therm", "meas")
    BY DEF Therm
  <2>2. QED BY <1>1, <2>1, AdvanceParts
<1>3. queue[i] = <<>> /\ flight[i] = None
  BY <1>1, QueueEmpty DEF Open, Free, Slots
<1>4. b \in Seq(Ops) /\ queue' = [queue EXCEPT ![i] = b] /\ queue \in [Slots -> Seq(Ops)]
  <2>1. b \in Seq(Ops)
    BY <1>1, ThermParts
  <2>2. queue' = [queue EXCEPT ![i] = queue[i] \o b] /\ queue \in [Slots -> Seq(Ops)]
    BY DEF Therm, Enqueue, TypeOK
  <2> HIDE DEF b
  <2>3. queue[i] \o b = b
    BY <1>1, <1>3, <2>1, <2>2, ConcatParts
  <2>4. QED BY <2>1, <2>2, <2>3
<1> HIDE DEF b
<1>5. TypeOK'
  BY <1>1, <1>2, <1>4 DEF TypeOK
<1>6. Counters' /\ RowsInv' /\ Averaged' /\ Permuted'
  <2>1. Counters'
    BY <1>1, <1>2, LadderAssumption DEF Counters
  <2>2. RowsInv' /\ Averaged' /\ Permuted'
    BY <1>1, <1>2 DEF RowsInv, Written, Averaged, Permuted, Warming
  <2>3. QED BY <2>1, <2>2
<1>7. Placed'
  BY <1>1, <1>2 DEF Placed, PlacedAt, Flattened, Hopped, Climbed, Iterated, Warming
<1>8. FlightInv'
  BY <1>1, <1>2, <1>3, <1>4 DEF FlightInv
<1>9. QueueInv'
  <2>1. SUFFICES ASSUME NEW n \in Slots PROVE QueueAt(n)'
    BY DEF QueueInv
  <2>2. QueueAt(n)
    BY DEF QueueInv
  <2>3. Marks(n)' = 0 /\ Marks(n) = 0
    BY <1>1, <1>2 DEF Marks
  <2>4. CASE n = i
    <3>1. Open(n)'
      BY <1>1, <1>2, <2>4 DEF Open
    <3>2. /\ queue'[n] = b /\ Len(b) = NTherm + 1 /\ eN' = eN
          /\ \A j \in 1 .. Len(b) : b[j] = [do |-> Kind(Len(b) - j, 0), at |-> eN[n]]
      BY <1>1, <1>4, <2>4, ThermParts DEF b
    <3>3. InBlock(n, 0)'
      BY <3>2, LadderAssumption DEF InBlock, Kind
    <3>4. QED BY <2>3, <3>1, <3>3 DEF QueueAt
  <2>5. CASE n # i
    <3>1. UNCHANGED <<queue[n], acc[n], ran[n], win[n], eN[n]>>
      BY <1>1, <1>4, <2>5
    <3>2. (Open(n)' <=> Open(n)) /\ ~Free(n)
      BY <1>1, <1>2, <2>5 DEF Open, Free
    <3>3. QED BY <2>2, <2>3, <3>1, <3>2, QueueKept DEF QueueAt
  <2>6. QED BY <2>4, <2>5
<1>10. QED BY <1>5, <1>6, <1>7, <1>8, <1>9

LEMMA KindShift ==
  ASSUME NEW d \in Int, NEW c \in Nat
  PROVE  Kind(d + 2, c + 1) = Kind(d, c) /\ Kind(1, c + 1) = "traj" /\ Kind(0, c + 1) = "acc"
<1>1. (d + 2) % 2 = d % 2 /\ 1 % 2 = 1 /\ 0 % 2 = 0
  BY Z3
<1>2. (d + 2 = 2 * (c + 1) <=> d = 2 * c) /\ (d + 2 < 2 * (c + 1) <=> d < 2 * c)
  OBVIOUS
<1>3. QED BY <1>1, <1>2 DEF Kind

(* A block with one more trajectory queued for it.                         *)
LEMMA TwoMore ==
  ASSUME NEW x \in Nat, NEW y \in Int, NEW c \in Int
  PROVE  /\ x + 2 <= 2 * (c + 1) <=> x <= 2 * c
         /\ x + 2 = 2 * (y + 1) <=> x = 2 * y
         /\ x + 2 = 2 * (y + 1) - 1 <=> x = 2 * y - 1
         /\ \A j \in 1 .. x + 2 : j <= x \/ j = x + 1 \/ j = x + 2
OBVIOUS

LEMMA BlockGrows ==
  ASSUME TypeOK, NEW n \in Slots, NEW c \in Nat, InBlock(n, c),
         queue'[n] = queue[n] \o Measured(n), UNCHANGED <<eN, win, ran, acc>>
  PROVE  InBlock(n, c + 1)'
<1> DEFINE q == queue[n]
           b == Measured(n)
           r == c - acc[n].terms
<1>1. q \in Seq(Ops) /\ acc[n].terms \in Nat /\ Len(q) \in Nat
  BY DEF TypeOK
<1>2. /\ b \in Seq(Ops) /\ Len(b) = 2
      /\ b[1] = [do |-> "traj", at |-> eN[n]] /\ b[2] = [do |-> "acc", at |-> eN[n]]
  BY DEF Measured, Op, Ops, TypeOK
<1>3. queue'[n] = q \o b
  OBVIOUS
<1> HIDE DEF b, q
<1>4. /\ Len(queue'[n]) = Len(q) + 2
      /\ \A j \in 1 .. Len(q) + 2 : queue'[n][j] = IF j <= Len(q) THEN q[j] ELSE b[j - Len(q)]
  <2>1. /\ Len(q \o b) = Len(q) + Len(b)
        /\ \A j \in 1 .. Len(q) + Len(b) : (q \o b)[j] = IF j <= Len(q) THEN q[j] ELSE b[j - Len(q)]
    BY <1>1, <1>2, ConcatParts
  <2>2. QED BY <1>2, <1>3, <2>1
<1>5. Kind(1, c + 1) = "traj" /\ Kind(0, c + 1) = "acc"
  BY KindShift
<1>6. ASSUME NEW j \in 1 .. Len(q) + 2
      PROVE  queue'[n][j] = [do |-> Kind(Len(q) + 2 - j, c + 1), at |-> eN[n]]
  <2>1. CASE j <= Len(q)
    <3>1. j \in 1 .. Len(q) /\ Len(q) + 2 - j = (Len(q) - j) + 2 /\ Len(q) - j \in Int
      BY <1>1, <2>1
    <3>2. q[j] = [do |-> Kind(Len(q) - j, c), at |-> eN[n]]
      BY <3>1 DEF InBlock, q
    <3>3. QED BY <1>4, <2>1, <3>1, <3>2, KindShift
  <2>2. CASE j = Len(q) + 1
    <3>1. Len(q) + 2 - j = 1 /\ j - Len(q) = 1 /\ ~(j <= Len(q))
      BY <1>1, <2>2
    <3>2. QED BY <1>2, <1>4, <1>5, <3>1
  <2>3. CASE j = Len(q) + 2
    <3>1. Len(q) + 2 - j = 0 /\ j - Len(q) = 2 /\ ~(j <= Len(q))
      BY <1>1, <2>3
    <3>2. QED BY <1>2, <1>4, <1>5, <3>1
  <2>4. j <= Len(q) \/ j = Len(q) + 1 \/ j = Len(q) + 2
    BY <1>1, TwoMore, SMTT(60)
  <2>5. QED BY <2>1, <2>2, <2>3, <2>4
<1>7. Len(q) <= 2 * c => /\ Len(q) = 2 * r \/ (Len(q) = 2 * r - 1 /\ ran[n] = win[n])
                         /\ acc[n].under = IF acc[n].terms = 0 THEN None ELSE win[n]
  BY DEF InBlock, q
<1>8. r \in Int /\ c + 1 - acc[n].terms = r + 1
  BY <1>1
<1> HIDE DEF r
<1>9. /\ Len(q) + 2 <= 2 * (c + 1) <=> Len(q) <= 2 * c
      /\ Len(q) + 2 = 2 * (r + 1) <=> Len(q) = 2 * r
      /\ Len(q) + 2 = 2 * (r + 1) - 1 <=> Len(q) = 2 * r - 1
  BY <1>1, <1>8, TwoMore, SMTT(60)
<1>10. eN'[n] = eN[n] /\ win'[n] = win[n] /\ ran'[n] = ran[n] /\ acc'[n] = acc[n]
  OBVIOUS
<1>11. PICK e \in Nat : e = c + 1
  OBVIOUS
<1>12. SUFFICES InBlock(n, e)'
  BY <1>11
<1>13. \A j \in 1 .. Len(queue'[n]) :
         queue'[n][j] = [do |-> Kind(Len(queue'[n]) - j, e), at |-> eN'[n]]
  BY <1>4, <1>6, <1>10, <1>11
<1>14. e - acc'[n].terms = r + 1
  <2>1. acc'[n].terms = acc[n].terms
    BY <1>10
  <2>2. QED BY <1>1, <1>8, <1>11, <2>1, SMTT(60)
<1>15. Len(queue'[n]) <= 2 * e =>
         /\ \/ Len(queue'[n]) = 2 * (r + 1)
            \/ Len(queue'[n]) = 2 * (r + 1) - 1 /\ ran'[n] = win'[n]
         /\ acc'[n].under = IF acc'[n].terms = 0 THEN None ELSE win'[n]
  BY <1>4, <1>7, <1>9, <1>10, <1>11
<1>16. QED BY <1>13, <1>14, <1>15 DEF InBlock, Kind

LEMMA StepMeas == ASSUME Inv, Meas PROVE Inv'
<1> USE DEF Inv, HostInv
<1>1. /\ i \in Slots /\ pc = "meas" /\ t \in 1 .. NMeas
      /\ UNCHANGED <<k, ramp, done, win, eN, mean, rows, params, flight, ran, acc>>
      /\ k \in Nat \ {0} /\ ramp \in [Slots -> 0 .. MaxRamp]
  BY DEF TypeOK, Meas, Advance, Enqueue, Counters
<1>2. /\ i' \in Slots /\ i' \in Nat \ {0}
      /\ \/ pc' = "meas" /\ t' = t /\ \A n \in Slots : n < i' <=> n < i \/ n = i
         \/ pc' = "meas" /\ t < NMeas /\ t' = t + 1 /\ \A n \in Slots : ~(n < i') /\ (n < i \/ n = i)
         \/ pc' = "gather" /\ t = NMeas /\ t' = t + 1 /\ \A n \in Slots : ~(n < i') /\ (n < i \/ n = i)
  <2>1. Advance("meas", IF t < NMeas THEN "meas" ELSE "gather")
    BY DEF Meas
  <2>2. t' = IF i = NRep THEN t + 1 ELSE t
    BY DEF Meas
  <2>3. ~(t < NMeas) => t = NMeas
    BY <1>1, LadderAssumption
  <2>4. QED BY <1>1, <2>1, <2>2, <2>3, AdvanceParts
<1>3. queue \in [Slots -> Seq(Ops)] /\ Measured(i) \in Seq(Ops)
  <2>1. Op("traj", i) \in Ops /\ Op("acc", i) \in Ops
    BY <1>1 DEF TypeOK, Op, Ops
  <2>2. QED BY <2>1 DEF TypeOK, Measured
<1>4. queue' = [queue EXCEPT ![i] = queue[i] \o Measured(i)]
  BY DEF Meas, Enqueue
<1>5. /\ queue' \in [Slots -> Seq(Ops)]
      /\ queue[i] # <<>> => queue'[i] # <<>> /\ Head(queue'[i]) = Head(queue[i])
      /\ \A n \in Slots : n # i => queue'[n] = queue[n]
  BY <1>1, <1>3, <1>4, ConcatParts
<1>6. TypeOK'
  <2>1. t' \in Nat
    BY <1>1, <1>2
  <2>2. QED BY <1>1, <1>2, <1>5, <2>1 DEF TypeOK
<1>7. Counters'
  BY <1>1, <1>2, LadderAssumption DEF Counters
<1>8. RowsInv' /\ Averaged' /\ Permuted'
  BY <1>1, <1>2 DEF RowsInv, Written, Averaged, Permuted, Warming
<1>9. Placed'
  BY <1>1, <1>2 DEF Placed, PlacedAt, Flattened, Hopped, Climbed, Iterated, Warming
<1>10. FlightInv'
  BY <1>1, <1>2, <1>5 DEF FlightInv
<1>11. QueueInv'
  <2>1. SUFFICES ASSUME NEW n \in Slots PROVE QueueAt(n)'
    BY DEF QueueInv
  <2>2. Open(n) /\ Open(n)' /\ InBlock(n, Marks(n))
    BY <1>1, <1>2 DEF QueueInv, QueueAt, Open
  <2>3. CASE n = i
    <3>1. t - 1 \in Nat /\ (t - 1) + 1 = t /\ (t + 1) - 1 = t
      BY <1>1, LadderAssumption
    <3>2. PICK c \in Nat : c = t - 1 /\ c + 1 = t
      BY <3>1
    <3>3. Marks(n) = c
      BY <1>1, <2>3, <3>2 DEF Marks, Slots
    <3>4. Marks(n)' = c + 1
      BY <1>2, <2>3, <3>1, <3>2 DEF Marks
    <3>5. queue'[n] = queue[n] \o Measured(n)
      BY <1>1, <1>3, <1>4, <2>3
    <3>6. InBlock(n, c + 1)'
      BY <1>1, <2>2, <3>3, <3>5, BlockGrows
    <3>7. QED BY <2>2, <3>4, <3>6 DEF QueueAt, InBlock, Kind
  <2>4. CASE n # i
    <3>1. Marks(n)' = Marks(n)
      BY <1>1, <1>2, <2>4 DEF Marks
    <3>2. UNCHANGED <<queue[n], acc[n], ran[n], win[n], eN[n]>>
      BY <1>1, <1>5, <2>4
    <3>3. QueueAt(n)
      BY DEF QueueInv
    <3>4. QED BY <2>2, <3>1, <3>2, <3>3, QueueKept
  <2>5. QED BY <2>3, <2>4
<1>12. QED BY <1>6, <1>7, <1>8, <1>9, <1>10, <1>11

LEMMA RampNat ==
  ASSUME TypeOK, NEW n \in Slots
  PROVE  win[n].centre.of \in Slots /\ ramp[win[n].centre.of] \in Nat
<1>1. win[n].centre.of \in Slots
  BY WindowParts DEF TypeOK
<1>2. \A s \in Slots : ramp[s] \in Nat
  BY LadderAssumption DEF TypeOK
<1>3. QED BY <1>1, <1>2

LEMMA StepGather == ASSUME Inv, Gather PROVE Inv'
<1> USE DEF Inv, HostInv
<1>1. /\ i \in Slots /\ pc = "gather" /\ t = NMeas + 1
      /\ UNCHANGED <<k, t, ramp, done, win, eN, rows, params, queue, flight, ran, acc>>
      /\ k \in Nat \ {0} /\ ramp \in [Slots -> 0 .. MaxRamp]
  BY DEF TypeOK, Gather, Advance, Counters, device
<1>2. /\ i' \in Slots /\ i' \in Nat \ {0}
      /\ \/ pc' = "gather" /\ \A n \in Slots : n < i' <=> n < i \/ n = i
         \/ pc' = "set" /\ \A n \in Slots : ~(n < i') /\ (n < i \/ n = i)
  <2>1. Advance("gather", "set")
    BY DEF Gather
  <2>2. QED BY <1>1, <2>1, AdvanceParts
<1>3. Marks(i) = NMeas /\ Open(i)
  <2>1. ~(i < i) /\ t - 1 = NMeas
    BY <1>1, LadderAssumption DEF Slots
  <2>2. QED BY <1>1, <2>1 DEF Marks, Open
<1>4. acc[i] = [under |-> win[i], terms |-> NMeas] /\ queue[i] = <<>>
  <2>1. InBlock(i, NMeas)
    BY <1>1, <1>3 DEF QueueInv, QueueAt
  <2>2. Synced(i)
    BY DEF Gather
  <2>3. QED BY <1>1, <2>1, <2>2, BlockRead, LadderAssumption DEF Synced
<1>5. mean' = [mean EXCEPT ![i] = acc[i]]
  BY DEF Gather, Read
<1>6. TypeOK'
  <2>1. mean' \in [Slots -> [under : Windows \cup {None, Mixed}, terms : Nat]]
    BY <1>1, <1>5 DEF TypeOK
  <2>2. QED BY <1>1, <1>2, <2>1 DEF TypeOK
<1>7. Counters' /\ RowsInv' /\ Permuted'
  BY <1>1, <1>2 DEF Counters, RowsInv, Written, Permuted, Warming
<1>8. Placed'
  BY <1>1, <1>2 DEF Placed, PlacedAt, Flattened, Hopped, Climbed, Iterated, Swept, Warming
<1>9. FlightInv'
  BY <1>1, <1>2 DEF FlightInv
<1>10. QueueInv'
  <2>1. SUFFICES ASSUME NEW n \in Slots PROVE QueueAt(n)'
    BY DEF QueueInv
  <2>2. QueueAt(n) /\ ~Free(n)
    BY <1>1 DEF QueueInv, Free
  <2>3. Open(n)' => Open(n) /\ Marks(n)' = Marks(n)
    BY <1>1, <1>2 DEF Open, Marks
  <2>4. ~Open(n)' => ~Open(n) \/ n = i
    BY <1>1, <1>2 DEF Open
  <2>5. QED BY <1>1, <1>4, <2>2, <2>3, <2>4, QueueKept DEF QueueAt
<1>11. Averaged'
  <2>1. ASSUME NEW n \in Slots, (pc' = "gather" /\ n < i') \/ (pc' = "set" /\ ~(n < i'))
        PROVE  mean'[n] = [under |-> win'[n], terms |-> NMeas]
    <3>1. n < i \/ n = i
      BY <1>2, <2>1
    <3>2. CASE n = i
      BY <1>1, <1>4, <1>5, <3>2 DEF TypeOK
    <3>3. CASE n # i
      BY <1>1, <1>5, <3>1, <3>3 DEF Averaged
    <3>4. QED BY <3>2, <3>3
  <2>2. QED BY <2>1 DEF Averaged
<1>12. QED BY <1>6, <1>7, <1>8, <1>9, <1>10, <1>11

(* No stream is at work from the last readback of an iteration to the next *)
(* iteration.                                                              *)
LEMMA Quiet ==
  ASSUME FlightInv, QueueInv, pc \in {"set", "rows", "exch"}
  PROVE  \A n \in Slots : queue[n] = <<>> /\ flight[n] = None
BY QueueEmpty DEF Open, Free

LEMMA QuietKept ==
  ASSUME \A n \in Slots : queue[n] = <<>> /\ flight[n] = None, UNCHANGED <<queue, flight>>,
         pc' \in {"set", "rows", "exch"} \/ (pc' = "therm" /\ i' = 1)
  PROVE  FlightInv' /\ QueueInv'
<1>1. \A n \in Slots : ~(pc' = "therm" /\ n < i')
  BY DEF Slots
<1>2. QED BY <1>1 DEF FlightInv, QueueInv, QueueAt, Open

LEMMA StepSetTilt == ASSUME Inv, SetTilt PROVE Inv'
<1> USE DEF Inv, HostInv
<1> DEFINE w == [win[i] EXCEPT !.tilt.updates = @ + 1]
<1>1. /\ i \in Slots /\ pc = "set"
      /\ UNCHANGED <<k, t, ramp, done, eN, mean, rows, queue, flight, ran, acc>>
      /\ k \in Nat \ {0} /\ ramp \in [Slots -> 0 .. MaxRamp] /\ i \in Nat
  BY DEF TypeOK, SetTilt, Advance, device
<1>2. /\ i' \in Slots /\ i' \in Nat \ {0}
      /\ \/ pc' = "set" /\ \A n \in Slots : n < i' <=> n < i \/ n = i
         \/ pc' = "rows" /\ i' = 1 /\ \A n \in Slots : ~(n < i') /\ (n < i \/ n = i)
  <2>1. Advance("set", "rows")
    BY DEF SetTilt
  <2>2. QED BY <1>1, <2>1, AdvanceParts
<1>3. win[i] \in Windows /\ win[i].centre.of \in Slots /\ ramp[win[i].centre.of] \in Nat
      /\ win[i].tilt = Tilt(win[i].centre.of, ramp[win[i].centre.of] + (k - 1))
  <2>1. win[i] \in Windows /\ win[i].centre.of \in Slots
    BY <1>1, WindowParts DEF TypeOK
  <2>2. ramp[win[i].centre.of] \in Nat
    BY <1>1, RampNat
  <2>3. ~Flattened(i) /\ Climbed(i) = ramp[win[i].centre.of] /\ Iterated(i) = k - 1
    BY <1>1 DEF Flattened, Climbed, Iterated, Swept, Warming
  <2>4. QED BY <1>1, <2>1, <2>2, <2>3 DEF Placed, PlacedAt
<1>4. w \in Windows /\ w.centre = win[i].centre
      /\ w.tilt = Tilt(win[i].centre.of, ramp[win[i].centre.of] + k)
  <2>1. ramp[win[i].centre.of] + (k - 1) \in Nat
        /\ (ramp[win[i].centre.of] + (k - 1)) + 1 = ramp[win[i].centre.of] + k
    BY <1>1, <1>3
  <2>2. w \in Windows /\ w.centre = win[i].centre
        /\ w.tilt = Tilt(win[i].centre.of, (ramp[win[i].centre.of] + (k - 1)) + 1)
    BY <1>3, <2>1, WindowUpdated
  <2>3. QED BY <2>1, <2>2
<1>5. Upload(i, w)
  BY DEF SetTilt, Updated
<1> HIDE DEF w
<1>6. /\ win' \in [Slots -> Windows] /\ params' \in [Slots -> Windows]
      /\ win'[i] = w /\ params'[i] = w
      /\ \A n \in Slots : n # i => win'[n] = win[n] /\ params'[n] = params[n]
  BY <1>1, <1>4, <1>5, Uploaded
<1>7. TypeOK'
  BY <1>1, <1>2, <1>6 DEF TypeOK
<1>8. Counters' /\ RowsInv'
  BY <1>1, <1>2 DEF Counters, RowsInv, Written, Warming
<1>9. Averaged'
  BY <1>1, <1>2, <1>6 DEF Averaged
<1>10. Placed'
  <2>1. SUFFICES ASSUME NEW n \in Slots PROVE PlacedAt(n)'
    BY DEF Placed
  <2>2. PlacedAt(n) /\ ~Flattened(n) /\ ~Flattened(n)' /\ Hopped(n)' = Hopped(n)
    BY <1>1, <1>2 DEF Placed, Flattened, Hopped
  <2>3. CASE n = i
    <3>1. Climbed(n)' = ramp[win[i].centre.of] /\ Iterated(n)' = k
      BY <1>1, <1>2, <1>4, <1>6, <2>3 DEF Climbed, Iterated, Swept, Warming
    <3>2. Climbed(n)' + Iterated(n)' = ramp[win[i].centre.of] + k
      BY <3>1
    <3>3. QED BY <1>1, <1>2, <1>4, <1>6, <2>2, <2>3, <3>2 DEF PlacedAt, Warming
  <2>4. CASE n # i
    <3>1. UNCHANGED <<win[n], eN[n], params[n]>>
      BY <1>1, <1>6, <2>4
    <3>2. Climbed(n)' = Climbed(n) /\ Iterated(n)' = Iterated(n)
      BY <1>1, <1>2, <2>4, <3>1 DEF Climbed, Iterated, Swept, Warming
    <3>3. QED BY <1>1, <1>2, <2>2, <3>1, <3>2, PlacedKept DEF Warming
  <2>5. QED BY <2>3, <2>4
<1>11. Permuted'
  BY <1>1, <1>4, <1>6, PermutedKept
<1>12. FlightInv' /\ QueueInv'
  BY <1>1, <1>2, Quiet, QuietKept
<1>13. QED BY <1>7, <1>8, <1>9, <1>10, <1>11, <1>12

LEMMA StepDrain == ASSUME Inv, Drain PROVE Inv'
<1> USE DEF Inv, HostInv
<1>1. /\ pc = "rows" /\ UNCHANGED <<t, ramp, done, win, eN, mean, params, queue, flight, ran, acc>>
      /\ k \in Nat \ {0} /\ ramp \in [Slots -> 0 .. MaxRamp]
      /\ rows' = [n \in Slots |-> [tilt |-> win[n].tilt, eN |-> eN[n]]]
  BY DEF TypeOK, Drain, device
<1>2. \/ pc' = "exch" /\ i' \in Nat \ {0} /\ k' = k
      \/ pc' = "therm" /\ i' = 1 /\ k' = k + 1
  <2>1. CASE k > NNr /\ Exchange
    <3>1. pc' = "exch" /\ i' = 1 + ((k - NNr - 1) % 2) /\ k' = k
      BY <2>1 DEF Drain
    <3>2. \A x \in Int : x % 2 \in Nat
      BY Z3
    <3>3. k - NNr - 1 \in Int
      BY <1>1, LadderAssumption
    <3>4. (k - NNr - 1) % 2 \in Nat
      BY <3>2, <3>3
    <3>5. QED BY <3>1, <3>4
  <2>2. CASE ~(k > NNr /\ Exchange)
    BY <2>2 DEF Drain
  <2>3. QED BY <2>1, <2>2
<1>3. rows' \in [Slots -> [tilt : Tilts, eN : Centres] \cup {None}]
  <2>1. \A n \in Slots : win[n].tilt \in Tilts /\ eN[n] \in Centres
    BY WindowParts DEF TypeOK
  <2>2. QED BY <1>1, <2>1
<1>4. TypeOK'
  <2>1. k' \in Nat \ {0} /\ i' \in Nat \ {0} /\ pc' \in {"exch", "therm"}
        /\ (pc' # "exch" => i' \in Slots)
    BY <1>1, <1>2, LadderAssumption DEF Slots
  <2>2. QED BY <1>1, <1>3, <2>1 DEF TypeOK
<1>5. Counters' /\ Averaged'
  BY <1>1, <1>2 DEF Counters, Averaged
<1>6. ASSUME NEW n \in Slots
      PROVE  /\ win[n].centre.of \in Slots /\ ramp[win[n].centre.of] \in Nat
             /\ win[n].tilt = Tilt(win[n].centre.of, ramp[win[n].centre.of] + k)
             /\ win[n].centre = Centre(win[n].centre.of, 0) /\ eN[n] = win[n].centre
  <2>1. win[n].centre.of \in Slots /\ ramp[win[n].centre.of] \in Nat
    BY RampNat
  <2>2. ~Flattened(n) /\ Climbed(n) = ramp[win[n].centre.of] /\ Iterated(n) = k /\ Hopped(n) = 0
    BY <1>1 DEF Flattened, Climbed, Iterated, Hopped, Warming
  <2>3. QED BY <2>1, <2>2 DEF Placed, PlacedAt
<1>7. RowsInv'
  <2>1. (IF pc' = "exch" THEN k' ELSE k' - 1) = k
    BY <1>1, <1>2
  <2>2. ASSUME NEW w \in Slots
        PROVE  \E n \in Slots : rows'[n].eN = Centre(w, 0)
    <3>1. PICK n \in Slots : win[n].centre.of = w
      BY DEF Permuted
    <3>2. rows'[n].eN = Centre(w, 0)
      BY <1>1, <1>6, <3>1
    <3>3. QED BY <3>2
  <2>3. ASSUME NEW n \in Slots
        PROVE  rows'[n].tilt = Tilt(rows'[n].eN.of, ramp'[rows'[n].eN.of] + k)
    BY <1>1, <1>6
  <2>4. QED BY <1>2, <2>1, <2>2, <2>3 DEF RowsInv, Written, Warming
<1>8. Placed'
  <2>1. SUFFICES ASSUME NEW n \in Slots PROVE PlacedAt(n)'
    BY DEF Placed
  <2>2. ~Flattened(n)' /\ Climbed(n)' = ramp[win[n].centre.of] /\ Iterated(n)' = k /\ Hopped(n)' = 0
    <3>1. ~Flattened(n)'
      BY <1>1, <1>2 DEF Flattened, Warming
    <3>2. Climbed(n)' = ramp[win[n].centre.of]
      <4>1. win' = win /\ ramp' = ramp /\ pc' \in {"exch", "therm"}
        BY <1>1, <1>2
      <4>2. pc' \notin {"base", "widths", "tilts", "plan", "hop", "adapt"}
        BY <4>1
      <4>3. pc' # "hop" /\ pc' # "adapt"
        BY <4>1
      <4>4. Climbed(n)' = ramp'[win'[n].centre.of]
        BY <4>2, <4>3, Zenon DEF Climbed
      <4>5. QED BY <4>1, <4>4
    <3>3. Iterated(n)' = k
      <4>1. CASE pc' = "exch" /\ k' = k
        <5>1. Iterated(n)' = k'
          BY <4>1 DEF Iterated, Warming
        <5>2. QED BY <4>1, <5>1
      <4>2. CASE pc' = "therm" /\ k' = k + 1
        <5>1. Iterated(n)' = k' - 1
          BY <4>2 DEF Iterated, Warming
        <5>2. QED BY <1>1, <4>2, <5>1
      <4>3. QED BY <1>2, <4>1, <4>2
    <3>4. Hopped(n)' = 0
      <4>1. pc' \in {"exch", "therm"}
        BY <1>2
      <4>2. QED BY <4>1 DEF Hopped
    <3>5. QED BY <3>1, <3>2, <3>3, <3>4
  <2>3. PlacedAt(n)
    BY DEF Placed
  <2>4. QED BY <1>1, <1>2, <1>6, <2>2, <2>3 DEF PlacedAt, Warming
<1>9. Permuted'
  BY <1>1, PermutedKept
<1>10. FlightInv' /\ QueueInv'
  BY <1>1, <1>2, Quiet, QuietKept
<1>11. QED BY <1>4, <1>5, <1>7, <1>8, <1>9, <1>10

(* An exchange: who holds which window, afterwards.                        *)
LEMMA SwapParts ==
  ASSUME TypeOK, Placed, NEW m \in Slots, NEW n \in Slots, m # n, Swapped(m, n)
  PROVE  /\ win' \in [Slots -> Windows] /\ params' \in [Slots -> Windows] /\ eN' \in [Slots -> Centres]
         /\ \A s \in Slots :
              LET o == IF s = m THEN n ELSE IF s = n THEN m ELSE s IN
              /\ win'[s].tilt = win[o].tilt /\ win'[s].centre = win[o].centre
              /\ eN'[s] = win'[s].centre /\ params'[s] = win'[s]
<1> USE DEF Placed, PlacedAt
<1>1. /\ win[m] \in Windows /\ win[n] \in Windows /\ eN[m] = win[m].centre /\ eN[n] = win[n].centre
      /\ win \in [Slots -> Windows] /\ params \in [Slots -> Windows] /\ eN \in [Slots -> Centres]
  BY DEF TypeOK
<1> DEFINE v(s, o) == [win[s] EXCEPT !.tilt = win[o].tilt, !.centre = win[o].centre]
<1>2. ASSUME NEW s \in {m, n}, NEW o \in {m, n}
      PROVE  v(s, o) \in Windows /\ v(s, o).tilt = win[o].tilt /\ v(s, o).centre = win[o].centre
  BY <1>1 DEF Windows
<1>3. win' = [win EXCEPT ![m] = v(m, n), ![n] = v(n, m)]
  BY <1>1 DEF Swapped, Windows
<1> HIDE DEF v
<1>4. params' = [params EXCEPT ![m] = win'[m], ![n] = win'[n]]
      /\ eN' = [eN EXCEPT ![m] = eN[n], ![n] = eN[m]]
  BY DEF Swapped
<1>5. win' \in [Slots -> Windows] /\ win'[m] = v(m, n) /\ win'[n] = v(n, m)
      /\ \A s \in Slots : s # m /\ s # n => win'[s] = win[s]
  BY <1>1, <1>2, <1>3
<1>6. params' \in [Slots -> Windows] /\ eN' \in [Slots -> Centres]
  BY <1>1, <1>4, <1>5
<1>7. ASSUME NEW s \in Slots
      PROVE  LET o == IF s = m THEN n ELSE IF s = n THEN m ELSE s IN
             /\ win'[s].tilt = win[o].tilt /\ win'[s].centre = win[o].centre
             /\ eN'[s] = win'[s].centre /\ params'[s] = win'[s]
  <2>1. CASE s = m
    BY <1>1, <1>2, <1>4, <1>5, <2>1
  <2>2. CASE s = n
    BY <1>1, <1>2, <1>4, <1>5, <2>2
  <2>3. CASE s # m /\ s # n
    BY <1>1, <1>4, <1>5, <2>3
  <2>4. QED BY <2>1, <2>2, <2>3
<1>8. QED BY <1>5, <1>6, <1>7

LEMMA StepTryExchange == ASSUME Inv, TryExchange PROVE Inv'
<1> USE DEF Inv, HostInv
<1>1. /\ pc = "exch" /\ pc' = "exch" /\ i \in Slots /\ i + 1 \in Slots /\ i # i + 1
      /\ UNCHANGED <<k, t, ramp, done, mean, rows, queue, flight, ran, acc>>
      /\ i' \in Nat \ {0} /\ k \in Nat \ {0}
  BY LadderAssumption DEF TypeOK, TryExchange, NextPair, device, Slots
<1>2. CASE UNCHANGED <<win, params, eN>>
  <2>1. TypeOK'
    BY <1>1, <1>2 DEF TypeOK
  <2>2. Counters' /\ Averaged' /\ RowsInv' /\ Permuted'
    BY <1>1, <1>2 DEF Counters, Averaged, RowsInv, Written, Permuted
  <2>3. Placed'
    BY <1>1, <1>2 DEF Placed, PlacedAt, Flattened, Hopped, Climbed, Iterated, Warming
  <2>4. FlightInv' /\ QueueInv'
    BY <1>1, Quiet, QuietKept
  <2>5. QED BY <2>1, <2>2, <2>3, <2>4
<1>3. CASE Swapped(i, i + 1)
  <2> DEFINE o(s) == IF s = i THEN i + 1 ELSE IF s = i + 1 THEN i ELSE s
  <2>1. /\ win' \in [Slots -> Windows] /\ params' \in [Slots -> Windows] /\ eN' \in [Slots -> Centres]
        /\ \A s \in Slots :
             /\ win'[s].tilt = win[o(s)].tilt /\ win'[s].centre = win[o(s)].centre
             /\ eN'[s] = win'[s].centre /\ params'[s] = win'[s]
    BY <1>1, <1>3, SwapParts
  <2>2. \A s \in Slots : o(s) \in Slots /\ o(o(s)) = s
    BY <1>1
  <2> HIDE DEF o
  <2>3. TypeOK'
    BY <1>1, <2>1 DEF TypeOK
  <2>4. Counters' /\ Averaged' /\ RowsInv'
    BY <1>1 DEF Counters, Averaged, RowsInv, Written
  <2>5. Placed'
    <3>1. SUFFICES ASSUME NEW n \in Slots PROVE PlacedAt(n)'
      BY DEF Placed
    <3>2. PlacedAt(o(n))
      BY <2>2 DEF Placed
    <3>3. /\ ~Flattened(o(n)) /\ ~Flattened(n)' /\ Iterated(o(n)) = k /\ Iterated(n)' = k
          /\ Hopped(o(n)) = 0 /\ Hopped(n)' = 0
      BY <1>1 DEF Flattened, Iterated, Hopped, Warming
    <3>4. Climbed(o(n)) = ramp[win[o(n)].centre.of] /\ Climbed(n)' = ramp[win[o(n)].centre.of]
      BY <1>1, <2>1 DEF Climbed
    <3>5. QED BY <1>1, <2>1, <3>2, <3>3, <3>4 DEF PlacedAt, Warming
  <2>6. Permuted'
    <3>1. ASSUME NEW w \in Slots PROVE \E n \in Slots : win'[n].centre.of = w
      <4>1. PICK m \in Slots : win[m].centre.of = w
        BY DEF Permuted
      <4>2. QED BY <2>1, <2>2, <4>1
    <3>2. ASSUME NEW m \in Slots, NEW n \in Slots, win'[m].centre.of = win'[n].centre.of
          PROVE  m = n
      <4>1. o(m) = o(n)
        <5>1. win[o(m)].centre.of = win[o(n)].centre.of
          BY <2>1, <3>2
        <5>2. o(m) \in Slots /\ o(n) \in Slots
          BY <2>2
        <5>3. QED BY <5>1, <5>2 DEF Permuted
      <4>2. QED BY <2>2, <4>1
    <3>3. QED BY <3>1, <3>2 DEF Permuted
  <2>7. FlightInv' /\ QueueInv'
    BY <1>1, Quiet, QuietKept
  <2>8. QED BY <2>3, <2>4, <2>5, <2>6, <2>7
<1>4. QED BY <1>2, <1>3 DEF TryExchange

LEMMA StepNextIteration == ASSUME Inv, NextIteration PROVE Inv'
<1> USE DEF Inv, HostInv
<1>1. /\ pc = "exch" /\ pc' = "therm" /\ i' = 1 /\ k' = k + 1 /\ k \in Nat \ {0}
      /\ UNCHANGED <<t, ramp, done, win, eN, mean, rows, params, queue, flight, ran, acc>>
  BY DEF TypeOK, NextIteration, device
<1>2. TypeOK'
  <2>1. k' \in Nat \ {0} /\ i' \in Slots /\ i' \in Nat \ {0}
    BY <1>1, LadderAssumption DEF Slots
  <2>2. QED BY <1>1, <2>1 DEF TypeOK
<1>3. Counters' /\ Averaged' /\ Permuted'
  BY <1>1 DEF Counters, Averaged, Permuted
<1>4. RowsInv'
  BY <1>1 DEF RowsInv, Written, Warming
<1>5. Placed'
  BY <1>1 DEF Placed, PlacedAt, Flattened, Hopped, Climbed, Iterated, Warming
<1>6. FlightInv' /\ QueueInv'
  BY <1>1, Quiet, QuietKept
<1>7. QED BY <1>2, <1>3, <1>4, <1>5, <1>6
-----------------------------------------------------------------------------
LEMMA StepInv == Inv /\ [Next]_vars => Inv'
<1> SUFFICES ASSUME Inv, [Next]_vars PROVE Inv'
  OBVIOUS
<1>1. CASE UNCHANGED vars
  <2>1. HostInv' /\ Averaged'
        /\ \A n \in Slots : /\ Open(n)' <=> Open(n)
                            /\ Free(n)' <=> Free(n)
                            /\ Marks(n)' = Marks(n)
    <3>1. TypeOK'
      BY <1>1 DEF vars, host, device, Inv, HostInv, TypeOK
    <3>2. QED BY <1>1, <3>1, DeviceLeavesHost DEF vars, Inv
  <2>2. FlightInv'
    BY <1>1 DEF vars, host, device, FlightInv, Inv
  <2>3. QueueInv'
    BY <1>1, <2>1 DEF vars, host, device, QueueInv, QueueAt, InBlock, Inv
  <2>4. QED BY <2>1, <2>2, <2>3 DEF Inv
<1>2. CASE Warm
  BY <1>2, StepBaseLaunch, StepBaseWidth, StepBaseTilt, StepPlan, StepHop, StepAdapt,
     StepRestore, StepSeat, StepReached DEF Warm
<1>3. CASE Iterate
  BY <1>3, StepTherm, StepMeas, StepGather, StepSetTilt, StepDrain, StepTryExchange,
     StepNextIteration DEF Iterate
<1>4. CASE \E n \in Slots : Execute(n) /\ UNCHANGED <<host, params>>
  BY <1>4, DeviceStep
<1>5. QED BY <1>1, <1>2, <1>3, <1>4 DEF Next, Host

LEMMA AlwaysInv == Spec => []Inv
BY InitInv, StepInv, PTL DEF Spec

(* Every variable keeps its type.                                          *)
THEOREM TypeCorrect == Spec => []TypeOK
<1>1. Inv => TypeOK
  BY DEF Inv, HostInv
<1>2. QED BY <1>1, AlwaysInv, PTL

(* Whatever was exchanged, each window is in one slot with its own tilt,   *)
(* and the three copies agree.                                             *)
THEOREM WindowsStayWhole == Spec => []WindowsPermuted
<1>1. ASSUME Inv PROVE WindowsPermuted
  <2> USE <1>1 DEF Inv, HostInv
  <2>1. ASSUME NEW n \in Slots
        PROVE  /\ win[n].tilt.of \in {win[n].centre.of, 0}
               /\ win[n].tilt.of = 0 => pc \in {"base", "widths", "tilts"}
               /\ eN[n] = win[n].centre /\ params[n] = win[n]
    <3>1. PlacedAt(n) /\ win[n].centre.of # 0
      BY RampNat DEF Placed, Slots
    <3>2. QED BY <3>1 DEF PlacedAt, Zero, Tilt, Flattened
  <2>2. QED BY <2>1 DEF WindowsPermuted, Permuted
<1>2. QED BY <1>1, AlwaysInv, PTL

(* The rows of an iteration have every window once, and each window's      *)
(* tilts follow each other along its own rows.                             *)
THEOREM RowsFollowWindows == Spec => []RowsGroupByWindow
<1>1. Inv => RowsGroupByWindow
  BY DEF Inv, HostInv, RowsInv, Written, RowsGroupByWindow
<1>2. QED BY <1>1, AlwaysInv, PTL

LEMMA TiltParts ==
  ASSUME Inv, NEW n \in Slots
  PROVE  win[n].tilt.updates \in Nat /\ win[n].tilt # Tilt(win[n].tilt.of, win[n].tilt.updates + 1)
<1>1. win[n].tilt \in Tilts
  BY WindowParts DEF Inv, HostInv, TypeOK
<1>2. win[n].tilt.updates \in Nat
  BY <1>1 DEF Tilts, Zero, Tilt
<1>3. Tilt(win[n].tilt.of, win[n].tilt.updates + 1).updates = win[n].tilt.updates + 1
  BY DEF Tilt
<1>4. QED BY <1>2, <1>3

(* Only the two updates of a tilt add to it, and each has just read, or    *)
(* read in this iteration, the mean of the block under the window it moves.*)
LEMMA UpdateReadsBlock ==
  ASSUME Inv, Next, NEW n \in Slots,
         win'[n].tilt = Tilt(win[n].tilt.of, win[n].tilt.updates + 1)
  PROVE  mean'[n] = [under |-> win[n], terms |-> IF pc = "adapt" THEN Batch ELSE NMeas]
<1> USE DEF Inv, HostInv
<1>1. win'[n].tilt # win[n].tilt /\ win'[n].tilt.updates # 0
  <2>1. Tilt(win[n].tilt.of, win[n].tilt.updates + 1).updates = win[n].tilt.updates + 1
    BY DEF Tilt
  <2>2. QED BY <2>1, TiltParts
<1>2. win' # win
  BY <1>1
<1>3. win \in [Slots -> Windows] /\ win[n] \in Windows
  BY DEF TypeOK
<1>4. CASE BaseLaunch
  <2>1. i \in Slots /\ win' = [win EXCEPT ![i] = [win[i] EXCEPT !.tilt = Zero, !.flat = TRUE]]
    BY <1>4 DEF BaseLaunch, Advance, Upload, TypeOK
  <2>2. n = i => win'[n].tilt = Zero
    BY <1>3, <2>1, WindowMoved
  <2>3. n # i => win'[n] = win[n]
    BY <1>3, <2>1
  <2>4. Zero.updates = 0
    BY DEF Zero, Tilt
  <2>5. QED BY <1>1, <2>2, <2>3, <2>4
<1>5. CASE BaseWidth
  <2>1. i \in Slots /\ win' = [win EXCEPT ![i] = [win[i] EXCEPT !.flat = FALSE]]
    BY <1>5 DEF BaseWidth, Upload, TypeOK
  <2>2. n = i => win'[n].tilt = win[n].tilt
    BY <1>3, <2>1, WindowMoved
  <2>3. n # i => win'[n] = win[n]
    BY <1>3, <2>1
  <2>4. QED BY <1>1, <2>2, <2>3
<1>6. CASE BaseTilt
  <2>1. i \in Slots /\ win' = [win EXCEPT ![i] = [win[i] EXCEPT !.tilt = Tilt(i, 0)]]
    BY <1>6 DEF BaseTilt, Upload, Saved, TypeOK
  <2>2. n = i => win'[n].tilt = Tilt(i, 0)
    <3>1. Tilt(i, 0) \in Tilts
      BY <2>1, TiltsInTilts
    <3>2. [win[n] EXCEPT !.tilt = Tilt(i, 0)].tilt = Tilt(i, 0)
      BY <1>3, <3>1, WindowMoved
    <3>3. QED BY <1>3, <2>1, <3>2
  <2>3. n # i => win'[n] = win[n]
    BY <1>3, <2>1
  <2>4. Tilt(i, 0).updates = 0
    BY DEF Tilt
  <2>5. QED BY <1>1, <2>2, <2>3, <2>4
<1>7. CASE Hop \/ Restore
  <2>1. PICK c \in {k, 0} : i \in Slots /\ win' = [win EXCEPT ![i] = [win[i] EXCEPT !.centre = Centre(i, c)]]
    BY <1>2, <1>7 DEF Hop, Restore, SetCentre, Upload, Advance, TypeOK
  <2>2. n = i => win'[n].tilt = win[n].tilt
    <3>1. [win[n] EXCEPT !.centre = Centre(i, c)].tilt = win[n].tilt
      BY <1>3 DEF Windows
    <3>2. QED BY <1>3, <2>1, <3>1
  <2>3. n # i => win'[n] = win[n]
    BY <1>3, <2>1
  <2>4. QED BY <1>1, <2>2, <2>3
<1>8. CASE Adapt
  <2>1. /\ pc = "adapt" /\ i \in Slots /\ Hops(i) /\ Synced(i) /\ mean' = [mean EXCEPT ![i] = acc[i]]
        /\ \A m \in Slots : m # i => win'[m] = win[m]
    BY <1>2, <1>3, <1>8 DEF Adapt, Advance, Read, Updated, Upload, TypeOK
  <2>2. n = i
    BY <1>1, <2>1
  <2>3. Open(i) /\ Marks(i) = Batch
    BY <2>1 DEF Open, Marks, Slots
  <2>4. acc[i] = [under |-> win[i], terms |-> Batch]
    <3>1. InBlock(i, Batch)
      BY <2>1, <2>3 DEF QueueInv, QueueAt
    <3>2. QED BY <2>1, <3>1, BlockRead, LadderAssumption
  <2>5. QED BY <2>1, <2>2, <2>4 DEF TypeOK
<1>9. CASE SetTilt
  <2>1. /\ pc = "set" /\ i \in Slots /\ mean' = mean
        /\ \A m \in Slots : m # i => win'[m] = win[m]
    BY <1>3, <1>9 DEF SetTilt, Advance, Updated, Upload, TypeOK
  <2>2. n = i /\ ~(n < i)
    BY <1>1, <2>1 DEF Slots
  <2>3. QED BY <2>1, <2>2 DEF Averaged
<1>10. CASE TryExchange
  <2>1. /\ pc = "exch" /\ i \in Slots /\ i + 1 \in Slots /\ i # i + 1
    BY <1>10, LadderAssumption DEF TypeOK, TryExchange, Slots
  <2>2. Swapped(i, i + 1)
    BY <1>2, <1>10 DEF TryExchange
  <2>3. ASSUME NEW s \in Slots PROVE win[s].tilt.of = win[s].centre.of
    <3>1. win[s].tilt = Tilt(win[s].centre.of, Climbed(s) + Iterated(s))
      BY <2>1 DEF Placed, PlacedAt, Flattened
    <3>2. QED BY <3>1 DEF Tilt
  <2>4. PICK o \in Slots : win'[n].tilt = win[o].tilt
    BY <2>1, <2>2, SwapParts
  <2>5. win[o].tilt.of = win[n].tilt.of
    <3>1. Tilt(win[n].tilt.of, win[n].tilt.updates + 1).of = win[n].tilt.of
      BY DEF Tilt
    <3>2. QED BY <2>4, <3>1
  <2>6. o = n
    BY <2>3, <2>5 DEF Permuted
  <2>7. QED BY <1>1, <2>4, <2>6
<1>11. CASE UNCHANGED win
  BY <1>2, <1>11
<1>12. Plan \/ Seat \/ Reached \/ Therm \/ Meas \/ Gather \/ Drain \/ NextIteration => UNCHANGED win
  BY DEF Plan, Seat, Reached, Therm, Meas, Gather, Drain, NextIteration
<1>13. (\E m \in Slots : Execute(m) /\ UNCHANGED <<host, params>>) => UNCHANGED win
  BY DEF host
<1>14. QED
  BY <1>4, <1>5, <1>6, <1>7, <1>8, <1>9, <1>10, <1>11, <1>12, <1>13 DEF Next, Host, Warm, Iterate

(* A tilt is only ever moved by the mean of its own whole block.           *)
THEOREM TiltsMovedByTheirBlock == Spec => UpdatesUseTheirBlock
<1> DEFINE Moved(n) == win'[n].tilt = Tilt(win[n].tilt.of, win[n].tilt.updates + 1)
                         => mean'[n] = [under |-> win[n], terms |-> IF pc = "adapt" THEN Batch ELSE NMeas]
<1>1. Inv /\ [Next]_vars => [\A n \in Slots : Moved(n)]_vars
  BY UpdateReadsBlock
<1>2. QED BY <1>1, AlwaysInv, PTL DEF Spec, UpdatesUseTheirBlock
=============================================================================

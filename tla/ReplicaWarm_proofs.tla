------------------------- MODULE ReplicaWarm_proofs -------------------------
(***************************************************************************)
(* The warm-up of a replica, for any window, any batch length, any budget  *)
(* and any sequence of fields: what it hands to NR, and how far the window *)
(* centre moves at a time.                                                 *)
(***************************************************************************)
EXTENDS ReplicaWarm, TLAPS

LEMMA Division ==
  ASSUME NEW a \in Int, NEW d \in Int, d > 0
  PROVE  /\ a \div d \in Int
         /\ d * (a \div d) <= a /\ a < d * (a \div d) + d
BY Z3

LEMMA SizeFacts ==
  ASSUME NEW x \in Int
  PROVE  Size(x) \in Nat /\ Size(-x) = Size(x)
BY DEF Size

LEMMA SizeScales ==
  ASSUME NEW x \in Int, NEW m \in Nat
  PROVE  Size(x * m) = Size(x) * m
<1>1. CASE x < 0
  <2>1. x * m <= 0 /\ -(x * m) = (-x) * m
    BY <1>1
  <2>2. x * m \in Int
    OBVIOUS
  <2>3. CASE x * m < 0
    BY <1>1, <2>1, <2>3 DEF Size
  <2>4. CASE x * m = 0
    BY <1>1, <2>1, <2>4 DEF Size
  <2>5. QED BY <2>1, <2>2, <2>3, <2>4
<1>2. CASE x >= 0
  <2>1. x * m >= 0
    BY <1>2
  <2>2. QED BY <1>2, <2>1 DEF Size
<1>3. QED BY <1>1, <1>2

(* ramp_steps: enough hops that each is at most half a width, and not one  *)
(* more; none at all only if a single hop would do.                        *)
THEOREM RampStepsExact ==
  ASSUME NEW gap \in Int, NEW delta \in Nat
  PROVE  LET hops == RampSteps(gap, delta) IN
         /\ hops \in Nat /\ hops # 1
         /\ hops # 0 => /\ delta > 0
                        /\ 2 * Size(gap) <= delta * hops
                        /\ delta * (hops - 1) < 2 * Size(gap)
         /\ hops = 0 /\ delta > 0 => 2 * Size(gap) <= delta
<1> DEFINE top == 2 * Size(gap) + delta - 1
           need == top \div delta
<1>1. Size(gap) \in Nat
  BY SizeFacts
<1>2. CASE ~(delta > 0)
  BY <1>2 DEF RampSteps
<1>3. CASE delta > 0
  <2>1. top \in Int /\ delta \in Int
    BY <1>1
  <2>2. need \in Int /\ delta * need <= top /\ top < delta * need + delta
    BY <1>3, <2>1, Division
  <2>3. RampSteps(gap, delta) = IF need > 1 THEN need ELSE 0
    BY <1>3 DEF RampSteps
  <2> HIDE DEF need
  <2>4. CASE need > 1
    <3>1. delta * (need - 1) = delta * need - delta
      BY <2>2
    <3>2. 2 * Size(gap) <= delta * need
      BY <1>1, <2>2
    <3>3. delta * (need - 1) < 2 * Size(gap)
      BY <1>1, <2>2, <3>1
    <3>4. QED BY <1>3, <2>2, <2>3, <2>4, <3>2, <3>3
  <2>5. CASE ~(need > 1)
    <3>1. delta * need <= delta
      BY <1>3, <2>2, <2>5
    <3>2. 2 * Size(gap) <= delta
      BY <1>1, <2>2, <3>1
    <3>3. QED BY <1>3, <2>3, <2>5, <3>2
  <2>6. QED BY <2>4, <2>5
<1>4. QED BY <1>2, <1>3

(* A hop between neighbouring centres, and the first one, from q0.         *)
LEMMA HopIsSmall ==
  ASSUME NEW x \in Int, NEW gap \in Int, NEW m \in Nat, NEW d \in Nat, NEW j \in Nat,
         2 * Size(gap) <= d * m
  PROVE  /\ 2 * Size((x * m + gap * j) * m - (x * m + gap * (j + 1)) * m) <= d * m * m
         /\ 2 * Size(x * m - (x * m + gap * 1) * 1) <= d * 1 * m
<1>1. (x * m + gap * j) * m - (x * m + gap * (j + 1)) * m = (-gap) * m
  <2>1. gap * (j + 1) = gap * j + gap
    OBVIOUS
  <2> DEFINE c == x * m + gap * j
  <2>2. c \in Int /\ x * m + gap * (j + 1) = c + gap
    BY <2>1
  <2> HIDE DEF c
  <2>3. c * m - (c + gap) * m = (-gap) * m
    BY <2>2
  <2>4. QED BY <2>2, <2>3 DEF c
<1>2. /\ Size((-gap) * m) = Size(gap) * m /\ Size(gap) \in Nat
      /\ Size(-gap) = Size(gap)
  <2>1. -gap \in Int
    OBVIOUS
  <2>2. QED BY <2>1, SizeFacts, SizeScales
<1>3. 2 * (Size(gap) * m) <= d * m * m
  <2> DEFINE g == 2 * Size(gap)
             b == d * m
  <2>1. g \in Int /\ b \in Int /\ g <= b
    BY <1>2
  <2> HIDE DEF g, b
  <2>2. g * m <= b * m
    BY <2>1
  <2>3. QED BY <1>2, <2>2 DEF g, b
<1>4. x * m - (x * m + gap * 1) * 1 = -gap
  OBVIOUS
<1>5. d * 1 * m = d * m
  OBVIOUS
<1>6. QED BY <1>1, <1>2, <1>3, <1>4, <1>5

-----------------------------------------------------------------------------
(* A batch begins only while the budget lasts; the ramp stands at its k-th *)
(* centre.                                                                 *)
BatchBegun == pc \in {"hop", "batch"} /\ cnt = 0 => traj < MaxTraj

OnRamp ==
  /\ pc # "base" => n = RampSteps(En - q0, Delta)
  /\ pc = "base" => k = 0 /\ traj = 0 /\ cnt = 0
  /\ pc \in {"ramp", "hop"} /\ k > 0 =>
       centre = Fraction(RampCentre(q0, En - q0, k, n), n)
  /\ pc = "hop" => k > 0

WarmInv == TypeOK /\ WindowRestored /\ BudgetKept /\ BatchBegun /\ OnRamp

LEMMA InitWarm == Init => WarmInv
<1> SUFFICES ASSUME Init PROVE WarmInv
  OBVIOUS
<1> USE WarmAssumption DEF Init
<1>1. q \in Int
  OBVIOUS
<1>2. TypeOK
  BY <1>1 DEF TypeOK, Fraction
<1>3. WindowRestored /\ BudgetKept
  BY DEF WindowRestored, BudgetKept
<1>4. BatchBegun /\ OnRamp
  BY DEF BatchBegun, OnRamp
<1>5. QED BY <1>2, <1>3, <1>4 DEF WarmInv

LEMMA CentreIsFraction ==
  ASSUME TypeOK, n # 0
  PROVE  RampCentre(q0, En - q0, k + 1, n) \in Int /\ n \in Nat \ {0}
<1>1. q0 \in Int /\ En \in Int /\ n \in Nat /\ k \in Int
  BY WarmAssumption DEF TypeOK
<1>2. QED BY <1>1 DEF RampCentre

LEMMA NextWarm == WarmInv /\ [Next]_vars => WarmInv'
<1> SUFFICES ASSUME WarmInv, [Next]_vars PROVE WarmInv'
  OBVIOUS
<1> USE WarmAssumption
<1>0. TypeOK /\ WindowRestored /\ BudgetKept /\ BatchBegun /\ OnRamp
  BY DEF WarmInv
<1>1. CASE BaseStep
  <2>1. TypeOK'
    BY <1>0, <1>1 DEF BaseStep, Stepped, Trajectory, TypeOK, window, stats
  <2>2. (WindowRestored /\ BudgetKept)'
    BY <1>0, <1>1 DEF BaseStep, Stepped, Trajectory, TypeOK, window, WindowRestored, BudgetKept
  <2>3. (BatchBegun /\ OnRamp)'
    BY <1>0, <1>1 DEF BaseStep, Stepped, window, BatchBegun, OnRamp
  <2>4. QED BY <2>1, <2>2, <2>3 DEF WarmInv
<1>2. CASE StartRamp
  <2>1. q \in Int /\ En - q \in Int /\ n' \in Nat
    <3>1. q \in Int /\ En - q \in Int /\ Delta \in Nat
      BY <1>0 DEF TypeOK
    <3>2. RampSteps(En - q, Delta) \in Nat
      BY <3>1, RampStepsExact
    <3>3. QED BY <1>2, <3>1, <3>2 DEF StartRamp
  <2>2. TypeOK'
    BY <1>0, <1>2, <2>1 DEF StartRamp, WindowOn, TypeOK, stats
  <2>3. (WindowRestored /\ BudgetKept)'
    BY <1>0, <1>2 DEF StartRamp, WindowOn, stats, WindowRestored, BudgetKept
  <2>4. (BatchBegun /\ OnRamp)'
    BY <1>0, <1>2 DEF StartRamp, BatchBegun, OnRamp
  <2>5. QED BY <2>2, <2>3, <2>4 DEF WarmInv
<1>3. CASE NextHop
  <2>1. n # 0 /\ k \in Nat /\ n \in Nat /\ k < n
    BY <1>0, <1>3 DEF NextHop, HopsOn, TypeOK
  <2>2. /\ RampCentre(q0, En - q0, k + 1, n) \in Int
        /\ n \in Nat \ {0}
    BY <1>0, <2>1, CentreIsFraction
  <2>3. TypeOK'
    BY <1>0, <1>3, <2>1, <2>2 DEF NextHop, HopsOn, TypeOK, stats, Fraction
  <2>4. (WindowRestored /\ BudgetKept)'
    BY <1>0, <1>3 DEF NextHop, stats, WindowRestored, BudgetKept
  <2>5. (BatchBegun /\ OnRamp)'
    BY <1>0, <1>3, <2>1 DEF NextHop, HopsOn, BatchBegun, OnRamp
  <2>6. QED BY <2>3, <2>4, <2>5 DEF WarmInv
<1>4. CASE HopStep
  <2>1. TypeOK'
    BY <1>0, <1>4 DEF HopStep, BatchOn, Stepped, Trajectory, TypeOK, window
  <2>2. (WindowRestored /\ BudgetKept)'
    BY <1>0, <1>4
       DEF HopStep, BatchOn, Stepped, Trajectory, TypeOK, window, WindowRestored, BudgetKept
  <2>3. (BatchBegun /\ OnRamp)'
    BY <1>0, <1>4 DEF HopStep, Stepped, TypeOK, window, BatchBegun, OnRamp
  <2>4. QED BY <2>1, <2>2, <2>3 DEF WarmInv
<1>5. CASE HopUpdate
  <2>1. TypeOK'
    BY <1>0, <1>5 DEF HopUpdate, TypeOK, loops, stats
  <2>2. (WindowRestored /\ BudgetKept)'
    BY <1>0, <1>5 DEF HopUpdate, loops, stats, WindowRestored, BudgetKept
  <2>3. (BatchBegun /\ OnRamp)'
    BY <1>0, <1>5 DEF HopUpdate, loops, BatchBegun, OnRamp
  <2>4. QED BY <2>1, <2>2, <2>3 DEF WarmInv
<1>6. CASE EndRamp
  <2>1. TypeOK'
    BY <1>0, <1>6 DEF EndRamp, Centred, Fraction, TypeOK, loops, stats
  <2>2. (WindowRestored /\ BudgetKept)'
    BY <1>0, <1>6 DEF EndRamp, Centred, loops, stats, WindowRestored, BudgetKept
  <2>3. (BatchBegun /\ OnRamp)'
    BY <1>0, <1>6 DEF EndRamp, loops, BatchBegun, OnRamp
  <2>4. QED BY <2>1, <2>2, <2>3 DEF WarmInv
<1>7. CASE StartBatch
  <2>1. TypeOK'
    BY <1>0, <1>7 DEF StartBatch, TypeOK, window, stats
  <2>2. (WindowRestored /\ BudgetKept)'
    BY <1>0, <1>7 DEF StartBatch, window, stats, WindowRestored, BudgetKept
  <2>3. (BatchBegun /\ OnRamp)'
    BY <1>0, <1>7 DEF StartBatch, SeatOn, window, BatchBegun, OnRamp
  <2>4. QED BY <2>1, <2>2, <2>3 DEF WarmInv
<1>8. CASE BatchStep
  <2>0. q' \in Int
    BY <1>0, <1>8 DEF BatchStep, Stepped, Trajectory, TypeOK
  <2>1. TypeOK'
    BY <1>0, <1>8, <2>0 DEF BatchStep, BatchOn, Count, Stepped, Trajectory, TypeOK, window
  <2>2. (WindowRestored /\ BudgetKept)'
    BY <1>0, <1>8
       DEF BatchStep, BatchOn, Count, Stepped, Trajectory, TypeOK, window, WindowRestored,
           BudgetKept
  <2>3. (BatchBegun /\ OnRamp)'
    BY <1>0, <1>8 DEF BatchStep, Stepped, TypeOK, window, BatchBegun, OnRamp
  <2>4. QED BY <2>1, <2>2, <2>3 DEF WarmInv
<1>9. CASE SeatUpdate
  <2>1. TypeOK'
    BY <1>0, <1>9 DEF SeatUpdate, TypeOK, loops, stats
  <2>2. (WindowRestored /\ BudgetKept)'
    BY <1>0, <1>9 DEF SeatUpdate, loops, stats, WindowRestored, BudgetKept
  <2>3. (BatchBegun /\ OnRamp)'
    BY <1>0, <1>9 DEF SeatUpdate, loops, BatchBegun, OnRamp
  <2>4. QED BY <2>1, <2>2, <2>3 DEF WarmInv
<1>10. CASE GiveUp
  <2>1. TypeOK'
    BY <1>0, <1>10 DEF GiveUp, TypeOK, loops, window, stats
  <2>2. (WindowRestored /\ BudgetKept)'
    BY <1>0, <1>10 DEF GiveUp, loops, window, stats, WindowRestored, BudgetKept
  <2>3. (BatchBegun /\ OnRamp)'
    BY <1>0, <1>10 DEF GiveUp, loops, window, BatchBegun, OnRamp
  <2>4. QED BY <2>1, <2>2, <2>3 DEF WarmInv
<1>11. CASE Measure
  <2>1. TypeOK'
    BY <1>0, <1>11 DEF Measure, Trajectory, TypeOK, loops, window
  <2>2. (WindowRestored /\ BudgetKept)'
    BY <1>0, <1>11 DEF Measure, Trajectory, TypeOK, loops, window, WindowRestored, BudgetKept
  <2>3. (BatchBegun /\ OnRamp)'
    BY <1>0, <1>11 DEF Measure, loops, window, BatchBegun, OnRamp
  <2>4. QED BY <2>1, <2>2, <2>3 DEF WarmInv
<1>12. CASE UNCHANGED vars
  <2>1. TypeOK'
    BY <1>0, <1>12 DEF vars, loops, window, stats, TypeOK
  <2>2. (WindowRestored /\ BudgetKept)'
    BY <1>0, <1>12 DEF vars, loops, window, stats, WindowRestored, BudgetKept
  <2>3. (BatchBegun /\ OnRamp)'
    BY <1>0, <1>12 DEF vars, loops, window, BatchBegun, OnRamp
  <2>4. QED BY <2>1, <2>2, <2>3 DEF WarmInv
<1>13. QED
  BY <1>1, <1>2, <1>3, <1>4, <1>5, <1>6, <1>7, <1>8, <1>9, <1>10, <1>11, <1>12
     DEF Next, Warming

LEMMA Warm == Spec => []WarmInv
BY InitWarm, NextWarm, PTL DEF Spec

-----------------------------------------------------------------------------
(* Every variable stays in its type.                                       *)
THEOREM WarmTypes == Spec => []TypeOK
<1>1. WarmInv => TypeOK
  BY DEF WarmInv
<1>2. QED BY Warm, <1>1, PTL

(* However the warm-up ends, NR gets the replica's own window.             *)
THEOREM WarmRestores == Spec => []WindowRestored
<1>1. WarmInv => WindowRestored
  BY DEF WarmInv
<1>2. QED BY Warm, <1>1, PTL

(* warm_into_window returns the trajectories it ran, within the budget.    *)
THEOREM WarmWithinBudget == Spec => []BudgetKept
<1>1. WarmInv => BudgetKept
  BY DEF WarmInv
<1>2. QED BY Warm, <1>1, PTL

(* No mean is taken over an empty batch, whatever max_traj and k_batch.    *)
THEOREM BatchesNotEmpty == Spec => []NoEmptyBatch
<1>1. WarmInv => NoEmptyBatch
  <2>1. SUFFICES ASSUME WarmInv, pc \in {"hop", "batch"}, ~BatchOn
                 PROVE  cnt > 0
    BY DEF NoEmptyBatch
  <2>2. cnt \in Nat /\ (cnt = 0 => traj < MaxTraj)
    BY <2>1 DEF WarmInv, TypeOK, BatchBegun
  <2>3. CASE cnt = 0
    BY <2>1, <2>2, <2>3, WarmAssumption DEF BatchOn
  <2>4. QED BY <2>2, <2>3
<1>2. QED BY Warm, <1>1, PTL

(* The window centre never moves by more than half a width at a time,      *)
(* unless the budget ends the ramp: for any start, target and width.       *)
THEOREM CentreMovesSlowly == Spec => HopsSmall
<1> DEFINE gap == En - q0
           Slow == /\ NextHop => Near(Previous, centre')
                   /\ EndRamp /\ Delta > 0 /\ k = n => Near(Previous, centre')
<1>1. ASSUME WarmInv, NextHop PROVE Near(Previous, centre')
  <2>1. /\ q0 \in Int /\ gap \in Int /\ n \in Nat /\ k \in Nat /\ k < n
        /\ Delta \in Nat /\ n = RampSteps(gap, Delta)
    BY <1>1, WarmAssumption DEF WarmInv, TypeOK, OnRamp, NextHop, HopsOn
  <2>2. 2 * Size(gap) <= Delta * n
    <3>1. n # 0
      BY <2>1
    <3>2. QED BY <2>1, <3>1, RampStepsExact
  <2>3. centre' = [num |-> q0 * n + gap * (k + 1), den |-> n]
    BY <1>1 DEF NextHop, Fraction, RampCentre
  <2>4. CASE k = 0
    <3>1. Previous = [num |-> q0, den |-> 1]
      BY <2>4 DEF Previous, Fraction
    <3>2. 2 * Size(q0 * n - (q0 * n + gap * 1) * 1) <= Delta * 1 * n
      BY <2>1, <2>2, <2>4, HopIsSmall
    <3>3. QED BY <2>3, <2>4, <3>1, <3>2 DEF Near
  <2>5. CASE k # 0
    <3>1. Previous = [num |-> q0 * n + gap * k, den |-> n]
      BY <1>1, <2>1, <2>5 DEF Previous, WarmInv, OnRamp, NextHop, Fraction, RampCentre
    <3>2. 2 * Size((q0 * n + gap * k) * n - (q0 * n + gap * (k + 1)) * n) <= Delta * n * n
      BY <2>1, <2>2, HopIsSmall
    <3>3. QED BY <2>3, <3>1, <3>2 DEF Near
  <2>6. QED BY <2>4, <2>5
<1>2. ASSUME WarmInv, EndRamp, Delta > 0, k = n PROVE Near(Previous, centre')
  <2>1. /\ q0 \in Int /\ gap \in Int /\ n \in Nat /\ En \in Int
        /\ Delta \in Nat /\ n = RampSteps(gap, Delta)
    BY <1>2, WarmAssumption DEF WarmInv, TypeOK, OnRamp, EndRamp
  <2>2. centre' = [num |-> En, den |-> 1]
    BY <1>2 DEF EndRamp, Centred, Fraction
  <2>3. CASE n = 0
    <3>1. Previous = [num |-> q0, den |-> 1]
      BY <1>2, <2>3 DEF Previous, Fraction
    <3>2. 2 * Size(gap) <= Delta
      BY <1>2, <2>1, <2>3, RampStepsExact
    <3>3. q0 * 1 - En * 1 = -gap /\ Size(-gap) = Size(gap)
      BY <2>1, SizeFacts
    <3>4. 2 * Size(q0 * 1 - En * 1) <= Delta * 1 * 1
      BY <2>1, <3>2, <3>3
    <3>5. QED BY <2>2, <3>1, <3>4 DEF Near
  <2>4. CASE n # 0
    <3>1. Previous = [num |-> q0 * n + gap * n, den |-> n]
      BY <1>2, <2>1, <2>4 DEF Previous, WarmInv, OnRamp, EndRamp, Fraction, RampCentre
    <3>2. (q0 * n + gap * n) * 1 - En * n = 0
      <4>1. (q0 + gap) * n = q0 * n + gap * n
        BY <2>1
      <4>2. q0 + gap = En
        BY <2>1
      <4>3. QED BY <2>1, <4>1, <4>2
    <3>3. 2 * Size((q0 * n + gap * n) * 1 - En * n) <= Delta * n * 1
      <4>1. Size(0) = 0
        BY DEF Size
      <4>2. Delta * n * 1 >= 0
        BY <2>1
      <4>3. QED BY <3>2, <4>1, <4>2
    <3>4. QED BY <2>2, <3>1, <3>3 DEF Near
  <2>5. QED BY <2>3, <2>4
<1>3. WarmInv /\ [Next]_vars => [Slow]_vars
  BY <1>1, <1>2
<1>4. QED BY Warm, <1>3, PTL DEF Spec, HopsSmall
=============================================================================

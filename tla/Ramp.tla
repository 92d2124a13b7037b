-------------------------------- MODULE Ramp --------------------------------
(***************************************************************************)
(* The schedule of window centres that leads a replica into a deep window  *)
(* (orch/llr/ramp.hpp), in exact arithmetic.  A centre is a fraction with  *)
(* the number of hops as its denominator.                                  *)
(***************************************************************************)
EXTENDS Integers

Size(x) == IF x < 0 THEN -x ELSE x

WrongRampSteps(gap, delta) ==
  IF delta > 0 /\ 2 * Size(gap) > delta THEN (2 * Size(gap) - 1) \div delta ELSE 0

(* ceil(|gap| / (delta/2)) hops; none if one would do.                     *)
RampSteps(gap, delta) ==
  LET need == (2 * Size(gap) + delta - 1) \div delta
  IN  IF delta > 0 /\ need > 1 THEN need ELSE 0

(* The k-th of n centres, times n.                                         *)
RampCentre(q0, gap, k, n) == q0 * n + gap * k
=============================================================================

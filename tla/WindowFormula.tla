--------------------------- MODULE WindowFormula ----------------------------
(***************************************************************************)
(* action/formula/window_formula.hpp in exact arithmetic.  An action b, a  *)
(* constraint value q, a tilt a, a window centre e and a squared width d   *)
(* are integers; every formula is multiplied by its common denominator     *)
(* (2 d for one replica, 2 di dj for a pair), so nothing is divided.       *)
(***************************************************************************)
EXTENDS Integers

(* windowed_value_complex: b + a q + (q - e)^2 / 2d.  With q = b this is   *)
(* windowed_value, (1 + a) b + (b - e)^2 / 2d.                             *)
WindowedValue(b, q, a, e, d) == 2 * d * (b + a * q) + (q - e) * (q - e)

WrongWindowedDelta(db, dq, q, a, e, d) ==
  2 * d * (db + a * dq) + dq * (2 * (q - e))

(* windowed_delta: what a local move adds, from the current global q.      *)
WindowedDelta(db, dq, q, a, e, d) ==
  2 * d * (db + a * dq) + dq * (2 * (q - e) + dq)

(* exchange_log_p: linear tilt term plus the quadratic cross term.         *)
ExchangeLogP(ai, aj, ei, ej, qi, qj, di, dj) ==
  2 * di * dj * (ai - aj) * (qi - qj)
    + (qi - qj) * (dj * (qi + qj - 2 * ei) - di * (qi + qj - 2 * ej))
=============================================================================

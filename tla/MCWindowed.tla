----------------------------- MODULE MCWindowed -----------------------------
(* Two coupled sites of two values, an observable that is not the action,  *)
(* windows that differ in centre and width.                                *)
EXTENDS WindowedSamplers

MCCold == [i \in Sites |-> 0]
MCVals == {0, 1}
MCTilts == {-1, 1}
MCThresholds == {-4, 0}
MCS(c) == 2 * c[0] - c[1] + 3 * c[0] * c[1]
MCO(c) == c[0] + 2 * c[1]
MCLocalS(i, v, c) == IF i = 0 THEN v * (2 + 3 * c[1]) ELSE v * (3 * c[0] - 1)
MCLocalO(i, v, c) == (i + 1) * v
MCCentre(r) == 2 * r - 1
MCWidth2(r) == r
=============================================================================

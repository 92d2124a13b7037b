---------------------------- MODULE MCLlrPhysics ----------------------------
(* A small physics for TLC: affine residues, distinct per slot, phase and  *)
(* job, so that two histories that differ in a draw, a tilt, an order or a *)
(* step end in different values.                                           *)
EXTENDS LlrPhysics

MCCfg  == Slots \X (0 .. 10)
MCRng  == 0 .. 10
MCTilt == 0 .. 6
MCObs  == 0 .. 10
MCFresh(n) == [cfg |-> <<n, n + 1>>, rng |-> 2 * n + 3, a |-> 0]
MCMove(p, job, n, m) ==
  [cfg |-> <<m.cfg[1], (3 * m.cfg[2] + 5 * m.rng + m.a + n
                          + (IF job = "therm" THEN 1 ELSE 4) + 2 * p) % 11>>,
   rng |-> (7 * m.rng + 1 + m.cfg[2]) % 11]
MCSeat(n, m) == [cfg |-> <<m.cfg[1], (2 * m.cfg[2] + m.rng + 1) % 11>>,
                 rng |-> (m.rng + 5) % 11, a |-> (m.cfg[2] + n) % 7]
MCMeanDE(p, n, m) == (m.cfg[2] + 3 * m.rng + n + p) % 11
MCUpdate(p, k, n, a, d) == (a + d * (IF p = 1 THEN k + 2 ELSE 1) + n) % 7
MCShrink(s, f) ==
  [n \in Slots |-> (2 * f[n] + s + f[(n + 1) % N]) % 7]
MCQ(c) == c[2]
MCSure(i, ai, aj, qi, qj) == (ai + qi) % 3 > (aj + qj + i) % 3
MCLucky(i, ai, aj, qi, qj, g) == (g + qi + 2 * qj) % 2 = 0
MCDraw(g) == (4 * g + 3) % 11
MCWalker(c) == c[1]
=============================================================================

---------------------------- MODULE MCSiteSweep -----------------------------
(* Small lattices of one to three directions, and a move that every value  *)
(* it depends on can change.                                               *)
EXTENDS SiteSweep

MCShapes == {<<4>>, <<5>>, <<6>>, <<2, 2>>, <<4, 2>>, <<2, 3>>, <<2, 2, 2>>}

MCHot(c) == (c[1] + c[2]) % 5

MCMove(v, reads, z, u) ==
  LET sum == SumFunctionOnSet([w \in DOMAIN reads |-> (3 * w[1] + w[2]) * reads[w]], DOMAIN reads)
      score == v + sum + 3 * z[1] + z[2]
  IN  IF (score + 2 * u[1] + u[2]) % 3 # 0 THEN [v |-> score % 5, ds |-> 1 + (score % 4)]
      ELSE [v |-> v, ds |-> 0]

MCDrift(v, z) == (v + 2 * z[1] + z[2]) % 5

MCPlus(x, y) == (3 * x + y) % 31
=============================================================================

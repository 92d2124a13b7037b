----------------------------- MODULE MCChainRun -----------------------------
(* A chain over a few integers, with no repetition among its first states, *)
(* for every kind of single-chain program there is.                        *)
EXTENDS ChainRun, Programs

MCKinds  == {Kind(p) : p \in Chains}
MCFields == 0 .. 12
MCRngs   == 0 .. 10
MCSeeded(w) == w
MCStep(w, f, r) == [field |-> (2 * f + r) % 13, rng |-> (3 * r + w) % 11]
MCS(f) == f * f - 5 * f

MCChain == [w \in Widths |->
  LET c[n \in 0 .. NTherm + Last] ==
        IF n = 0 THEN [field |-> Cold, rng |-> MCSeeded(w)]
        ELSE MCStep(w, c[n - 1].field, c[n - 1].rng)
  IN  c]
=============================================================================

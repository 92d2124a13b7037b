---------------------------- MODULE MCLlrReplay -----------------------------
(* LlrReplay with the small physics, driven as the LLR programs do; a      *)
(* launch may ask for one RM iteration or for three, as the                *)
(* resume-equivalence tests do.                                            *)
EXTENDS LlrReplay, MCLlrPhysics, Programs

MCBudgets == {1, 3}

(* Every LLR program but one drives its ladder with run().                 *)
Smoothing(p) == p.drive = "run_smoothed"
MCPlain    == CHOOSE b \in BOOLEAN : \A p \in Ladders \ {u1_llr_smoothed} : Smoothing(p) = b
MCSmoothed == Smoothing(u1_llr_smoothed)
=============================================================================

--------------------------- MODULE MCLlrDiskFull ----------------------------
(* LlrDiskFull with the small physics.                                     *)
EXTENDS LlrDiskFull, MCLlrPhysics

MCBudgets == {2}
=============================================================================

------------------------- MODULE MCDeltaReconciliation -------------------------
(* A small instance of DeltaReconciliation for TLC. *)
EXTENDS DeltaReconciliation
=============================================================================

---------------------------- MODULE MCReconcileLoop ----------------------------
(* Instances of ReconcileLoop for TLC. *)
EXTENDS ReconcileLoop
================================================================================

----------------------------- MODULE MCDecisionLog -----------------------------
(* Instances of DecisionLog for TLC. *)
EXTENDS DecisionLog
================================================================================

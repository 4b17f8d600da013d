---------------------------- MODULE MCProviderWatch ----------------------------
(* Instances of ProviderWatch for TLC. *)
EXTENDS ProviderWatch
================================================================================

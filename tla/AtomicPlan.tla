------------------------------- MODULE AtomicPlan ------------------------------
(***************************************************************************)
(* What a plan transaction promises, seen from outside: the capacity of    *)
(* all its allocations is reserved in one step, external effects come and  *)
(* go only while the plan is reserved, and one final step settles every    *)
(* allocation.  A committed plan has all of its effects.                   *)
(***************************************************************************)
CONSTANT Items

VARIABLES
  outcome,   \* "none", "reserved", "committed" or "failed"
  capacity,  \* what became of each allocation's capacity
  effects    \* the items whose external effect is in place

vars == <<outcome, capacity, effects>>

Init ==
  /\ outcome = "none"
  /\ capacity = [i \in Items |-> "none"]
  /\ effects = {}

Reserve ==
  /\ outcome = "none" /\ outcome' = "reserved"
  /\ capacity' = [i \in Items |-> "reserved"]
  /\ UNCHANGED effects

ChangeEffects ==
  /\ outcome = "reserved"
  /\ effects' \in SUBSET Items
  /\ UNCHANGED <<outcome, capacity>>

Commit ==
  /\ outcome = "reserved" /\ effects = Items
  /\ outcome' = "committed"
  /\ capacity' = [i \in Items |-> "kept"]
  /\ UNCHANGED effects

Fail ==
  /\ outcome = "reserved" /\ outcome' = "failed"
  /\ capacity' \in [Items -> {"kept", "freed"}]
  /\ UNCHANGED effects

Next == Reserve \/ ChangeEffects \/ Commit \/ Fail

Spec == Init /\ [][Next]_vars
================================================================================

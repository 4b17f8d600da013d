------------------------------ MODULE MCService ------------------------------
(***************************************************************************)
(* The scheduler service's bookkeeping, for TLC: ReconcileLoop,            *)
(* CapacityLedger and Checkpoint side by side.  In a behaviour one of the  *)
(* three is at work and the others stay in one initial state, so that      *)
(* their state spaces add up.                                              *)
(***************************************************************************)
EXTENDS ReconcileLoop, CapacityLedger, Checkpoint

VARIABLE focus
sideVars == <<vars, clVars, cpVars, focus>>

SideInit ==
  /\ Init /\ ClInit /\ CpInit
  /\ focus \in {"loop", "ledger", "checkpoint"}
  /\ focus # "loop" => \A key \in Keys : intent[key] = NoIntent
  /\ focus # "checkpoint" => cpFile = NoCheckpoint

SideNext ==
  /\ UNCHANGED focus
  /\ \/ focus = "loop" /\ Next /\ UNCHANGED <<clVars, cpVars>>
     \/ focus = "ledger" /\ ClNext /\ UNCHANGED <<vars, cpVars>>
     \/ focus = "checkpoint" /\ CpNext /\ UNCHANGED <<vars, clVars>>

SideSpec == SideInit /\ [][SideNext]_sideVars

\* One resource dimension, two units of it per device, requests for one and two.
Amount(n) == [dim \in {"x"} |-> n]
DeviceCapacity == Amount(2)
RequestSizes == {Amount(1), Amount(2)}
==============================================================================

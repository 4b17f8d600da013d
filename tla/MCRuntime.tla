------------------------------ MODULE MCRuntime ------------------------------
(***************************************************************************)
(* PlanTransaction, TickRuntime and RunLedger for TLC, side by side: in a  *)
(* behaviour one of the three is at work and the others stay in their      *)
(* initial states, so that their state spaces add up.                      *)
(***************************************************************************)
EXTENDS MCPlanTransaction, TickRuntime, RunLedger

VARIABLE focus
sideVars == <<mcVars, runtimeVars, runVars, focus>>

SideInit == MCInit /\ InitRuntime /\ InitRun /\ focus \in {"plan", "tick", "run"}

SideNext ==
  /\ UNCHANGED focus
  /\ \/ focus = "plan" /\ MCNext /\ UNCHANGED <<runtimeVars, runVars>>
     \/ focus = "tick" /\ NextRuntime /\ UNCHANGED <<mcVars, runVars>>
     \/ focus = "run" /\ NextRun /\ UNCHANGED <<mcVars, runtimeVars>>

\* The fairness of MCSpec, FairRuntime and FairRun, each where its module works.
SideFairness ==
  /\ WF_vars(focus = "plan" /\ Executor)
  /\ \A k \in Kinds : WF_runtimeVars(focus = "tick" /\ Drain(k)) /\ SF_runtimeVars(focus = "tick" /\ LoopExits(k))
  /\ WF_runtimeVars(focus = "tick" /\ StopReturns)
  /\ WF_runVars(focus = "run" /\ Deliver) /\ WF_runVars(focus = "run" /\ Resync)
  /\ \A u \in Units : WF_runVars(focus = "run" /\ Bind(u))
  /\ \A s \in Sandboxes : WF_runVars(focus = "run" /\ command = "stop" /\ Terminate(s))

SideSpec == SideInit /\ [][SideNext]_sideVars /\ SideFairness

\* The executor's loop comes to rest: the plan ends in a checkpointed terminal
\* state, or the loop returned an error and waits for a restart (Resume).
EventuallySettled == focus = "plan" => <>[](durable.state \in Terminal \/ pc = "halted")
==============================================================================

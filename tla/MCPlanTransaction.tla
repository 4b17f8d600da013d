--------------------------- MODULE MCPlanTransaction ---------------------------
(***************************************************************************)
(* PlanTransaction for TLC, with a history variable: whether the evidence  *)
(* the executor decides from has been complete so far.                     *)
(***************************************************************************)
EXTENDS PlanTransaction

VARIABLE evidence  \* "kept", or "lost" after an unaudited command or unreadable receipts

mcVars == <<vars, evidence>>

EvidenceLost ==
  \/ \E i \in Steps : ExecuteStepUnaudited(i)
  \/ crashes' # crashes /\ recovered' # PublishedReceipts(helper)

MCInit == Init /\ evidence = "kept"

MCNext == Next /\ evidence' = IF EvidenceLost THEN "lost" ELSE evidence

\* Resume runs its loop in one goroutine until it returns, so an enabled
\* executor step is eventually taken; faults and crashes are not owed.
MCSpec == MCInit /\ [][MCNext]_mcVars /\ WF_vars(Executor)

AllFaults == FaultKinds
OnlyDriver == {"driver"}

\* An ABORTED plan left nothing behind: every binding a command established
\* was released by the compensation, across crashes, unless evidence was lost.
AbortedIsClean == evidence = "kept" /\ durable.state = "ABORTED" => helper.bound = {}

\* In a process that never restarted, finishAbort gives capacity back only for
\* bindings that are not in place, unless evidence was lost.
ReleasedIsUnbound ==
  evidence = "kept" /\ crashes = 0 => \A i \in Steps : durable.alloc[i] = "freed" => i \notin helper.bound

\* What a settled plan says of its capacity agrees with the bindings in place
\* (AbortPlan, finishAbort, retainedAllocations).
SettledMatchesEffects == AbortedIsClean /\ ReleasedIsUnbound

\* "Unknown provider evidence must never release capacity that may still be
\* occupied" (retainedAllocations), restarts included.
NeverReleasesOccupied ==
  evidence = "kept" => \A i \in Steps : durable.alloc[i] = "freed" => i \notin helper.bound
================================================================================

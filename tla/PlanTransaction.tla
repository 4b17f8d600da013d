---------------------------- MODULE PlanTransaction ----------------------------
(***************************************************************************)
(* One placement plan on its way through the Scheduler: the Store's        *)
(* transaction record, the durable checkpoint of it, the PlanExecutor that *)
(* drives it, the NVIDIA provider's in-memory transaction table and the    *)
(* binding helper's state file.  The plan is an admission plan of N BIND   *)
(* actions, each with a binding and a sandbox of its own.                  *)
(*                                                                         *)
(* The executor, the Store and the provider live in one process.  A crash  *)
(* loses all three; the checkpoint and the helper's file survive.  The     *)
(* executor is one thread, so its control state is pc.  A provider call    *)
(* and the Store write that follows it are separate actions whenever the   *)
(* call can leave something behind that a crash does not erase.            *)
(*                                                                         *)
(* Left out: the generation compare-and-swap of the Store (this executor   *)
(* is the record's only writer here), receipt identity checks (the         *)
(* provider answers for the plan it was given), failure classes and        *)
(* messages, timestamps.                                                   *)
(***************************************************************************)
EXTENDS Integers

CONSTANTS
  N,           \* number of actions of the plan
  MaxCrashes,  \* bound on crashes of the Scheduler process
  Faults       \* which failures of the environment may happen

(***************************************************************************)
(* prepare  : PreparePlan is refused (capability check)                    *)
(* refuse   : a step is refused before any command runs                    *)
(* driver   : a helper command fails with an uncertain outcome             *)
(* dry_run  : the driver only plans the command                            *)
(* audit    : the audit record cannot be written after a command           *)
(* rollback : a compensating command fails                                 *)
(* persist  : the checkpoint cannot be written                             *)
(* cancel   : the service context is cancelled (shutdown)                  *)
(* discover : helper receipts cannot be read at start-up                   *)
(***************************************************************************)
FaultKinds == {"prepare", "refuse", "driver", "dry_run", "audit", "rollback", "persist", "cancel", "discover"}

ASSUME ConstantsAssumption ==
  /\ N \in Nat \ {0}
  /\ MaxCrashes \in Nat
  /\ Faults \subseteq FaultKinds

Steps == 1..N

VARIABLES
  mem,        \* the Store's view of the transaction and its allocations
  durable,    \* the last checkpoint of mem
  tx,         \* the provider's transaction receipt (in memory)
  ledger,     \* steps with an entry in the provider's action ledger
  helper,     \* the binding helper's state file
  recovered,  \* helper receipts read when the process started
  pc,         \* where the executor is
  idx,        \* the executor's loop index
  hand,       \* the receipt the last provider call returned
  ctx,        \* the service context: "live" or "cancelled"
  crashes

vars == <<mem, durable, tx, ledger, helper, recovered, pc, idx, hand, ctx, crashes>>

--------------------------------------------------------------------------------
(* The Store's record of the plan. *)

Terminal == {"COMMITTED", "ABORTED", "DEGRADED", "PREPARE_FAILED"}
TransactionStates == Terminal \cup
  {"NONE", "RESERVED", "PREPARED", "APPLYING", "APPLY_FAILED", "COMPENSATING"}
StepStatuses == {"absent", "pending", "succeeded", "failed", "rolled_back", "degraded", "unknown"}
AllocationStates == {"none", "pending", "active", "failed", "freed"}

Records == [state : TransactionStates,
            steps : [Steps -> StepStatuses],
            comp  : [Steps -> BOOLEAN],
            alloc : [Steps -> AllocationStates]]

NoRecord == [state |-> "NONE",
             steps |-> [i \in Steps |-> "absent"],
             comp  |-> [i \in Steps |-> FALSE],
             alloc |-> [i \in Steps |-> "none"]]

\* BeginTransaction: the record is created already RESERVED.
NewRecord == [NoRecord EXCEPT !.state = "RESERVED", !.alloc = [i \in Steps |-> "pending"]]

Phases == {"none", "prepared", "executing", "committed", "aborted", "degraded"}
Effects == {"not_applied", "applied", "failed", "compensated", "degraded"}
Receipts == [phase : Phases, eff : [Steps -> Effects], comp : [Steps -> BOOLEAN]]

NoReceipt == [phase |-> "none",
              eff |-> [i \in Steps |-> "not_applied"], comp |-> [i \in Steps |-> FALSE]]

\* A nil receipt, or a transaction the provider does not know, has no phase.
Known(receipt) == receipt.phase # "none"

StateEffectStatus(effect) ==
  CASE effect = "not_applied" -> "pending"
    [] effect = "applied"     -> "succeeded"
    [] effect = "failed"      -> "failed"
    [] effect = "compensated" -> "rolled_back"
    [] effect = "degraded"    -> "degraded"

\* Both providers report every step in every receipt, so the per-step merge
\* replaces all steps; a nil receipt keeps the previous ones.
MergeStateReceipt(record, receipt) ==
  IF Known(receipt)
  THEN [record EXCEPT !.steps = [i \in Steps |-> StateEffectStatus(receipt.eff[i])],
                      !.comp = receipt.comp]
  ELSE record

\* transactionResults followed by retainedAllocations: RollbackAttempted is set
\* for a compensation that was attempted and for a rolled back step.
RollbackIncomplete(record, i) == record.comp[i] /\ record.steps[i] # "rolled_back"

MutationMayRemain(record, i) ==
  \/ RollbackIncomplete(record, i)
  \/ record.steps[i] = "succeeded" /\ ~record.comp[i]

RetainedAllocations(record, succeeded) ==
  [i \in Steps |-> IF succeeded THEN "active"
                   ELSE IF RollbackIncomplete(record, i) THEN "failed"
                   ELSE IF MutationMayRemain(record, i) THEN "active" ELSE "freed"]

\* Mutant: capacity is given back when compensation begins, not when it ends.
AdvanceReleasing(next, receipt) ==
  LET merged == MergeStateReceipt(mem, receipt)
  IN  [merged EXCEPT !.state = next,
                     !.alloc = IF next = "COMPENSATING" THEN RetainedAllocations(merged, FALSE) ELSE @]

Advance(next, receipt) == [MergeStateReceipt(mem, receipt) EXCEPT !.state = next]

Finalize(succeeded, final, receipt) ==
  LET merged == MergeStateReceipt(mem, receipt)
  IN  [merged EXCEPT !.state = final, !.alloc = RetainedAllocations(merged, succeeded)]

\* The Store write is followed by a checkpoint.  When the checkpoint fails the
\* executor returns the error and the mutation gate stays closed.
Persist(record, next) ==
  /\ mem' = record
  /\ \/ durable' = record /\ pc' = next
     \/ "persist" \in Faults /\ durable' = durable /\ pc' = "halted"

--------------------------------------------------------------------------------
(* The binding helper: one binding slot, one forward receipt and one          *)
(* rollback receipt per sandbox; head is the receipt last applied.            *)

Helpers == [bound : SUBSET Steps, receipts : SUBSET Steps, head : [Steps -> {"none", "bind", "release"}]]

EmptyHelper == [bound |-> {}, receipts |-> {}, head |-> [i \in Steps |-> "none"]]

\* A known idempotency key is accepted only while its binding still stands.
BindAccepted(h, i) == i \notin h.receipts \/ i \in h.bound

ApplyBinding(h, i) ==
  IF i \in h.receipts THEN h
  ELSE [bound |-> h.bound \cup {i}, receipts |-> h.receipts \cup {i}, head |-> [h.head EXCEPT ![i] = "bind"]]

ReleaseAccepted(h, i) == IF h.head[i] = "release" THEN i \notin h.bound ELSE i \in h.bound

ReleaseBinding(h, i) ==
  [bound |-> h.bound \ {i}, receipts |-> h.receipts, head |-> [h.head EXCEPT ![i] = "release"]]

\* WriteReceiptsCSV: if any sandbox of the transaction has moved on, every
\* receipt of the transaction is reported as superseded (failed).
PublishedReceipts(h) ==
  LET active == \A i \in h.receipts : h.head[i] = "bind"
  IN  [i \in Steps |-> IF i \notin h.receipts THEN "none"
                       ELSE IF active THEN "succeeded" ELSE "superseded"]

\* One compensating release: the file after it and whether it reported success.
\* A failing command may or may not have taken effect.
RollbackOutcomes(h, i) ==
  {o \in [file : {h, ReleaseBinding(h, i)}, ok : BOOLEAN] :
     /\ o.file # h => ReleaseAccepted(h, i)
     /\ IF o.ok THEN ReleaseAccepted(h, i) /\ o.file = ReleaseBinding(h, i)
                ELSE "rollback" \in Faults \/ ~ReleaseAccepted(h, i)}

--------------------------------------------------------------------------------
(* The provider's transaction table. *)

Found == {i \in Steps : recovered[i] # "none"}

AppliedPrefix == \A i \in Found : \A j \in 1..(i - 1) : j \in Found

RecoveredTransactionReceipt ==
  [phase |-> IF \E i \in Found : recovered[i] = "superseded" THEN "degraded" ELSE "executing",
   eff   |-> [i \in Steps |-> CASE recovered[i] = "none"      -> "not_applied"
                                [] recovered[i] = "succeeded" -> "applied"
                                [] OTHER                      -> "failed"],
   comp  |-> [i \in Steps |-> FALSE]]

PreparedReceipt ==
  IF Known(tx) THEN tx
  ELSE IF Found # {} THEN RecoveredTransactionReceipt
  ELSE [NoReceipt EXCEPT !.phase = "prepared"]

PreparePlanSucceeds == ctx = "live" /\ (Known(tx) \/ AppliedPrefix) /\ tx' = PreparedReceipt
PreparePlanFails ==
  /\ ctx = "cancelled" \/ "prepare" \in Faults \/ (~Known(tx) /\ ~AppliedPrefix)
  /\ UNCHANGED tx

\* The receipt the failed call returned, or else the reconciled one.
LatestReceipt == IF Known(hand) THEN hand ELSE tx

Reconcilable == Known(tx) /\ ctx = "live"

\* The tail of ExecuteStep: record the effect of step i in the receipt.
StepReceipt(i, effect, failed) ==
  [tx EXCEPT !.eff[i] = effect, !.phase = IF failed THEN "degraded" ELSE "executing"]

--------------------------------------------------------------------------------
Init ==
  /\ mem = NoRecord /\ durable = NoRecord
  /\ tx = NoReceipt /\ hand = NoReceipt
  /\ ledger = {}
  /\ helper = EmptyHelper
  /\ recovered = [i \in Steps |-> "none"]
  /\ pc = "idle" /\ idx = 0
  /\ ctx = "live" /\ crashes = 0

\* Stage reserves the plan and the pending decision is checkpointed with it;
\* if that checkpoint fails the reservation is undone.
Stage ==
  /\ pc = "idle"
  /\ \/ mem' = NewRecord /\ durable' = NewRecord /\ pc' = "step"
     \/ "persist" \in Faults /\ pc' = "halted" /\ UNCHANGED <<mem, durable>>
  /\ UNCHANGED <<tx, ledger, helper, recovered, idx, hand, ctx, crashes>>

\* The switch on the phase of a reconciled receipt.
ApplyReconciledReceipt(receipt) ==
  CASE receipt.phase = "committed" -> Persist(Finalize(TRUE, "COMMITTED", receipt), "done")
    [] receipt.phase = "aborted"   -> Persist(Finalize(FALSE, "ABORTED", receipt), "done")
    [] receipt.phase = "degraded"  -> Persist(Finalize(FALSE, "DEGRADED", receipt), "done")
    [] receipt.phase = "prepared"  -> pc' = "step" /\ UNCHANGED <<mem, durable>>
    [] OTHER ->
         IF \E i \in Steps : receipt.eff[i] = "degraded"
         THEN Persist(Finalize(FALSE, "DEGRADED", receipt), "done")
         ELSE Persist(Advance("APPLYING", receipt), "step")

\* Resume, up to its loop.  A cancelled context or a failed PreparePlan in
\* PREPARED is an error of Resume; in APPLYING it degrades the transaction.
Resume ==
  /\ pc = "resume"
  /\ \/ ctx = "cancelled" /\ pc' = "halted" /\ UNCHANGED <<mem, durable, tx>>
     \/ ctx = "live" /\ mem.state \in Terminal /\ pc' = "done" /\ UNCHANGED <<mem, durable, tx>>
     \/ ctx = "live" /\ mem.state \in {"RESERVED", "APPLY_FAILED", "COMPENSATING"} /\ pc' = "step"
        /\ UNCHANGED <<mem, durable, tx>>
     \/ mem.state = "PREPARED" /\ PreparePlanSucceeds /\ Persist(Advance("PREPARED", tx'), "step")
     \/ mem.state = "PREPARED" /\ PreparePlanFails /\ pc' = "halted" /\ UNCHANGED <<mem, durable>>
     \/ mem.state = "APPLYING" /\ PreparePlanSucceeds /\ ApplyReconciledReceipt(tx')
     \/ mem.state = "APPLYING" /\ PreparePlanFails /\ Persist(Finalize(FALSE, "DEGRADED", NoReceipt), "done")
  /\ UNCHANGED <<ledger, helper, recovered, idx, hand, ctx, crashes>>

Prepare ==
  /\ pc = "step" /\ mem.state = "RESERVED"
  /\ \/ PreparePlanSucceeds /\ Persist(Advance("PREPARED", tx'), "step")
     \/ PreparePlanFails /\ Persist(Finalize(FALSE, "PREPARE_FAILED", NoReceipt), "done")
  /\ UNCHANGED <<ledger, helper, recovered, idx, hand, ctx, crashes>>

\* Mutant: APPLYING is recorded in memory but not checkpointed before the steps.
BeginApplyUnsaved ==
  /\ pc = "step" /\ mem.state \in {"PREPARED", "APPLYING"}
  /\ idx' = 1 /\ pc' = "execute"
  /\ mem' = Advance("APPLYING", NoReceipt)
  /\ UNCHANGED <<durable, tx, ledger, helper, recovered, hand, ctx, crashes>>

BeginApply ==
  /\ pc = "step" /\ mem.state \in {"PREPARED", "APPLYING"}
  /\ idx' = 1
  /\ IF mem.state = "PREPARED"
     THEN Persist(Advance("APPLYING", NoReceipt), "execute")
     ELSE pc' = "execute" /\ UNCHANGED <<mem, durable>>
  /\ UNCHANGED <<tx, ledger, helper, recovered, hand, ctx, crashes>>

SkipSucceededStep ==
  /\ pc = "execute" /\ idx \in Steps /\ mem.steps[idx] = "succeeded"
  /\ idx' = idx + 1
  /\ UNCHANGED <<mem, durable, tx, ledger, helper, recovered, pc, hand, ctx, crashes>>

AtStep(i) == pc = "execute" /\ idx = i /\ mem.steps[i] # "succeeded"

PreviousApplied(i) == \A j \in 1..(i - 1) : tx.eff[j] = "applied"

\* ExecuteStep answers without running a command: an earlier step is not
\* applied (error, no receipt), or this one was already settled.
ExecuteStepReturns(i) ==
  /\ AtStep(i)
  /\ ~PreviousApplied(i) \/ tx.eff[i] \in {"applied", "compensated"}
  /\ hand' = IF PreviousApplied(i) THEN tx ELSE NoReceipt
  /\ pc' = IF PreviousApplied(i) /\ tx.eff[i] = "applied" THEN "executed" ELSE "apply_failure"
  /\ UNCHANGED <<mem, durable, tx, ledger, helper, recovered, idx, ctx, crashes>>

StepReturns(i, effect, failed) ==
  /\ tx' = StepReceipt(i, effect, failed)
  /\ hand' = StepReceipt(i, effect, failed)
  /\ pc' = IF failed THEN "apply_failure" ELSE "executed"
  /\ UNCHANGED <<mem, durable, recovered, idx, ctx, crashes>>

Executable(i) == AtStep(i) /\ PreviousApplied(i) /\ tx.eff[i] \notin {"applied", "compensated"}

\* executeAction fails before the command, or the command certainly did nothing.
ExecuteStepRefused(i) ==
  /\ Executable(i)
  /\ ctx = "cancelled" \/ "refuse" \in Faults
  /\ StepReturns(i, "failed", TRUE)
  /\ UNCHANGED <<helper, ledger>>

\* A dry run is skipped by the provider: not applied, yet no error.  Dry-run mode
\* is set per process; letting each step choose admits a few more behaviours.
ExecuteStepDryRun(i) ==
  /\ Executable(i) /\ ctx = "live" /\ "dry_run" \in Faults
  /\ ledger' = ledger \cup {i}
  /\ StepReturns(i, "failed", FALSE)
  /\ UNCHANGED helper

ExecuteStepSucceeds(i) ==
  /\ Executable(i) /\ ctx = "live"
  /\ BindAccepted(helper, i)
  /\ helper' = ApplyBinding(helper, i)
  /\ ledger' = ledger \cup {i}
  /\ StepReturns(i, "applied", FALSE)

\* The command ran but its audit record could not be written: the driver drops
\* the execution, so the step counts as failed and nothing is rolled back.
ExecuteStepUnaudited(i) ==
  /\ Executable(i) /\ ctx = "live" /\ "audit" \in Faults
  /\ BindAccepted(helper, i)
  /\ helper' = ApplyBinding(helper, i)
  /\ ledger' = ledger \cup {i}
  /\ StepReturns(i, "failed", TRUE)

\* The command failed and may have taken effect (or took effect and a later
\* check failed): the provider rolls the action back at once, and reports it
\* applied when the rollback failed.
ExecuteStepUncertain(i) ==
  /\ Executable(i) /\ ctx = "live"
  /\ "driver" \in Faults \/ ~BindAccepted(helper, i)
  /\ ledger' = ledger \cup {i}
  /\ \E h \in {helper} \cup (IF BindAccepted(helper, i) THEN {ApplyBinding(helper, i)} ELSE {}) :
       \E outcome \in RollbackOutcomes(h, i) :
         /\ helper' = outcome.file
         /\ StepReturns(i, IF outcome.ok THEN "failed" ELSE "applied", TRUE)

RecordStep ==
  /\ pc = "executed"
  /\ idx' = idx + 1
  /\ IF hand.eff[idx] = "failed"
     THEN Persist(Advance("APPLY_FAILED", hand), "step")
     ELSE Persist(Advance("APPLYING", hand), "execute")
  /\ UNCHANGED <<tx, ledger, helper, recovered, hand, ctx, crashes>>

CommitPlan ==
  /\ pc = "execute" /\ idx = N + 1
  /\ IF \A i \in Steps : tx.eff[i] = "applied"
     THEN /\ tx' = [tx EXCEPT !.phase = "committed"]
          /\ hand' = tx'
          /\ pc' = "committed"
     ELSE hand' = NoReceipt /\ pc' = "commit_failure" /\ UNCHANGED tx
  /\ UNCHANGED <<mem, durable, ledger, helper, recovered, idx, ctx, crashes>>

FinishCommit ==
  /\ pc = "committed"
  /\ Persist(Finalize(TRUE, "COMMITTED", hand), "done")
  /\ UNCHANGED <<tx, ledger, helper, recovered, idx, hand, ctx, crashes>>

HandleApplyFailure ==
  /\ pc = "apply_failure"
  /\ CASE ~Reconcilable -> Persist(Finalize(FALSE, "DEGRADED", hand), "done")
       [] Reconcilable /\ tx.phase \in {"committed", "aborted"} -> ApplyReconciledReceipt(tx)
       [] OTHER -> Persist(Advance("APPLY_FAILED", LatestReceipt), "step")
  /\ UNCHANGED <<tx, ledger, helper, recovered, idx, hand, ctx, crashes>>

HandleCommitFailure ==
  /\ pc = "commit_failure"
  /\ CASE ~Reconcilable -> Persist(Finalize(FALSE, "DEGRADED", hand), "done")
       [] Reconcilable /\ tx.phase = "committed" -> Persist(Finalize(TRUE, "COMMITTED", tx), "done")
       [] OTHER -> pc' = "apply_failure" /\ UNCHANGED <<mem, durable>>
  /\ UNCHANGED <<tx, ledger, helper, recovered, idx, hand, ctx, crashes>>

BeginAbort ==
  /\ pc = "step" /\ mem.state \in {"APPLY_FAILED", "COMPENSATING"}
  /\ IF mem.state = "APPLY_FAILED"
     THEN Persist(Advance("COMPENSATING", NoReceipt), "abort")
     ELSE pc' = "abort" /\ UNCHANGED <<mem, durable>>
  /\ UNCHANGED <<tx, ledger, helper, recovered, idx, hand, ctx, crashes>>

\* Mutant: the reverse loop starts one step too low.
AbortPlanOffByOne ==
  /\ pc = "abort"
  /\ hand' = tx
  /\ idx' = N - 1
  /\ pc' = IF Known(tx) THEN "aborting" ELSE "abort_failure"
  /\ UNCHANGED <<mem, durable, tx, ledger, helper, recovered, ctx, crashes>>

\* AbortPlan needs the in-memory transaction.
AbortPlan ==
  /\ pc = "abort"
  /\ hand' = tx
  /\ idx' = N
  /\ pc' = IF Known(tx) THEN "aborting" ELSE "abort_failure"
  /\ UNCHANGED <<mem, durable, tx, ledger, helper, recovered, ctx, crashes>>

\* One round of AbortPlan's reverse loop.
CompensateStep ==
  /\ pc = "aborting" /\ idx \in Steps
  /\ idx' = idx - 1
  /\ \/ /\ hand.eff[idx] # "applied"
        /\ UNCHANGED <<hand, helper>>
     \/ /\ hand.eff[idx] = "applied" /\ idx \notin ledger
        /\ hand' = [hand EXCEPT !.eff[idx] = "degraded", !.comp[idx] = TRUE]
        /\ UNCHANGED helper
     \/ /\ hand.eff[idx] = "applied" /\ idx \in ledger
        /\ \E outcome \in RollbackOutcomes(helper, idx) :
             /\ helper' = outcome.file
             /\ hand' = [hand EXCEPT !.eff[idx] = IF outcome.ok THEN "compensated" ELSE "degraded",
                                     !.comp[idx] = TRUE]
  /\ UNCHANGED <<mem, durable, tx, ledger, recovered, pc, ctx, crashes>>

EndAbortPlan ==
  /\ pc = "aborting" /\ idx = 0
  /\ LET failed == \E i \in Steps : hand.eff[i] = "degraded"
     IN  /\ hand' = [hand EXCEPT !.phase = IF failed THEN "degraded" ELSE "aborted"]
         /\ pc' = IF failed THEN "abort_failure" ELSE "aborted"
  /\ tx' = hand'
  /\ UNCHANGED <<mem, durable, ledger, helper, recovered, idx, ctx, crashes>>

FinishAbort ==
  /\ pc = "aborted"
  /\ Persist(Finalize(FALSE, "ABORTED", hand), "done")
  /\ UNCHANGED <<tx, ledger, helper, recovered, idx, hand, ctx, crashes>>

\* Mutant: an incomplete rollback is tried again instead of ending DEGRADED.
HandleAbortFailureRetries ==
  /\ pc = "abort_failure"
  /\ CASE ~Reconcilable -> Persist(Finalize(FALSE, "DEGRADED", hand), "done")
       [] Reconcilable /\ tx.phase = "aborted" -> Persist(Finalize(FALSE, "ABORTED", tx), "done")
       [] OTHER -> pc' = "step" /\ UNCHANGED <<mem, durable>>
  /\ UNCHANGED <<tx, ledger, helper, recovered, idx, hand, ctx, crashes>>

HandleAbortFailure ==
  /\ pc = "abort_failure"
  /\ CASE ~Reconcilable -> Persist(Finalize(FALSE, "DEGRADED", hand), "done")
       [] Reconcilable /\ tx.phase = "aborted" -> Persist(Finalize(FALSE, "ABORTED", tx), "done")
       [] OTHER -> Persist(Finalize(FALSE, "DEGRADED", LatestReceipt), "done")
  /\ UNCHANGED <<tx, ledger, helper, recovered, idx, hand, ctx, crashes>>

Shutdown ==
  /\ "cancel" \in Faults /\ ctx = "live" /\ pc \notin {"idle", "done", "halted"}
  /\ ctx' = "cancelled"
  /\ UNCHANGED <<mem, durable, tx, ledger, helper, recovered, pc, idx, hand, crashes>>

\* The process dies and starts again: the Store is restored from the
\* checkpoint, the driver probes the helper, and ResumeAll runs.
CrashAndRestart ==
  /\ crashes < MaxCrashes
  /\ crashes' = crashes + 1
  /\ mem' = durable
  /\ tx' = NoReceipt /\ hand' = NoReceipt /\ ledger' = {} /\ idx' = 0 /\ ctx' = "live"
  /\ pc' = IF durable.state = "NONE" THEN "idle" ELSE "resume"
  /\ \/ recovered' = PublishedReceipts(helper)
     \/ "discover" \in Faults /\ recovered' = [i \in Steps |-> "none"]
  /\ UNCHANGED <<durable, helper>>

ExecuteStep ==
  \E i \in Steps :
    \/ ExecuteStepReturns(i) \/ ExecuteStepRefused(i) \/ ExecuteStepDryRun(i) \/ ExecuteStepSucceeds(i)
    \/ ExecuteStepUnaudited(i) \/ ExecuteStepUncertain(i)

Executor ==
  \/ Stage \/ Resume \/ Prepare \/ BeginApply \/ SkipSucceededStep \/ ExecuteStep \/ RecordStep
  \/ CommitPlan \/ FinishCommit \/ HandleApplyFailure \/ HandleCommitFailure
  \/ BeginAbort \/ AbortPlan \/ CompensateStep \/ EndAbortPlan \/ FinishAbort \/ HandleAbortFailure

Next == Executor \/ Shutdown \/ CrashAndRestart

Spec == Init /\ [][Next]_vars

--------------------------------------------------------------------------------
(* Properties. *)

\* Every variable keeps the type its declaration in the code gives it.
TypeOK ==
  /\ mem \in Records /\ durable \in Records
  /\ tx \in Receipts /\ hand \in Receipts
  /\ ledger \in SUBSET Steps
  /\ helper \in Helpers
  /\ recovered \in [Steps -> {"none", "succeeded", "superseded"}]
  /\ pc \in {"idle", "resume", "step", "execute", "executed", "apply_failure", "commit_failure", "committed",
             "abort", "aborting", "aborted", "abort_failure", "done", "halted"}
  /\ idx \in 0..(N + 1)
  /\ ctx \in {"live", "cancelled"}
  /\ crashes \in 0..MaxCrashes

\* No helper command has left a trace while the checkpoint could still be
\* restored to a state that would stage or prepare the plan afresh: the executor
\* persists APPLYING before the first external side effect.
NoEffectBeforeDurableApplying ==
  helper # EmptyHelper => durable.state \notin {"NONE", "RESERVED", "PREPARED", "PREPARE_FAILED"}

\* A restarted provider always finds the helper's receipts to be an applied
\* prefix of the plan, so PreparePlan never refuses recovery for that reason.
HelperReceiptsArePrefix ==
  \A i \in helper.receipts : \A j \in 1..(i - 1) : j \in helper.receipts

\* A binding that was rolled back is never established again by a retry of the
\* same action, in this process or in a later one.
RolledBackStaysReleased ==
  [][\A i \in Steps : helper.head[i] = "release" => i \notin helper'.bound]_vars

\* The edges transactionStateAllowed lists.
AllowedEdges ==
  {<<"NONE", "RESERVED">>,
   <<"RESERVED", "PREPARED">>, <<"RESERVED", "PREPARE_FAILED">>,
   <<"PREPARED", "APPLYING">>, <<"PREPARED", "COMPENSATING">>,
   <<"APPLYING", "COMMITTED">>, <<"APPLYING", "APPLY_FAILED">>,
   <<"APPLYING", "COMPENSATING">>, <<"APPLYING", "DEGRADED">>,
   <<"APPLY_FAILED", "COMPENSATING">>, <<"APPLY_FAILED", "DEGRADED">>,
   <<"COMPENSATING", "ABORTED">>, <<"COMPENSATING", "DEGRADED">>}

\* FinalizeTransaction does not consult transactionStateAllowed; even so every
\* change of the checkpointed state, crashes included, is one of its edges.
DurableFollowsStateTable ==
  [][durable'.state # durable.state => <<durable.state, durable'.state>> \in AllowedEdges]_vars

\* The checkpoint and the helper's file implement AtomicPlan: reserved at once,
\* effects only in between, settled at once and for good, and a COMMITTED plan
\* has every binding in place.
Abstract == INSTANCE AtomicPlan WITH
  Items    <- Steps,
  outcome  <- CASE durable.state = "NONE" -> "none"
                [] durable.state = "COMMITTED" -> "committed"
                [] durable.state \in {"ABORTED", "DEGRADED", "PREPARE_FAILED"} -> "failed"
                [] OTHER -> "reserved",
  capacity <- [i \in Steps |-> CASE durable.alloc[i] = "pending" -> "reserved"
                                 [] durable.alloc[i] \in {"active", "failed"} -> "kept"
                                 [] OTHER -> durable.alloc[i]],
  effects  <- helper.bound

ImplementsAtomicPlan == Abstract!Spec
================================================================================

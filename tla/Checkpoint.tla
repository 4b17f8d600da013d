----------------------------- MODULE Checkpoint -----------------------------
(***************************************************************************)
(* The Scheduler's durable checkpoint: what PublishIntent, the staging of  *)
(* a plan, its executor and the decision log save, and how start-up reads  *)
(* it back, in the current format and in the two older ones.               *)
(*                                                                         *)
(* Three locks matter.  planMu covers a publication and the staging of a   *)
(* plan, not its execution; the Store's mutex covers one Store operation;  *)
(* s.mu covers one save.  A save is one step: the checkpoint file is       *)
(* replaced atomically, the journal after it (a crash in between leaves    *)
(* the same files as a failed journal refresh).                            *)
(*                                                                         *)
(* Of the Store: the intents' versions, the snapshot's revision, and one   *)
(* plan's transaction and reservation.  Of the decision log: the plan's    *)
(* audit.  Idempotency keys only decide refusals and are left out, as are  *)
(* the projection's cursors (SandboxCursor) and the guard (ProtectionGuard).*)
(***************************************************************************)
EXTENDS Integers

CONSTANTS CpKeys,        \* execution/stage pairs
          MaxCpVersion,  \* bound: versions published of a key
          MaxCpFaults,   \* bound: failed writes
          MaxCpCrashes   \* bound: crashes of the Scheduler

VARIABLES cpStore,    \* the Store: intents, revision, transaction, reservation
          cpAudit,    \* s.decisions: the plan's audit
          cpPub,      \* PublishIntent after PreparePublishIntent
          cpExec,     \* the plan's worker: step and the generation it holds
          cpFile,     \* state.checkpoint
          cpJournal,  \* state.journal
          cpGate,     \* "closed" once persistenceErr is set
          cpBoot,     \* the process
          cpEffect,   \* the provider: what it did and what it reports of the plan
          cpAccepted, \* history: the last version of each key answered ACCEPTED
          cpSaved,    \* history: what the last save that reached the file held
          cpFaults, cpCrashes
cpServer == <<cpStore, cpAudit, cpPub, cpExec, cpGate, cpBoot>>
cpDisk == <<cpFile, cpJournal, cpSaved, cpFaults>>
cpVars == <<cpServer, cpDisk, cpEffect, cpAccepted, cpCrashes>>

NoCheckpoint == [format |-> 0]
NoTransaction == [st |-> "none", gen |-> 0]
EmptyStore == [intents |-> [k \in CpKeys |-> 0], rev |-> 1, txn |-> NoTransaction, res |-> "none"]
Terminal(txn) == txn.st \in {"committed", "aborted"}

(* Capture and encodeCheckpoint keep every part; the journal keeps the snapshot *)
(* and the intents (checkpointJournalRecords).                                  *)
Capture(store, audit) ==
  [format |-> 3, intents |-> store.intents, rev |-> store.rev, txn |-> store.txn,
   res |-> store.res, audit |-> audit]
JournalRecords(image) == [format |-> 3, intents |-> image.intents, rev |-> image.rev]

(* What older releases left: a bare snapshot and the journal, or a checkpoint   *)
(* whose reservation has no transaction, its audit pending or already final.    *)
LegacySnapshot == [format |-> 1, rev |-> 1]
LegacyJournal == [format |-> 1, intents |-> [k \in CpKeys |-> 1], rev |-> 2]
LegacyReservation(audit) ==
  [format |-> 2, intents |-> [k \in CpKeys |-> 1], rev |-> 2, txn |-> NoTransaction,
   res |-> "held", audit |-> audit]

(* What RecoverInFlightPlans and ReconcilePlan report of a plan, and whether its *)
(* devices are occupied: a result that proves a rollback is the only one after   *)
(* which they are known to be free.                                              *)
Untouched == [record |-> "absent", occupied |-> FALSE]
LegacyEffects ==
  {Untouched} \cup [record : {"inflight", "unknown"}, occupied : BOOLEAN]
              \cup [record : {"succeeded"}, occupied : {TRUE}]
              \cup [record : {"failed"}, occupied : BOOLEAN]
              \cup [record : {"rolled_back"}, occupied : {FALSE}]

CpInit ==
  /\ cpStore = EmptyStore /\ cpAudit = "none"
  /\ cpPub = [step |-> "idle"] /\ cpExec = [step |-> "idle", gen |-> 0]
  /\ cpGate = "open" /\ cpBoot = "down"
  /\ \/ cpFile = NoCheckpoint /\ cpJournal = NoCheckpoint /\ cpEffect = Untouched
     \/ cpFile = LegacySnapshot /\ cpJournal = LegacyJournal /\ cpEffect = Untouched
     \/ /\ cpFile \in {LegacyReservation(a) : a \in {"none", "pending", "committed"}}
        /\ cpJournal = NoCheckpoint /\ cpEffect \in LegacyEffects
  /\ cpAccepted = [k \in CpKeys |-> 0] /\ cpSaved = cpFile /\ cpFaults = 0 /\ cpCrashes = 0

-----------------------------------------------------------------------------
(* checkpointStateLocked and SaveCheckpoint.  "lost": nothing was written;     *)
(* "written": renamed, but the directory sync failed; "stale": the journal     *)
(* could not be refreshed, which is no error.  An error closes the gate.       *)
SaveOutcome == {"ok", "stale", "lost", "written"}
SaveCheckpoint(image, outcome) ==
  \/ cpGate = "closed" /\ outcome = "lost" /\ UNCHANGED <<cpDisk, cpGate>>
  \/ /\ cpGate = "open" /\ (outcome = "ok" \/ cpFaults < MaxCpFaults)
     /\ cpFile' = IF outcome = "lost" THEN cpFile ELSE image
     /\ cpSaved' = IF outcome = "lost" THEN cpSaved ELSE image
     /\ cpJournal' = IF outcome = "ok" THEN JournalRecords(image) ELSE cpJournal
     /\ cpGate' = IF outcome \in {"ok", "stale"} THEN "open" ELSE "closed"
     /\ cpFaults' = IF outcome = "ok" THEN cpFaults ELSE cpFaults + 1
Succeeds(outcome) == outcome \in {"ok", "stale"}

PlanMuFree == cpPub.step = "idle" /\ cpExec.step # "staged"
Up == cpBoot = "up"

(* PreparePublishIntent: the whole durable state is exported and the intent    *)
(* staged in the copy; the Store is not changed.                               *)
Prepare(k) ==
  /\ Up /\ PlanMuFree /\ cpGate = "open" /\ cpStore.intents[k] < MaxCpVersion
  /\ cpPub' = [step |-> "prepared", key |-> k,
               staged |-> [cpStore EXCEPT !.intents[k] = @ + 1, !.rev = @ + 1]]
  /\ UNCHANGED <<cpStore, cpAudit, cpExec, cpGate, cpBoot, cpDisk, cpEffect, cpAccepted, cpCrashes>>

SavePublication(outcome) ==
  /\ cpPub.step = "prepared"
  /\ SaveCheckpoint(Capture(cpPub.staged, cpAudit), outcome)
  /\ cpPub' = IF Succeeds(outcome) THEN [cpPub EXCEPT !.step = "saved"] ELSE [step |-> "idle"]
  /\ UNCHANGED <<cpStore, cpAudit, cpExec, cpBoot, cpEffect, cpAccepted, cpCrashes>>

(* Commit: the staged copy becomes the Store, and the caller is told ACCEPTED. *)
CommitPublication ==
  /\ cpPub.step = "saved"
  /\ cpStore' = cpPub.staged /\ cpPub' = [step |-> "idle"]
  /\ cpAccepted' = [cpAccepted EXCEPT ![cpPub.key] = cpPub.staged.intents[cpPub.key]]
  /\ UNCHANGED <<cpAudit, cpExec, cpGate, cpBoot, cpDisk, cpEffect, cpCrashes>>

-----------------------------------------------------------------------------
(* processAcceptedTrigger: Stage reserves and records the transaction ... *)
StagePlan ==
  /\ Up /\ PlanMuFree /\ cpExec.step = "idle" /\ cpStore.res = "none"
  /\ cpStore' = [cpStore EXCEPT !.txn = [st |-> "reserved", gen |-> 1], !.res = "held", !.rev = @ + 1]
  /\ cpExec' = [step |-> "staged", gen |-> 1]
  /\ UNCHANGED <<cpAudit, cpPub, cpGate, cpBoot, cpDisk, cpEffect, cpAccepted, cpCrashes>>

(* ... checkpointPendingDecision saves it with the pending audit, or the Store *)
(* is restored as it was before; then planMu is released.                      *)
SavePendingDecision(outcome) ==
  /\ cpExec.step = "staged"
  /\ SaveCheckpoint(Capture(cpStore, "pending"), outcome)
  /\ IF Succeeds(outcome)
     THEN cpAudit' = "pending" /\ cpExec' = [cpExec EXCEPT !.step = "run"] /\ UNCHANGED cpStore
     ELSE /\ cpStore' = [cpStore EXCEPT !.txn = NoTransaction, !.res = "none", !.rev = @ - 1]
          /\ cpExec' = [cpExec EXCEPT !.step = "ended"] /\ UNCHANGED cpAudit
  /\ UNCHANGED <<cpPub, cpBoot, cpEffect, cpAccepted, cpCrashes>>

(* AdvanceTransaction and FinalizeTransaction, without planMu: refused when the *)
(* record is not the generation the executor holds.  The states are coarse:     *)
(* PlanTransaction has the whole table.                                         *)
NextStates(st) ==
  CASE st = "reserved" -> {"applying"} [] st = "applied" -> {"committed"}
    [] st = "applying" -> IF cpEffect.occupied THEN {"applied"} ELSE {"aborted"} [] OTHER -> {}
Advance ==
  /\ cpExec.step = "run"
  /\ IF cpStore.txn.gen # cpExec.gen \/ NextStates(cpStore.txn.st) = {}
     THEN cpExec' = [cpExec EXCEPT !.step = "decided"] /\ UNCHANGED cpStore
     ELSE \E st \in NextStates(cpStore.txn.st) :
            /\ cpStore' = [cpStore EXCEPT !.txn = [st |-> st, gen |-> cpExec.gen + 1],
                             !.res = CASE st = "committed" -> "kept" [] st = "aborted" -> "freed"
                                       [] OTHER -> @]
            /\ cpExec' = [step |-> "persist", gen |-> cpExec.gen + 1]
  /\ UNCHANGED <<cpAudit, cpPub, cpGate, cpBoot, cpDisk, cpEffect, cpAccepted, cpCrashes>>

(* persist: the Store as it is now, with whatever else is in it *)
PersistTransaction(outcome) ==
  /\ cpExec.step = "persist"
  /\ SaveCheckpoint(Capture(cpStore, cpAudit), outcome)
  /\ cpExec' = [cpExec EXCEPT !.step = IF Succeeds(outcome) THEN "effect" ELSE "ended"]
  /\ UNCHANGED <<cpStore, cpAudit, cpPub, cpBoot, cpEffect, cpAccepted, cpCrashes>>

(* The provider's step, which takes effect or provably does not. *)
ApplyEffect ==
  /\ cpExec.step = "effect"
  /\ IF cpExec.gen = 2
     THEN cpEffect' \in {[record |-> "succeeded", occupied |-> TRUE], [record |-> "rolled_back", occupied |-> FALSE]}
     ELSE UNCHANGED cpEffect
  /\ cpExec' = [cpExec EXCEPT !.step = "run"]
  /\ UNCHANGED <<cpStore, cpAudit, cpPub, cpGate, cpBoot, cpDisk, cpAccepted, cpCrashes>>

(* The worker has planMu again and appends the decision. *)
AppendFinalDecision(outcome) ==
  /\ cpExec.step = "decided" /\ PlanMuFree
  /\ SaveCheckpoint(Capture(cpStore, "committed"), outcome)
  /\ cpAudit' = IF Succeeds(outcome) THEN "committed" ELSE cpAudit
  /\ cpExec' = [cpExec EXCEPT !.step = "ended"]
  /\ UNCHANGED <<cpStore, cpPub, cpBoot, cpEffect, cpAccepted, cpCrashes>>

-----------------------------------------------------------------------------
CrashScheduler ==
  /\ cpBoot # "down" /\ cpCrashes < MaxCpCrashes /\ cpCrashes' = cpCrashes + 1
  /\ cpBoot' = "down" /\ cpGate' = "open" /\ cpStore' = EmptyStore /\ cpAudit' = "none"
  /\ cpPub' = [step |-> "idle"] /\ cpExec' = [step |-> "idle", gen |-> 0]
  /\ UNCHANGED <<cpDisk, cpEffect, cpAccepted>>

(* decodeCheckpoint, and RestoreStore of what it read *)
Decoded(image) ==
  [store |-> [intents |-> image.intents, rev |-> image.rev, txn |-> image.txn, res |-> image.res],
   audit |-> image.audit]

(* mutated: the journal is replayed over a complete checkpoint too *)
RecoverReplaying ==
  IF cpFile.format \in {2, 3}
  THEN Decoded(IF cpJournal = NoCheckpoint THEN cpFile ELSE [cpFile EXCEPT !.intents = cpJournal.intents])
  ELSE IF cpJournal = NoCheckpoint THEN [store |-> EmptyStore, audit |-> "none"]
  ELSE [store |-> [EmptyStore EXCEPT !.intents = cpJournal.intents, !.rev = cpJournal.rev], audit |-> "none"]

(* Recover and RestoreStore: a complete checkpoint is the whole answer; a bare *)
(* snapshot, or none, is completed by the journal, whose snapshot wins.        *)
Recover ==
  IF cpFile.format \in {2, 3} THEN Decoded(cpFile)
  ELSE IF cpJournal = NoCheckpoint THEN [store |-> EmptyStore, audit |-> "none"]
  ELSE [store |-> [EmptyStore EXCEPT !.intents = cpJournal.intents, !.rev = cpJournal.rev], audit |-> "none"]

(* run: with no recovered snapshot there is nothing to resume *)
Start ==
  /\ cpBoot = "down"
  /\ cpStore' = Recover.store /\ cpAudit' = Recover.audit
  /\ cpBoot' = IF cpFile = NoCheckpoint /\ cpJournal = NoCheckpoint THEN "up" ELSE "transactions"
  /\ UNCHANGED <<cpPub, cpExec, cpGate, cpDisk, cpEffect, cpAccepted, cpCrashes>>

(* A step of recovery: its result is saved with it, or start-up fails. *)
RecoverTo(store, audit, next, outcome) ==
  /\ SaveCheckpoint(Capture(store, audit), outcome)
  /\ IF Succeeds(outcome) THEN cpStore' = store /\ cpAudit' = audit /\ cpBoot' = next
     ELSE UNCHANGED <<cpStore, cpAudit>> /\ cpBoot' = "refused"
RecoveryDone(next) == cpBoot' = next /\ UNCHANGED <<cpStore, cpAudit, cpGate, cpDisk>>

(* ResumeAll settles an open transaction by the provider's receipt *)
ResumeAll(outcome) ==
  /\ cpBoot = "transactions" /\ cpStore.txn.st # "none" /\ ~Terminal(cpStore.txn)
  /\ LET st == IF cpEffect.occupied THEN "committed" ELSE "aborted"
     IN RecoverTo([cpStore EXCEPT !.txn = [st |-> st, gen |-> @.gen + 1],
                                  !.res = IF st = "committed" THEN "kept" ELSE "freed"],
                  cpAudit, "transactions", outcome)
  /\ UNCHANGED <<cpPub, cpExec, cpEffect, cpAccepted, cpCrashes>>

(* reconcileRecoveredTransactions: a settled one is audited from its pending audit *)
AuditTransactions(outcome) ==
  /\ cpBoot = "transactions" /\ (cpStore.txn.st = "none" \/ Terminal(cpStore.txn))
  /\ IF cpStore.txn.st = "none" \/ cpAudit = "committed"
     THEN outcome = "ok" /\ RecoveryDone("reservations")
     ELSE IF cpAudit = "none" THEN outcome = "ok" /\ RecoveryDone("refused")
     ELSE RecoverTo(cpStore, "committed", "reservations", outcome)
  /\ UNCHANGED <<cpPub, cpExec, cpEffect, cpAccepted, cpCrashes>>

(* recoveredPlanRecord and FinalizePlanResults: whatever the provider cannot   *)
(* account for is a failure, and a failure without evidence keeps the capacity *)
Finalized(record) == IF record = "rolled_back" THEN "freed" ELSE "kept"

(* mutated: a reservation whose decision is final is taken to be settled *)
ReconcileReservationsTrusting(outcome) ==
  /\ cpBoot = "reservations"
  /\ IF cpStore.res # "held" \/ cpStore.txn.st # "none" \/ cpAudit = "committed"
     THEN outcome = "ok" /\ RecoveryDone("checkpoint")
     ELSE IF cpAudit = "none" THEN outcome = "ok" /\ RecoveryDone("refused")
     ELSE RecoverTo([cpStore EXCEPT !.res = Finalized(cpEffect.record), !.rev = @ + 1],
                    "committed", "checkpoint", outcome)
  /\ UNCHANGED <<cpPub, cpExec, cpEffect, cpAccepted, cpCrashes>>

(* reconcileRecoveredReservations: a reservation without a transaction is      *)
(* finalized by the provider's record; without any audit start-up is refused.  *)
ReconcileReservations(outcome) ==
  /\ cpBoot = "reservations"
  /\ IF cpStore.res # "held" \/ cpStore.txn.st # "none"
     THEN outcome = "ok" /\ RecoveryDone("checkpoint")
     ELSE IF cpAudit = "none" THEN outcome = "ok" /\ RecoveryDone("refused")
     ELSE RecoverTo([cpStore EXCEPT !.res = Finalized(cpEffect.record), !.rev = @ + 1],
                    "committed", "checkpoint", outcome)
  /\ UNCHANGED <<cpPub, cpExec, cpEffect, cpAccepted, cpCrashes>>

(* ResumeRecoveredState's last checkpoint, in the current format *)
FinishRecovery(outcome) ==
  /\ cpBoot = "checkpoint"
  /\ RecoverTo(cpStore, cpAudit, "up", outcome)
  /\ UNCHANGED <<cpPub, cpExec, cpEffect, cpAccepted, cpCrashes>>

CpNext ==
  \/ \E k \in CpKeys : Prepare(k)
  \/ CommitPublication \/ StagePlan \/ Advance \/ ApplyEffect \/ CrashScheduler \/ Start
  \/ \E outcome \in SaveOutcome :
       \/ SavePublication(outcome) \/ SavePendingDecision(outcome) \/ PersistTransaction(outcome)
       \/ AppendFinalDecision(outcome) \/ ResumeAll(outcome) \/ AuditTransactions(outcome)
       \/ ReconcileReservations(outcome) \/ FinishRecovery(outcome)

CpSpec == CpInit /\ [][CpNext]_cpVars

-----------------------------------------------------------------------------
(* Start-up settles every reservation it restored: once the Scheduler serves,  *)
(* capacity is reserved only for the plan being executed, or for a transaction *)
(* the next start-up settles; it is free only if the provider holds nothing    *)
(* (ResumeRecoveredState, reconcileRecoveredReservations, retainedAllocations). *)
RestoredIsSettled ==
  Up => /\ cpStore.res = "held" => cpStore.txn.st # "none"
        /\ cpStore.res = "freed" => ~cpEffect.occupied

(* What start-up restores is the last checkpoint that reached the disk, parts of *)
(* two saves are never mixed, and a stale journal never counts against it        *)
(* (SaveCheckpoint, Recover).                                                     *)
RecoversLastSave ==
  cpBoot = "transactions" /\ cpFile.format = 3 => Capture(cpStore, cpAudit) = cpSaved

(* A publication answered ACCEPTED is in the checkpoint a restart would read     *)
(* (PublishIntent saves the staged state before it commits).                     *)
AcceptedIsDurable ==
  \A k \in CpKeys : cpAccepted[k] # 0 => cpFile.intents[k] >= cpAccepted[k]
=============================================================================

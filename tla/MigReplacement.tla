---------------------------- MODULE MigReplacement ----------------------------
(***************************************************************************)
(* Moving a managed worker to another MIG device (rebind, recreate): the   *)
(* NVIDIA driver runs the helper tgsrl-nvidia-mig, which walks the worker  *)
(* through prepare, checkpoint, stop, reload and resume, records each      *)
(* phase in the runtime state file (managedworker.Store), and then writes  *)
(* the new place to the binding state file (bindinghelper.Store).  Other   *)
(* helpers probe at the same time, and finish a binding write that an      *)
(* earlier helper did not get to.                                          *)
(*                                                                         *)
(* One sandbox.  A place is a generation and a device; the binding id,     *)
(* profile and share go with it.  A rebind is named by its idempotency     *)
(* key.  An update of one file is atomic (lock, temporary file, rename).   *)
(* A restart of the Scheduler takes its running helpers with it.           *)
(***************************************************************************)
EXTENDS Integers, FiniteSets

CONSTANTS Rebinds,       \* idempotency keys of rebind actions, 1..n, used in this order
          MigHome,       \* the MIG device the sandbox starts on
          MigTarget,     \* rebind -> the MIG device it asks for: another (rebind) or the same (recreate)
          MaxMgFaults,   \* bound: calls lost or refused, writes failed, helpers killed
          MaxMgCrashes   \* bound: restarts of the Scheduler

(* 0 stands for no rebind. *)
ASSUME MigAssumption == Rebinds \subseteq Nat \ {0}

VARIABLES mgWorker,      \* runtime file: the worker's generation, device and state
          mgPhase,       \* runtime file: rebind -> phase of its receipt, "ok" and "failed" once completed
          mgHead,        \* runtime file: the sandbox's newest receipt, or 0
          mgSynced,      \* runtime file: receipts with BindingSynchronized
          mgBinding,     \* binding file: the sandbox's place and the key that put it there
          mgReplaced,    \* binding file: rebinds with a "replace" receipt
          mgReq,         \* rebind -> the source and target it asks for
          mgProc,        \* the worker process
          mgRb,          \* the rebind helper: pc, rebind, local worker, phase
          mgProbe,       \* the probing helpers: pc, local worker, pending receipt, ...
          mgDriver,      \* LocalDriverV2: last binding, availability, executions, recovered actions
          mgFaults, mgCrashes
runtimeFile == <<mgWorker, mgPhase, mgHead, mgSynced>>
bindingFile == <<mgBinding, mgReplaced>>
mgVars == <<runtimeFile, bindingFile, mgReq, mgProc, mgRb, mgProbe, mgDriver, mgFaults, mgCrashes>>

Nowhere == [gen |-> 0, dev |-> 0]
NoRequest == [src |-> Nowhere, dst |-> Nowhere]
Place(x) == [gen |-> x.gen, dev |-> x.dev]
NoRebind == [pc |-> "idle", r |-> 0, w |-> [gen |-> 0, dev |-> 0, st |-> "none"], phase |-> "none"]
NoProbe == [pc |-> "idle", w |-> NoRebind.w, pend |-> 0, todo |-> {}, known |-> Nowhere, for |-> 0]
NewDriver == [known |-> Nowhere, avail |-> FALSE, done |-> {}, recovered |-> [r \in Rebinds |-> "none"]]

(* The sandbox is bound, its worker registered and the driver has probed. *)
MgInit ==
  /\ mgWorker = [gen |-> 1, dev |-> MigHome, st |-> "running"]
  /\ mgPhase = [r \in Rebinds |-> "none"] /\ mgHead = 0 /\ mgSynced = {}
  /\ mgBinding = [gen |-> 1, dev |-> MigHome, by |-> 0] /\ mgReplaced = {}
  /\ mgReq = [r \in Rebinds |-> NoRequest]
  /\ mgProc = [st |-> "running", gen |-> 1, dev |-> MigHome]
  /\ mgRb = NoRebind /\ mgProbe = [p \in {"poll", "refresh"} |-> NoProbe]
  /\ mgDriver = [NewDriver EXCEPT !.known = Place(mgWorker), !.avail = TRUE]
  /\ mgFaults = 0 /\ mgCrashes = 0

Fault == mgFaults < MaxMgFaults /\ mgFaults' = mgFaults + 1

-----------------------------------------------------------------------------
(* managedworker.Store *)
Completed(r) == mgPhase[r] \in {"ok", "failed"}
Unresolved == mgHead # 0 /\ ~Completed(mgHead)
NextPhase == [pending |-> "prepared", prepared |-> "checkpointed", checkpointed |-> "stopped",
              stopped |-> "reconfigured", reconfigured |-> "reloaded"]

(* Advance: one phase further, by whoever works on the unfinished head *)
MgAdvance(r, phase, w) ==
  /\ mgHead = r /\ ~Completed(r) /\ NextPhase[mgPhase[r]] = phase
  /\ mgPhase' = [mgPhase EXCEPT ![r] = phase] /\ mgWorker' = w
  /\ UNCHANGED <<mgHead, mgSynced>>

(* Complete fences the generation of the worker it is given, not the phase. *)
MgCompletable(r, w, succeeded) ==
  mgHead = r /\ w.gen = IF succeeded THEN mgReq[r].dst.gen ELSE mgReq[r].src.gen
MgComplete(r, w, succeeded) ==
  /\ mgPhase' = [mgPhase EXCEPT ![r] = IF succeeded THEN "ok" ELSE "failed"]
  /\ mgWorker' = IF succeeded THEN w ELSE mgWorker
  /\ UNCHANGED <<mgHead, mgSynced>>

(* mutated: any generation of the same process may be written back *)
RefreshableAlways(w) == TRUE

(* Refresh: the generation may differ only as an unfinished rebind explains *)
Refreshable(w) ==
  mgWorker.gen # w.gen => Unresolved /\ mgReq[mgHead].src.gen = mgWorker.gen /\ mgReq[mgHead].dst.gen = w.gen

MarkBindingSynchronized(r) ==
  mgPhase[r] = "ok" /\ mgSynced' = mgSynced \cup {r} /\ UNCHANGED <<mgWorker, mgPhase, mgHead>>
BindingSyncPending == {r \in Rebinds : mgPhase[r] = "ok" /\ r \notin mgSynced}

(* bindinghelper.Store.ReplaceBinding, with synchronizeBinding's arguments *)
Replaceable(r, w) ==
  /\ w.gen = mgReq[r].src.gen + 1
  /\ IF r \in mgReplaced THEN mgBinding = [gen |-> w.gen, dev |-> w.dev, by |-> r]
     ELSE Place(mgBinding) = mgReq[r].src
ReplaceBinding(r, w) ==
  mgBinding' = [gen |-> w.gen, dev |-> w.dev, by |-> r] /\ mgReplaced' = mgReplaced \cup {r}

-----------------------------------------------------------------------------
(* the helper's arguments: from the source, to the next generation *)
MgRequest(r, known) == [src |-> known, dst |-> [gen |-> known.gen + 1, dev |-> MigTarget[r]]]

(* executeAction up to the command: the sandbox's mutation lock, cached and   *)
(* recovered results, the generation fence, the advertised action, the source *)
Unlocked == mgRb.pc = "idle" /\ mgProbe["refresh"].pc = "idle"
StartRebind(r) ==
  LET known == mgDriver.known
  IN /\ Unlocked /\ r \notin mgDriver.done /\ mgDriver.recovered[r] = "none"
     /\ mgDriver.avail /\ known # Nowhere
     /\ \/ /\ mgReq[r] = NoRequest /\ \A q \in 1..(r - 1) : mgReq[q] # NoRequest
           /\ mgReq' = [mgReq EXCEPT ![r] = MgRequest(r, known)]
        \/ mgReq[r].src = known /\ UNCHANGED mgReq
     /\ mgRb' = [NoRebind EXCEPT !.pc = "begin", !.r = r]
     /\ UNCHANGED <<runtimeFile, bindingFile, mgProc, mgProbe, mgDriver, mgFaults, mgCrashes>>

(* the helper exits with an error, definite or not: the driver keeps nothing *)
HelperFails == mgRb' = NoRebind

(* Store.Begin within Reconfigure: a new receipt, a refusal, or a replay *)
BeginRebind ==
  LET r == mgRb.r
      fresh == /\ mgPhase[r] = "none" /\ Place(mgWorker) = mgReq[r].src
               /\ ~Unresolved /\ mgWorker.st # "terminated"
      goto(pc, phase) == mgRb' = [mgRb EXCEPT !.pc = pc, !.w = mgWorker, !.phase = phase]
  IN /\ mgRb.pc = "begin"
     /\ \/ /\ fresh /\ goto("verify", "pending") /\ mgHead' = r
           /\ mgPhase' = [mgPhase EXCEPT ![r] = "pending"] /\ UNCHANGED <<mgWorker, mgSynced>>
        \/ mgPhase[r] = "none" /\ ~fresh /\ HelperFails /\ UNCHANGED runtimeFile
        \/ mgPhase[r] = "failed" /\ HelperFails /\ UNCHANGED runtimeFile
        \/ mgPhase[r] = "ok" /\ goto("replace", "ok") /\ UNCHANGED runtimeFile
        \/ mgPhase[r] \notin {"none", "failed", "ok"} /\ goto("resume", mgPhase[r]) /\ UNCHANGED runtimeFile
     /\ UNCHANGED <<bindingFile, mgReq, mgProc, mgProbe, mgDriver, mgFaults, mgCrashes>>

(* verifyWorker, which Reconfigure and then resumeReconfiguration call *)
VerifyRebind ==
  /\ mgRb.pc \in {"verify", "resume"}
  /\ \/ mgProc.st # "dead" /\ mgRb' = [mgRb EXCEPT !.pc = IF mgRb.pc = "verify" THEN "resume" ELSE "call"]
     \/ mgProc.st = "dead" /\ mgRb.pc = "verify" /\ mgRb' = [mgRb EXCEPT !.pc = "fail"]
     \/ mgProc.st = "dead" /\ mgRb.pc = "resume" /\ HelperFails
  /\ UNCHANGED <<runtimeFile, bindingFile, mgReq, mgProc, mgProbe, mgDriver, mgFaults, mgCrashes>>

(* The worker process: what each call asks of it, and where it may be asked.  *)
(* A call is keyed, so that one already served is answered again.             *)
Reached == [pending |-> "safe", prepared |-> "saved", checkpointed |-> "stopped",
            reconfigured |-> "loaded", reloaded |-> "running"]
ServedFrom == [pending |-> {"running", "safe", "saved"}, prepared |-> {"safe", "saved"},
               checkpointed |-> {"saved", "stopped"}, reconfigured |-> {"stopped", "loaded"},
               reloaded |-> {"loaded", "running"}]
Serves(w, phase) ==
  /\ mgProc.st \in ServedFrom[phase]
  /\ mgProc.gen = IF mgProc.st = "stopped" /\ phase = "reconfigured" THEN w.gen - 1 ELSE w.gen
Served(w, phase) == mgProc' = [st |-> Reached[phase], gen |-> w.gen, dev |-> w.dev]

(* what resumeReconfiguration writes to its copy of the worker after a call *)
AfterCall(w, phase, dst) ==
  CASE phase = "checkpointed" -> [w EXCEPT !.st = "terminated"]
    [] phase = "stopped" -> [gen |-> dst.gen, dev |-> dst.dev, st |-> "sleeping"]
    [] phase = "reloaded" -> [w EXCEPT !.st = "running"]
    [] OTHER -> w

(* resumeReconfiguration, one call: before the stop, a refusal ends the rebind *)
(* as failed; a lost answer, or any error after it, leaves the receipt pending *)
CallOrMutate ==
  LET phase == mgRb.phase
      early == phase \in {"pending", "prepared", "checkpointed"}
      answered == mgRb' = [mgRb EXCEPT !.pc = IF phase = "reloaded" THEN "complete" ELSE "advance",
                                       !.w = AfterCall(mgRb.w, phase, mgReq[mgRb.r].dst)]
      refused == mgRb' = [mgRb EXCEPT !.pc = "fail"]
  IN /\ mgRb.pc = "call"
     /\ \/ /\ phase = "stopped" /\ UNCHANGED mgProc            \* executeMutation looks the target up
           /\ \/ answered /\ UNCHANGED mgFaults
              \/ (HelperFails \/ refused) /\ Fault
        \/ /\ phase # "stopped" /\ Serves(mgRb.w, phase) /\ Served(mgRb.w, phase)
           /\ \/ answered /\ UNCHANGED mgFaults
              \/ HelperFails /\ Fault
        \/ /\ phase # "stopped" /\ UNCHANGED mgProc
           /\ IF early THEN refused ELSE HelperFails
           /\ IF Serves(mgRb.w, phase) THEN Fault ELSE UNCHANGED mgFaults
     /\ UNCHANGED <<runtimeFile, bindingFile, mgReq, mgProbe, mgDriver, mgCrashes>>

(* the phase is recorded before the next call is made *)
RecordPhase ==
  /\ mgRb.pc = "advance"
  /\ \/ /\ MgAdvance(mgRb.r, NextPhase[mgRb.phase], mgRb.w)
        /\ mgRb' = [mgRb EXCEPT !.pc = "call", !.phase = NextPhase[mgRb.phase]]
     \/ /\ ~(mgHead = mgRb.r /\ mgPhase[mgRb.r] = mgRb.phase)
        /\ HelperFails /\ UNCHANGED runtimeFile
  /\ UNCHANGED <<bindingFile, mgReq, mgProc, mgProbe, mgDriver, mgFaults, mgCrashes>>

(* completeDefiniteOrUnknown and the other failed completions, then exit *)
FailRebind ==
  /\ mgRb.pc = "fail" /\ HelperFails
  /\ IF MgCompletable(mgRb.r, mgRb.w, FALSE) THEN MgComplete(mgRb.r, mgRb.w, FALSE) ELSE UNCHANGED runtimeFile
  /\ UNCHANGED <<bindingFile, mgReq, mgProc, mgProbe, mgDriver, mgFaults, mgCrashes>>

CompleteRebind ==
  /\ mgRb.pc = "complete"
  /\ \/ /\ MgCompletable(mgRb.r, mgRb.w, TRUE) /\ MgComplete(mgRb.r, mgRb.w, TRUE)
        /\ mgRb' = [mgRb EXCEPT !.pc = "replace", !.phase = "ok"] /\ UNCHANGED mgFaults
     \/ Fault /\ HelperFails /\ UNCHANGED runtimeFile
  /\ UNCHANGED <<bindingFile, mgReq, mgProc, mgProbe, mgDriver, mgCrashes>>

(* synchronizeBinding: the binding file first, then the mark *)
SynchronizeBinding ==
  /\ mgRb.pc = "replace"
  /\ \/ /\ Replaceable(mgRb.r, mgRb.w) /\ ReplaceBinding(mgRb.r, mgRb.w)
        /\ mgRb' = [mgRb EXCEPT !.pc = "mark"] /\ UNCHANGED mgFaults
     \/ ~Replaceable(mgRb.r, mgRb.w) /\ HelperFails /\ UNCHANGED <<bindingFile, mgFaults>>
     \/ Fault /\ HelperFails /\ UNCHANGED bindingFile
  /\ UNCHANGED <<runtimeFile, mgReq, mgProc, mgProbe, mgDriver, mgCrashes>>

(* The mark, the answer on stdout, and the driver's rediscovery under its lock *)
MarkAndAnswer ==
  /\ mgRb.pc = "mark" /\ mgRb' = NoRebind
  /\ \/ /\ MarkBindingSynchronized(mgRb.r) /\ UNCHANGED mgFaults
        /\ mgProbe' = [mgProbe EXCEPT !["refresh"] = [NoProbe EXCEPT !.pc = "snapshot", !.for = mgRb.r]]
     \/ Fault /\ UNCHANGED <<runtimeFile, mgProbe>>
  /\ UNCHANGED <<bindingFile, mgReq, mgProc, mgDriver, mgCrashes>>

-----------------------------------------------------------------------------
(* MIGBackend.Discover runs the helper's "capabilities": Controller.Discover, *)
(* then synchronizePendingBindings.  The Probe of the driver goes on with the *)
(* binding file and the receipts; refreshAfterMIGMutation stops there.  The   *)
(* runtime helper's "discover" and "receipts" run Controller.Discover alone,  *)
(* and their failure is only a warning.                                       *)
ProbeAt(p, pc) == mgProbe' = [mgProbe EXCEPT ![p].pc = pc]
ProbeFails(p) ==
  /\ mgProbe' = [mgProbe EXCEPT ![p] = NoProbe]
  /\ mgDriver' \in {mgDriver} \cup IF p = "poll" THEN {[mgDriver EXCEPT !.avail = FALSE]} ELSE {}
probeFrame == <<mgReq, mgProc, mgRb, mgCrashes>>

Poll ==
  /\ mgProbe["poll"].pc = "idle" /\ ProbeAt("poll", "snapshot")
  /\ UNCHANGED <<runtimeFile, bindingFile, probeFrame, mgDriver, mgFaults>>

(* Discover's first snapshot; discoverWorker asks no worker that has ended *)
ProbeSnapshot(p) ==
  /\ mgProbe[p].pc = "snapshot"
  /\ mgProbe' = [mgProbe EXCEPT ![p].w = mgWorker, ![p].pend = IF Unresolved THEN mgHead ELSE 0,
                                ![p].pc = IF mgWorker.st \in {"failed", "terminated"} THEN "settle" ELSE "status"]
  /\ UNCHANGED <<runtimeFile, bindingFile, probeFrame, mgDriver, mgFaults>>

(* the process token, then "status": state, device and binding as it reports *)
Reported(st) == IF st = "loaded" THEN "sleeping" ELSE IF st = "stopped" THEN "terminated" ELSE "running"
ProbeStatus(p) ==
  LET w == mgProbe[p].w
      heard(st, dev) == mgProbe' = [mgProbe EXCEPT ![p].pc = "refresh", ![p].w = [w EXCEPT !.st = st, !.dev = dev]]
  IN /\ mgProbe[p].pc = "status"
     /\ \/ mgProc.st = "dead" /\ heard("failed", w.dev) /\ UNCHANGED <<mgDriver, mgFaults>>
        \/ /\ mgProc.st # "dead" /\ mgProc.gen = w.gen
           /\ heard(Reported(mgProc.st), mgProc.dev) /\ UNCHANGED <<mgDriver, mgFaults>>
        \/ mgProc.st # "dead" /\ mgProc.gen # w.gen /\ ProbeFails(p) /\ UNCHANGED mgFaults
        \/ mgProc.st # "dead" /\ Fault /\ ProbeFails(p)
     /\ UNCHANGED <<runtimeFile, bindingFile, probeFrame>>

ProbeRefresh(p) ==
  LET w == mgProbe[p].w
  IN /\ mgProbe[p].pc = "refresh"
     /\ \/ /\ Refreshable(w) /\ mgWorker' = w /\ ProbeAt(p, "settle")
           /\ UNCHANGED <<mgPhase, mgHead, mgSynced, mgDriver>>
        \/ ~Refreshable(w) /\ ProbeFails(p) /\ UNCHANGED runtimeFile
     /\ UNCHANGED <<bindingFile, probeFrame, mgFaults>>

(* reconcilePending, with the receipt of the first snapshot: a rebind is never *)
(* observed as done (lifecycleObserved), but it fails with its worker          *)
ProbeSettle(p) ==
  LET w == mgProbe[p].w
      r == mgProbe[p].pend
      fails == r # 0 /\ w.st = "failed"
  IN /\ mgProbe[p].pc = "settle"
     /\ \/ ~fails /\ ProbeAt(p, "again") /\ UNCHANGED <<runtimeFile, mgDriver>>
        \/ fails /\ MgCompletable(r, w, FALSE) /\ MgComplete(r, w, FALSE) /\ ProbeAt(p, "again") /\ UNCHANGED mgDriver
        \/ fails /\ ~MgCompletable(r, w, FALSE) /\ ProbeFails(p) /\ UNCHANGED runtimeFile
     /\ UNCHANGED <<bindingFile, probeFrame, mgFaults>>

(* Controller.Discover of the runtime helper ends here *)
RuntimeDiscovered ==
  /\ mgProbe["poll"].pc = "again" /\ mgProbe' = [mgProbe EXCEPT !["poll"] = NoProbe]
  /\ UNCHANGED <<runtimeFile, bindingFile, probeFrame, mgDriver, mgFaults>>

(* Discover's second snapshot, then BindingSyncPending's *)
ProbeAgain(p) ==
  /\ mgProbe[p].pc = "again"
  /\ mgProbe' = [mgProbe EXCEPT ![p].pc = "pending", ![p].w = mgWorker]
  /\ UNCHANGED <<runtimeFile, bindingFile, probeFrame, mgDriver, mgFaults>>
ProbePending(p) ==
  /\ mgProbe[p].pc = "pending"
  /\ mgProbe' = [mgProbe EXCEPT ![p].pc = "replace", ![p].todo = BindingSyncPending]
  /\ UNCHANGED <<runtimeFile, bindingFile, probeFrame, mgDriver, mgFaults>>

(* synchronizePendingBindings, in the order of the plans *)
First(todo) == CHOOSE r \in todo : \A q \in todo : r <= q
ProbeReplace(p) ==
  LET w == mgProbe[p].w
      todo == mgProbe[p].todo
      r == First(todo)
      can == Place(w) = mgReq[r].dst /\ Replaceable(r, w)
  IN /\ mgProbe[p].pc = "replace"
     /\ \/ todo = {} /\ ProbeAt(p, "read") /\ UNCHANGED <<bindingFile, mgDriver, mgFaults>>
        \/ todo # {} /\ can /\ ReplaceBinding(r, w) /\ ProbeAt(p, "mark") /\ UNCHANGED <<mgDriver, mgFaults>>
        \/ todo # {} /\ ~can /\ ProbeFails(p) /\ UNCHANGED <<bindingFile, mgFaults>>
        \/ todo # {} /\ Fault /\ ProbeFails(p) /\ UNCHANGED bindingFile
     /\ UNCHANGED <<runtimeFile, probeFrame>>
ProbeMark(p) ==
  LET todo == mgProbe[p].todo
  IN /\ mgProbe[p].pc = "mark" /\ MarkBindingSynchronized(First(todo))
     /\ mgProbe' = [mgProbe EXCEPT ![p].pc = "replace", ![p].todo = todo \ {First(todo)}]
     /\ UNCHANGED <<bindingFile, probeFrame, mgDriver, mgFaults>>

(* hasManagedWorker decides what the helper advertises.  The driver's Probe    *)
(* reads the bindings, or goes on without them.                                *)
Managed(p) == mgProbe[p].w.st \notin {"failed", "terminated"}
ProbeRead ==
  /\ mgProbe["poll"].pc = "read"
  /\ \/ ~Managed("poll") /\ ProbeFails("poll")
     \/ /\ Managed("poll") /\ UNCHANGED mgDriver
        /\ \E seen \in {Place(mgBinding), Nowhere} :
             mgProbe' = [mgProbe EXCEPT !["poll"].pc = "receipts", !["poll"].known = seen]
  /\ UNCHANGED <<runtimeFile, bindingFile, probeFrame, mgFaults>>

(* refreshAfterMIGMutation finds the target, and executeAction keeps the result *)
Rediscovered ==
  LET r == mgProbe["refresh"].for
  IN /\ mgProbe["refresh"].pc = "read"
     /\ \/ ~Managed("refresh") /\ ProbeFails("refresh")
        \/ /\ Managed("refresh") /\ mgProbe' = [mgProbe EXCEPT !["refresh"] = NoProbe]
           /\ mgDriver' = [mgDriver EXCEPT !.known = mgReq[r].dst, !.avail = TRUE, !.done = @ \cup {r}]
     /\ UNCHANGED <<runtimeFile, bindingFile, probeFrame, mgFaults>>

(* WriteReceiptsCSV; the receipts may be unreadable, which is only a warning *)
Published(r) ==
  IF mgPhase[r] = "none" THEN "none" ELSE IF mgPhase[r] = "ok" /\ r \in mgSynced /\ mgHead = r THEN "ok" ELSE "failed"
ProbeReceipts ==
  /\ mgProbe["poll"].pc = "receipts" /\ mgProbe' = [mgProbe EXCEPT !["poll"] = NoProbe]
  /\ \E readable \in BOOLEAN :
       mgDriver' = [mgDriver EXCEPT !.known = mgProbe["poll"].known, !.avail = TRUE,
                                    !.recovered = [r \in Rebinds |-> IF readable THEN Published(r) ELSE "none"]]
  /\ UNCHANGED <<runtimeFile, bindingFile, probeFrame, mgFaults>>

-----------------------------------------------------------------------------
(* mutated: a release does not take the sandbox's mutation lock *)
ReleaseSandboxUnlocked ==
  /\ mgDriver.known # Nowhere /\ mgBinding.gen = mgDriver.known.gen
  /\ mgBinding' = [gen |-> 0, dev |-> 0, by |-> 0] /\ mgDriver' = [mgDriver EXCEPT !.known = Nowhere]
  /\ UNCHANGED <<runtimeFile, mgReplaced, mgReq, mgProc, mgRb, mgProbe, mgFaults, mgCrashes>>

(* A release by the driver, under the same lock: the binding file forgets the *)
(* sandbox, if the generation is still the one the driver knows.              *)
ReleaseSandbox ==
  /\ Unlocked /\ mgDriver.known # Nowhere /\ mgBinding.gen = mgDriver.known.gen
  /\ mgBinding' = [gen |-> 0, dev |-> 0, by |-> 0] /\ mgDriver' = [mgDriver EXCEPT !.known = Nowhere]
  /\ UNCHANGED <<runtimeFile, mgReplaced, mgReq, mgProc, mgRb, mgProbe, mgFaults, mgCrashes>>

WorkerDies ==
  /\ mgProc.st # "dead" /\ mgProc' = [mgProc EXCEPT !.st = "dead"]
  /\ UNCHANGED <<runtimeFile, bindingFile, mgReq, mgRb, mgProbe, mgDriver, mgFaults, mgCrashes>>

(* A helper is killed when its command times out *)
HelperKilled ==
  /\ Fault
  /\ \/ mgRb.pc # "idle" /\ HelperFails /\ UNCHANGED <<mgProbe, mgDriver>>
     \/ \E p \in DOMAIN mgProbe : mgProbe[p].pc # "idle" /\ ProbeFails(p) /\ UNCHANGED mgRb
  /\ UNCHANGED <<runtimeFile, bindingFile, mgReq, mgProc, mgCrashes>>

MgRestart ==
  /\ mgCrashes < MaxMgCrashes /\ mgCrashes' = mgCrashes + 1
  /\ mgRb' = NoRebind /\ mgProbe' = [p \in DOMAIN mgProbe |-> NoProbe] /\ mgDriver' = NewDriver
  /\ UNCHANGED <<runtimeFile, bindingFile, mgReq, mgProc, mgFaults>>

MgNext ==
  \/ \E r \in Rebinds : StartRebind(r)
  \/ BeginRebind \/ VerifyRebind \/ CallOrMutate \/ RecordPhase \/ FailRebind \/ CompleteRebind
  \/ SynchronizeBinding \/ MarkAndAnswer
  \/ Poll \/ RuntimeDiscovered \/ ProbeRead \/ ProbeReceipts \/ Rediscovered
  \/ \E p \in DOMAIN mgProbe :
       \/ ProbeSnapshot(p) \/ ProbeStatus(p) \/ ProbeRefresh(p) \/ ProbeSettle(p) \/ ProbeAgain(p)
       \/ ProbePending(p) \/ ProbeReplace(p) \/ ProbeMark(p)
  \/ ReleaseSandbox \/ WorkerDies \/ HelperKilled \/ MgRestart

-----------------------------------------------------------------------------
(* While the worker lives, the binding file names the place of the runtime    *)
(* file's worker, or one rebind accounts for the difference: it leads from    *)
(* the one to the other and its receipt is unfinished or not yet marked as    *)
(* synchronized, so that the next probe can still complete the binding write  *)
(* (Advance, ReplaceBinding, MarkBindingSynchronized, synchronizePendingBindings). *)
LagIsRecorded ==
  mgProc.st # "dead" /\ mgBinding.gen > 0 /\ Place(mgBinding) # Place(mgWorker)
  => \E r \in Rebinds : /\ mgReq[r] = [src |-> Place(mgBinding), dst |-> Place(mgWorker)]
                        /\ mgPhase[r] \in {"reconfigured", "reloaded"} \/ r \in BindingSyncPending

(* The driver answers a rebind it ran as done only when both files have the   *)
(* sandbox at its target and its receipt says so (Reconfigure,                *)
(* synchronizeBinding, executeAction), whatever replays, probes and kills     *)
(* came before.                                                               *)
AnsweredIsReal ==
  [][\A r \in mgDriver'.done \ mgDriver.done :
       /\ Place(mgBinding) = mgReq[r].dst /\ Place(mgWorker) = mgReq[r].dst
       /\ mgPhase[r] = "ok" /\ r \in mgSynced]_mgVars
===============================================================================

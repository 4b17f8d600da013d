--------------------------- MODULE OperatorWorker ---------------------------
(***************************************************************************)
(* The Operator's decision worker and observation manager                  *)
(* (operator-go/worker): the worker follows the scheduler's decisions from *)
(* a durable cursor, fences the one in flight with a durable delivery      *)
(* record, materializes its bundle, hands it over to a durable observation *)
(* registration and only then moves the cursor; one watcher per bundle     *)
(* publishes what the backend reports and cleans up a terminal bundle.     *)
(*                                                                         *)
(* A decision is its sequence number; it has one binding, hence one bundle *)
(* (compiler.Compile).  Files are written atomically (temporary file,      *)
(* fsync, rename).  Backend.Apply and Cleanup are atomic here; their steps *)
(* are those of OperatorBackend.  "ended" stands for TERMINATED and for    *)
(* FAILED; the ids that make a repeated publication idempotent (decision,  *)
(* state, generation, transition) are left out.                            *)
(***************************************************************************)
EXTENDS Integers, Sequences, FiniteSets

CONSTANTS OpKeys,        \* bundle keys
          OpLength,      \* bound: decisions of the stream
          MaxOpPauses,   \* bound: pauses of a job
          MaxOpCrashes   \* bound: crashes of the Operator
ASSUME OpAssumption == OpLength \in Nat

VARIABLES opStream,      \* the decision log: kind, bundle key, generation
          opCursor,      \* decision-cursor.json
          opDelivery,    \* delivery.json: the decision in flight, 0 for none
          opRegs,        \* delivery.json: observation registrations by bundle key
          opWork,        \* the backend's bundle of each key
          opApplied,     \* decisions whose bundle was applied
          opWorker,      \* the worker: step and decision
          opManager,     \* the observation manager: down, replaced, up
          opWatch,       \* the watcher of each key
          opStale,       \* a cancelled watcher that has not returned yet
          opEvents,      \* terminal events the Runtime has been sent
          opCrashes
opVars == <<opStream, opCursor, opDelivery, opRegs, opWork, opApplied, opWorker,
            opManager, opWatch, opStale, opEvents, opCrashes>>
opDisk == <<opCursor, opDelivery, opRegs>>

NoBundle == [gen |-> 0, dec |-> 0, phase |-> "none", pauses |-> 0]
NoState == "unknown"
NoReg == [gen |-> 0, dec |-> 0, seq |-> 0, last |-> NoState, pending |-> NoState]
NoWatcher == [pc |-> "none", reg |-> NoReg]
IdleWorker == [pc |-> "idle", at |-> 0]

(* Streams: shouldProcess sorts decisions into those that carry workload     *)
(* desired state and those that do not; an orphan's run is gone and its plan *)
(* has expired (handleMissingDependency).  Generations grow per key.         *)
OpStreams ==
  {s \in [1..OpLength -> [kind : {"bind", "skip", "orphan"}, key : OpKeys]] :
     \A i \in 1..OpLength : s[i].kind # "bind" => s[i].key = CHOOSE k \in OpKeys : TRUE}
GenOf(n) == Cardinality({i \in 1..n : opStream[i].kind = "bind" /\ opStream[i].key = opStream[n].key})

OpInit ==
  /\ opStream \in OpStreams
  /\ opCursor = 0 /\ opDelivery = 0
  /\ opRegs = [k \in OpKeys |-> NoReg] /\ opWork = [k \in OpKeys |-> NoBundle]
  /\ opApplied = {} /\ opWorker = IdleWorker /\ opManager = "down"
  /\ opWatch = [k \in OpKeys |-> NoWatcher] /\ opStale = [k \in OpKeys |-> NoWatcher]
  /\ opEvents = {} /\ opCrashes = 0

-----------------------------------------------------------------------------
(* The decision loop *)

(* RunOnce loads cursor and delivery, clears a delivery the cursor covers and *)
(* resumes an in-flight one from its predecessor.                             *)
ResumeAfter == IF opDelivery > opCursor THEN opDelivery - 1 ELSE opCursor
(* Mutant: an in-flight delivery is taken for done. *)
RunOnceForgets ==
  /\ opWorker.pc = "idle" /\ opDelivery' = 0
  /\ opWorker' = [pc |-> "recv", at |-> IF opDelivery > opCursor THEN opDelivery + 1 ELSE opCursor + 1]
  /\ UNCHANGED <<opStream, opCursor, opRegs, opWork, opApplied, opManager, opWatch, opStale,
                 opEvents, opCrashes>>
RunOnce ==
  /\ opWorker.pc = "idle"
  /\ opDelivery' = IF opDelivery <= opCursor THEN 0 ELSE opDelivery
  /\ opWorker' = [pc |-> "recv", at |-> ResumeAfter + 1]
  /\ UNCHANGED <<opStream, opCursor, opRegs, opWork, opApplied, opManager, opWatch, opStale,
                 opEvents, opCrashes>>

(* startOrResumeDelivery: a different unfinished delivery is an error *)
StartDelivery ==
  LET n == opWorker.at
  IN /\ opWorker.pc = "recv" /\ n <= OpLength
     /\ IF opDelivery \notin {0, n}
        THEN opWorker' = IdleWorker /\ UNCHANGED opDelivery
        ELSE /\ opDelivery' = n
             /\ opWorker' = [pc |-> IF opStream[n].kind = "bind" THEN "reconcile" ELSE "cursor", at |-> n]
     /\ UNCHANGED <<opStream, opCursor, opRegs, opWork, opApplied, opManager, opWatch, opStale,
                    opEvents, opCrashes>>

(* Reconcile, through Backend.Apply: a lower generation is refused, the same  *)
(* one is idempotent, a higher one replaces the bundle and its objects.       *)
Applies(n) == opWork[opStream[n].key].gen <= GenOf(n)
ApplyBundle(n) ==
  LET k == opStream[n].key
  IN [opWork EXCEPT ![k] =
        IF @.gen = GenOf(n) THEN @
        ELSE [gen |-> GenOf(n), dec |-> n, phase |-> "created", pauses |-> 0]]
ReconcileDecision ==
  LET n == opWorker.at
  IN /\ opWorker.pc = "reconcile"
     /\ IF Applies(n)
        THEN /\ opWork' = ApplyBundle(n) /\ opApplied' = opApplied \cup {n}
             /\ opWorker' = [opWorker EXCEPT !.pc = "register"]
        ELSE opWorker' = IdleWorker /\ UNCHANGED <<opWork, opApplied>>
     /\ UNCHANGED <<opStream, opCursor, opDelivery, opRegs, opManager, opWatch, opStale, opEvents,
                    opCrashes>>

(* sameRegistration, where a sequence of 0 (recovered) matches any *)
SameRegistration(left, right) ==
  /\ left.dec = right.dec /\ left.gen = right.gen
  /\ left.seq = 0 \/ right.seq = 0 \/ left.seq = right.seq
SameVersion(left, right) == SameRegistration(left, right) /\ left.seq = right.seq

NewRegistration(n) == [NoReg EXCEPT !.gen = GenOf(n), !.dec = n, !.seq = n]
Superseding(old, new) ==
  IF old.gen # new.gen THEN new ELSE [new EXCEPT !.last = old.last]

(* startLocked: nothing before the manager accepts, one watcher per key *)
StartWatcher(watch, k) ==
  IF opManager = "up" /\ watch[k].pc = "none" THEN [watch EXCEPT ![k] = [NoWatcher EXCEPT !.pc = "load"]]
  ELSE watch

(* Register: keep the same registration, replace an older decision's and its  *)
(* watcher, refuse anything else.                                             *)
Register ==
  LET n == opWorker.at
      k == opStream[n].key
      old == opRegs[k]
      new == NewRegistration(n)
      same == old # NoReg /\ SameRegistration(old, new)
      restart == old # NoReg /\ ~same /\ new.seq > old.seq
  IN /\ opWorker.pc = "register"
     /\ IF old = NoReg \/ same \/ restart
        THEN /\ opRegs' = [opRegs EXCEPT ![k] = IF old = NoReg THEN new
                                                ELSE IF same THEN old ELSE Superseding(old, new)]
             /\ opWorker' = [opWorker EXCEPT !.pc = "cursor"]
             /\ opStale' = IF restart /\ opWatch[k].pc # "none" THEN [opStale EXCEPT ![k] = opWatch[k]]
                           ELSE opStale
             /\ opWatch' = StartWatcher(IF restart THEN [opWatch EXCEPT ![k] = NoWatcher] ELSE opWatch, k)
        ELSE opWorker' = IdleWorker /\ UNCHANGED <<opRegs, opStale, opWatch>>
     /\ restart => opStale[k].pc = "none"
     /\ UNCHANGED <<opStream, opCursor, opDelivery, opWork, opApplied, opManager, opEvents, opCrashes>>

(* completeDelivery: the cursor first, the delivery record after it *)
SaveCursor ==
  /\ opWorker.pc = "cursor"
  /\ opCursor' = opWorker.at /\ opWorker' = [opWorker EXCEPT !.pc = "clear"]
  /\ UNCHANGED <<opStream, opDelivery, opRegs, opWork, opApplied, opManager, opWatch, opStale,
                 opEvents, opCrashes>>
ClearDelivery ==
  /\ opWorker.pc = "clear"
  /\ opDelivery' = 0 /\ opWorker' = [pc |-> "recv", at |-> opWorker.at + 1]
  /\ UNCHANGED <<opStream, opCursor, opRegs, opWork, opApplied, opManager, opWatch, opStale,
                 opEvents, opCrashes>>

(* Any call of the loop may fail, and so may the stream: runDecisions retries. *)
LoopFails ==
  /\ opWorker.pc # "idle" /\ opWorker' = IdleWorker
  /\ UNCHANGED <<opStream, opDisk, opWork, opApplied, opManager, opWatch, opStale, opEvents, opCrashes>>

-----------------------------------------------------------------------------
(* The observation manager *)

(* registrationFromBundle: no sequence, nothing published *)
RecoveredFrom(bundle) == [NoReg EXCEPT !.gen = bundle.gen, !.dec = bundle.dec]

(* Run keeps the registrations whose bundle is materialized and adds one for  *)
(* every other materialized bundle, ReplaceRegistrations writes them at once. *)
RecoverRegistrations ==
  /\ opManager = "down" /\ opManager' = "replaced"
  /\ opRegs' = [k \in OpKeys |-> IF opWork[k] = NoBundle THEN NoReg
                                 ELSE IF opRegs[k] # NoReg THEN opRegs[k]
                                 ELSE RecoveredFrom(opWork[k])]
  /\ UNCHANGED <<opStream, opCursor, opDelivery, opWork, opApplied, opWorker, opWatch, opStale,
                 opEvents, opCrashes>>

(* Run accepts, reloads the registrations and starts their watchers. *)
AcceptRegistrations ==
  /\ opManager = "replaced" /\ opManager' = "up"
  /\ opWatch' = [k \in OpKeys |-> IF opRegs[k] = NoReg THEN opWatch[k] ELSE [NoWatcher EXCEPT !.pc = "load"]]
  /\ UNCHANGED <<opStream, opDisk, opWork, opApplied, opWorker, opStale, opEvents, opCrashes>>

-----------------------------------------------------------------------------
(* A watcher: w is opWatch[k] or the cancelled opStale[k] *)

(* Project on what a poll of the objects of generation reg.gen reports; the   *)
(* objects of a replaced generation are gone, or read while they go.          *)
Project(reg, bundle) ==
  IF bundle.gen # reg.gen THEN {"error", "ended"}
  ELSE CASE bundle.phase = "created" -> {NoState}
         [] bundle.phase = "admitted" -> {"bound"}
         [] bundle.phase = "suspended" -> {"paused"}
         [] bundle.phase = "active" -> {"running", "bound"}
         [] bundle.phase = "over" -> {"ended"}

(* shouldPublishTransition *)
ShouldPublish(reg, next) ==
  IF reg.pending # NoState THEN reg.pending = next
  ELSE next # reg.last /\ (next = "bound" => reg.last = NoState)

Exit(stale) == IF stale THEN NoWatcher ELSE [NoWatcher EXCEPT !.pc = "load"]
SetWatcher(stale, k, w) ==
  IF stale THEN opStale' = [opStale EXCEPT ![k] = w] /\ UNCHANGED opWatch
  ELSE opWatch' = [opWatch EXCEPT ![k] = w] /\ UNCHANGED opStale
Watcher(stale, k) == IF stale THEN opStale[k] ELSE opWatch[k]

(* saveRegistration under its version check: next on success, else an error *)
SaveReg(stale, k, reg, next) ==
  IF opRegs[k] # NoReg /\ SameVersion(opRegs[k], reg)
  THEN opRegs' = [opRegs EXCEPT ![k] = reg] /\ SetWatcher(stale, k, [pc |-> next, reg |-> reg])
  ELSE UNCHANGED opRegs /\ SetWatcher(stale, k, Exit(stale))
(* deleteRegistration: true of an absent one, an error of a replaced one *)
DeleteReg(stale, k, reg) ==
  IF opRegs[k] = NoReg \/ SameVersion(opRegs[k], reg)
  THEN opRegs' = [opRegs EXCEPT ![k] = NoReg] /\ SetWatcher(stale, k, NoWatcher)
  ELSE UNCHANGED opRegs /\ SetWatcher(stale, k, Exit(stale))

(* watch reads its registration; without one, or cancelled, it returns *)
WatchLoad(stale, k) ==
  /\ Watcher(stale, k).pc = "load"
  /\ SetWatcher(stale, k, IF stale \/ opRegs[k] = NoReg THEN NoWatcher
                          ELSE [pc |-> "observe", reg |-> opRegs[k]])
  /\ UNCHANGED <<opStream, opDisk, opWork, opApplied, opWorker, opManager, opEvents, opCrashes>>

(* A poll: an absent marker deletes the registration, a new transition is made *)
(* durable as pending before it is published.                                  *)
Observe(stale, k) ==
  LET w == Watcher(stale, k)
      pendingOn(s) == IF w.reg.pending # NoState THEN w.reg
                      ELSE [w.reg EXCEPT !.pending = s]
  IN /\ w.pc = "observe"
     /\ IF opWork[k] = NoBundle THEN DeleteReg(stale, k, w.reg)
        ELSE \E s \in Project(w.reg, opWork[k]) :
               IF s = "error" THEN UNCHANGED opRegs /\ SetWatcher(stale, k, Exit(stale))
               ELSE /\ s # NoState /\ ShouldPublish(w.reg, s)
                    /\ SaveReg(stale, k, pendingOn(s), "publish")
     /\ UNCHANGED <<opStream, opCursor, opDelivery, opWork, opApplied, opWorker, opManager,
                    opEvents, opCrashes>>

(* Publish: the Runtime may have the event although the call fails. *)
PublishEvent(stale, k) ==
  LET w == Watcher(stale, k)
  IN /\ w.pc = "publish"
     /\ opEvents' = IF w.reg.pending = "ended" THEN opEvents \cup {w.reg.dec} ELSE opEvents
     /\ SetWatcher(stale, k, [w EXCEPT !.pc = "published"])
     /\ UNCHANGED <<opStream, opDisk, opWork, opApplied, opWorker, opManager, opCrashes>>
RecordPublished(stale, k) ==
  LET w == Watcher(stale, k)
  IN /\ w.pc = "published"
     /\ SaveReg(stale, k, w.reg, "settle")
     /\ UNCHANGED <<opStream, opCursor, opDelivery, opWork, opApplied, opWorker, opManager,
                    opEvents, opCrashes>>

(* Mutant: the cleanup is not fenced by the generation. *)
CleanedAny(k, gen) == [opWork EXCEPT ![k] = NoBundle]
(* Backend.Cleanup acts on the registered generation only. *)
Cleaned(k, gen) == IF opWork[k].gen = gen THEN [opWork EXCEPT ![k] = NoBundle] ELSE opWork
SettleTerminal(stale, k) ==
  LET w == Watcher(stale, k)
  IN /\ w.pc = "settle" /\ w.reg.pending = "ended"
     /\ opWork' = Cleaned(k, w.reg.gen)
     /\ SetWatcher(stale, k, [w EXCEPT !.pc = "forget"])
     /\ UNCHANGED <<opStream, opDisk, opApplied, opWorker, opManager, opEvents, opCrashes>>
ForgetTerminal(stale, k) ==
  LET w == Watcher(stale, k)
  IN /\ w.pc = "forget" /\ DeleteReg(stale, k, w.reg)
     /\ UNCHANGED <<opStream, opCursor, opDelivery, opWork, opApplied, opWorker, opManager,
                    opEvents, opCrashes>>
Settle(stale, k) ==
  LET w == Watcher(stale, k)
      s == w.reg.pending
  IN /\ w.pc = "settle" /\ s # "ended"
     /\ SaveReg(stale, k, [w.reg EXCEPT !.last = s, !.pending = NoState], "observe")
     /\ UNCHANGED <<opStream, opCursor, opDelivery, opWork, opApplied, opWorker, opManager,
                    opEvents, opCrashes>>

(* The stream ends or any call fails: the watcher retries, a cancelled one ends. *)
WatchFails(stale, k) ==
  /\ Watcher(stale, k).pc \notin {"none", "load"}
  /\ SetWatcher(stale, k, Exit(stale))
  /\ UNCHANGED <<opStream, opDisk, opWork, opApplied, opWorker, opManager, opEvents, opCrashes>>

-----------------------------------------------------------------------------
(* The cluster: admission, start, suspension by a committed control, the end. *)
JobMoves(k) ==
  LET b == opWork[k]
      to(p) == opWork' = [opWork EXCEPT ![k].phase = p]
  IN /\ \/ b.phase = "created" /\ to("admitted")
        \/ b.phase = "admitted" /\ to("active")
        \/ b.phase = "active" /\ b.pauses < MaxOpPauses
           /\ opWork' = [opWork EXCEPT ![k].phase = "suspended", ![k].pauses = @ + 1]
        \/ b.phase = "suspended" /\ to("active")
        \/ b.phase = "active" /\ to("over")
     /\ UNCHANGED <<opStream, opDisk, opApplied, opWorker, opManager, opWatch, opStale, opEvents, opCrashes>>

OperatorCrash ==
  /\ opCrashes < MaxOpCrashes /\ opCrashes' = opCrashes + 1
  /\ opWorker' = IdleWorker /\ opManager' = "down"
  /\ opWatch' = [k \in OpKeys |-> NoWatcher] /\ opStale' = [k \in OpKeys |-> NoWatcher]
  /\ UNCHANGED <<opStream, opDisk, opWork, opApplied, opEvents>>

WatchStep(stale, k) ==
  \/ WatchLoad(stale, k) \/ Observe(stale, k) \/ PublishEvent(stale, k) \/ RecordPublished(stale, k)
  \/ Settle(stale, k) \/ SettleTerminal(stale, k) \/ ForgetTerminal(stale, k)

OpNext ==
  \/ RunOnce \/ StartDelivery \/ ReconcileDecision \/ Register \/ SaveCursor \/ ClearDelivery \/ LoopFails
  \/ RecoverRegistrations \/ AcceptRegistrations
  \/ \E stale \in BOOLEAN, k \in OpKeys : WatchStep(stale, k) \/ WatchFails(stale, k)
  \/ \E k \in OpKeys : JobMoves(k)
  \/ OperatorCrash

-----------------------------------------------------------------------------
(* No decision is passed over: the durable cursor is past a decision that    *)
(* carries workload state only when its bundle was applied, however the      *)
(* cursor, the delivery record and crashes interleave (RunOnce,              *)
(* startOrResumeDelivery, completeDelivery).                                 *)
NoDecisionSkipped ==
  \A n \in 1..opCursor : opStream[n].kind = "bind" => n \in opApplied

(* A bundle leaves the backend only after the Runtime was sent the terminal  *)
(* event of the very decision that made it: the watcher of an older          *)
(* generation, cancelled or late, never cleans up a newer one (Cleanup,      *)
(* publishSnapshot).                                                         *)
CleanupIsEarned ==
  [][\A k \in OpKeys : opWork[k] # NoBundle /\ opWork'[k] = NoBundle =>
       opWork[k].dec \in opEvents]_opVars

(* What the hand-over promises: once the cursor has passed the decision that *)
(* made a bundle, the bundle has a registration, so some watcher observes it *)
(* (Register before completeDelivery).  The code does not keep it when a     *)
(* replayed delivery meets the clean-up of its first one.                    *)
HandoverIsCovered ==
  \A k \in OpKeys : opWork[k] # NoBundle /\ opWork[k].dec <= opCursor => opRegs[k] # NoReg

(* What observation promises: a job that has ended is eventually published   *)
(* as terminal and its bundle cleaned up (publishSnapshot).  The code does   *)
(* not keep it: a pending transition waits for a state that is over.         *)
EndedIsCleaned ==
  \A k \in OpKeys : opWork[k].phase = "over" ~> opWork[k].phase # "over"

OpSpec == OpInit /\ [][OpNext]_opVars
(* Every retried call succeeds in the end. *)
OpFairness ==
  /\ WF_opVars(RunOnce) /\ SF_opVars(StartDelivery) /\ SF_opVars(ReconcileDecision) /\ SF_opVars(Register)
  /\ SF_opVars(SaveCursor) /\ SF_opVars(ClearDelivery)
  /\ WF_opVars(RecoverRegistrations) /\ WF_opVars(AcceptRegistrations)
  /\ \A k \in OpKeys :
       /\ WF_opVars(WatchLoad(FALSE, k)) /\ SF_opVars(Observe(FALSE, k)) /\ SF_opVars(PublishEvent(FALSE, k))
       /\ SF_opVars(RecordPublished(FALSE, k)) /\ SF_opVars(Settle(FALSE, k))
       /\ SF_opVars(SettleTerminal(FALSE, k)) /\ SF_opVars(ForgetTerminal(FALSE, k))
OpFairSpec == OpSpec /\ OpFairness
=============================================================================

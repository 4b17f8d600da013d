------------------------------ MODULE DecisionLog ------------------------------
(***************************************************************************)
(* The decision log of the Scheduler service and its recovery: decisions   *)
(* are appended under one lock (s.mu), saved in the checkpoint before they *)
(* become visible, retained up to a bound, streamed to a watcher, and      *)
(* restored at start-up together with the plan transactions.               *)
(*                                                                         *)
(* A key's worker evaluates, stages and saves its pending audit with the   *)
(* plan lock (planMu) held, executes the plan WITHOUT it, and takes it     *)
(* again to append the decision.  Executors save whole checkpoints while   *)
(* they run.  Timestamps are a logical clock: only their order matters.    *)
(***************************************************************************)
EXTENDS Naturals, Sequences, FiniteSets, SequencesExt

CONSTANTS
  Plans,        \* plan identities, numbered in the order of their transaction IDs
  Failures,     \* deterministic identities of failure decisions
  Details,      \* the error details a failure decision may carry
  Retention,    \* DecisionRetention
  MaxSteps,     \* advances of a transaction before it is finalized
  MaxSequence,  \* bound on committed decisions
  MaxFaults,    \* bound on failed saves
  MaxCrashes,   \* bound on crashes
  Refusals      \* bound on admissions the protection guard refuses after staging

ASSUME LogAssumption ==
  /\ Plans \subseteq Nat /\ IsFiniteSet(Plans) /\ Retention \in Nat \ {0}
  /\ MaxSteps \in Nat /\ MaxSequence \in Nat /\ MaxFaults \in Nat /\ MaxCrashes \in Nat /\ Refusals \in Nat

VARIABLES
  log,      \* s.decisions
  cursor,   \* s.sequence
  txn,      \* the transactions in the Store
  before,   \* the Store export taken before the staged reservation
  mu,       \* holder of planMu: a plan, or 0
  pc,       \* where the worker of each plan is
  held,     \* the generation the executor of each plan holds
  decided,  \* evaluation time of each plan's decision
  gate,     \* "closed" once persistenceErr is set
  boot,     \* the process: down, restoring, auditing, up, refused
  toAudit,  \* transactions recovery has still to audit
  recovered,\* the decisions read from the checkpoint at start-up
  culprit,  \* the transaction a refused start-up could not account for, or 0
  disk,     \* the durable checkpoint
  stream,   \* the watcher: its cursor, the batch being sent, its status
  seen,     \* history: what the watcher received
  effects,  \* history: plans whose provider steps may have run
  audited,  \* history: plans with a pending or committed audit in some checkpoint
  clock, faults, crashes, refusals

memory == <<log, cursor, txn, before, mu, held, decided>>
recovery == <<toAudit, recovered, culprit>>
watcher == <<stream, seen>>
bounds == <<faults, crashes, refusals>>
vars == <<memory, pc, gate, boot, recovery, disk, watcher, effects, audited, clock, bounds>>

Idle == [st |-> "none", gen |-> 0, at |-> 0]
NoTransactions == [p \in Plans |-> Idle]
NoPlan == 0
Entry(id, detail, seq, at) == [id |-> id, detail |-> detail, seq |-> seq, decided |-> at]
Decision(p, seq) == Entry(p, "-", seq, decided[p])

Committed(entries) == SelectSeq(entries, LAMBDA e : e.seq # 0)
Pending(entries) == SelectSeq(entries, LAMBDA e : e.seq = 0)
IsCommitted(id, entries) ==
  \E i \in DOMAIN entries : entries[i].id = id /\ entries[i].seq # 0
IsPending(id, entries) ==
  \E i \in DOMAIN entries : entries[i].id = id /\ entries[i].seq = 0
Oldest(entries) == IF Committed(entries) = <<>> THEN 0 ELSE Head(Committed(entries)).seq
Audits(entries) == {p \in Plans : \E i \in DOMAIN entries : entries[i].id = p}

Init ==
  /\ log = <<>> /\ cursor = 0 /\ txn = NoTransactions /\ before = NoTransactions /\ mu = NoPlan
  /\ pc = [p \in Plans |-> "idle"] /\ held = [p \in Plans |-> 0] /\ decided = [p \in Plans |-> 0]
  /\ gate = "open" /\ boot = "up" /\ toAudit = {} /\ recovered = <<>> /\ culprit = NoPlan
  /\ disk = [log |-> <<>>, cursor |-> 0, txn |-> NoTransactions]
  /\ stream = [cursor |-> 0, batch |-> <<>>, status |-> "open"] /\ seen = {}
  /\ effects = {} /\ audited = {} /\ clock = 1 /\ faults = 0 /\ crashes = 0 /\ refusals = 0

\* The oldest committed decisions are dropped; pending audits never are.
RetainDecisions(entries) ==
  LET drop == Len(Committed(entries)) - Retention
      last == Committed(entries)[drop].seq
  IN  IF drop <= 0 THEN entries
      ELSE SelectSeq(entries, LAMBDA e : e.seq = 0 \/ e.seq > last)

WithoutPending(entries, id) == SelectSeq(entries, LAMBDA e : e.seq # 0 \/ e.id # id)

\* SaveCheckpoint: a temporary file is synced and renamed over the checkpoint,
\* then the directory is synced.  A failure closes the gate for good; a failure
\* of the last sync leaves the new checkpoint in place.  Behind a closed gate
\* nothing is saved.
NoSave == UNCHANGED <<disk, gate, faults, audited>>
SaveCheckpoint(entries, sequence, transactions, outcome) ==
  \/ gate = "closed" /\ outcome = "lost" /\ NoSave
  \/ /\ gate = "open"
     /\ outcome = "ok" \/ faults < MaxFaults
     /\ disk' = IF outcome = "lost" THEN disk ELSE [log |-> entries, cursor |-> sequence, txn |-> transactions]
     /\ gate' = IF outcome = "ok" THEN "open" ELSE "closed"
     /\ faults' = IF outcome = "ok" THEN faults ELSE faults + 1
     /\ audited' = IF outcome = "lost" THEN audited ELSE audited \cup Audits(entries)
SaveOutcomes == {"ok", "lost", "written"}

\* Mutant: the decision is published before it is saved.
AppendPublishesFirst(entry, transactions, outcome) ==
  LET entries == RetainDecisions(Append(WithoutPending(log, entry.id), [entry EXCEPT !.seq = cursor + 1]))
  IN  /\ SaveCheckpoint(entries, cursor + 1, transactions, outcome)
      /\ log' = entries /\ cursor' = cursor + 1

\* appendDecision: the decision replaces its pending audit, takes the next
\* sequence and is visible only when the checkpoint holding both is saved.
AppendDecision(entry, transactions, outcome) ==
  LET entries == RetainDecisions(Append(WithoutPending(log, entry.id), [entry EXCEPT !.seq = cursor + 1]))
  IN  /\ SaveCheckpoint(entries, cursor + 1, transactions, outcome)
      /\ log' = IF outcome = "ok" THEN entries ELSE log
      /\ cursor' = IF outcome = "ok" THEN cursor + 1 ELSE cursor

--------------------------------------------------------------------------------
(* The workers. *)

Serving == boot = "up"
Workers == <<boot, recovery, watcher, crashes>>

\* Evaluation and Stage: the transaction is in the Store, not yet saved.
Evaluate(p) ==
  /\ Serving /\ mu = NoPlan /\ pc[p] = "idle"
  /\ mu' = p /\ before' = txn
  /\ txn' = [txn EXCEPT ![p] = [Idle EXCEPT !.st = "open"]]
  /\ decided' = [decided EXCEPT ![p] = clock]
  /\ pc' = [pc EXCEPT ![p] = "staged"] /\ held' = [held EXCEPT ![p] = 0]
  /\ UNCHANGED <<log, cursor, effects, refusals, clock, Workers>> /\ NoSave

\* A fallback, an empty plan, or a plan that policy, capability or reservation
\* refuses: the decision is appended without a transaction.
EvaluateFallback(p, outcome) ==
  /\ Serving /\ mu = NoPlan /\ pc[p] = "idle" /\ cursor < MaxSequence
  /\ AppendDecision(Entry(p, "-", 0, clock), txn, outcome)
  /\ pc' = [pc EXCEPT ![p] = IF outcome = "lost" THEN "idle" ELSE "done"]
  /\ UNCHANGED <<txn, before, mu, held, decided, effects, refusals, clock, Workers>>

\* A protection guard that refuses the staged plan: the whole Store is put back
\* to the export taken before the reservation.
RefuseAdmission(p, outcome) ==
  /\ Serving /\ mu = p /\ pc[p] = "staged" /\ refusals < Refusals /\ cursor < MaxSequence
  /\ txn' = before
  /\ AppendDecision(Decision(p, 0), before, outcome)
  /\ mu' = NoPlan /\ refusals' = refusals + 1
  /\ pc' = [pc EXCEPT ![p] = IF outcome = "lost" THEN "idle" ELSE "done"]
  /\ UNCHANGED <<before, held, decided, effects, clock, Workers>>

\* checkpointPendingDecision; when it fails the Store is put back.
CheckpointPendingDecision(p, outcome) ==
  LET entries == Append(WithoutPending(log, p), Decision(p, 0))
  IN  /\ Serving /\ mu = p /\ pc[p] = "staged"
      /\ SaveCheckpoint(entries, cursor, txn, outcome)
      /\ log' = IF outcome = "ok" THEN entries ELSE log
      /\ txn' = IF outcome = "ok" THEN txn ELSE before
      /\ pc' = [pc EXCEPT ![p] = IF outcome = "ok" THEN "running" ELSE "idle"]
      /\ mu' = NoPlan
      /\ effects' = IF outcome = "ok" THEN effects \cup {p} ELSE effects
      /\ UNCHANGED <<cursor, before, held, decided, refusals, clock, Workers>>

\* One advance of the executor and its save.  The Store rejects an executor
\* whose generation is not current.  A failed save ends the execution: the
\* worker leaves the last durable transaction to the next start.
Advance(p, outcome) ==
  /\ Serving /\ pc[p] = "running" /\ txn[p].gen = held[p] /\ held[p] < MaxSteps
  /\ txn' = [txn EXCEPT ![p].gen = @ + 1] /\ held' = [held EXCEPT ![p] = @ + 1]
  /\ SaveCheckpoint(log, cursor, txn', outcome)
  /\ pc' = [pc EXCEPT ![p] = IF outcome = "ok" THEN "running" ELSE "stuck"]
  /\ UNCHANGED <<log, cursor, before, mu, decided, effects, refusals, clock, Workers>>

Finalize(p, outcome) ==
  /\ Serving /\ pc[p] = "running" /\ txn[p].gen = held[p]
  /\ txn' = [txn EXCEPT ![p] = [st |-> "final", gen |-> @.gen + 1, at |-> clock + 1]]
  /\ clock' = clock + 1
  /\ SaveCheckpoint(log, cursor, txn', outcome)
  /\ pc' = [pc EXCEPT ![p] = IF outcome = "ok" THEN "decided" ELSE "stuck"]
  /\ UNCHANGED <<log, cursor, before, mu, held, decided, effects, refusals, Workers>>

\* The transaction changed under the executor: the plan counts as failed and
\* its decision is recorded although the transaction is still open.
ExecutorConflict(p) ==
  /\ Serving /\ pc[p] = "running" /\ txn[p].gen # held[p]
  /\ pc' = [pc EXCEPT ![p] = IF gate = "open" THEN "decided" ELSE "stuck"]
  /\ UNCHANGED <<memory, effects, refusals, clock, Workers>> /\ NoSave

RecordDecision(p, outcome) ==
  /\ Serving /\ mu = NoPlan /\ pc[p] = "decided" /\ cursor < MaxSequence
  /\ AppendDecision(Decision(p, 0), txn, outcome)
  /\ pc' = [pc EXCEPT ![p] = IF outcome = "ok" THEN "done" ELSE "stuck"]
  /\ UNCHANGED <<txn, before, mu, held, decided, effects, refusals, clock, Workers>>

\* appendFailureDecision: an identical audit is not appended twice.
AppendFailure(f, detail, outcome) ==
  /\ Serving /\ cursor < MaxSequence
  /\ IF \E i \in DOMAIN log : log[i].id = f /\ log[i].detail = detail
     THEN SaveCheckpoint(log, cursor, txn, outcome) /\ UNCHANGED <<log, cursor>>
     ELSE AppendDecision(Entry(f, detail, 0, clock), txn, outcome)
  /\ UNCHANGED <<txn, before, mu, pc, held, decided, effects, refusals, clock, Workers>>

WorkerStep(p) ==
  \/ Evaluate(p) \/ ExecutorConflict(p)
  \/ \E outcome \in SaveOutcomes :
       \/ EvaluateFallback(p, outcome) \/ RefuseAdmission(p, outcome)
       \/ CheckpointPendingDecision(p, outcome)
       \/ Advance(p, outcome) \/ Finalize(p, outcome) \/ RecordDecision(p, outcome)

--------------------------------------------------------------------------------
(* The watcher, one WatchDecisions stream that its client reopens. *)

\* Mutant: the cursor is not compared with the retained window.
ReadBatchUnchecked ==
  /\ Serving /\ stream.status = "open" /\ stream.batch = <<>>
  /\ LET entries == SelectSeq(log, LAMBDA e : e.seq > stream.cursor)
     IN  entries # <<>> /\ stream' = [stream EXCEPT !.batch = entries]
  /\ UNCHANGED <<memory, pc, gate, boot, recovery, disk, seen, effects, audited, clock, bounds>>

\* The loop of WatchDecisions reads the decisions after its cursor, or gives up
\* when some of them are no longer retained.
ReadBatch ==
  /\ Serving /\ stream.status = "open" /\ stream.batch = <<>>
  /\ LET entries == SelectSeq(log, LAMBDA e : e.seq > stream.cursor)
     IN  IF stream.cursor > 0 /\ Oldest(log) > 0 /\ stream.cursor + 1 < Oldest(log)
         THEN stream' = [stream EXCEPT !.status = "out_of_range"]
         ELSE entries # <<>> /\ stream' = [stream EXCEPT !.batch = entries]
  /\ UNCHANGED <<memory, pc, gate, boot, recovery, disk, seen, effects, audited, clock, bounds>>

Send ==
  /\ Serving /\ stream.batch # <<>>
  /\ stream' = [stream EXCEPT !.cursor = Head(stream.batch).seq, !.batch = Tail(stream.batch)]
  /\ seen' = seen \cup {Head(stream.batch)}
  /\ UNCHANGED <<memory, pc, gate, boot, recovery, disk, effects, audited, clock, bounds>>

--------------------------------------------------------------------------------
(* Crash and start-up. *)

\* Plan identities are not used twice: a plan known to the checkpoint, or whose
\* decision was committed, is over; any other may be evaluated again.
Crash ==
  /\ boot # "down" /\ crashes < MaxCrashes /\ crashes' = crashes + 1
  /\ boot' = "down" /\ gate' = "open"
  /\ log' = <<>> /\ cursor' = 0 /\ txn' = NoTransactions /\ before' = NoTransactions /\ mu' = NoPlan
  /\ held' = [p \in Plans |-> 0] /\ decided' = [p \in Plans |-> 0]
  /\ pc' = [p \in Plans |-> IF pc[p] = "done" \/ p \in audited \/ disk.txn[p].st # "none" THEN "done" ELSE "idle"]
  /\ toAudit' = {} /\ recovered' = <<>> /\ culprit' = NoPlan
  /\ stream' = [stream EXCEPT !.batch = <<>>]
  /\ UNCHANGED <<disk, seen, effects, audited, clock, faults, refusals>>

\* A start-up that failed exits; the service is started again.
StartFails(plan) == boot' = "refused" /\ culprit' = plan

\* Recovered decisions that share an identity are one decision only if they
\* are the same failure audit (the latest is kept).
Conflicting(entries) ==
  \E i, j \in DOMAIN entries : i < j /\ entries[i].id = entries[j].id /\
    ~(entries[i].id \in Failures /\ entries[i].detail = entries[j].detail)
Deduplicated(entries) ==
  LET keep(i) == ~\E j \in DOMAIN entries : j > i /\ entries[j].id = entries[i].id
  IN  FoldLeft(LAMBDA acc, i : IF keep(i) THEN Append(acc, entries[i]) ELSE acc, <<>>, [i \in DOMAIN entries |-> i])

\* OpenAndRecover, RestoreStore and RestoreDecisions.
RestoreDecisions ==
  /\ boot \in {"down", "refused"}
  /\ IF Conflicting(disk.log)
     THEN StartFails(NoPlan) /\ UNCHANGED <<memory, toAudit, recovered>>
     ELSE /\ log' = RetainDecisions(Deduplicated(Committed(disk.log)) \o Pending(disk.log))
          /\ cursor' = disk.cursor /\ txn' = disk.txn /\ before' = NoTransactions /\ mu' = NoPlan
          /\ recovered' = disk.log /\ toAudit' = {} /\ boot' = "restoring" /\ culprit' = NoPlan
          /\ UNCHANGED <<held, decided>>
  /\ UNCHANGED <<pc, watcher, effects, clock, crashes, refusals>> /\ NoSave

Open == {p \in Plans : txn[p].st = "open"}
LeastOf(S) == CHOOSE p \in S : \A q \in S : p <= q

\* ResumeAll: each open transaction, in the order of its ID, is driven to a
\* terminal state and saved.
ResumeTransaction(outcome) ==
  /\ boot = "restoring" /\ Open # {}
  /\ LET p == LeastOf(Open)
     IN  /\ txn' = [txn EXCEPT ![p] = [st |-> "final", gen |-> MaxSteps + 1, at |-> clock + 1]]
         /\ SaveCheckpoint(log, cursor, txn', outcome)
         /\ effects' = effects \cup {p}
         /\ IF outcome = "ok" THEN UNCHANGED <<boot, culprit>> ELSE boot' = "down" /\ UNCHANGED culprit
  /\ clock' = clock + 1
  /\ UNCHANGED <<log, cursor, before, mu, pc, held, decided, toAudit, recovered, watcher, crashes, refusals>>

AuditTransactions ==
  /\ boot = "restoring" /\ Open = {}
  /\ toAudit' = {p \in Plans : txn[p].st = "final"} /\ boot' = "auditing"
  /\ UNCHANGED <<memory, pc, recovered, culprit, watcher, effects, clock, crashes, refusals>> /\ NoSave

\* Was the audit of a transaction finalized at this time evicted?  The answer
\* compares it with the evaluation of the oldest decision of the checkpoint.
TerminalAuditPrecedesRetention(at) ==
  /\ Oldest(recovered) > 1
  /\ at <= Head(Committed(recovered)).decided

\* Mutant: a transaction without a committed decision is taken as audited.
AuditTransactionTrusting(outcome) ==
  /\ boot = "auditing" /\ toAudit # {} /\ outcome = "ok"
  /\ toAudit' = toAudit \ {LeastOf(toAudit)}
  /\ UNCHANGED <<memory, pc, boot, recovered, culprit, watcher, effects, clock, crashes, refusals>> /\ NoSave

\* reconcileRecoveredTransactions, one terminal transaction.
AuditTransaction(outcome) ==
  /\ boot = "auditing" /\ toAudit # {}
  /\ LET p == LeastOf(toAudit)
         audit == {i \in DOMAIN log : log[i].id = p /\ log[i].seq = 0}
     IN  \/ /\ IsCommitted(p, log) \/ (audit = {} /\ TerminalAuditPrecedesRetention(txn[p].at))
            /\ outcome = "ok" /\ NoSave
            /\ toAudit' = toAudit \ {p} /\ UNCHANGED <<log, cursor, boot, culprit>>
         \/ /\ ~IsCommitted(p, log) /\ audit # {}
            /\ AppendDecision(log[CHOOSE i \in audit : TRUE], txn, outcome)
            /\ toAudit' = toAudit \ {p} /\ UNCHANGED culprit
            /\ IF outcome = "ok" THEN UNCHANGED boot ELSE boot' = "down"
         \/ /\ ~IsCommitted(p, log) /\ audit = {} /\ ~TerminalAuditPrecedesRetention(txn[p].at)
            /\ outcome = "ok" /\ NoSave
            /\ StartFails(p) /\ UNCHANGED <<log, cursor, toAudit>>
  /\ UNCHANGED <<txn, before, mu, pc, held, decided, recovered, watcher, effects, clock, crashes, refusals>>

\* The last checkpoint of ResumeRecoveredState; the service then starts.
FinishRecovery(outcome) ==
  /\ boot = "auditing" /\ toAudit = {}
  /\ SaveCheckpoint(log, cursor, txn, outcome)
  /\ boot' = IF outcome = "ok" THEN "up" ELSE "down"
  /\ UNCHANGED <<memory, pc, recovery, watcher, effects, clock, crashes, refusals>>

\* A failed save during start-up ends the process; the next one starts with an
\* open gate.
Reopen == boot = "down" /\ gate = "closed" /\ gate' = "open"
          /\ UNCHANGED <<memory, pc, boot, recovery, disk, watcher, effects, audited, clock, bounds>>

Startup ==
  \/ (gate = "open" /\ RestoreDecisions) \/ AuditTransactions \/ Reopen
  \/ \E outcome \in SaveOutcomes : ResumeTransaction(outcome) \/ AuditTransaction(outcome) \/ FinishRecovery(outcome)

Next ==
  \/ \E p \in Plans : WorkerStep(p)
  \/ \E f \in Failures, d \in Details, outcome \in SaveOutcomes : AppendFailure(f, d, outcome)
  \/ ReadBatch \/ Send \/ Crash \/ Startup

Spec == Init /\ [][Next]_vars

\* Goroutines run and the process is started again after a crash; nothing
\* makes storage or the guard fail.
FairSpec ==
  /\ Spec /\ WF_vars(Startup) /\ WF_vars(ReadBatch) /\ WF_vars(Send)
  /\ \A p \in Plans : WF_vars(WorkerStep(p))

--------------------------------------------------------------------------------
(* Properties. *)

Entries == [id : Plans \cup Failures, detail : Details \cup {"-"}, seq : 0..MaxSequence + Cardinality(Plans), decided : Nat]

\* The shape of the log, its bound (retainDecisions) and its cursor; the plan
\* lock is held only between Stage and the pending checkpoint.
LogTypeOK ==
  /\ \A i \in DOMAIN log : log[i] \in Entries
  /\ Len(Committed(log)) <= Retention /\ \A i \in DOMAIN log : log[i].seq <= cursor
  /\ boot \in {"down", "restoring", "auditing", "up", "refused"} /\ gate \in {"open", "closed"}
  /\ pc \in [Plans -> {"idle", "staged", "running", "decided", "done", "stuck"}]
  /\ mu \in Plans \cup {NoPlan} /\ (mu # NoPlan => pc[mu] = "staged")

\* What a watcher received is durable under its sequence: no crash or failed
\* save gives the sequence to another decision (the comment at the end of
\* appendDecision).
SeenIsDurable ==
  \A s \in seen :
    /\ s.seq <= disk.cursor
    /\ \A i \in DOMAIN disk.log : disk.log[i].seq = s.seq => disk.log[i].id = s.id
    /\ \A i \in DOMAIN log : log[i].seq = s.seq => log[i].id = s.id

\* A watcher misses nothing between two decisions it received: across evictions
\* and restarts its stream is contiguous or ends with OUT_OF_RANGE.
WatchIsContiguous ==
  \A s, t \in seen : \A n \in s.seq..t.seq : \E u \in seen : u.seq = n

\* A plan has one audit in the checkpoint: pending until its outcome is
\* committed, committed after, never both and never twice.
OneAuditPerPlan ==
  \A p \in Plans : Cardinality({i \in DOMAIN disk.log : disk.log[i].id = p}) <= 1

\* While a worker executes its plan the pending audit is durable, so that a
\* crash at any step leaves recovery what it needs.
RunningIsAudited ==
  \A p \in Plans : boot = "up" /\ pc[p] \in {"running", "decided"} => IsPending(p, disk.log)

\* What the world outside may already have acted on, a decision that was sent or
\* a plan that is being executed, is in the checkpoint (appendDecision saves
\* before it publishes, checkpointPendingDecision before Resume).
OutsideIsDurable == SeenIsDurable /\ RunningIsAudited

\* A pending audit that was saved comes to be committed, by its worker or by
\* recovery after a crash, unless a failed save stopped the service, a start-up
\* was refused, or the log is at its bound.
PendingIsCommitted ==
  \A p \in Plans : IsPending(p, disk.log) ~>
    (IsCommitted(p, disk.log) \/ gate = "closed" \/ boot = "refused" \/ cursor >= MaxSequence)

\* Stage is "the boundary to persist their pending audit record before external
\* effects": no plan reaches the provider whose audit was never saved.
AuditedBeforeEffects == effects \subseteq audited

\* A start-up is refused for the sake of a transaction only if its audit was
\* never saved.
RetiredAuditAccepted == boot = "refused" /\ culprit # NoPlan => culprit \notin audited

\* The log never holds two committed decisions of one identity.
UniqueDecisionIds ==
  \A i, j \in DOMAIN log : log[i].seq # 0 /\ log[j].seq # 0 /\ log[i].id = log[j].id => i = j

\* A terminal transaction stays terminal while the process runs.
TerminalStaysTerminal ==
  [][\A p \in Plans : txn[p].st = "final" /\ boot = "up" /\ boot' = "up" => txn'[p].st = "final"]_vars
================================================================================

----------------------------- MODULE ReconcileLoop -----------------------------
(***************************************************************************)
(* The Scheduler service on top of TickRuntime: intents are published,     *)
(* expire and are retired; a callback of the runtime turns the latest      *)
(* valid intent of its key into work; one worker per key takes the work    *)
(* and evaluates it.  Work for a key is coalesced: at most one item is     *)
(* pending, with the newest intent version and one trigger per frequency.  *)
(*                                                                         *)
(* A key's gate (workState.gate) is held by PublishIntent and by the       *)
(* worker while it processes a trigger, plan execution included.  Provider *)
(* events re-enqueue the stored intents without the gate.                  *)
(***************************************************************************)
EXTENDS TickRuntime

CONSTANTS
  MaxVersion,  \* bound on the versions published per key
  MaxEvents,   \* bound on provider events
  MaxPanics,   \* bound on worker panics
  MaxRetries,  \* maxRevisionRetries
  MaxCloses    \* bound on calls of Close (0 or 1)

ASSUME LoopAssumption ==
  /\ MaxVersion \in Nat \ {0} /\ MaxEvents \in Nat /\ MaxPanics \in Nat
  /\ MaxCloses \in {0, 1} /\ MaxRetries \in Nat \ {0}

VARIABLES
  intent,    \* the stored intent of each key (version 0: none)
  published, \* the last version of each key (versions only grow)
  causes,    \* the merged causes of the active trigger of each key
  trig,      \* per frequency: the causes of the trigger in hand
  got,       \* per frequency: the version the callback read, 0 outside a callback
  pending,   \* workState.pending of each key (version 0: nil)
  worker,    \* the worker goroutine of each key
  item,      \* the work each worker took
  attempt,   \* evaluation attempts of the current trigger
  replay,    \* stored intents still to be enqueued after a provider event or at start
  handled,   \* history: the last version each key's worker came to an outcome for
  adapted,   \* history: the last version evaluated adaptively
  events, panics

serviceVars == <<intent, published, causes, trig, got, pending, worker, item, attempt, replay, handled, adapted, events, panics>>
vars == <<runtimeVars, serviceVars>>

\* Of a merged cause the service only asks whether it is the publication alone,
\* the start-up replay alone, or anything else: a provider event, or several.
Causes == {"none", "publish_intent", "startup_replay", "other"}

MergeCauses(current, incoming) ==
  IF current = "none" THEN incoming
  ELSE IF incoming \in {"none", current} THEN current ELSE "other"

Versions == 0..MaxVersion
NoTriggers == [k \in Kinds |-> "none"]
NoWork == [version |-> 0, triggers |-> NoTriggers]
NoIntent == [version |-> 0, valid |-> "no"]

\* A restored Store may hold an intent of any key, expired or not; Start
\* enqueues all of them.
Init ==
  /\ InitRuntime
  /\ intent \in [Keys -> {NoIntent, [version |-> 1, valid |-> "yes"], [version |-> 1, valid |-> "no"]}]
  /\ published = [key \in Keys |-> intent[key].version]
  /\ causes = [key \in Keys |-> "none"]
  /\ trig = NoTriggers /\ got = [k \in Kinds |-> 0]
  /\ pending = [key \in Keys |-> NoWork] /\ item = [key \in Keys |-> NoWork]
  /\ worker = [key \in Keys |-> "off"] /\ attempt = [key \in Keys |-> 0]
  /\ replay = [cause |-> "startup_replay", keys |-> {key \in Keys : intent[key].version # 0}]
  /\ handled = [key \in Keys |-> 0] /\ adapted = [key \in Keys |-> 0]
  /\ events = 0 /\ panics = 0

\* MergeTrigger: causes accumulate while the key stays active.
EnqueueThroughRuntime(key, cause) ==
  /\ Enqueue(key)
  /\ causes' = IF stopped = "yes" THEN causes
               ELSE [causes EXCEPT ![key] = IF active[key] = 0 THEN cause ELSE MergeCauses(@, cause)]

\* PublishIntent stores a newer version and enqueues it under the key's gate.
PublishIntent(key) ==
  /\ worker[key] # "executing" /\ published[key] < MaxVersion
  /\ published' = [published EXCEPT ![key] = @ + 1]
  /\ intent' = [intent EXCEPT ![key] = [version |-> published[key] + 1, valid |-> "yes"]]
  /\ EnqueueThroughRuntime(key, "publish_intent")
  /\ UNCHANGED <<trig, got, pending, worker, item, attempt, replay, handled, adapted, events, panics>>

\* The clock passes ValidUntil.
Expire(key) ==
  /\ intent[key].valid = "yes"
  /\ intent' = [intent EXCEPT ![key].valid = "no"]
  /\ UNCHANGED <<runtimeVars, published, causes, trig, got, pending, worker, item, attempt, replay, handled, adapted, events, panics>>

\* A watch applied an event that changed the Store: the stored intents are
\* listed here and enqueued one by one.
ProviderEvent ==
  /\ replay.keys = {} /\ events < MaxEvents
  /\ events' = events + 1
  /\ replay' = [cause |-> "other", keys |-> {key \in Keys : intent[key].version # 0}]
  /\ UNCHANGED <<runtimeVars, intent, published, causes, trig, got, pending, worker, item, attempt, handled, adapted, panics>>

EnqueueStoredIntent(key) ==
  /\ key \in replay.keys
  /\ replay' = [replay EXCEPT !.keys = @ \ {key}]
  /\ EnqueueThroughRuntime(key, replay.cause)
  /\ UNCHANGED <<intent, published, trig, got, pending, worker, item, attempt, handled, adapted, events, panics>>

--------------------------------------------------------------------------------
(* The callback of the runtime, triggerReconcile. *)

\* The drain's check clones the active trigger.
TakeTrigger(k, key) ==
  /\ Take(k, key)
  /\ trig' = [trig EXCEPT ![k] = causes[key]]
  /\ UNCHANGED <<intent, published, causes, got, pending, worker, item, attempt, replay, handled, adapted, events, panics>>

\* LatestValidIntent: an expired or missing intent ends the callback.
TriggerReconcile(k, key) ==
  /\ held[k][key] # 0
  /\ Callback(k)
  /\ got' = [got EXCEPT ![k] = IF intent[key].valid = "yes" THEN intent[key].version ELSE 0]
  /\ UNCHANGED <<intent, published, causes, trig, pending, worker, item, attempt, replay, handled, adapted, events, panics>>

MergeTriggers(triggers, k, new) == [triggers EXCEPT ![k] = MergeCauses(@, new)]

\* Mutant: whatever the callback read replaces the pending work.
MergeReplacing(work, version, k, new) ==
  [version |-> version, triggers |-> MergeTriggers(NoTriggers, k, new)]

MergeReconcileWork(work, version, k, new) ==
  IF version > work.version THEN [version |-> version, triggers |-> MergeTriggers(NoTriggers, k, new)]
  ELSE IF version < work.version THEN work
  ELSE [version |-> version, triggers |-> MergeTriggers(work.triggers, k, new)]

\* Server.enqueue, which may run after a newer version was published: the work is
\* merged and a worker is started unless one is running.
EnqueueWork(k, key) ==
  /\ drain[k] = "called" /\ held[k][key] # 0 /\ got[k] # 0
  /\ got' = [got EXCEPT ![k] = 0]
  /\ pending' = [pending EXCEPT ![key] = MergeReconcileWork(@, got[k], k, trig[k])]
  /\ worker' = [worker EXCEPT ![key] = IF @ = "off" THEN "loop" ELSE @]
  /\ UNCHANGED <<runtimeVars, intent, published, causes, trig, item, attempt, replay, handled, adapted, events, panics>>

RequeueAfterCallback(k, key) ==
  /\ got[k] = 0
  /\ Requeue(k, key)
  /\ UNCHANGED serviceVars

Drains(k) ==
  \/ \E key \in Keys : TakeTrigger(k, key) \/ TriggerReconcile(k, key) \/ EnqueueWork(k, key) \/ RequeueAfterCallback(k, key)
  \/ (Tick(k) \/ Abandon(k) \/ DrainEnds(k) \/ LoopExits(k)) /\ UNCHANGED serviceVars

--------------------------------------------------------------------------------
(* The worker of a key, processKey and processAccepted. *)

WorkerTakes(key) ==
  /\ worker[key] = "loop"
  /\ IF run = "cancelled" \/ pending[key].version = 0
     THEN worker' = [worker EXCEPT ![key] = "off"] /\ UNCHANGED <<pending, item>>
     ELSE /\ worker' = [worker EXCEPT ![key] = "process"]
          /\ item' = [item EXCEPT ![key] = pending[key]]
          /\ pending' = [pending EXCEPT ![key] = NoWork]
  /\ UNCHANGED <<runtimeVars, intent, published, causes, trig, got, attempt, replay, handled, adapted, events, panics>>

\* The worker is about to process the trigger of frequency k of its item.
Processing(key, k) == worker[key] = "process" /\ item[key].triggers[k] # "none"

\* Mutant: the worker ends with its item instead of looking for more.
TriggerDoneExits(key, k) ==
  LET rest == [item[key].triggers EXCEPT ![k] = "none"]
  IN  /\ item' = [item EXCEPT ![key] = IF rest = NoTriggers THEN NoWork ELSE [item[key] EXCEPT !.triggers = rest]]
      /\ worker' = [worker EXCEPT ![key] = IF rest = NoTriggers THEN "off" ELSE "process"]
      /\ attempt' = [attempt EXCEPT ![key] = 0]

\* The trigger is done: on to the next one, or back to the loop.
TriggerDone(key, k) ==
  LET rest == [item[key].triggers EXCEPT ![k] = "none"]
  IN  /\ item' = [item EXCEPT ![key] = IF rest = NoTriggers THEN NoWork ELSE [item[key] EXCEPT !.triggers = rest]]
      /\ worker' = [worker EXCEPT ![key] = IF rest = NoTriggers THEN "loop" ELSE "process"]
      /\ attempt' = [attempt EXCEPT ![key] = 0]

Current(key) == intent[key].version # 0 /\ intent[key].version = item[key].version

ProcessCancelled(key, k) ==
  /\ Processing(key, k) /\ run = "cancelled"
  /\ TriggerDone(key, k)
  /\ UNCHANGED <<runtimeVars, intent, published, causes, trig, got, pending, replay, handled, adapted, events, panics>>

ProcessGone(key, k) ==
  /\ Processing(key, k) /\ run = "live" /\ intent[key].version = 0
  /\ Forget(key)
  /\ TriggerDone(key, k)
  /\ UNCHANGED <<intent, published, causes, trig, got, pending, replay, handled, adapted, events, panics>>

ProcessSuperseded(key, k) ==
  /\ Processing(key, k) /\ run = "live" /\ intent[key].version \notin {0, item[key].version}
  /\ TriggerDone(key, k)
  /\ UNCHANGED <<runtimeVars, intent, published, causes, trig, got, pending, replay, handled, adapted, events, panics>>

\* The intent is retired unless it still has allocations or the decision cannot
\* be appended (the Store is then restored); the key is forgotten either way.
ProcessExpired(key, k) ==
  /\ Processing(key, k) /\ run = "live" /\ Current(key) /\ intent[key].valid = "no"
  /\ \E retired \in BOOLEAN : intent' = IF retired THEN [intent EXCEPT ![key] = NoIntent] ELSE intent
  /\ Forget(key)
  /\ TriggerDone(key, k)
  /\ UNCHANGED <<published, causes, trig, got, pending, replay, handled, adapted, events, panics>>

\* shouldEvaluateAdaptively, for an intent with adaptive labels: a trigger whose
\* only cause is the publication or the start-up replay is evaluated plainly.
Adaptive(cause) == cause = "other"

Evaluated(key, k) ==
  /\ handled' = [handled EXCEPT ![key] = item[key].version]
  /\ adapted' = IF Adaptive(item[key].triggers[k]) THEN [adapted EXCEPT ![key] = item[key].version] ELSE adapted

\* An outcome without a plan to execute: a fallback, no change, a rejection.
ProcessNoPlan(key, k) ==
  /\ Processing(key, k) /\ run = "live" /\ Current(key) /\ intent[key].valid = "yes"
  /\ Evaluated(key, k)
  /\ TriggerDone(key, k)
  /\ UNCHANGED <<runtimeVars, intent, published, causes, trig, got, pending, replay, events, panics>>

\* A plan is staged; its execution keeps the gate.
ProcessPlan(key, k) ==
  /\ Processing(key, k) /\ run = "live" /\ Current(key) /\ intent[key].valid = "yes"
  /\ Evaluated(key, k)
  /\ worker' = [worker EXCEPT ![key] = "executing"]
  /\ UNCHANGED <<runtimeVars, intent, published, causes, trig, got, pending, item, attempt, replay, events, panics>>

PlanExecuted(key, k) ==
  /\ worker[key] = "executing" /\ item[key].triggers[k] # "none"
  /\ TriggerDone(key, k)
  /\ UNCHANGED <<runtimeVars, intent, published, causes, trig, got, pending, replay, handled, adapted, events, panics>>

\* The snapshot moved between evaluation and reservation.
RevisionConflict(key, k) ==
  /\ Processing(key, k) /\ run = "live" /\ Current(key) /\ intent[key].valid = "yes"
  /\ IF attempt[key] + 1 < MaxRetries
     THEN attempt' = [attempt EXCEPT ![key] = @ + 1] /\ UNCHANGED <<item, worker, handled>>
     ELSE TriggerDone(key, k) /\ handled' = [handled EXCEPT ![key] = item[key].version]
  /\ UNCHANGED <<runtimeVars, intent, published, causes, trig, got, pending, replay, adapted, events, panics>>

\* Mutant: the recovered panic leaves the key marked as having a running worker.
WorkerPanicsRunning(key) ==
  /\ worker[key] = "process" /\ panics < MaxPanics
  /\ panics' = panics + 1
  /\ item' = [item EXCEPT ![key] = NoWork] /\ attempt' = [attempt EXCEPT ![key] = 0]
  /\ UNCHANGED <<runtimeVars, intent, published, causes, trig, got, pending, worker, replay, handled, adapted, events>>

\* A panic ends the worker; what it took is gone, what is pending stays.
WorkerPanics(key) ==
  /\ worker[key] = "process" /\ panics < MaxPanics
  /\ panics' = panics + 1
  /\ worker' = [worker EXCEPT ![key] = "off"]
  /\ item' = [item EXCEPT ![key] = NoWork] /\ attempt' = [attempt EXCEPT ![key] = 0]
  /\ UNCHANGED <<runtimeVars, intent, published, causes, trig, got, pending, replay, handled, adapted, events>>

Works(key) ==
  \/ WorkerTakes(key)
  \/ \E k \in Kinds :
       \/ ProcessCancelled(key, k) \/ ProcessGone(key, k) \/ ProcessSuperseded(key, k) \/ ProcessExpired(key, k)
       \/ ProcessNoPlan(key, k) \/ ProcessPlan(key, k) \/ PlanExecuted(key, k) \/ RevisionConflict(key, k)

\* Server.Close: the lifecycle context ends, then the runtime is stopped.
Close ==
  /\ MaxCloses = 1
  /\ (Cancel \/ Deactivate \/ (run = "cancelled" /\ Stop) \/ StopReturns)
  /\ UNCHANGED serviceVars

Next ==
  \/ \E key \in Keys : PublishIntent(key) \/ Expire(key) \/ EnqueueStoredIntent(key) \/ Works(key) \/ WorkerPanics(key)
  \/ \E k \in Kinds : Drains(k)
  \/ ProviderEvent \/ Close

Spec == Init /\ [][Next]_vars

\* Tickers, drains and workers are goroutines that run when they can.
FairSpec ==
  /\ Spec
  /\ \A k \in Kinds : WF_vars(Drains(k))
  /\ \A key \in Keys : WF_vars(Works(key)) /\ WF_vars(EnqueueStoredIntent(key))

--------------------------------------------------------------------------------
(* Properties. *)

\* Work items carry versions that were published and triggers of known causes.
LoopTypeOK ==
  /\ intent \in [Keys -> [version : Versions, valid : {"yes", "no"}]]
  /\ published \in [Keys -> Versions]
  /\ causes \in [Keys -> Causes] /\ trig \in [Kinds -> Causes]
  /\ got \in [Kinds -> Versions]
  /\ pending \in [Keys -> [version : Versions, triggers : [Kinds -> Causes]]]
  /\ item \in [Keys -> [version : Versions, triggers : [Kinds -> Causes]]]
  /\ worker \in [Keys -> {"off", "loop", "process", "executing"}]
  /\ attempt \in [Keys -> 0..(MaxRetries - 1)]
  /\ replay \in [cause : Causes, keys : SUBSET Keys]
  /\ handled \in [Keys -> Versions] /\ adapted \in [Keys -> Versions]
  /\ events \in 0..MaxEvents /\ panics \in 0..MaxPanics

\* Every valid stored intent stays scheduled: no late worker, retiring or
\* superseding an older version, makes the runtime forget a newer one.
ValidIsScheduled ==
  stopped = "no" =>
    \A key \in Keys : intent[key].valid = "yes" => active[key] # 0 \/ key \in replay.keys

\* Work is never left without a worker, except after a panic (the next tick
\* starts a new worker) or at shutdown.
PendingIsServed ==
  panics = 0 /\ run = "live" => \A key \in Keys : pending[key].version # 0 => worker[key] # "off"

\* No interleaving of publications, callbacks and workers strands an intent: it
\* stays scheduled while it is valid, and its pending work has a worker
\* (triggerReconcile, processKey).
NothingIsStranded == ValidIsScheduled /\ PendingIsServed

\* A callback that read an older version and comes late never replaces newer
\* pending work.
PendingNeverRegresses ==
  [][\A key \in Keys : pending[key].version # 0 /\ pending'[key].version # 0 =>
       pending'[key].version >= pending[key].version]_vars

\* A published version gets an outcome from its worker, unless it expires, is
\* superseded or the service stops first, whatever panics and conflicts happen.
PublishedIsHandled ==
  \A key \in Keys : \A v \in 1..MaxVersion :
    (intent[key] = [version |-> v, valid |-> "yes"]) ~>
      (handled[key] = v \/ intent[key] # [version |-> v, valid |-> "yes"] \/ run = "cancelled")

\* Periodic scheduling of a key ends when its intent has expired.
ExpiredIsForgotten ==
  \A key \in Keys :
    (intent[key].version # 0 /\ intent[key].valid = "no") ~>
      (active[key] = 0 \/ intent[key].valid = "yes" \/ run = "cancelled")

\* Time-based conditions of an intent with adaptive labels come to be evaluated
\* by the periodic ticks alone.
AdaptiveWithoutEvents ==
  \A key \in Keys : \A v \in 1..MaxVersion :
    (intent[key] = [version |-> v, valid |-> "yes"]) ~>
      (adapted[key] = v \/ intent[key] # [version |-> v, valid |-> "yes"] \/ run = "cancelled")
================================================================================

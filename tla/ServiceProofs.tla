------------------------------ MODULE ServiceProofs ------------------------------
(***************************************************************************)
(* The scheduler's service, for any set of keys, frequencies, versions,    *)
(* faults and crashes: TickRuntime, the reconcile loop on top of it, and   *)
(* the checkpoint of the Store.                                            *)
(*                                                                         *)
(* NoKeyLost is not inductive: a requeue clears the whole hand, so at most *)
(* one item may be in it (Control), and a push must not put a generation   *)
(* in two places (OnePlacePerGeneration, with Fresh for the generations to *)
(* come).                                                                  *)
(*                                                                         *)
(* The service steps the runtime only through the runtime's own actions,   *)
(* so what is proved of SpecRuntime holds of Spec.  NothingIsStranded then *)
(* needs only that an intent without a version is not valid.               *)
(*                                                                         *)
(* That the capacity a checkpoint freed is really free is not inductive: a *)
(* stale copy of the Store (a publication prepared before the executor     *)
(* moved on) may come back, and the file outlives every crash.  So the     *)
(* invariant speaks of the three places a Store can come back from (the    *)
(* Store, the staged copy and the file), says that none of them is freed   *)
(* while the plan may still take effect (ActiveInv), and that a Scheduler  *)
(* without a plan has in the file what it has in the Store (IdleInv).      *)
(***************************************************************************)
EXTENDS ReconcileLoop, Checkpoint, TLAPS

--------------------------------------------------------------------------------
(* The runtime. *)

\* A drain holds an item only between its check and its requeue, one at a time,
\* and an idle one has nothing left of its batch; an exited loop is idle.
Control ==
  /\ \A k \in Kinds :
       /\ drain[k] = "idle" => batch[k] = NoItems
       /\ drain[k] \in {"idle", "taking"} => held[k] = NoItems
       /\ \A a, b \in Keys : held[k][a] # 0 /\ held[k][b] # 0 => a = b
       /\ loop[k] = "exited" => drain[k] = "idle" /\ run = "cancelled"
  /\ stop # "no" => stopped = "yes" /\ run = "cancelled"
  /\ stop = "returned" => \A k \in Kinds : loop[k] = "exited" /\ queue[k] = NoItems

\* No generation beyond the last one given out is anywhere.
Fresh ==
  \A k \in Kinds, key \in Keys :
    queue[k][key] <= nextGen /\ batch[k][key] <= nextGen /\ held[k][key] <= nextGen

IInv == RuntimeTypeOK /\ Control /\ Fresh /\ OnePlacePerGeneration /\ NoKeyLost

\* Replacing one item of one frequency keeps the type, and changes that item only.
LEMMA UpdateItem ==
  ASSUME NEW f \in [Kinds -> [Keys -> Generations]], NEW k \in Kinds, NEW key \in Keys, NEW g \in Generations
  PROVE  LET h == [f EXCEPT ![k] = [f[k] EXCEPT ![key] = g]]
         IN  /\ h \in [Kinds -> [Keys -> Generations]]
             /\ h[k][key] = g
             /\ \A l \in Kinds, other \in Keys : l # k \/ other # key => h[l][other] = f[l][other]
<1>1. [f[k] EXCEPT ![key] = g] \in [Keys -> Generations] OBVIOUS
<1> QED BY <1>1

\* The initial state of the runtime satisfies the invariant.
LEMMA InitInvariant == InitRuntime => IInv
  BY RuntimeAssumption
  DEF InitRuntime, IInv, RuntimeTypeOK, Control, Fresh, OnePlacePerGeneration, NoKeyLost, NoItems, Generations

\* Enqueue and Forget keep the invariant.
LEMMA CallPreserves ==
  ASSUME IInv, NEW key \in Keys, Enqueue(key) \/ Forget(key)
  PROVE  IInv'
<1> USE RuntimeAssumption DEF IInv
<1>1. CASE Enqueue(key) /\ stopped = "yes"
  BY <1>1 DEF Enqueue, RuntimeTypeOK, Control, Fresh, OnePlacePerGeneration, NoKeyLost
<1>3. CASE Enqueue(key) /\ stopped = "no"
  <2> DEFINE g == nextGen + 1
  <2>0. /\ g \in Generations /\ g \in Nat /\ g > nextGen /\ nextGen' = g /\ nextGen \in Nat
        /\ active' = [active EXCEPT ![key] = g]
        /\ queue' = [k \in Kinds |-> [queue[k] EXCEPT ![key] = g]]
        /\ UNCHANGED <<batch, held, drain, loop, stopped, run, stop>>
    BY <1>3 DEF Enqueue, RuntimeTypeOK, Generations
  <2> HIDE DEF g
  <2>a. /\ queue' \in [Kinds -> [Keys -> Generations]]
        /\ \A k \in Kinds : queue'[k][key] = g
        /\ \A k \in Kinds, other \in Keys : other # key => queue'[k][other] = queue[k][other]
    <3>1. \A k \in Kinds : [queue[k] EXCEPT ![key] = g] \in [Keys -> Generations]
      BY <2>0 DEF RuntimeTypeOK
    <3> QED BY <2>0, <3>1 DEF RuntimeTypeOK
  <2>b. \A k \in Kinds, other \in Keys :
          queue[k][other] \in Nat /\ batch[k][other] \in Nat /\ held[k][other] \in Nat
    BY DEF RuntimeTypeOK, Generations
  <2>1. RuntimeTypeOK' BY <2>0, <2>a DEF RuntimeTypeOK
  <2>2. Control' BY <1>3, <2>0 DEF Control
  <2>3. Fresh'
    <3> SUFFICES ASSUME NEW k \in Kinds, NEW other \in Keys
                 PROVE queue'[k][other] <= g /\ batch[k][other] <= g /\ held[k][other] <= g
      BY <2>0 DEF Fresh
    <3>1. queue[k][other] <= nextGen /\ batch[k][other] <= nextGen /\ held[k][other] <= nextGen
      BY DEF Fresh
    <3>2. CASE other = key BY <2>0, <2>a, <2>b, <3>1, <3>2
    <3>3. CASE other # key BY <2>0, <2>a, <2>b, <3>1, <3>3
    <3> QED BY <3>2, <3>3
  <2>4. OnePlacePerGeneration'
    <3> SUFFICES ASSUME NEW k \in Kinds, NEW other \in Keys
                 PROVE /\ batch[k][other] # 0 => batch[k][other] \notin {queue'[k][other], held[k][other]}
                       /\ held[k][other] # 0 => held[k][other] # queue'[k][other]
      BY <2>0 DEF OnePlacePerGeneration
    <3>1. batch[k][other] <= nextGen /\ held[k][other] <= nextGen BY DEF Fresh
    <3>2. CASE other = key BY <2>0, <2>a, <2>b, <3>1, <3>2 DEF OnePlacePerGeneration
    <3>3. CASE other # key BY <2>a, <3>3 DEF OnePlacePerGeneration
    <3> QED BY <3>2, <3>3
  <2>5. NoKeyLost'
    <3>1. \A other \in Keys : other # key => active'[other] = active[other] BY <2>0 DEF RuntimeTypeOK
    <3>2. active'[key] = g BY <2>0 DEF RuntimeTypeOK
    <3> QED BY <2>0, <2>a, <3>1, <3>2 DEF NoKeyLost
  <2> QED BY <2>1, <2>2, <2>3, <2>4, <2>5
<1>2. CASE Forget(key)
  <2>1. RuntimeTypeOK' BY <1>2 DEF Forget, RuntimeTypeOK, Generations
  <2>2. Control' BY <1>2, ZenonT(30) DEF Forget, Control
  <2>3. Fresh' /\ OnePlacePerGeneration' BY <1>2 DEF Forget, Fresh, OnePlacePerGeneration
  <2>4. NoKeyLost' BY <1>2 DEF Forget, NoKeyLost, RuntimeTypeOK
  <2> QED BY <2>1, <2>2, <2>3, <2>4
<1> QED BY <1>1, <1>2, <1>3, ZenonT(30) DEF RuntimeTypeOK

\* A step of one frequency keeps the invariant: a tick moves the queue to the
\* batch, a take the item to the hand, a requeue the item back to the queue.
LEMMA DrainPreserves ==
  ASSUME IInv, NEW k \in Kinds, Drain(k)
  PROVE  IInv'
<1> USE RuntimeAssumption DEF IInv
<1>0. NoItems \in [Keys -> Generations] BY DEF NoItems, Generations
<1>1. CASE Tick(k)
  <2>1. RuntimeTypeOK' BY <1>0, <1>1 DEF Tick, RuntimeTypeOK
  <2>2. Control' BY <1>1 DEF Tick, Control, RuntimeTypeOK, NoItems
  <2>3. Fresh' BY <1>1 DEF Tick, Fresh, RuntimeTypeOK, NoItems, Generations
  <2>4. OnePlacePerGeneration' BY <1>1 DEF Tick, OnePlacePerGeneration, Control, RuntimeTypeOK, NoItems
  <2>5. NoKeyLost' BY <1>1 DEF Tick, NoKeyLost, Control, RuntimeTypeOK, NoItems
  <2> QED BY <2>1, <2>2, <2>3, <2>4, <2>5
<1>2. ASSUME NEW key \in Keys, Take(k, key) PROVE IInv'
  <2>a. 0 \in Generations /\ batch[k][key] \in Generations BY DEF RuntimeTypeOK, Generations
  <2>b. batch' \in [Kinds -> [Keys -> Generations]] BY <1>2, <2>a, UpdateItem, ZenonT(30) DEF Take, RuntimeTypeOK
  <2> DEFINE inHand == [NoItems EXCEPT ![key] = batch[k][key]]
  <2>c. inHand \in [Keys -> Generations] BY <1>0, <2>a
  <2>d. held' \in {held, [held EXCEPT ![k] = inHand]} /\ drain' \in {drain, [drain EXCEPT ![k] = "checked"]}
    BY <1>2 DEF Take
  <2>e. UNCHANGED <<active, nextGen, queue, loop, stopped, run, stop>> BY <1>2 DEF Take
  <2> HIDE DEF inHand
  <2>f. held' \in [Kinds -> [Keys -> Generations]] BY <2>c, <2>d, ZenonT(30) DEF RuntimeTypeOK
  <2>g. drain' \in [Kinds -> {"idle", "taking", "checked", "called"}] BY <2>d, ZenonT(30) DEF RuntimeTypeOK
  <2>1. RuntimeTypeOK' BY <2>b, <2>e, <2>f, <2>g DEF RuntimeTypeOK
  <2>2. Control' BY <1>2 DEF Take, Control, RuntimeTypeOK, NoItems
  <2>3. Fresh' BY <1>2, SMTT(30) DEF Take, Fresh, RuntimeTypeOK, NoItems, Generations
  <2>4. OnePlacePerGeneration' BY <1>2, SMTT(30) DEF Take, OnePlacePerGeneration, Control, RuntimeTypeOK, NoItems
  <2>5. NoKeyLost' BY <1>2 DEF Take, NoKeyLost, Control, RuntimeTypeOK, NoItems
  <2> QED BY <2>1, <2>2, <2>3, <2>4, <2>5
<1>3. CASE Callback(k)
  <2>1. RuntimeTypeOK' BY <1>3 DEF Callback, RuntimeTypeOK
  <2>2. Control' BY <1>3, ZenonT(30) DEF Callback, Control, RuntimeTypeOK
  <2>3. Fresh' /\ OnePlacePerGeneration' /\ NoKeyLost'
    BY <1>3 DEF Callback, Fresh, OnePlacePerGeneration, NoKeyLost
  <2> QED BY <2>1, <2>2, <2>3
<1>4. CASE Abandon(k)
  <2>1. RuntimeTypeOK' BY <1>0, <1>4 DEF Abandon, RuntimeTypeOK
  <2>2. Control' BY <1>4 DEF Abandon, Control, RuntimeTypeOK, NoItems
  <2>3. Fresh' BY <1>4 DEF Abandon, Fresh, RuntimeTypeOK, NoItems, Generations
  <2>4. OnePlacePerGeneration' BY <1>4, ZenonT(30) DEF Abandon, OnePlacePerGeneration, RuntimeTypeOK, NoItems
  <2>5. NoKeyLost' BY <1>4 DEF Abandon, NoKeyLost
  <2> QED BY <2>1, <2>2, <2>3, <2>4, <2>5
<1>5. ASSUME NEW key \in Keys, Requeue(k, key) PROVE IInv'
  <2>0. \A other \in Keys : other # key => held[k][other] = 0
    BY <1>5 DEF Requeue, Control
  <2>a. held[k][key] \in Generations /\ nextGen \in Nat BY SMTT(30) DEF RuntimeTypeOK, Generations
  <2>b. /\ queue' \in [Kinds -> [Keys -> Generations]]
        /\ queue'[k][key] \in {queue[k][key], held[k][key]}
        /\ \A l \in Kinds, other \in Keys : l # k \/ other # key => queue'[l][other] = queue[l][other]
    <3>1. CASE UNCHANGED queue BY <3>1 DEF RuntimeTypeOK
    <3>2. CASE queue' = [queue EXCEPT ![k] = [queue[k] EXCEPT ![key] = held[k][key]]]
      <4>1. queue \in [Kinds -> [Keys -> Generations]] BY DEF RuntimeTypeOK
      <4>2. held[k][key] \in Generations BY <2>a
      <4> QED BY <3>2, <4>1, <4>2, UpdateItem
    <3> QED BY <1>5, <3>1, <3>2 DEF Requeue
  <2>1. RuntimeTypeOK' BY <1>0, <1>5, <2>b, Zenon DEF Requeue, RuntimeTypeOK
  <2>2. Control' BY <1>5 DEF Requeue, Control, RuntimeTypeOK, NoItems
  <2>3. Fresh'
    <3> SUFFICES ASSUME NEW l \in Kinds, NEW other \in Keys
                 PROVE queue'[l][other] <= nextGen /\ batch[l][other] <= nextGen /\ held'[l][other] <= nextGen
      BY <1>5, ZenonT(30) DEF Requeue, Fresh
    <3>1. queue'[l][other] <= nextGen BY <2>b DEF Fresh
    <3>2. held'[l][other] <= nextGen BY <1>5, <2>a DEF Requeue, Fresh, RuntimeTypeOK, NoItems
    <3> QED BY <3>1, <3>2 DEF Fresh
  <2>4. OnePlacePerGeneration' BY <1>5, SMTT(30) DEF Requeue, OnePlacePerGeneration, RuntimeTypeOK, NoItems
  <2>5. NoKeyLost' BY <1>5, <2>0 DEF Requeue, NoKeyLost, RuntimeTypeOK, NoItems
  <2> QED BY <2>1, <2>2, <2>3, <2>4, <2>5
<1>6. CASE DrainEnds(k) \/ LoopExits(k)
  <2>1. RuntimeTypeOK' BY <1>6, Zenon DEF DrainEnds, LoopExits, RuntimeTypeOK
  <2>2. Control' BY <1>6, SMTT(30) DEF DrainEnds, LoopExits, Control, RuntimeTypeOK
  <2>3. Fresh' /\ OnePlacePerGeneration' /\ NoKeyLost'
    BY <1>6 DEF DrainEnds, LoopExits, Fresh, OnePlacePerGeneration, NoKeyLost
  <2> QED BY <2>1, <2>2, <2>3
<1> QED BY <1>1, <1>2, <1>3, <1>4, <1>5, <1>6 DEF Drain

\* Shutting down keeps the invariant.
LEMMA ShutdownPreserves ==
  ASSUME IInv, ShutdownRuntime
  PROVE  IInv'
<1> USE RuntimeAssumption DEF IInv
<1>0. NoItems \in [Keys -> Generations] BY SMTT(30) DEF NoItems, Generations
<1>1. CASE Cancel
  BY <1>1 DEF Cancel, RuntimeTypeOK, Control, Fresh, OnePlacePerGeneration, NoKeyLost
<1>2. ASSUME queue' = [k \in Kinds |-> NoItems], UNCHANGED <<nextGen, batch, held, drain, loop, run>>,
             stopped' = "yes", active' \in [Keys -> Generations], stop' \in {"no", "waiting", "returned"},
             stop' # "no" => run = "cancelled", stop' = "returned" => \A k \in Kinds : loop[k] = "exited"
      PROVE IInv'
  <2>1. RuntimeTypeOK' BY <1>0, <1>2, ZenonT(30) DEF RuntimeTypeOK
  <2>2. Control' BY <1>2 DEF Control
  <2>3. Fresh' BY <1>0, <1>2, SMTT(30) DEF Fresh, NoItems, RuntimeTypeOK, Generations
  <2>4. OnePlacePerGeneration' BY <1>2 DEF OnePlacePerGeneration, NoItems
  <2>5. NoKeyLost' BY <1>2, ZenonT(30) DEF NoKeyLost
  <2> QED BY <2>1, <2>2, <2>3, <2>4, <2>5
<1>3. CASE Deactivate
  BY <1>0, <1>2, <1>3 DEF Deactivate, Control, RuntimeTypeOK
<1>4. CASE Stop
  <2>1. RuntimeTypeOK' BY <1>0, <1>4 DEF Stop, RuntimeTypeOK
  <2>2. Control' BY <1>4, ZenonT(30) DEF Stop, Control
  <2>3. Fresh' /\ OnePlacePerGeneration' BY <1>4 DEF Stop, Fresh, OnePlacePerGeneration
  <2>4. NoKeyLost' BY <1>4, ZenonT(30) DEF Stop, NoKeyLost
  <2> QED BY <2>1, <2>2, <2>3, <2>4
<1>5. CASE StopReturns
  BY <1>2, <1>5 DEF StopReturns, Control, RuntimeTypeOK
<1> QED BY <1>1, <1>3, <1>4, <1>5 DEF ShutdownRuntime

\* Every step of the runtime keeps the invariant.
LEMMA RuntimeStep == ASSUME IInv, [NextRuntime]_runtimeVars PROVE IInv'
<1>1. CASE UNCHANGED runtimeVars
  BY <1>1 DEF runtimeVars, IInv, RuntimeTypeOK, Control, Fresh, OnePlacePerGeneration, NoKeyLost
<1>2. CASE NextRuntime
  BY <1>2, CallPreserves, DrainPreserves, ShutdownPreserves DEF NextRuntime
<1> QED BY <1>1, <1>2, ZenonT(30)

\* The invariant holds in every reachable state of the runtime.
THEOREM RuntimeInvariant == SpecRuntime => []IInv
<1>1. IInv /\ [NextRuntime]_runtimeVars => IInv'
  BY RuntimeStep
<1> QED BY <1>1, InitInvariant, PTL DEF SpecRuntime

\* Type correctness of the runtime's state, for any number of keys and loops.
THEOREM RuntimeTypeCorrect == SpecRuntime => []RuntimeTypeOK
  BY RuntimeInvariant, PTL DEF IInv

\* A key that Enqueue activated stays scheduled on every frequency until Forget
\* or shutdown, for any number of keys and frequencies.
THEOREM KeyNeverLost == SpecRuntime => []NoKeyLost
  BY RuntimeInvariant, PTL DEF IInv

\* No frequency ever holds the same generation of a key twice.
THEOREM OnePlace == SpecRuntime => []OnePlacePerGeneration
  BY RuntimeInvariant, PTL DEF IInv

\* When Stop returns, the queues are empty and no goroutine holds an item.
THEOREM QuietWhenStopped == SpecRuntime => []StoppedIsQuiet
<1>1. IInv => StoppedIsQuiet BY DEF IInv, StoppedIsQuiet, Control
<1> QED BY <1>1, RuntimeInvariant, PTL

--------------------------------------------------------------------------------
(* The service. *)

WorkItems == [version : Versions, triggers : [Kinds -> Causes]]

\* An intent without a version is not valid.
NoneIsInvalid == \A key \in Keys : intent[key].version = 0 => intent[key].valid = "no"

LoopInv == RuntimeTypeOK /\ LoopTypeOK /\ NoneIsInvalid /\ NothingIsStranded

LEMMA Blanks ==
  /\ NoTriggers \in [Kinds -> Causes] /\ NoWork \in WorkItems /\ NoWork.version = 0
  /\ NoIntent \in [version : Versions, valid : {"yes", "no"}] /\ NoIntent.version = 0 /\ NoIntent.valid = "no"
  /\ [version |-> 1, valid |-> "yes"] \in [version : Versions, valid : {"yes", "no"}]
  /\ [version |-> 1, valid |-> "no"] \in [version : Versions, valid : {"yes", "no"}]
BY LoopAssumption DEF NoTriggers, NoWork, NoIntent, WorkItems, Causes, Versions

LEMMA LoopInit == Init => LoopInv
<1> SUFFICES ASSUME Init PROVE LoopInv
    OBVIOUS
<1> DEFINE Stored == {NoIntent, [version |-> 1, valid |-> "yes"], [version |-> 1, valid |-> "no"]}
<1>1. RuntimeTypeOK /\ stopped = "no" /\ run = "live"
      BY InitInvariant, ZenonT(30) DEF Init, InitRuntime, IInv
<1>2. intent \in [Keys -> [version : Versions, valid : {"yes", "no"}]]
      BY Blanks, ZenonT(30) DEF Init
<1>3. NoneIsInvalid
      BY Blanks, SMTT(30) DEF Init, NoneIsInvalid
<1>4. LoopTypeOK
      BY <1>2, Blanks, LoopAssumption, SMTT(30) DEF Init, LoopTypeOK, Causes, Versions, WorkItems
<1>5. NothingIsStranded
  <2>1. \A key \in Keys : intent[key].valid = "yes" => key \in replay.keys
        BY <1>2, <1>3 DEF Init, NoneIsInvalid
  <2>2. \A key \in Keys : pending[key].version = 0
        BY Blanks, Zenon DEF Init
  <2> QED BY <2>1, <2>2, ZenonT(30) DEF NothingIsStranded, ValidIsScheduled, PendingIsServed
<1> QED BY <1>1, <1>3, <1>4, <1>5 DEF LoopInv

\* Every step of the service is a step of the runtime, or leaves it alone.
LEMMA ServiceSteps == ASSUME [Next]_vars PROVE [NextRuntime]_runtimeVars
<1> USE DEF NextRuntime
<1>1. CASE UNCHANGED vars
      BY <1>1 DEF vars
<1>2. ASSUME NEW key \in Keys, PublishIntent(key) \/ EnqueueStoredIntent(key) PROVE NextRuntime
      BY <1>2 DEF PublishIntent, EnqueueStoredIntent, EnqueueThroughRuntime
<1>3. ASSUME NEW key \in Keys, Expire(key) \/ WorkerPanics(key) \/ WorkerTakes(key) PROVE UNCHANGED runtimeVars
      BY <1>3 DEF Expire, WorkerPanics, WorkerTakes
<1>4. ASSUME NEW key \in Keys, NEW k \in Kinds, ProcessGone(key, k) \/ ProcessExpired(key, k) PROVE NextRuntime
      BY <1>4, ZenonT(30) DEF ProcessGone, ProcessExpired
<1>5. ASSUME NEW key \in Keys, NEW k \in Kinds,
             \/ ProcessCancelled(key, k) \/ ProcessSuperseded(key, k) \/ ProcessNoPlan(key, k)
             \/ ProcessPlan(key, k) \/ PlanExecuted(key, k) \/ RevisionConflict(key, k)
      PROVE  UNCHANGED runtimeVars
      BY <1>5, ZenonT(30) DEF ProcessCancelled, ProcessSuperseded, ProcessNoPlan, ProcessPlan, PlanExecuted, RevisionConflict
<1>6. ASSUME NEW k \in Kinds, Drains(k) PROVE [NextRuntime]_runtimeVars
      BY <1>6, ZenonT(30) DEF Drains, Drain, TakeTrigger, TriggerReconcile, EnqueueWork, RequeueAfterCallback
<1>7. CASE ProviderEvent
      BY <1>7, ZenonT(30) DEF ProviderEvent
<1>8. CASE Close
      BY <1>8 DEF Close, ShutdownRuntime
<1> HIDE DEF NextRuntime
<1> QED BY <1>1, <1>2, <1>3, <1>4, <1>5, <1>6, <1>7, <1>8 DEF Next, Works

\* The service drives the runtime through its operations only (Enqueue, Forget,
\* the drains, Stop): the runtime inside the service behaves as SpecRuntime says.
THEOREM ServiceUsesTheRuntime == Spec => SpecRuntime
<1>1. Init => InitRuntime
      BY DEF Init
<1>2. [Next]_vars => [NextRuntime]_runtimeVars
      BY ServiceSteps, ZenonT(30)
<1> QED BY <1>1, <1>2, PTL DEF Spec, SpecRuntime

\* The worker goes on after a trigger: it never ends there.
LEMMA TriggerDoneFacts ==
  ASSUME LoopTypeOK, NEW key \in Keys, NEW k \in Kinds, TriggerDone(key, k)
  PROVE  /\ item' \in [Keys -> WorkItems] /\ attempt' \in [Keys -> 0..(MaxRetries - 1)]
         /\ worker' \in [Keys -> {"off", "loop", "process", "executing"}]
         /\ worker'[key] # "off" /\ \A other \in Keys : other # key => worker'[other] = worker[other]
<1> DEFINE rest == [item[key].triggers EXCEPT ![k] = "none"]
           left == [item[key] EXCEPT !.triggers = rest]
<1>1. item[key] \in WorkItems
      BY ZenonT(30) DEF LoopTypeOK, WorkItems
<1>2. rest \in [Kinds -> Causes]
      BY <1>1 DEF WorkItems, Causes
<1> HIDE DEF rest
<1>3. left \in WorkItems
      BY <1>1, <1>2 DEF WorkItems
<1> HIDE DEF left
<1>4. /\ item' = [item EXCEPT ![key] = IF rest = NoTriggers THEN NoWork ELSE left]
      /\ worker' = [worker EXCEPT ![key] = IF rest = NoTriggers THEN "loop" ELSE "process"]
      /\ attempt' = [attempt EXCEPT ![key] = 0]
      BY DEF TriggerDone, rest, left
<1>5. item \in [Keys -> WorkItems]
      BY DEF LoopTypeOK, WorkItems
<1> QED BY <1>3, <1>4, <1>5, Blanks, LoopAssumption DEF LoopTypeOK

LEMMA MergeCausesType ==
  ASSUME NEW a \in Causes, NEW b \in Causes PROVE MergeCauses(a, b) \in Causes
BY ZenonT(30) DEF MergeCauses, Causes

\* Merged work has a version at least that of either part.
LEMMA MergeWorkFacts ==
  ASSUME NEW work \in WorkItems, NEW version \in Versions, NEW k \in Kinds, NEW new \in Causes
  PROVE  /\ MergeReconcileWork(work, version, k, new) \in WorkItems
         /\ MergeReconcileWork(work, version, k, new).version >= work.version
         /\ MergeReconcileWork(work, version, k, new).version >= version
<1>1. work.version \in Nat /\ version \in Nat /\ work.triggers \in [Kinds -> Causes]
      BY LoopAssumption DEF WorkItems, Versions
<1>2. ASSUME NEW ts \in [Kinds -> Causes] PROVE MergeTriggers(ts, k, new) \in [Kinds -> Causes]
      BY MergeCausesType, ZenonT(30) DEF MergeTriggers
<1> DEFINE fresh == [version |-> version, triggers |-> MergeTriggers(NoTriggers, k, new)]
           both == [version |-> version, triggers |-> MergeTriggers(work.triggers, k, new)]
<1>3. fresh \in WorkItems /\ both \in WorkItems /\ fresh.version = version /\ both.version = version
      BY <1>1, <1>2, Blanks DEF WorkItems
<1>4. MergeReconcileWork(work, version, k, new)
        = IF version > work.version THEN fresh ELSE IF version < work.version THEN work ELSE both
      BY ZenonT(30) DEF MergeReconcileWork
<1> HIDE DEF fresh, both
<1>5. CASE version > work.version
      BY <1>1, <1>3, <1>4, <1>5, SMTT(30)
<1>6. CASE version < work.version
      BY <1>1, <1>3, <1>4, <1>6, SMTT(30)
<1>7. CASE version = work.version
      BY <1>1, <1>3, <1>4, <1>7, SMTT(30)
<1> QED BY <1>1, <1>5, <1>6, <1>7

LEMMA EnqueuedFacts ==
  ASSUME RuntimeTypeOK, LoopTypeOK, NEW key \in Keys, NEW cause \in Causes, EnqueueThroughRuntime(key, cause)
  PROVE  /\ causes' \in [Keys -> Causes] /\ UNCHANGED <<run, stopped>>
         /\ stopped = "no" => /\ active'[key] # 0
                              /\ \A other \in Keys : active[other] # 0 => active'[other] # 0
<1>1. causes' \in [Keys -> Causes]
      BY MergeCausesType DEF EnqueueThroughRuntime, LoopTypeOK
<1>2. UNCHANGED <<run, stopped>>
      BY DEF EnqueueThroughRuntime, Enqueue
<1>3. ASSUME stopped = "no"
      PROVE active'[key] # 0 /\ \A other \in Keys : active[other] # 0 => active'[other] # 0
  <2>1. active' = [active EXCEPT ![key] = nextGen + 1] /\ nextGen \in Nat /\ active \in [Keys -> Generations]
        BY <1>3, RuntimeAssumption DEF EnqueueThroughRuntime, Enqueue, RuntimeTypeOK, Generations
  <2> QED BY <2>1, SMTT(30)
<1> QED BY <1>1, <1>2, <1>3, ZenonT(30)

ServiceInv == LoopTypeOK /\ NoneIsInvalid /\ ValidIsScheduled /\ PendingIsServed

LEMMA CallsPreserve ==
  ASSUME LoopInv, NEW key \in Keys, PublishIntent(key) \/ EnqueueStoredIntent(key)
  PROVE  ServiceInv'
<1>0. RuntimeTypeOK /\ LoopTypeOK /\ NoneIsInvalid /\ ValidIsScheduled /\ PendingIsServed
      BY DEF LoopInv, NothingIsStranded
<1>1. CASE PublishIntent(key)
  <2> DEFINE new == [version |-> published[key] + 1, valid |-> "yes"]
  <2>1. /\ published' = [published EXCEPT ![key] = @ + 1] /\ intent' = [intent EXCEPT ![key] = new]
        /\ EnqueueThroughRuntime(key, "publish_intent")
        /\ UNCHANGED <<trig, got, pending, worker, item, attempt, replay, handled, adapted, events, panics>>
        BY <1>1, ZenonT(30) DEF PublishIntent
  <2>2. published[key] + 1 \in Versions /\ published[key] + 1 # 0
        BY <1>0, <1>1, LoopAssumption DEF PublishIntent, LoopTypeOK, Versions
  <2>3. new \in [version : Versions, valid : {"yes", "no"}] /\ new.version # 0
        BY <2>2, ZenonT(30)
  <2>4. /\ causes' \in [Keys -> Causes] /\ UNCHANGED <<run, stopped>>
        /\ stopped = "no" => /\ active'[key] # 0
                             /\ \A other \in Keys : active[other] # 0 => active'[other] # 0
        BY <1>0, <2>1, EnqueuedFacts, ZenonT(30) DEF Causes
  <2> HIDE DEF new
  <2>5. LoopTypeOK'
        BY <1>0, <2>1, <2>2, <2>3, <2>4, ZenonT(30) DEF LoopTypeOK
  <2>6. NoneIsInvalid' /\ ValidIsScheduled'
        BY <1>0, <2>1, <2>3, <2>4, ZenonT(30) DEF LoopTypeOK, NoneIsInvalid, ValidIsScheduled
  <2>7. PendingIsServed'
        BY <1>0, <2>1, <2>4, ZenonT(30) DEF PendingIsServed
  <2> QED BY <2>5, <2>6, <2>7 DEF ServiceInv
<1>2. CASE EnqueueStoredIntent(key)
  <2>1. /\ replay' = [replay EXCEPT !.keys = @ \ {key}] /\ EnqueueThroughRuntime(key, replay.cause)
        /\ UNCHANGED <<intent, published, trig, got, pending, worker, item, attempt, handled, adapted, events, panics>>
        BY <1>2 DEF EnqueueStoredIntent
  <2>2. replay.cause \in Causes /\ replay' \in [cause : Causes, keys : SUBSET Keys] /\ replay'.keys = replay.keys \ {key}
        BY <1>0, <2>1, Zenon DEF LoopTypeOK
  <2>3. /\ causes' \in [Keys -> Causes] /\ UNCHANGED <<run, stopped>>
        /\ stopped = "no" => /\ active'[key] # 0
                             /\ \A other \in Keys : active[other] # 0 => active'[other] # 0
        BY <1>0, <2>1, <2>2, EnqueuedFacts
  <2>4. LoopTypeOK'
        BY <1>0, <2>1, <2>2, <2>3 DEF LoopTypeOK
  <2>5. NoneIsInvalid' /\ ValidIsScheduled'
        BY <1>0, <2>1, <2>2, <2>3 DEF NoneIsInvalid, ValidIsScheduled
  <2>6. PendingIsServed'
        BY <1>0, <2>1, <2>3 DEF PendingIsServed
  <2> QED BY <2>4, <2>5, <2>6 DEF ServiceInv
<1> QED BY <1>1, <1>2

LEMMA EventsPreserve ==
  ASSUME LoopInv, ProviderEvent \/ \E key \in Keys : Expire(key) \/ WorkerPanics(key)
  PROVE  ServiceInv'
<1>0. RuntimeTypeOK /\ LoopTypeOK /\ NoneIsInvalid /\ ValidIsScheduled /\ PendingIsServed
      BY DEF LoopInv, NothingIsStranded
<1>1. CASE ProviderEvent
  <2>1. /\ replay' = [cause |-> "other", keys |-> {key \in Keys : intent[key].version # 0}]
        /\ events' = events + 1 /\ events < MaxEvents
        /\ UNCHANGED <<runtimeVars, intent, published, causes, trig, got, pending, worker, item, attempt, handled, adapted, panics>>
        BY <1>1, ZenonT(30) DEF ProviderEvent
  <2>2. LoopTypeOK'
        BY <1>0, <2>1, LoopAssumption, SMTT(30) DEF LoopTypeOK, Causes
  <2>3. NoneIsInvalid' /\ ValidIsScheduled' /\ PendingIsServed'
        BY <1>0, <2>1 DEF NoneIsInvalid, ValidIsScheduled, PendingIsServed, LoopTypeOK, runtimeVars
  <2> QED BY <2>2, <2>3, ZenonT(30) DEF ServiceInv
<1>2. ASSUME NEW key \in Keys, Expire(key) PROVE ServiceInv'
  <2> DEFINE new == [intent[key] EXCEPT !.valid = "no"]
  <2>1. new \in [version : Versions, valid : {"yes", "no"}] /\ new.valid = "no"
        BY <1>0, ZenonT(30) DEF LoopTypeOK
  <2>2. /\ intent' = [intent EXCEPT ![key] = new]
        /\ UNCHANGED <<runtimeVars, published, causes, trig, got, pending, worker, item, attempt, replay, handled, adapted, events, panics>>
        BY <1>2 DEF Expire
  <2> HIDE DEF new
  <2>3. LoopTypeOK'
        BY <1>0, <2>1, <2>2 DEF LoopTypeOK
  <2>4. NoneIsInvalid' /\ ValidIsScheduled' /\ PendingIsServed'
        BY <1>0, <2>1, <2>2 DEF NoneIsInvalid, ValidIsScheduled, PendingIsServed, LoopTypeOK, runtimeVars
  <2> QED BY <2>3, <2>4 DEF ServiceInv
<1>3. ASSUME NEW key \in Keys, WorkerPanics(key) PROVE ServiceInv'
  <2>1. /\ panics' = panics + 1 /\ panics < MaxPanics /\ worker' = [worker EXCEPT ![key] = "off"]
        /\ item' = [item EXCEPT ![key] = NoWork] /\ attempt' = [attempt EXCEPT ![key] = 0]
        /\ UNCHANGED <<runtimeVars, intent, published, causes, trig, got, pending, replay, handled, adapted, events>>
        BY <1>3, ZenonT(30) DEF WorkerPanics
  <2>2. LoopTypeOK'
        BY <1>0, <2>1, Blanks, LoopAssumption, SMTT(30) DEF LoopTypeOK, WorkItems
  <2>3. NoneIsInvalid' /\ ValidIsScheduled'
        BY <1>0, <2>1, ZenonT(30) DEF NoneIsInvalid, ValidIsScheduled, runtimeVars
  <2>4. PendingIsServed'
        BY <1>0, <2>1, LoopAssumption, SMTT(30) DEF PendingIsServed, LoopTypeOK
  <2> QED BY <2>2, <2>3, <2>4 DEF ServiceInv
<1> QED BY <1>1, <1>2, <1>3

LEMMA DrainsPreserve == ASSUME LoopInv, NEW k \in Kinds, Drains(k) PROVE ServiceInv'
<1>0. RuntimeTypeOK /\ LoopTypeOK /\ NoneIsInvalid /\ ValidIsScheduled /\ PendingIsServed
      BY ZenonT(30) DEF LoopInv, NothingIsStranded
<1>1. ASSUME UNCHANGED <<active, stopped, run, intent, replay>> PROVE NoneIsInvalid' /\ ValidIsScheduled'
      BY <1>0, <1>1, ZenonT(30) DEF NoneIsInvalid, ValidIsScheduled
<1>2. ASSUME UNCHANGED <<run, panics, pending, worker>> PROVE PendingIsServed'
      BY <1>0, <1>2, ZenonT(30) DEF PendingIsServed
<1>3. ASSUME NEW key \in Keys, TakeTrigger(k, key) PROVE ServiceInv'
  <2>1. UNCHANGED <<active, stopped, run, intent, published, causes, got, pending, worker, item, attempt, replay, handled, adapted, events, panics>>
        BY <1>3 DEF TakeTrigger, Take
  <2>2. trig' \in [Kinds -> Causes]
        BY <1>0, <1>3, ZenonT(30) DEF TakeTrigger, LoopTypeOK
  <2>3. LoopTypeOK'
        BY <1>0, <2>1, <2>2, ZenonT(30) DEF LoopTypeOK
  <2> QED BY <1>1, <1>2, <2>1, <2>3, ZenonT(30) DEF ServiceInv
<1>4. ASSUME NEW key \in Keys, TriggerReconcile(k, key) PROVE ServiceInv'
  <2>1. UNCHANGED <<active, stopped, run, intent, published, causes, trig, pending, worker, item, attempt, replay, handled, adapted, events, panics>>
        BY <1>4, ZenonT(30) DEF TriggerReconcile, Callback
  <2>2. got' \in [Kinds -> Versions]
        BY <1>0, <1>4, LoopAssumption, SMTT(30) DEF TriggerReconcile, LoopTypeOK, Versions
  <2>3. LoopTypeOK'
        BY <1>0, <2>1, <2>2, ZenonT(30) DEF LoopTypeOK
  <2> QED BY <1>1, <1>2, <2>1, <2>3, ZenonT(30) DEF ServiceInv
<1>5. ASSUME NEW key \in Keys, EnqueueWork(k, key) PROVE ServiceInv'
  <2> DEFINE new == MergeReconcileWork(pending[key], got[k], k, trig[k])
  <2>1. /\ got' = [got EXCEPT ![k] = 0] /\ pending' = [pending EXCEPT ![key] = new]
        /\ worker' = [worker EXCEPT ![key] = IF @ = "off" THEN "loop" ELSE @]
        /\ UNCHANGED <<runtimeVars, intent, published, causes, trig, item, attempt, replay, handled, adapted, events, panics>>
        BY <1>5, ZenonT(30) DEF EnqueueWork
  <2>2. new \in WorkItems
        BY <1>0, MergeWorkFacts, ZenonT(30) DEF LoopTypeOK, WorkItems
  <2> HIDE DEF new
  <2>3. LoopTypeOK'
        BY <1>0, <2>1, <2>2, LoopAssumption, SMTT(30) DEF LoopTypeOK, WorkItems, Versions
  <2>4. PendingIsServed'
        BY <1>0, <2>1, ZenonT(30) DEF PendingIsServed, LoopTypeOK, runtimeVars
  <2> QED BY <1>1, <2>1, <2>3, <2>4, ZenonT(30) DEF ServiceInv, runtimeVars
<1>6. ASSUME UNCHANGED serviceVars, UNCHANGED <<active, stopped, run>> PROVE ServiceInv'
  <2>1. LoopTypeOK'
        BY <1>0, <1>6, ZenonT(30) DEF LoopTypeOK, serviceVars
  <2> QED BY <1>1, <1>2, <1>6, <2>1, ZenonT(30) DEF ServiceInv, serviceVars
<1>7. ASSUME NEW key \in Keys, RequeueAfterCallback(k, key) PROVE ServiceInv'
      BY <1>6, <1>7, ZenonT(30) DEF RequeueAfterCallback, Requeue
<1>8. CASE (Tick(k) \/ Abandon(k) \/ DrainEnds(k) \/ LoopExits(k)) /\ UNCHANGED serviceVars
      BY <1>6, <1>8, ZenonT(30) DEF Tick, Abandon, DrainEnds, LoopExits
<1> QED BY <1>3, <1>4, <1>5, <1>7, <1>8, ZenonT(30) DEF Drains

\* A worker's step that finishes a trigger and leaves intents, runtime flags and
\* pending work alone; a key it forgets has no valid intent.
LEMMA TriggerEnds ==
  ASSUME LoopInv, NEW key \in Keys, NEW k \in Kinds, TriggerDone(key, k),
         UNCHANGED <<stopped, run, published, causes, trig, got, pending, replay, events, panics>>,
         intent' \in [Keys -> [version : Versions, valid : {"yes", "no"}]],
         handled' \in [Keys -> Versions], adapted' \in [Keys -> Versions],
         \A other \in Keys : intent'[other] = intent[other] \/ intent'[other] = NoIntent,
         \A other \in Keys : active'[other] = active[other] \/ intent[other].valid = "no"
  PROVE  ServiceInv'
<1>0. LoopTypeOK /\ NoneIsInvalid /\ ValidIsScheduled /\ PendingIsServed
      BY ZenonT(30) DEF LoopInv, NothingIsStranded
<1>1. /\ item' \in [Keys -> WorkItems] /\ attempt' \in [Keys -> 0..(MaxRetries - 1)]
      /\ worker' \in [Keys -> {"off", "loop", "process", "executing"}]
      /\ worker'[key] # "off" /\ \A other \in Keys : other # key => worker'[other] = worker[other]
      BY <1>0, TriggerDoneFacts, ZenonT(30)
<1>2. LoopTypeOK'
      BY <1>0, <1>1, ZenonT(30) DEF LoopTypeOK, WorkItems
<1>3. NoneIsInvalid' /\ ValidIsScheduled'
      BY <1>0, Blanks, ZenonT(30) DEF NoneIsInvalid, ValidIsScheduled
<1>4. PendingIsServed'
      BY <1>0, <1>1, ZenonT(30) DEF PendingIsServed
<1> QED BY <1>2, <1>3, <1>4, ZenonT(30) DEF ServiceInv

LEMMA WorksPreserve == ASSUME LoopInv, NEW key \in Keys, Works(key) PROVE ServiceInv'
<1>0. RuntimeTypeOK /\ LoopTypeOK /\ NoneIsInvalid /\ ValidIsScheduled /\ PendingIsServed
      BY ZenonT(30) DEF LoopInv, NothingIsStranded
<1>t. /\ intent \in [Keys -> [version : Versions, valid : {"yes", "no"}]]
      /\ handled \in [Keys -> Versions] /\ adapted \in [Keys -> Versions] /\ active \in [Keys -> Generations]
      BY <1>0, ZenonT(30) DEF LoopTypeOK, RuntimeTypeOK
<1>v. item[key].version \in Versions
      BY <1>0, ZenonT(30) DEF LoopTypeOK
<1>1. CASE WorkerTakes(key)
  <2>1. UNCHANGED <<runtimeVars, intent, published, causes, trig, got, attempt, replay, handled, adapted, events, panics>>
        BY <1>1, ZenonT(30) DEF WorkerTakes
  <2>2. /\ pending' \in [Keys -> WorkItems] /\ item' \in [Keys -> WorkItems]
        /\ worker' \in [Keys -> {"off", "loop", "process", "executing"}]
    <3>1. /\ pending \in [Keys -> WorkItems] /\ item \in [Keys -> WorkItems]
          /\ worker \in [Keys -> {"off", "loop", "process", "executing"}]
          BY <1>0, ZenonT(30) DEF LoopTypeOK, WorkItems
    <3>2. \/ pending' = pending /\ item' = item
          \/ pending' = [pending EXCEPT ![key] = NoWork] /\ item' = [item EXCEPT ![key] = pending[key]]
          BY <1>1, ZenonT(30) DEF WorkerTakes
    <3>3. worker' = [worker EXCEPT ![key] = "off"] \/ worker' = [worker EXCEPT ![key] = "process"]
          BY <1>1, ZenonT(30) DEF WorkerTakes
    <3> QED BY <3>1, <3>2, <3>3, Blanks, SMTT(30)
  <2>3. LoopTypeOK'
        BY <1>0, <2>1, <2>2, ZenonT(30) DEF LoopTypeOK, WorkItems
  <2>4. NoneIsInvalid' /\ ValidIsScheduled'
        BY <1>0, <2>1, ZenonT(30) DEF NoneIsInvalid, ValidIsScheduled, runtimeVars
  <2>5. \A other \in Keys : other # key => worker'[other] = worker[other] /\ pending'[other] = pending[other]
        BY <1>0, <1>1, ZenonT(30) DEF WorkerTakes, LoopTypeOK
  <2>6. run = "live" => pending'[key].version = 0 \/ worker'[key] # "off"
    <3>1. CASE run = "cancelled" \/ pending[key].version = 0
      <4>1. pending' = pending
            BY <1>1, <3>1, ZenonT(30) DEF WorkerTakes
      <4> QED BY <3>1, <4>1, ZenonT(30)
    <3>2. CASE ~(run = "cancelled" \/ pending[key].version = 0)
      <4>1. worker' = [worker EXCEPT ![key] = "process"]
            BY <1>1, <3>2, ZenonT(30) DEF WorkerTakes
      <4> QED BY <1>0, <4>1, ZenonT(30) DEF LoopTypeOK
    <3> QED BY <3>1, <3>2, ZenonT(30)
  <2>7. PendingIsServed'
        BY <1>0, <2>1, <2>5, <2>6, ZenonT(30) DEF PendingIsServed, runtimeVars
  <2> QED BY <2>3, <2>4, <2>7, ZenonT(30) DEF ServiceInv
<1>2. ASSUME NEW k \in Kinds, ProcessCancelled(key, k) \/ ProcessSuperseded(key, k) \/ PlanExecuted(key, k)
      PROVE  ServiceInv'
      BY <1>2, <1>t, TriggerEnds, ZenonT(30) DEF ProcessCancelled, ProcessSuperseded, PlanExecuted, runtimeVars
<1>3. ASSUME NEW k \in Kinds, ProcessGone(key, k) PROVE ServiceInv'
  <2>1. intent[key].valid = "no" /\ active' = [active EXCEPT ![key] = 0]
        BY <1>0, <1>3, ZenonT(30) DEF ProcessGone, NoneIsInvalid, Forget
  <2> QED BY <1>3, <1>t, <2>1, TriggerEnds, ZenonT(30) DEF ProcessGone, Forget
<1>4. ASSUME NEW k \in Kinds, ProcessExpired(key, k) PROVE ServiceInv'
  <2>1. intent[key].valid = "no" /\ active' = [active EXCEPT ![key] = 0]
        BY <1>4, ZenonT(30) DEF ProcessExpired, Forget
  <2>2. intent' = intent \/ intent' = [intent EXCEPT ![key] = NoIntent]
        BY <1>4, ZenonT(30) DEF ProcessExpired
  <2>3. /\ intent' \in [Keys -> [version : Versions, valid : {"yes", "no"}]]
        /\ \A other \in Keys : intent'[other] = intent[other] \/ intent'[other] = NoIntent
        BY <1>t, <2>2, Blanks, ZenonT(30)
  <2> QED BY <1>4, <1>t, <2>1, <2>3, TriggerEnds, ZenonT(30) DEF ProcessExpired, Forget
<1>5. ASSUME NEW k \in Kinds, ProcessNoPlan(key, k) PROVE ServiceInv'
  <2>1. handled' \in [Keys -> Versions] /\ adapted' \in [Keys -> Versions]
        BY <1>5, <1>t, <1>v, ZenonT(30) DEF ProcessNoPlan, Evaluated
  <2> QED BY <1>5, <1>t, <2>1, TriggerEnds, ZenonT(30) DEF ProcessNoPlan, runtimeVars
<1>6. ASSUME NEW k \in Kinds, ProcessPlan(key, k) PROVE ServiceInv'
  <2>1. handled' \in [Keys -> Versions] /\ adapted' \in [Keys -> Versions]
        BY <1>6, <1>t, <1>v, ZenonT(30) DEF ProcessPlan, Evaluated
  <2>2. /\ worker' = [worker EXCEPT ![key] = "executing"]
        /\ UNCHANGED <<runtimeVars, intent, published, causes, trig, got, pending, item, attempt, replay, events, panics>>
        BY <1>6, ZenonT(30) DEF ProcessPlan
  <2>3. LoopTypeOK'
        BY <1>0, <2>1, <2>2, ZenonT(30) DEF LoopTypeOK
  <2>4. NoneIsInvalid' /\ ValidIsScheduled'
        BY <1>0, <2>2, ZenonT(30) DEF NoneIsInvalid, ValidIsScheduled, runtimeVars
  <2>5. PendingIsServed'
        BY <1>0, <2>2, ZenonT(30) DEF PendingIsServed, LoopTypeOK, runtimeVars
  <2> QED BY <2>3, <2>4, <2>5, ZenonT(30) DEF ServiceInv
<1>7. ASSUME NEW k \in Kinds, RevisionConflict(key, k) PROVE ServiceInv'
  <2>1. UNCHANGED <<runtimeVars, intent, published, causes, trig, got, pending, replay, adapted, events, panics>>
        BY <1>7, Zenon DEF RevisionConflict
  <2>2. CASE attempt[key] + 1 < MaxRetries
    <3>1. attempt' = [attempt EXCEPT ![key] = @ + 1] /\ UNCHANGED <<item, worker, handled>>
          BY <1>7, <2>2, ZenonT(30) DEF RevisionConflict
    <3>2. attempt' \in [Keys -> 0..(MaxRetries - 1)]
          BY <1>0, <2>2, <3>1, LoopAssumption, SMTT(30) DEF LoopTypeOK
    <3>3. LoopTypeOK'
          BY <1>0, <2>1, <3>1, <3>2, ZenonT(30) DEF LoopTypeOK
    <3>4. NoneIsInvalid' /\ ValidIsScheduled' /\ PendingIsServed'
          BY <1>0, <2>1, <3>1, ZenonT(30) DEF NoneIsInvalid, ValidIsScheduled, PendingIsServed, runtimeVars
    <3> QED BY <3>3, <3>4, ZenonT(30) DEF ServiceInv
  <2>3. CASE ~(attempt[key] + 1 < MaxRetries)
    <3>1. TriggerDone(key, k) /\ handled' = [handled EXCEPT ![key] = item[key].version]
          BY <1>7, <2>3, ZenonT(30) DEF RevisionConflict
    <3> QED BY <1>t, <1>v, <2>1, <3>1, TriggerEnds, ZenonT(30) DEF runtimeVars
  <2> QED BY <2>2, <2>3, ZenonT(30)
<1> QED BY <1>1, <1>2, <1>3, <1>4, <1>5, <1>6, <1>7, ZenonT(30) DEF Works

LEMMA ClosePreserves == ASSUME LoopInv, Close PROVE ServiceInv'
<1>0. LoopTypeOK /\ NoneIsInvalid /\ ValidIsScheduled /\ PendingIsServed /\ run \in {"live", "cancelled"}
      BY ZenonT(30) DEF LoopInv, NothingIsStranded, RuntimeTypeOK
<1>1. /\ UNCHANGED serviceVars /\ (run' = run \/ run' = "cancelled")
      /\ stopped' = "yes" \/ (stopped' = stopped /\ active' = active)
      BY ZenonT(30) DEF Close, Cancel, Deactivate, Stop, StopReturns
<1>2. LoopTypeOK'
      BY <1>0, <1>1, ZenonT(30) DEF LoopTypeOK, serviceVars
<1>3. NoneIsInvalid' /\ ValidIsScheduled' /\ PendingIsServed'
      BY <1>0, <1>1, ZenonT(30) DEF NoneIsInvalid, ValidIsScheduled, PendingIsServed, serviceVars
<1> QED BY <1>2, <1>3, ZenonT(30) DEF ServiceInv

LEMMA LoopStep == ASSUME LoopInv, IInv, [Next]_vars PROVE LoopInv'
<1>1. RuntimeTypeOK'
  <2>1. [NextRuntime]_runtimeVars
        BY ServiceSteps, ZenonT(30)
  <2> QED BY <2>1, RuntimeStep, ZenonT(30) DEF IInv
<1>2. CASE UNCHANGED vars
      BY <1>1, <1>2, ZenonT(30) DEF vars, runtimeVars, serviceVars, LoopInv, LoopTypeOK, NoneIsInvalid, NothingIsStranded,
                        ValidIsScheduled, PendingIsServed
<1>3. CASE Next
  <2>1. ServiceInv'
        BY <1>3, CallsPreserve, EventsPreserve, DrainsPreserve, WorksPreserve, ClosePreserves, ZenonT(30) DEF Next
  <2> QED BY <1>1, <2>1, ZenonT(30) DEF LoopInv, ServiceInv, NothingIsStranded
<1> QED BY <1>2, <1>3, ZenonT(30)

\* The invariants of the service and of the runtime inside it hold in every state.
THEOREM LoopInvariant == Spec => [](LoopInv /\ IInv)
<1>1. Init => LoopInv /\ IInv
      BY LoopInit, InitInvariant, ZenonT(30) DEF Init
<1>2. LoopInv /\ IInv /\ [Next]_vars => (LoopInv /\ IInv)'
      BY LoopStep, ServiceSteps, RuntimeStep, ZenonT(30)
<1> QED BY <1>1, <1>2, PTL DEF Spec

\* Work items carry versions that were published and triggers of known causes,
\* and an evaluation is retried fewer than maxRevisionRetries times (processAccepted).
THEOREM LoopTypeCorrect == Spec => []LoopTypeOK
<1>1. LoopInv => LoopTypeOK
      BY ZenonT(30) DEF LoopInv
<1> QED BY <1>1, LoopInvariant, PTL

\* A valid intent stays scheduled and its pending work has a worker, for any number
\* of keys and frequencies, whatever publications, expiries, provider events,
\* callbacks and workers interleave (triggerReconcile, processKey, processAccepted).
THEOREM NothingEverStranded == Spec => []NothingIsStranded
<1>1. LoopInv => NothingIsStranded
      BY ZenonT(30) DEF LoopInv
<1> QED BY <1>1, LoopInvariant, PTL

\* A key that the service scheduled is in every frequency's queue, batch or hand
\* until it is forgotten or the service closes: NoKeyLost of the runtime, inside
\* the service (Enqueue, drain).
THEOREM ServiceLosesNoKey == Spec => []NoKeyLost
BY ServiceUsesTheRuntime, KeyNeverLost, PTL

\* However late a callback's enqueue comes, pending work is never replaced by work
\* of an older intent version (mergeReconcileWork, enqueue, processKey).
THEOREM PendingMovesForward == Spec => PendingNeverRegresses
<1> DEFINE Forward == \A key \in Keys : pending[key].version # 0 /\ pending'[key].version # 0 =>
                        pending'[key].version >= pending[key].version
<1>1. LoopInv /\ [Next]_vars => [Forward]_vars
  <2> SUFFICES ASSUME LoopInv, Next, NEW other \in Keys, pending[other].version # 0, pending'[other].version # 0
               PROVE  pending'[other].version >= pending[other].version
      BY ZenonT(30)
  <2>1. /\ pending \in [Keys -> WorkItems] /\ pending[other].version \in Nat
        /\ got \in [Kinds -> Versions] /\ trig \in [Kinds -> Causes]
        BY LoopAssumption DEF LoopInv, LoopTypeOK, WorkItems, Versions
  <2>2. CASE UNCHANGED pending
        BY <2>1, <2>2
  <2>3. ASSUME NEW k \in Kinds, NEW key \in Keys, EnqueueWork(k, key)
        PROVE  pending'[other].version >= pending[other].version
    <3> DEFINE new == MergeReconcileWork(pending[key], got[k], k, trig[k])
    <3>1. new.version >= pending[key].version
          BY <2>1, MergeWorkFacts, ZenonT(30)
    <3>2. pending' = [pending EXCEPT ![key] = new]
          BY <2>3, ZenonT(30) DEF EnqueueWork
    <3> HIDE DEF new
    <3> QED BY <2>1, <3>1, <3>2, SMTT(30)
  <2>4. ASSUME NEW key \in Keys, WorkerTakes(key), ~UNCHANGED pending
        PROVE  pending'[other].version >= pending[other].version
    <3>1. pending' = [pending EXCEPT ![key] = NoWork]
          BY <2>4, ZenonT(30) DEF WorkerTakes
    <3> QED BY <2>1, <3>1, Blanks, SMTT(30)
  <2>5. CASE Close \/ ProviderEvent \/ \E key \in Keys : PublishIntent(key) \/ Expire(key) \/ EnqueueStoredIntent(key) \/ WorkerPanics(key)
        BY <2>2, <2>5, ZenonT(30) DEF Close, ProviderEvent, PublishIntent, Expire, EnqueueStoredIntent, WorkerPanics, serviceVars
  <2>6. ASSUME NEW k \in Kinds, Drains(k) PROVE pending'[other].version >= pending[other].version
        BY <2>2, <2>3, <2>6, ZenonT(30) DEF Drains, TakeTrigger, TriggerReconcile, RequeueAfterCallback, serviceVars
  <2>7. ASSUME NEW key \in Keys, Works(key) PROVE pending'[other].version >= pending[other].version
        BY <2>2, <2>4, <2>7, ZenonT(30) DEF Works, ProcessCancelled, ProcessGone, ProcessSuperseded, ProcessExpired, ProcessNoPlan,
                                ProcessPlan, PlanExecuted, RevisionConflict
  <2> QED BY <2>5, <2>6, <2>7, ZenonT(30) DEF Next
<1> QED BY <1>1, LoopInvariant, PTL DEF Spec, PendingNeverRegresses

--------------------------------------------------------------------------------
(* The checkpoint. *)

TxStates == {"none", "reserved", "applying", "applied", "committed", "aborted"}
Transactions == [st : TxStates, gen : Nat]
Reserved == {"none", "held", "kept", "freed"}
Audits == {"none", "pending", "committed"}
Stores == [intents : [CpKeys -> Nat], rev : Int, txn : Transactions, res : Reserved]
Images == [format : {2, 3}, intents : [CpKeys -> Nat], rev : Int, txn : Transactions, res : Reserved, audit : Audits]
Journals == [format : {1, 3}, intents : [CpKeys -> Nat], rev : Int]
Idle == [step |-> "idle"]
Publications == [step : {"prepared", "saved"}, key : CpKeys, staged : Stores]
ActiveSteps == {"staged", "run", "persist", "effect"}
Executions == [step : ActiveSteps \cup {"idle", "decided", "ended"}, gen : Nat]
Boots == {"down", "transactions", "reservations", "checkpoint", "up", "refused"}
Effects == [record : {"absent", "inflight", "unknown", "succeeded", "failed", "rolled_back"}, occupied : BOOLEAN]

(* A publication in progress has a staged Store. *)
Staging == cpPub.step # "idle"
Complete == cpFile.format \in {2, 3}

CpTypeOK ==
  /\ cpStore \in Stores /\ cpAudit \in Audits
  /\ cpPub = Idle \/ cpPub \in Publications
  /\ cpExec \in Executions
  /\ cpFile = NoCheckpoint \/ cpFile = LegacySnapshot \/ cpFile \in Images
  /\ cpJournal = NoCheckpoint \/ cpJournal \in Journals
  /\ cpBoot \in Boots /\ cpEffect \in Effects

(* Only a Scheduler that is up publishes or executes. *)
BootInv == cpBoot # "up" => cpPub = Idle /\ cpExec.step = "idle"

(* The last save that reached the file is the file, and recovery starts from it. *)
SavedInv ==
  /\ cpSaved = cpFile
  /\ cpBoot = "transactions" /\ cpFile.format = 3 => Capture(cpStore, cpAudit) = cpFile

(* Reserved capacity has a transaction once recovery has looked at it. *)
Settled(store) == store.res = "held" => store.txn.st # "none"
HeldInv ==
  /\ cpBoot \in {"checkpoint", "up"} => Settled(cpStore)
  /\ Staging => Settled(cpPub.staged)

(* A transaction is applying from its second generation on. *)
Counted(txn) == txn.st = "applying" => txn.gen >= 2
GenInv ==
  /\ Counted(cpStore.txn) /\ (Staging => Counted(cpPub.staged.txn)) /\ (Complete => Counted(cpFile.txn))
  /\ cpExec.step \in ActiveSteps => cpExec.gen >= 1

(* Whichever Store comes back, its freed capacity is free. *)
Free(store, occupied) == store.res = "freed" => ~occupied
FreedInv ==
  /\ cpEffect.record = "rolled_back" => ~cpEffect.occupied
  /\ Free(cpStore, cpEffect.occupied)
  /\ Staging => Free(cpPub.staged, cpEffect.occupied)
  /\ Complete => Free(cpFile, cpEffect.occupied)

(* While the plan may still take effect, nothing that can come back is freed. *)
ActiveInv ==
  cpExec.step \in ActiveSteps /\ cpExec.gen <= 2 =>
    /\ cpStore.res # "freed" /\ (Staging => cpPub.staged.res # "freed") /\ (Complete => cpFile.res # "freed")

(* Before a plan is staged, the file and the staged copy agree with the Store. *)
IdleInv ==
  cpExec.step = "idle" /\ cpBoot \notin {"down", "refused"} =>
    /\ Complete /\ cpFile.res = "freed" => cpStore.res = "freed"
    /\ Staging => cpPub.staged.res = cpStore.res

CpInv == CpTypeOK /\ BootInv /\ SavedInv /\ HeldInv /\ GenInv /\ FreedInv /\ ActiveInv /\ IdleInv

LEMMA BlankImages ==
  /\ EmptyStore \in Stores /\ EmptyStore.res = "none" /\ EmptyStore.txn.st = "none"
  /\ Idle.step = "idle"
  /\ NoCheckpoint.format = 0 /\ LegacySnapshot.format = 1
BY DEF EmptyStore, Stores, NoTransaction, Transactions, TxStates, Reserved, Idle, NoCheckpoint, LegacySnapshot

LEMMA CheckpointInit == CpInit => CpInv
<1> SUFFICES ASSUME CpInit PROVE CpInv
    BY ZenonT(30)
<1>1. /\ cpStore = EmptyStore /\ cpAudit = "none" /\ cpPub = Idle /\ cpExec = [step |-> "idle", gen |-> 0]
      /\ cpBoot = "down" /\ cpSaved = cpFile
      BY ZenonT(30) DEF CpInit, Idle
<1>2. cpExec \in Executions /\ cpExec.step = "idle"
      BY <1>1, ZenonT(30) DEF Executions
<1>3. cpJournal = NoCheckpoint \/ cpJournal \in Journals
      BY SMTT(30) DEF CpInit, Journals, LegacyJournal
<1>4. \/ cpFile = NoCheckpoint \/ cpFile = LegacySnapshot
      \/ cpFile \in Images /\ cpFile.txn.st = "none" /\ cpFile.res = "held"
  <2>1. ASSUME NEW a \in Audits, cpFile = LegacyReservation(a)
        PROVE cpFile \in Images /\ cpFile.txn.st = "none" /\ cpFile.res = "held"
        BY <2>1, SMTT(30) DEF LegacyReservation, Images, NoTransaction, Transactions, TxStates, Reserved
  <2> QED BY <2>1, ZenonT(30) DEF CpInit, Audits
<1>5. cpEffect \in Effects /\ (cpEffect.record = "rolled_back" => ~cpEffect.occupied)
  <2>1. Untouched \in Effects /\ Untouched.record = "absent"
        BY ZenonT(30) DEF Effects, Untouched
  <2>2. ASSUME NEW e \in LegacyEffects PROVE e \in Effects /\ (e.record = "rolled_back" => ~e.occupied)
    <3>1. CASE e = Untouched
          BY <2>1, <3>1, ZenonT(30)
    <3>2. CASE e \in [record : {"inflight", "unknown"}, occupied : BOOLEAN] \cup [record : {"failed"}, occupied : BOOLEAN]
          BY <3>2, ZenonT(30) DEF Effects
    <3>3. CASE e \in [record : {"succeeded"}, occupied : {TRUE}] \cup [record : {"rolled_back"}, occupied : {FALSE}]
          BY <3>3, ZenonT(30) DEF Effects
    <3> QED BY <3>1, <3>2, <3>3, Zenon DEF LegacyEffects
  <2> QED BY <2>1, <2>2, ZenonT(30) DEF CpInit
<1>6. CpTypeOK
      BY <1>1, <1>2, <1>3, <1>4, <1>5, BlankImages, ZenonT(30) DEF CpTypeOK, Audits, Boots
<1>7. BootInv /\ SavedInv
      BY <1>1, <1>2, ZenonT(30) DEF BootInv, SavedInv
<1>8. HeldInv /\ GenInv
      BY <1>1, <1>2, <1>4, BlankImages, SMTT(30) DEF HeldInv, GenInv, Staging, Complete, Counted, ActiveSteps
<1>9. FreedInv /\ ActiveInv /\ IdleInv
      BY <1>1, <1>2, <1>4, <1>5, BlankImages, SMTT(30) DEF FreedInv, Free, Staging, Complete, ActiveInv, ActiveSteps, IdleInv
<1> QED BY <1>6, <1>7, <1>8, <1>9, ZenonT(30) DEF CpInv

(* Capture keeps every part of the Store. *)
LEMMA CaptureFacts ==
  ASSUME NEW store \in Stores, NEW audit \in Audits
  PROVE  /\ Capture(store, audit) \in Images /\ Capture(store, audit).format = 3
         /\ Capture(store, audit).txn = store.txn /\ Capture(store, audit).res = store.res
BY ZenonT(30) DEF Capture, Images, Stores

(* A save leaves the file as it was or replaces it by the image, which it does *)
(* when it succeeds.                                                           *)
LEMMA SaveFacts ==
  ASSUME CpTypeOK, cpSaved = cpFile, NEW image \in Images, NEW outcome, SaveCheckpoint(image, outcome)
  PROVE  /\ cpFile' = cpFile \/ cpFile' = image
         /\ Succeeds(outcome) => cpFile' = image
         /\ cpSaved' = cpFile'
         /\ cpJournal' = NoCheckpoint \/ cpJournal' \in Journals
<1>1. JournalRecords(image) \in Journals
      BY ZenonT(30) DEF JournalRecords, Journals, Images
<1>2. CASE cpGate = "closed" /\ outcome = "lost" /\ UNCHANGED <<cpDisk, cpGate>>
      BY <1>2, ZenonT(30) DEF cpDisk, Succeeds, CpTypeOK
<1>3. CASE ~(cpGate = "closed" /\ outcome = "lost" /\ UNCHANGED <<cpDisk, cpGate>>)
      BY <1>1, <1>3, ZenonT(30) DEF SaveCheckpoint, Succeeds, CpTypeOK
<1> QED BY <1>2, <1>3, ZenonT(30)

(* A save of a Store that can come back keeps what the invariant says of the   *)
(* file.                                                                       *)
FileOf(store) ==
  \/ cpFile' = cpFile
  \/ cpFile' \in Images /\ cpFile'.format = 3 /\ cpFile'.txn = store.txn /\ cpFile'.res = store.res
FileInv(file, saved, occupied) ==
  /\ file = NoCheckpoint \/ file = LegacySnapshot \/ file \in Images
  /\ saved = file
  /\ file.format \in {2, 3} => Counted(file.txn) /\ Free(file, occupied)

LEMMA SavedStore ==
  ASSUME CpInv, NEW store \in Stores, NEW audit \in Audits, NEW outcome,
         SaveCheckpoint(Capture(store, audit), outcome)
  PROVE  /\ FileOf(store) /\ cpSaved' = cpFile'
         /\ Succeeds(outcome) => cpFile' = Capture(store, audit)
         /\ cpJournal' = NoCheckpoint \/ cpJournal' \in Journals
<1>1. /\ Capture(store, audit) \in Images /\ Capture(store, audit).format = 3
      /\ Capture(store, audit).txn = store.txn /\ Capture(store, audit).res = store.res
      BY CaptureFacts, ZenonT(30)
<1>2. CpTypeOK /\ cpSaved = cpFile
      BY ZenonT(30) DEF CpInv, SavedInv
<1> QED BY <1>1, <1>2, SaveFacts, ZenonT(30) DEF FileOf

LEMMA FileKept ==
  ASSUME CpInv, NEW store \in Stores, FileOf(store), cpSaved' = cpFile',
         Counted(store.txn), Free(store, cpEffect.occupied), UNCHANGED cpEffect
  PROVE  FileInv(cpFile', cpSaved', cpEffect'.occupied)
<1>1. CASE cpFile' = cpFile
      BY <1>1, ZenonT(30) DEF CpInv, CpTypeOK, GenInv, FreedInv, Complete, FileInv
<1>2. CASE cpFile' \in Images /\ cpFile'.format = 3 /\ cpFile'.txn = store.txn /\ cpFile'.res = store.res
      BY <1>2, ZenonT(30) DEF FileInv, Free
<1> QED BY <1>1, <1>2, ZenonT(30) DEF FileOf

-----------------------------------------------------------------------------
(* Publications *)

LEMMA StagedFacts ==
  ASSUME CpTypeOK, Staging
  PROVE  cpPub \in Publications /\ cpPub.staged \in Stores /\ cpPub.key \in CpKeys
BY BlankImages, ZenonT(30) DEF CpTypeOK, Staging, Publications

LEMMA PreparePreserves == ASSUME CpInv, NEW k \in CpKeys, Prepare(k) PROVE CpInv'
<1> DEFINE staged == [cpStore EXCEPT !.intents[k] = @ + 1, !.rev = @ + 1]
           pub == [step |-> "prepared", key |-> k, staged |-> staged]
<1>1. cpStore \in Stores /\ cpBoot = "up" /\ cpExec.step # "staged"
      BY ZenonT(30) DEF CpInv, CpTypeOK, Prepare, PlanMuFree, Up
<1>2. staged \in Stores /\ staged.txn = cpStore.txn /\ staged.res = cpStore.res
  <2> DEFINE intents == [cpStore.intents EXCEPT ![k] = @ + 1]
  <2>1. cpStore.intents \in [CpKeys -> Nat] /\ cpStore.rev + 1 \in Int
        BY <1>1, SMTT(30) DEF Stores
  <2>2. intents \in [CpKeys -> Nat]
        BY <2>1
  <2>3. staged = [cpStore EXCEPT !.intents = intents, !.rev = @ + 1]
        BY <1>1, ZenonT(30) DEF Stores
  <2> HIDE DEF intents, staged
  <2> QED BY <1>1, <2>1, <2>2, <2>3, Zenon DEF Stores
<1>3. cpPub' = pub /\ UNCHANGED <<cpStore, cpAudit, cpExec, cpGate, cpBoot, cpDisk, cpEffect>>
      BY ZenonT(30) DEF Prepare
<1> HIDE DEF staged
<1>4. pub \in Publications /\ pub.step = "prepared" /\ pub.staged = staged
      BY <1>2, ZenonT(30) DEF Publications
<1> HIDE DEF pub
<1>5. CpTypeOK' /\ BootInv' /\ SavedInv'
      BY <1>1, <1>3, <1>4, ZenonT(30) DEF CpInv, CpTypeOK, BootInv, SavedInv, cpDisk
<1>6. HeldInv' /\ GenInv'
      BY <1>1, <1>2, <1>3, <1>4, ZenonT(30) DEF CpInv, HeldInv, Settled, GenInv, Staging, Complete, cpDisk
<1>7. FreedInv' /\ ActiveInv' /\ IdleInv'
      BY <1>1, <1>2, <1>3, <1>4, ZenonT(30) DEF CpInv, FreedInv, Free, ActiveInv, IdleInv, Staging, Complete, cpDisk
<1> QED BY <1>5, <1>6, <1>7, ZenonT(30) DEF CpInv

LEMMA SavePublicationPreserves == ASSUME CpInv, NEW outcome, SavePublication(outcome) PROVE CpInv'
<1> DEFINE saved == [cpPub EXCEPT !.step = "saved"]
<1>1. Staging /\ cpPub.staged \in Stores /\ cpPub \in Publications /\ cpAudit \in Audits /\ cpBoot = "up"
      BY StagedFacts, BlankImages, ZenonT(30) DEF CpInv, CpTypeOK, BootInv, SavePublication, Staging
<1>2. /\ FileOf(cpPub.staged) /\ cpSaved' = cpFile' /\ (cpJournal' = NoCheckpoint \/ cpJournal' \in Journals)
      BY <1>1, SavedStore, ZenonT(30) DEF SavePublication
<1>3. UNCHANGED <<cpStore, cpAudit, cpExec, cpBoot, cpEffect>>
      BY ZenonT(30) DEF SavePublication
<1>4. FileInv(cpFile', cpSaved', cpEffect'.occupied)
      BY <1>1, <1>2, <1>3, FileKept, ZenonT(30) DEF CpInv, GenInv, FreedInv
<1>5. saved \in Publications /\ saved.staged = cpPub.staged
      BY <1>1, ZenonT(30) DEF Publications
<1>6. cpPub' = Idle \/ cpPub' = saved
      BY ZenonT(30) DEF SavePublication, Idle
<1> HIDE DEF saved
<1>7. CpTypeOK' /\ BootInv' /\ SavedInv'
      BY <1>1, <1>2, <1>3, <1>4, <1>5, <1>6, ZenonT(30) DEF CpInv, CpTypeOK, BootInv, SavedInv, FileInv
<1>8. HeldInv' /\ GenInv'
      BY <1>1, <1>3, <1>4, <1>5, <1>6, BlankImages, ZenonT(30) DEF CpInv, HeldInv, GenInv, Staging, Complete, FileInv
<1>9. FreedInv'
      BY <1>1, <1>3, <1>4, <1>5, <1>6, BlankImages, ZenonT(30) DEF CpInv, FreedInv, Staging, Complete, FileInv
<1>10. ActiveInv' /\ IdleInv'
      BY <1>1, <1>2, <1>3, <1>5, <1>6, BlankImages, ZenonT(30) DEF CpInv, ActiveInv, IdleInv, Staging, Complete, FileOf
<1> QED BY <1>7, <1>8, <1>9, <1>10, ZenonT(30) DEF CpInv

LEMMA CommitPublicationPreserves == ASSUME CpInv, CommitPublication PROVE CpInv'
<1>1. Staging /\ cpPub.staged \in Stores /\ cpBoot = "up"
      BY StagedFacts, BlankImages, ZenonT(30) DEF CpInv, BootInv, CommitPublication, Staging
<1>2. cpStore' = cpPub.staged /\ cpPub' = Idle /\ UNCHANGED <<cpAudit, cpExec, cpGate, cpBoot, cpDisk, cpEffect>>
      BY ZenonT(30) DEF CommitPublication, Idle
<1>3. CpTypeOK' /\ BootInv' /\ SavedInv'
      BY <1>1, <1>2, ZenonT(30) DEF CpInv, CpTypeOK, BootInv, SavedInv, cpDisk
<1>4. HeldInv' /\ GenInv'
      BY <1>1, <1>2, BlankImages, ZenonT(30) DEF CpInv, HeldInv, GenInv, Staging, Complete, cpDisk
<1>5. FreedInv' /\ ActiveInv' /\ IdleInv'
      BY <1>1, <1>2, BlankImages, ZenonT(30) DEF CpInv, FreedInv, ActiveInv, IdleInv, Staging, Complete, cpDisk
<1> QED BY <1>3, <1>4, <1>5, ZenonT(30) DEF CpInv

-----------------------------------------------------------------------------
(* The plan's executor *)

LEMMA StagePlanPreserves == ASSUME CpInv, StagePlan PROVE CpInv'
<1> DEFINE txn == [st |-> "reserved", gen |-> 1]
           store == [cpStore EXCEPT !.txn = txn, !.res = "held", !.rev = @ + 1]
           exec == [step |-> "staged", gen |-> 1]
<1>1. cpStore \in Stores /\ cpBoot = "up" /\ cpPub.step = "idle" /\ cpExec.step = "idle" /\ cpStore.res = "none"
      BY ZenonT(30) DEF CpInv, CpTypeOK, StagePlan, PlanMuFree, Up
<1>2. txn \in Transactions /\ txn.st = "reserved"
      BY ZenonT(30) DEF Transactions, TxStates
<1> HIDE DEF txn
<1>3. store \in Stores /\ store.txn = txn /\ store.res = "held"
  <2> DEFINE rev == cpStore.rev + 1
  <2>1. rev \in Int /\ "held" \in Reserved
        BY <1>1 DEF Stores, Reserved
  <2>2. store = [cpStore EXCEPT !.txn = txn, !.res = "held", !.rev = rev]
        BY <1>1, ZenonT(30) DEF Stores
  <2> HIDE DEF rev, store
  <2> QED BY <1>1, <1>2, <2>1, <2>2, Zenon DEF Stores
<1>4. exec \in Executions /\ exec.step = "staged" /\ exec.gen = 1
      BY ZenonT(30) DEF Executions, ActiveSteps
<1>5. cpStore' = store /\ cpExec' = exec /\ UNCHANGED <<cpAudit, cpPub, cpGate, cpBoot, cpDisk, cpEffect>>
      BY ZenonT(30) DEF StagePlan, txn
<1> HIDE DEF store, exec
<1>6. CpTypeOK' /\ BootInv' /\ SavedInv'
      BY <1>1, <1>3, <1>4, <1>5, ZenonT(30) DEF CpInv, CpTypeOK, BootInv, SavedInv, cpDisk
<1>7. HeldInv' /\ GenInv'
      BY <1>1, <1>2, <1>3, <1>4, <1>5, SMTT(30) DEF CpInv, HeldInv, Settled, GenInv, Counted, Staging, Complete, cpDisk
<1>8. FreedInv' /\ ActiveInv' /\ IdleInv'
      BY <1>1, <1>3, <1>4, <1>5, ZenonT(30) DEF CpInv, FreedInv, Free, ActiveInv, IdleInv, Staging, Complete, cpDisk
<1> QED BY <1>6, <1>7, <1>8, ZenonT(30) DEF CpInv

LEMMA SavePendingDecisionPreserves == ASSUME CpInv, NEW outcome, SavePendingDecision(outcome) PROVE CpInv'
<1> DEFINE undone == [cpStore EXCEPT !.txn = NoTransaction, !.res = "none", !.rev = @ - 1]
           ran == [cpExec EXCEPT !.step = "run"]
           ended == [cpExec EXCEPT !.step = "ended"]
<1>1. cpStore \in Stores /\ cpExec \in Executions /\ cpExec.step = "staged" /\ cpBoot = "up" /\ "pending" \in Audits
      BY ZenonT(30) DEF CpInv, CpTypeOK, BootInv, SavePendingDecision, Audits
<1>2. /\ FileOf(cpStore) /\ cpSaved' = cpFile' /\ (cpJournal' = NoCheckpoint \/ cpJournal' \in Journals)
      BY <1>1, SavedStore, ZenonT(30) DEF SavePendingDecision
<1>3. UNCHANGED <<cpPub, cpBoot, cpEffect>> /\ cpAudit' \in Audits
      BY ZenonT(30) DEF SavePendingDecision, CpInv, CpTypeOK, Audits
<1>4. FileInv(cpFile', cpSaved', cpEffect'.occupied)
      BY <1>1, <1>2, <1>3, FileKept, ZenonT(30) DEF CpInv, GenInv, FreedInv
<1>5. undone \in Stores /\ undone.res = "none" /\ undone.txn.st = "none"
  <2> DEFINE rev == cpStore.rev - 1
  <2>1. rev \in Int /\ "none" \in Reserved
        BY <1>1, SMTT(30) DEF Stores, Reserved
  <2>2. NoTransaction \in Transactions /\ NoTransaction.st = "none"
        BY ZenonT(30) DEF NoTransaction, Transactions, TxStates
  <2>3. undone = [cpStore EXCEPT !.txn = NoTransaction, !.res = "none", !.rev = rev]
        BY <1>1, ZenonT(30) DEF Stores
  <2> HIDE DEF rev, undone
  <2> QED BY <1>1, <2>1, <2>2, <2>3, Zenon DEF Stores
<1>6. /\ ran \in Executions /\ ran.step = "run" /\ ran.gen = cpExec.gen
      /\ ended \in Executions /\ ended.step = "ended"
      BY <1>1, ZenonT(30) DEF Executions, ActiveSteps
<1>7. \/ cpStore' = cpStore /\ cpExec' = ran
      \/ cpStore' = undone /\ cpExec' = ended
      BY ZenonT(30) DEF SavePendingDecision
<1> HIDE DEF undone, ran, ended
<1>8. CpTypeOK' /\ BootInv' /\ SavedInv'
      BY <1>1, <1>2, <1>3, <1>4, <1>5, <1>6, <1>7, ZenonT(30) DEF CpInv, CpTypeOK, BootInv, SavedInv, FileInv
<1>9. HeldInv'
      BY <1>1, <1>3, <1>5, <1>7, ZenonT(30) DEF CpInv, HeldInv, Settled, Staging
<1>10. GenInv'
      BY <1>1, <1>3, <1>4, <1>5, <1>6, <1>7, ZenonT(30) DEF CpInv, GenInv, Counted, Staging, Complete, FileInv, ActiveSteps
<1>11. FreedInv'
      BY <1>1, <1>3, <1>4, <1>5, <1>7, ZenonT(30) DEF CpInv, FreedInv, Free, Staging, Complete, FileInv
<1>12. ActiveInv' /\ IdleInv'
      BY <1>1, <1>2, <1>3, <1>6, <1>7, ZenonT(30) DEF CpInv, ActiveInv, ActiveSteps, IdleInv, Staging, Complete, FileOf
<1> QED BY <1>8, <1>9, <1>10, <1>11, <1>12, ZenonT(30) DEF CpInv

(* A worker that only moves on keeps the invariant. *)
LEMMA MovesOn ==
  ASSUME CpInv, cpExec.step \notin {"idle"}, UNCHANGED <<cpStore, cpPub, cpBoot, cpEffect>>,
         cpAudit' \in Audits, cpJournal' = NoCheckpoint \/ cpJournal' \in Journals,
         FileOf(cpStore), cpSaved' = cpFile',
         cpExec' \in Executions, cpExec'.step # "idle",
         cpExec'.step \in ActiveSteps => cpExec'.gen = cpExec.gen /\ cpExec.step \in ActiveSteps
  PROVE  CpInv'
<1>1. cpStore \in Stores /\ cpBoot = "up"
      BY ZenonT(30) DEF CpInv, CpTypeOK, BootInv
<1>2. FileInv(cpFile', cpSaved', cpEffect'.occupied)
      BY <1>1, FileKept, ZenonT(30) DEF CpInv, GenInv, FreedInv
<1>3. CpTypeOK' /\ BootInv' /\ SavedInv'
      BY <1>1, <1>2, ZenonT(30) DEF CpInv, CpTypeOK, BootInv, SavedInv, FileInv
<1>4. HeldInv' /\ GenInv'
      BY <1>1, <1>2, ZenonT(30) DEF CpInv, HeldInv, GenInv, Staging, Complete, FileInv
<1>5. FreedInv'
      BY <1>2, ZenonT(30) DEF CpInv, FreedInv, Staging, Complete, FileInv
<1>6. ActiveInv' /\ IdleInv'
      BY ZenonT(30) DEF CpInv, ActiveInv, IdleInv, Staging, Complete, FileOf
<1> QED BY <1>3, <1>4, <1>5, <1>6, ZenonT(30) DEF CpInv

LEMMA AdvancePreserves == ASSUME CpInv, Advance PROVE CpInv'
<1>1. cpStore \in Stores /\ cpExec \in Executions /\ cpExec.step = "run" /\ cpBoot = "up" /\ cpExec.gen \in Nat /\ cpExec.gen >= 1
      BY Zenon DEF CpInv, CpTypeOK, BootInv, Advance, Executions, GenInv, ActiveSteps
<1>2. UNCHANGED <<cpAudit, cpPub, cpGate, cpBoot, cpDisk, cpEffect>>
      BY Zenon DEF Advance
<1>3. CASE cpExec' = [cpExec EXCEPT !.step = "decided"] /\ UNCHANGED cpStore
  <2>1. cpExec' \in Executions /\ cpExec'.step = "decided"
        BY <1>1, <1>3, ZenonT(30) DEF Executions
  <2>2. FileOf(cpStore) /\ cpSaved' = cpFile' /\ (cpJournal' = NoCheckpoint \/ cpJournal' \in Journals) /\ cpAudit' \in Audits
        BY <1>2, ZenonT(30) DEF FileOf, cpDisk, CpInv, CpTypeOK, SavedInv
  <2> QED BY <1>1, <1>2, <1>3, <2>1, <2>2, MovesOn, ZenonT(30) DEF ActiveSteps
<1>4. ASSUME NEW st \in NextStates(cpStore.txn.st), cpStore.txn.gen = cpExec.gen,
             cpStore' = [cpStore EXCEPT !.txn = [st |-> st, gen |-> cpExec.gen + 1],
                           !.res = CASE st = "committed" -> "kept" [] st = "aborted" -> "freed" [] OTHER -> @],
             cpExec' = [step |-> "persist", gen |-> cpExec.gen + 1]
      PROVE  CpInv'
  <2> DEFINE txn == [st |-> st, gen |-> cpExec.gen + 1]
             res == CASE st = "committed" -> "kept" [] st = "aborted" -> "freed" [] OTHER -> cpStore.res
  <2>1. /\ st \in {"applying", "committed", "applied", "aborted"}
        /\ st = "aborted" => cpStore.txn.st = "applying" /\ ~cpEffect.occupied
        BY <1>4, ZenonT(30) DEF NextStates
  <2>2. txn \in Transactions /\ txn.st = st /\ txn.gen = cpExec.gen + 1
    <3>1. st \in TxStates /\ cpExec.gen + 1 \in Nat
          BY <1>1, <2>1 DEF TxStates
    <3> QED BY <3>1, ZenonT(30) DEF Transactions
  <2>3. res \in Reserved /\ (res = "freed" => st = "aborted" \/ cpStore.res = "freed")
    <3>1. cpStore.res \in Reserved
          BY <1>1, ZenonT(30) DEF Stores
    <3> QED BY <2>1, <3>1, ZenonT(30) DEF Reserved
  <2> HIDE DEF txn, res
  <2>4. cpStore' = [cpStore EXCEPT !.txn = txn, !.res = res]
        BY <1>1, <1>4, ZenonT(30) DEF txn, res, Stores
  <2>5. cpStore' \in Stores /\ cpStore'.txn = txn /\ cpStore'.res = res
        BY <1>1, <2>2, <2>3, <2>4, Zenon DEF Stores
  <2>6. cpExec' \in Executions /\ cpExec'.step = "persist" /\ cpExec'.gen = cpExec.gen + 1
        BY <1>1, <1>4, SMTT(30) DEF Executions, ActiveSteps
  <2>7. CpTypeOK' /\ BootInv' /\ SavedInv'
        BY <1>1, <1>2, <2>5, <2>6, ZenonT(30) DEF CpInv, CpTypeOK, BootInv, SavedInv, cpDisk
  <2>8. HeldInv'
        BY <1>1, <1>2, <2>1, <2>2, <2>5, ZenonT(30) DEF CpInv, HeldInv, Settled, Staging
  <2>9. GenInv'
    <3>1. Counted(cpStore'.txn)
          BY <1>1, <2>2, <2>5, SMTT(30) DEF Counted
    <3>2. cpExec'.gen >= 1
          BY <1>1, <2>6, SMTT(30)
    <3> QED BY <1>2, <3>1, <3>2, ZenonT(30) DEF CpInv, GenInv, Staging, Complete, cpDisk
  <2>10. FreedInv'
        BY <1>2, <2>1, <2>3, <2>5, ZenonT(30) DEF CpInv, FreedInv, Free, Staging, Complete, cpDisk
  <2>11. st = "aborted" => cpExec.gen >= 2
        BY <1>4, <2>1, ZenonT(30) DEF CpInv, GenInv, Counted
  <2>12. ActiveInv' /\ IdleInv'
        BY <1>1, <1>2, <2>3, <2>5, <2>6, <2>11, SMTT(30) DEF CpInv, ActiveInv, ActiveSteps, IdleInv, Staging, Complete, cpDisk
  <2> QED BY <2>7, <2>8, <2>9, <2>10, <2>12, ZenonT(30) DEF CpInv
<1> QED BY <1>3, <1>4, Zenon DEF Advance

LEMMA PersistPreserves == ASSUME CpInv, NEW outcome, PersistTransaction(outcome) PROVE CpInv'
<1>1. cpStore \in Stores /\ cpAudit \in Audits /\ cpExec \in Executions /\ cpExec.step = "persist"
      BY ZenonT(30) DEF CpInv, CpTypeOK, PersistTransaction
<1>2. /\ FileOf(cpStore) /\ cpSaved' = cpFile' /\ (cpJournal' = NoCheckpoint \/ cpJournal' \in Journals)
      BY <1>1, SavedStore, ZenonT(30) DEF PersistTransaction
<1>3. cpExec' \in Executions /\ cpExec'.step \in {"effect", "ended"} /\ cpExec'.gen = cpExec.gen
      BY <1>1, ZenonT(30) DEF PersistTransaction, Executions, ActiveSteps
<1>4. UNCHANGED <<cpStore, cpAudit, cpPub, cpBoot, cpEffect>>
      BY ZenonT(30) DEF PersistTransaction
<1> QED BY <1>1, <1>2, <1>3, <1>4, MovesOn, ZenonT(30) DEF ActiveSteps

LEMMA AppendPreserves == ASSUME CpInv, NEW outcome, AppendFinalDecision(outcome) PROVE CpInv'
<1>1. cpStore \in Stores /\ cpAudit' \in Audits /\ "committed" \in Audits /\ cpExec \in Executions /\ cpExec.step = "decided"
      BY ZenonT(30) DEF CpInv, CpTypeOK, AppendFinalDecision, Audits
<1>2. /\ FileOf(cpStore) /\ cpSaved' = cpFile' /\ (cpJournal' = NoCheckpoint \/ cpJournal' \in Journals)
      BY <1>1, SavedStore, ZenonT(30) DEF AppendFinalDecision
<1>3. cpExec' \in Executions /\ cpExec'.step = "ended"
      BY <1>1, ZenonT(30) DEF AppendFinalDecision, Executions
<1>4. UNCHANGED <<cpStore, cpPub, cpBoot, cpEffect>>
      BY ZenonT(30) DEF AppendFinalDecision
<1> QED BY <1>1, <1>2, <1>3, <1>4, MovesOn, ZenonT(30) DEF ActiveSteps

LEMMA ApplyEffectPreserves == ASSUME CpInv, ApplyEffect PROVE CpInv'
<1>1. cpExec \in Executions /\ cpExec.step = "effect" /\ cpBoot = "up"
      BY ZenonT(30) DEF CpInv, CpTypeOK, BootInv, ApplyEffect
<1>2. cpExec' \in Executions /\ cpExec'.step = "run" /\ cpExec'.gen = cpExec.gen
      BY <1>1, ZenonT(30) DEF ApplyEffect, Executions, ActiveSteps
<1>3. UNCHANGED <<cpStore, cpAudit, cpPub, cpGate, cpBoot, cpDisk>>
      BY ZenonT(30) DEF ApplyEffect
<1>4. CASE UNCHANGED cpEffect
  <2>1. FileOf(cpStore) /\ cpSaved' = cpFile' /\ (cpJournal' = NoCheckpoint \/ cpJournal' \in Journals) /\ cpAudit' \in Audits
        BY <1>3, ZenonT(30) DEF FileOf, cpDisk, CpInv, CpTypeOK, SavedInv
  <2> QED BY <1>1, <1>2, <1>3, <1>4, <2>1, MovesOn, ZenonT(30) DEF ActiveSteps
<1>5. CASE cpExec.gen = 2
  <2>1. cpEffect' \in Effects /\ (cpEffect'.record = "rolled_back" => ~cpEffect'.occupied)
    <3>1. cpEffect' \in {[record |-> "succeeded", occupied |-> TRUE], [record |-> "rolled_back", occupied |-> FALSE]}
          BY <1>5, ZenonT(30) DEF ApplyEffect
    <3>2. CASE cpEffect' = [record |-> "succeeded", occupied |-> TRUE]
          BY <3>2, ZenonT(30) DEF Effects
    <3>3. CASE cpEffect' = [record |-> "rolled_back", occupied |-> FALSE]
          BY <3>3, ZenonT(30) DEF Effects
    <3> QED BY <3>1, <3>2, <3>3, ZenonT(30)
  <2>2. cpStore.res # "freed" /\ (Staging => cpPub.staged.res # "freed") /\ (Complete => cpFile.res # "freed")
        BY <1>1, <1>5, SMTT(30) DEF CpInv, ActiveInv, ActiveSteps
  <2>3. CpTypeOK' /\ BootInv' /\ SavedInv'
        BY <1>1, <1>2, <1>3, <2>1, ZenonT(30) DEF CpInv, CpTypeOK, BootInv, SavedInv, cpDisk
  <2>4. HeldInv' /\ GenInv'
        BY <1>1, <1>2, <1>3, ZenonT(30) DEF CpInv, HeldInv, GenInv, Staging, Complete, cpDisk, ActiveSteps
  <2>5. FreedInv' /\ ActiveInv' /\ IdleInv'
        BY <1>2, <1>3, <2>1, <2>2, ZenonT(30) DEF FreedInv, Free, ActiveInv, IdleInv, Staging, Complete, cpDisk
  <2> QED BY <2>3, <2>4, <2>5, ZenonT(30) DEF CpInv
<1> QED BY <1>4, <1>5, ZenonT(30) DEF ApplyEffect

-----------------------------------------------------------------------------
(* Crashes and recovery *)

LEMMA CrashPreserves == ASSUME CpInv, CrashScheduler PROVE CpInv'
<1>1. /\ cpBoot' = "down" /\ cpStore' = EmptyStore /\ cpAudit' = "none" /\ cpPub' = Idle
      /\ cpExec' = [step |-> "idle", gen |-> 0] /\ UNCHANGED <<cpDisk, cpEffect>>
      BY ZenonT(30) DEF CrashScheduler, Idle
<1>2. cpExec' \in Executions /\ cpExec'.step = "idle"
      BY <1>1, ZenonT(30) DEF Executions
<1>3. CpTypeOK' /\ BootInv' /\ SavedInv'
      BY <1>1, <1>2, BlankImages, ZenonT(30) DEF CpInv, CpTypeOK, BootInv, SavedInv, cpDisk, Audits, Boots
<1>4. HeldInv' /\ GenInv'
      BY <1>1, <1>2, BlankImages, ZenonT(30) DEF CpInv, HeldInv, GenInv, Counted, Staging, Complete, cpDisk, ActiveSteps
<1>5. FreedInv' /\ ActiveInv' /\ IdleInv'
      BY <1>1, <1>2, BlankImages, ZenonT(30) DEF CpInv, FreedInv, Free, ActiveInv, ActiveSteps, IdleInv, Staging, Complete, cpDisk
<1> QED BY <1>3, <1>4, <1>5, ZenonT(30) DEF CpInv

(* What Recover restores: the whole image, or a Store without reservations. *)
LEMMA RecoverFacts ==
  ASSUME CpTypeOK
  PROVE  /\ Recover.store \in Stores /\ Recover.audit \in Audits
         /\ Complete => /\ Recover.store.txn = cpFile.txn /\ Recover.store.res = cpFile.res
                        /\ cpFile.format = 3 => Capture(Recover.store, Recover.audit) = cpFile
         /\ ~Complete => Recover.store.res = "none" /\ Recover.store.txn.st = "none"
         /\ cpFile = NoCheckpoint /\ cpJournal = NoCheckpoint => Recover.store.res = "none"
<1>1. CASE Complete
  <2>1. cpFile \in Images
        BY <1>1, BlankImages DEF CpTypeOK, Complete
  <2>2. Recover = Decoded(cpFile)
        BY <1>1, ZenonT(30) DEF Recover, Complete
  <2> DEFINE store == [intents |-> cpFile.intents, rev |-> cpFile.rev, txn |-> cpFile.txn, res |-> cpFile.res]
  <2>3. Recover.store = store /\ Recover.audit = cpFile.audit
        BY <2>2, ZenonT(30) DEF Decoded
  <2>4. store \in Stores /\ store.txn = cpFile.txn /\ store.res = cpFile.res /\ cpFile.audit \in Audits
        BY <2>1, ZenonT(30) DEF Images, Stores
  <2>5. cpFile.format = 3 => Capture(store, cpFile.audit) = cpFile
        BY <2>1, ZenonT(30) DEF Images, Capture
  <2>6. cpFile # NoCheckpoint
        BY <1>1, BlankImages, SMTT(30) DEF Complete
  <2> QED BY <1>1, <2>3, <2>4, <2>5, <2>6, ZenonT(30)
<1>2. CASE ~Complete /\ cpJournal = NoCheckpoint
  <2>1. Recover = [store |-> EmptyStore, audit |-> "none"]
        BY <1>2, ZenonT(30) DEF Recover, Complete
  <2> QED BY <1>2, <2>1, BlankImages, ZenonT(30) DEF Audits
<1>3. CASE ~Complete /\ cpJournal # NoCheckpoint
  <2> DEFINE store == [EmptyStore EXCEPT !.intents = cpJournal.intents, !.rev = cpJournal.rev]
  <2>1. Recover = [store |-> store, audit |-> "none"]
        BY <1>3, ZenonT(30) DEF Recover, Complete
  <2>2. cpJournal.intents \in [CpKeys -> Nat] /\ cpJournal.rev \in Int
        BY <1>3, ZenonT(30) DEF CpTypeOK, Journals
  <2>3. store \in Stores /\ store.res = "none" /\ store.txn.st = "none"
        BY <2>2, BlankImages, ZenonT(30) DEF Stores
  <2> HIDE DEF store
  <2> QED BY <1>3, <2>1, <2>3, ZenonT(30) DEF Audits
<1> QED BY <1>1, <1>2, <1>3, ZenonT(30)

LEMMA StartPreserves == ASSUME CpInv, Start PROVE CpInv'
<1>1. /\ cpBoot = "down" /\ cpStore' = Recover.store /\ cpAudit' = Recover.audit
      /\ cpBoot' = IF cpFile = NoCheckpoint /\ cpJournal = NoCheckpoint THEN "up" ELSE "transactions"
      /\ UNCHANGED <<cpPub, cpExec, cpGate, cpDisk, cpEffect>>
      BY ZenonT(30) DEF Start
<1>2. cpPub = Idle /\ cpExec.step = "idle"
      BY <1>1, ZenonT(30) DEF CpInv, BootInv
<1>3. /\ cpStore' \in Stores /\ cpAudit' \in Audits
      /\ Complete => /\ cpStore'.txn = cpFile.txn /\ cpStore'.res = cpFile.res
                     /\ cpFile.format = 3 => Capture(cpStore', cpAudit') = cpFile
      /\ ~Complete => cpStore'.res = "none" /\ cpStore'.txn.st = "none"
      /\ cpBoot' = "up" => cpStore'.res = "none"
      BY <1>1, RecoverFacts, ZenonT(30) DEF CpInv
<1>4. CpTypeOK' /\ BootInv' /\ SavedInv'
      BY <1>1, <1>2, <1>3, ZenonT(30) DEF CpInv, CpTypeOK, BootInv, SavedInv, cpDisk, Complete, Boots
<1>5. HeldInv' /\ GenInv'
      BY <1>1, <1>2, <1>3, BlankImages, ZenonT(30) DEF CpInv, HeldInv, Settled, GenInv, Counted, Staging, Complete, cpDisk
<1>6. FreedInv' /\ ActiveInv' /\ IdleInv'
      BY <1>1, <1>2, <1>3, BlankImages, ZenonT(30) DEF CpInv, FreedInv, Free, ActiveInv, ActiveSteps, IdleInv, Staging, Complete, cpDisk
<1> QED BY <1>4, <1>5, <1>6, ZenonT(30) DEF CpInv

(* Any step of recovery that saves a Store which is free where it says so and *)
(* settled where the next step relies on it.                                  *)
Recovering == cpBoot \in {"transactions", "reservations", "checkpoint"}

LEMMA RecoverToPreserves ==
  ASSUME CpInv, Recovering, UNCHANGED <<cpPub, cpExec, cpEffect>>,
         NEW store \in Stores, NEW audit \in Audits, NEW next \in Boots \ {"down"}, NEW outcome,
         RecoverTo(store, audit, next, outcome),
         Counted(store.txn), Free(store, cpEffect.occupied), next \in {"checkpoint", "up"} => Settled(store)
  PROVE  CpInv'
<1>1. cpPub = Idle /\ cpExec.step = "idle"
      BY ZenonT(30) DEF CpInv, BootInv, Recovering
<1>2. /\ FileOf(store) /\ cpSaved' = cpFile'
      /\ Succeeds(outcome) => cpFile' = Capture(store, audit)
      /\ cpJournal' = NoCheckpoint \/ cpJournal' \in Journals
      BY SavedStore, ZenonT(30) DEF RecoverTo
<1>3. FileInv(cpFile', cpSaved', cpEffect'.occupied)
      BY <1>2, FileKept, ZenonT(30)
<1>4. \/ cpStore' = store /\ cpAudit' = audit /\ cpBoot' = next /\ cpFile' = Capture(store, audit)
      \/ cpStore' = cpStore /\ cpAudit' = cpAudit /\ cpBoot' = "refused"
      BY <1>2, ZenonT(30) DEF RecoverTo
<1>5. Capture(store, audit).res = store.res
      BY CaptureFacts, ZenonT(30)
<1>6. CpTypeOK' /\ BootInv' /\ SavedInv'
      BY <1>1, <1>2, <1>3, <1>4, ZenonT(30) DEF CpInv, CpTypeOK, BootInv, SavedInv, FileInv, Boots
<1>7. HeldInv' /\ GenInv'
      BY <1>1, <1>3, <1>4, BlankImages, ZenonT(30) DEF CpInv, HeldInv, GenInv, Staging, Complete, FileInv, ActiveSteps
<1>8. FreedInv'
      BY <1>1, <1>3, <1>4, BlankImages, ZenonT(30) DEF CpInv, FreedInv, Staging, Complete, FileInv
<1>9. ActiveInv' /\ IdleInv'
      BY <1>1, <1>4, <1>5, BlankImages, ZenonT(30) DEF CpInv, ActiveInv, ActiveSteps, IdleInv, Staging, Complete
<1> QED BY <1>6, <1>7, <1>8, <1>9, ZenonT(30) DEF CpInv

LEMMA RecoveryDonePreserves ==
  ASSUME CpInv, Recovering, UNCHANGED <<cpPub, cpExec, cpEffect>>,
         NEW next \in {"reservations", "checkpoint", "refused"}, RecoveryDone(next),
         next = "checkpoint" => Settled(cpStore)
  PROVE  CpInv'
<1>1. cpPub = Idle /\ cpExec.step = "idle"
      BY ZenonT(30) DEF CpInv, BootInv, Recovering
<1>2. cpBoot' = next /\ UNCHANGED <<cpStore, cpAudit, cpDisk>>
      BY ZenonT(30) DEF RecoveryDone
<1>3. CpTypeOK' /\ BootInv' /\ SavedInv'
      BY <1>1, <1>2, ZenonT(30) DEF CpInv, CpTypeOK, BootInv, SavedInv, cpDisk, Boots
<1>4. HeldInv' /\ GenInv'
      BY <1>1, <1>2, BlankImages, ZenonT(30) DEF CpInv, HeldInv, GenInv, Staging, Complete, cpDisk
<1>5. FreedInv' /\ ActiveInv' /\ IdleInv'
      BY <1>1, <1>2, BlankImages, ZenonT(30) DEF CpInv, Recovering, FreedInv, ActiveInv, IdleInv, Staging, Complete, cpDisk
<1> QED BY <1>3, <1>4, <1>5, ZenonT(30) DEF CpInv

LEMMA ResumeAllPreserves == ASSUME CpInv, NEW outcome, ResumeAll(outcome) PROVE CpInv'
<1> DEFINE st == IF cpEffect.occupied THEN "committed" ELSE "aborted"
           gen == cpStore.txn.gen + 1
           txn == [st |-> st, gen |-> gen]
           res == IF st = "committed" THEN "kept" ELSE "freed"
           store == [cpStore EXCEPT !.txn = txn, !.res = res]
<1>1. cpStore \in Stores /\ cpAudit \in Audits /\ Recovering /\ UNCHANGED <<cpPub, cpExec, cpEffect>>
      BY ZenonT(30) DEF CpInv, CpTypeOK, ResumeAll, Recovering
<1>2. /\ st \in TxStates \ {"applying"} /\ gen \in Nat
      /\ res \in Reserved /\ (res = "freed" => ~cpEffect.occupied)
      BY <1>1 DEF Stores, Transactions, TxStates, Reserved
<1>3. RecoverTo(store, cpAudit, "transactions", outcome)
  <2>1. store = [cpStore EXCEPT !.txn = [st |-> st, gen |-> @.gen + 1], !.res = res]
        BY <1>1, ZenonT(30) DEF Stores
  <2> QED BY <2>1, ZenonT(30) DEF ResumeAll
<1> HIDE DEF st, gen, res
<1>4. txn \in Transactions /\ Counted(txn)
      BY <1>2, ZenonT(30) DEF Transactions, Counted
<1> HIDE DEF txn
<1>5. store \in Stores /\ store.txn = txn /\ store.res = res
      BY <1>1, <1>2, <1>4, Zenon DEF Stores
<1> HIDE DEF store
<1>6. Counted(store.txn) /\ Free(store, cpEffect.occupied) /\ "transactions" \in Boots \ {"down"}
      BY <1>2, <1>4, <1>5, ZenonT(30) DEF Free, Boots
<1> QED BY <1>1, <1>3, <1>5, <1>6, RecoverToPreserves, ZenonT(30)

LEMMA AuditPreserves == ASSUME CpInv, NEW outcome, AuditTransactions(outcome) PROVE CpInv'
<1>1. cpStore \in Stores /\ "committed" \in Audits /\ Recovering /\ UNCHANGED <<cpPub, cpExec, cpEffect>>
      BY ZenonT(30) DEF CpInv, CpTypeOK, AuditTransactions, Recovering, Audits
<1>2. Counted(cpStore.txn) /\ Free(cpStore, cpEffect.occupied) /\ "reservations" \in Boots \ {"down"}
      BY ZenonT(30) DEF CpInv, GenInv, FreedInv, Boots
<1>3. CASE RecoveryDone("reservations") \/ RecoveryDone("refused")
      BY <1>1, <1>3, RecoveryDonePreserves, ZenonT(30)
<1>4. CASE RecoverTo(cpStore, "committed", "reservations", outcome)
      BY <1>1, <1>2, <1>4, RecoverToPreserves, ZenonT(30)
<1> QED BY <1>3, <1>4, ZenonT(30) DEF AuditTransactions

LEMMA ReconcilePreserves == ASSUME CpInv, NEW outcome, ReconcileReservations(outcome) PROVE CpInv'
<1> DEFINE rev == cpStore.rev + 1
           res == Finalized(cpEffect.record)
           store == [cpStore EXCEPT !.res = res, !.rev = rev]
<1>1. cpStore \in Stores /\ "committed" \in Audits /\ Recovering /\ UNCHANGED <<cpPub, cpExec, cpEffect>>
      BY ZenonT(30) DEF CpInv, CpTypeOK, ReconcileReservations, Recovering, Audits
<1>2. CASE RecoveryDone("checkpoint") /\ (cpStore.res # "held" \/ cpStore.txn.st # "none")
      BY <1>1, <1>2, RecoveryDonePreserves, ZenonT(30) DEF Settled
<1>3. CASE RecoveryDone("refused")
      BY <1>1, <1>3, RecoveryDonePreserves, ZenonT(30)
<1>4. CASE RecoverTo([cpStore EXCEPT !.res = Finalized(cpEffect.record), !.rev = @ + 1],
                     "committed", "checkpoint", outcome)
  <2>1. RecoverTo(store, "committed", "checkpoint", outcome)
    <3>1. store = [cpStore EXCEPT !.res = Finalized(cpEffect.record), !.rev = @ + 1]
          BY <1>1, ZenonT(30) DEF Stores
    <3> QED BY <1>4, <3>1, ZenonT(30)
  <2>2. rev \in Int /\ res \in Reserved /\ res # "held" /\ (res = "freed" => ~cpEffect.occupied)
        BY <1>1 DEF Stores, Reserved, Finalized, CpInv, FreedInv
  <2> HIDE DEF rev, res
  <2>3. store \in Stores /\ store.txn = cpStore.txn /\ store.res = res
        BY <1>1, <2>2, ZenonT(30) DEF Stores
  <2> HIDE DEF store
  <2>4. Counted(store.txn) /\ Free(store, cpEffect.occupied) /\ Settled(store) /\ "checkpoint" \in Boots \ {"down"}
        BY <2>2, <2>3, ZenonT(30) DEF CpInv, GenInv, Free, Settled, Boots
  <2> QED BY <1>1, <2>1, <2>3, <2>4, RecoverToPreserves, ZenonT(30)
<1> QED BY <1>2, <1>3, <1>4, ZenonT(30) DEF ReconcileReservations

LEMMA FinishPreserves == ASSUME CpInv, NEW outcome, FinishRecovery(outcome) PROVE CpInv'
<1>1. cpStore \in Stores /\ cpAudit \in Audits /\ Recovering /\ UNCHANGED <<cpPub, cpExec, cpEffect>>
      BY ZenonT(30) DEF CpInv, CpTypeOK, FinishRecovery, Recovering
<1>2. /\ Counted(cpStore.txn) /\ Free(cpStore, cpEffect.occupied) /\ Settled(cpStore)
      /\ "up" \in Boots \ {"down"}
      BY ZenonT(30) DEF CpInv, GenInv, FreedInv, HeldInv, FinishRecovery, Boots
<1>3. RecoverTo(cpStore, cpAudit, "up", outcome)
      BY ZenonT(30) DEF FinishRecovery
<1> QED BY <1>1, <1>2, <1>3, RecoverToPreserves, ZenonT(30)

-----------------------------------------------------------------------------
(* The theorems *)

LEMMA CheckpointStep == CpInv /\ [CpNext]_cpVars => CpInv'
<1> SUFFICES ASSUME CpInv, [CpNext]_cpVars PROVE CpInv'
    BY ZenonT(30)
<1>1. CASE UNCHANGED cpVars
  <2>1. UNCHANGED <<cpStore, cpAudit, cpPub, cpExec, cpGate, cpBoot, cpFile, cpJournal, cpSaved, cpEffect>>
        BY <1>1, ZenonT(30) DEF cpVars, cpServer, cpDisk
  <2>2. CpTypeOK' /\ BootInv' /\ SavedInv'
        BY <2>1, ZenonT(30) DEF CpInv, CpTypeOK, BootInv, SavedInv
  <2>3. HeldInv' /\ GenInv' /\ FreedInv'
        BY <2>1, ZenonT(30) DEF CpInv, HeldInv, GenInv, FreedInv, Staging, Complete
  <2>4. ActiveInv' /\ IdleInv'
        BY <2>1, ZenonT(30) DEF CpInv, ActiveInv, IdleInv, Staging, Complete
  <2> QED BY <2>2, <2>3, <2>4, ZenonT(30) DEF CpInv
<1>2. CASE \E k \in CpKeys : Prepare(k)
      BY <1>2, PreparePreserves, ZenonT(30)
<1>3. CASE CommitPublication \/ StagePlan \/ Advance \/ ApplyEffect \/ CrashScheduler \/ Start
      BY <1>3, CommitPublicationPreserves, StagePlanPreserves, AdvancePreserves, ApplyEffectPreserves,
         CrashPreserves, StartPreserves, ZenonT(30)
<1>4. ASSUME NEW outcome \in SaveOutcome,
             \/ SavePublication(outcome) \/ SavePendingDecision(outcome) \/ PersistTransaction(outcome)
             \/ AppendFinalDecision(outcome)
      PROVE  CpInv'
      BY <1>4, SavePublicationPreserves, SavePendingDecisionPreserves, PersistPreserves, AppendPreserves, ZenonT(30)
<1>5. ASSUME NEW outcome \in SaveOutcome,
             \/ ResumeAll(outcome) \/ AuditTransactions(outcome)
             \/ ReconcileReservations(outcome) \/ FinishRecovery(outcome)
      PROVE  CpInv'
      BY <1>5, ResumeAllPreserves, AuditPreserves, ReconcilePreserves, FinishPreserves, ZenonT(30)
<1> QED BY <1>1, <1>2, <1>3, <1>4, <1>5, ZenonT(30) DEF CpNext

(* The inductive invariant of the checkpointed Scheduler, through every save,  *)
(* failed save, crash and recovery.                                            *)
THEOREM CheckpointInvariant == CpSpec => []CpInv
BY CheckpointInit, CheckpointStep, PTL DEF CpSpec

(* The Store, the file, the journal and the provider's record have the shapes  *)
(* SaveCheckpoint, Recover and RestoreStore give them.                         *)
THEOREM CheckpointTypeCorrect == CpSpec => []CpTypeOK
<1>1. CpInv => CpTypeOK
      BY ZenonT(30) DEF CpInv
<1> QED BY <1>1, CheckpointInvariant, PTL

(* Once the Scheduler serves, capacity is reserved only for a transaction, and *)
(* free capacity is not occupied, whichever crashes and failed saves came      *)
(* before (ResumeRecoveredState, reconcileRecoveredReservations).              *)
THEOREM RestoredAlwaysSettled == CpSpec => []RestoredIsSettled
<1>1. CpInv => RestoredIsSettled
      BY ZenonT(30) DEF CpInv, HeldInv, Settled, FreedInv, Free, RestoredIsSettled, Up
<1> QED BY <1>1, CheckpointInvariant, PTL

(* What a start-up restores is the last checkpoint that reached the disk,      *)
(* whole, and the journal counts for nothing beside it (SaveCheckpoint,        *)
(* Recover).                                                                   *)
THEOREM LastSaveRecovered == CpSpec => []RecoversLastSave
<1>1. CpInv => RecoversLastSave
      BY ZenonT(30) DEF CpInv, SavedInv, RecoversLastSave
<1> QED BY <1>1, CheckpointInvariant, PTL
=============================================================================

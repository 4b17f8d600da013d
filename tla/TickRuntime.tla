------------------------------ MODULE TickRuntime ------------------------------
(***************************************************************************)
(* The Scheduler's event-loop runtime: keys (execution, stage) are         *)
(* scheduled periodically on several frequencies until they are forgotten  *)
(* or the runtime stops.  Each Enqueue gives the key a new generation and  *)
(* pushes it in the keyed queue of every frequency; a tick drains its      *)
(* queue in a goroutine of its own, which checks each item, calls back,    *)
(* and requeues the item if its generation is still the active one.        *)
(*                                                                         *)
(* Every action is one critical section of Runtime.mu or of a queue, or    *)
(* the code between two of them.  The order inside a queue and the merged  *)
(* trigger's payload are abstracted; generations are bounded               *)
(* (MaxGeneration), so the uint64 wrap-around is out of scope.             *)
(***************************************************************************)
EXTENDS Integers

CONSTANTS
  Keys,          \* (execution, stage) pairs
  Kinds,         \* loop frequencies
  MaxGeneration  \* bound on the number of Enqueue calls

ASSUME RuntimeAssumption == MaxGeneration \in Nat

VARIABLES
  active,    \* the generation of each active key, 0 when it is not active
  nextGen,   \* the last generation given out
  queue,     \* per frequency: the queued generation of each key, 0 when absent
  batch,     \* per frequency: drained items that are still to be handled
  held,      \* per frequency: the item being handled
  drain,     \* per frequency: where the drain goroutine is
  loop,      \* per frequency: whether the ticker goroutine is "running" or "exited"
  stopped,   \* Runtime.stopped: "no" or "yes"
  run,       \* runCtx: "live" or "cancelled"
  stop       \* Stop: not called ("no"), waiting for the goroutines, or "returned"

runtimeVars == <<active, nextGen, queue, batch, held, drain, loop, stopped, run, stop>>

Generations == 0..MaxGeneration
NoItems == [key \in Keys |-> 0]

--------------------------------------------------------------------------------
InitRuntime ==
  /\ active = NoItems /\ nextGen = 0
  /\ queue = [k \in Kinds |-> NoItems]
  /\ batch = [k \in Kinds |-> NoItems]
  /\ held = [k \in Kinds |-> NoItems]
  /\ drain = [k \in Kinds |-> "idle"]
  /\ loop = [k \in Kinds |-> "running"]
  /\ stopped = "no" /\ run = "live" /\ stop = "no"

\* A stopped runtime ignores the call.
Enqueue(key) ==
  /\ stopped = "no" => nextGen < MaxGeneration
  /\ IF stopped = "yes" THEN UNCHANGED <<active, nextGen, queue>>
     ELSE /\ nextGen' = nextGen + 1
          /\ active' = [active EXCEPT ![key] = nextGen + 1]
          /\ queue' = [k \in Kinds |-> [queue[k] EXCEPT ![key] = nextGen + 1]]
  /\ UNCHANGED <<batch, held, drain, loop, stopped, run, stop>>

Forget(key) ==
  /\ active' = [active EXCEPT ![key] = 0]
  /\ UNCHANGED <<nextGen, queue, batch, held, drain, loop, stopped, run, stop>>

\* The ticker fires; a tick that finds the previous one in flight is skipped.
Tick(k) ==
  /\ loop[k] = "running" /\ drain[k] = "idle"
  /\ drain' = [drain EXCEPT ![k] = "taking"]
  /\ batch' = [batch EXCEPT ![k] = queue[k]]
  /\ queue' = [queue EXCEPT ![k] = NoItems]
  /\ UNCHANGED <<active, nextGen, held, loop, stopped, run, stop>>

Take(k, key) ==
  /\ drain[k] = "taking" /\ batch[k][key] # 0
  /\ batch' = [batch EXCEPT ![k] = [batch[k] EXCEPT ![key] = 0]]
  /\ IF stopped = "yes" \/ active[key] # batch[k][key]
     THEN UNCHANGED <<held, drain>>
     ELSE /\ held' = [held EXCEPT ![k] = [NoItems EXCEPT ![key] = batch[k][key]]]
          /\ drain' = [drain EXCEPT ![k] = "checked"]
  /\ UNCHANGED <<active, nextGen, queue, loop, stopped, run, stop>>

\* The callback itself is the service's; here only that it was called.
Callback(k) ==
  /\ drain[k] = "checked" /\ run = "live"
  /\ drain' = [drain EXCEPT ![k] = "called"]
  /\ UNCHANGED <<active, nextGen, queue, batch, held, loop, stopped, run, stop>>

\* A cancelled runCtx ends the drain; the rest of the batch is dropped.
Abandon(k) ==
  /\ drain[k] = "checked" /\ run = "cancelled"
  /\ drain' = [drain EXCEPT ![k] = "idle"]
  /\ batch' = [batch EXCEPT ![k] = NoItems]
  /\ held' = [held EXCEPT ![k] = NoItems]
  /\ UNCHANGED <<active, nextGen, queue, loop, stopped, run, stop>>

\* Mutant: the item is requeued although the key has a newer generation.
RequeueStale(k, key) ==
  /\ drain[k] = "called" /\ held[k][key] # 0
  /\ IF stopped = "no" /\ run = "live" /\ active[key] # 0
     THEN queue' = [queue EXCEPT ![k] = [queue[k] EXCEPT ![key] = held[k][key]]]
     ELSE UNCHANGED queue
  /\ held' = [held EXCEPT ![k] = NoItems]
  /\ drain' = [drain EXCEPT ![k] = "taking"]
  /\ UNCHANGED <<active, nextGen, batch, loop, stopped, run, stop>>

\* Only the generation that was just dispatched goes back in the queue.
Requeue(k, key) ==
  /\ drain[k] = "called" /\ held[k][key] # 0
  /\ IF stopped = "no" /\ run = "live" /\ active[key] = held[k][key]
     THEN queue' = [queue EXCEPT ![k] = [queue[k] EXCEPT ![key] = held[k][key]]]
     ELSE UNCHANGED queue
  /\ held' = [held EXCEPT ![k] = NoItems]
  /\ drain' = [drain EXCEPT ![k] = "taking"]
  /\ UNCHANGED <<active, nextGen, batch, loop, stopped, run, stop>>

\* Mutant: the tick stays marked in flight unless the context ended.
DrainEndsInFlight(k) ==
  /\ drain[k] = "taking" /\ batch[k] = NoItems /\ run = "cancelled"
  /\ drain' = [drain EXCEPT ![k] = "idle"]
  /\ UNCHANGED <<active, nextGen, queue, batch, held, loop, stopped, run, stop>>

DrainEnds(k) ==
  /\ drain[k] = "taking" /\ batch[k] = NoItems
  /\ drain' = [drain EXCEPT ![k] = "idle"]
  /\ UNCHANGED <<active, nextGen, queue, batch, held, loop, stopped, run, stop>>

\* The context given to Start ends (Server.Close cancels it first).
Cancel ==
  /\ run = "live" /\ run' = "cancelled"
  /\ UNCHANGED <<active, nextGen, queue, batch, held, drain, loop, stopped, stop>>

\* The goroutine that waits for runCtx.
Deactivate ==
  /\ run = "cancelled" /\ stop # "returned"
  /\ stopped' = "yes" /\ active' = NoItems
  /\ queue' = [k \in Kinds |-> NoItems]
  /\ UNCHANGED <<nextGen, batch, held, drain, loop, run, stop>>

\* The ticker loop waits for its drain before it returns.
LoopExits(k) ==
  /\ run = "cancelled" /\ loop[k] = "running" /\ drain[k] = "idle"
  /\ loop' = [loop EXCEPT ![k] = "exited"]
  /\ UNCHANGED <<active, nextGen, queue, batch, held, drain, stopped, run, stop>>

Stop ==
  /\ stop = "no" /\ stop' = "waiting"
  /\ stopped' = "yes" /\ active' = NoItems /\ run' = "cancelled"
  /\ UNCHANGED <<nextGen, queue, batch, held, drain, loop>>

StopReturns ==
  /\ stop = "waiting" /\ \A k \in Kinds : loop[k] = "exited"
  /\ stop' = "returned"
  /\ queue' = [k \in Kinds |-> NoItems]
  /\ UNCHANGED <<active, nextGen, batch, held, drain, loop, stopped, run>>

Drain(k) ==
  \/ Tick(k) \/ Callback(k) \/ Abandon(k) \/ DrainEnds(k) \/ LoopExits(k)
  \/ \E key \in Keys : Take(k, key) \/ Requeue(k, key)

ShutdownRuntime == Cancel \/ Deactivate \/ Stop \/ StopReturns

NextRuntime ==
  \/ \E key \in Keys : Enqueue(key) \/ Forget(key)
  \/ \E k \in Kinds : Drain(k)
  \/ ShutdownRuntime

SpecRuntime == InitRuntime /\ [][NextRuntime]_runtimeVars

\* Tickers fire and the goroutines they start run; Stop goes on once it can.  The
\* ticker loop selects at random between its context and the ticker, so it does
\* not choose the ticker forever (strong fairness).
FairRuntime ==
  /\ SpecRuntime
  /\ \A k \in Kinds : WF_runtimeVars(Drain(k)) /\ SF_runtimeVars(LoopExits(k))
  /\ WF_runtimeVars(StopReturns)

--------------------------------------------------------------------------------
(* Properties. *)

\* Queues, batches and items in hand hold generations that were given out.
RuntimeTypeOK ==
  /\ nextGen \in Generations
  /\ active \in [Keys -> Generations]
  /\ queue \in [Kinds -> [Keys -> Generations]]
  /\ batch \in [Kinds -> [Keys -> Generations]]
  /\ held \in [Kinds -> [Keys -> Generations]]
  /\ drain \in [Kinds -> {"idle", "taking", "checked", "called"}]
  /\ loop \in [Kinds -> {"running", "exited"}]
  /\ stopped \in {"no", "yes"} /\ run \in {"live", "cancelled"}
  /\ stop \in {"no", "waiting", "returned"}

\* An active key is never lost: while the runtime is live, every frequency has
\* its current generation queued, drained or in hand, whatever Enqueue, Forget
\* and the other frequencies do between a drain's check and its requeue.
NoKeyLost ==
  stopped = "no" /\ run = "live" =>
    \A key \in Keys : active[key] # 0 =>
      \A k \in Kinds : active[key] \in {queue[k][key], batch[k][key], held[k][key]}

\* A generation is in one place of a frequency at a time, so one Enqueue never
\* makes a frequency call back twice for the same turn.
OnePlacePerGeneration ==
  \A k \in Kinds, key \in Keys :
    /\ batch[k][key] # 0 => batch[k][key] \notin {queue[k][key], held[k][key]}
    /\ held[k][key] # 0 => held[k][key] # queue[k][key]

\* Once Stop has returned, no goroutine holds an item and nothing is queued.
StoppedIsQuiet ==
  stop = "returned" =>
    \A k \in Kinds : queue[k] = NoItems /\ batch[k] = NoItems /\ held[k] = NoItems

\* An active key is called back by every frequency, again and again, until it
\* is forgotten or the runtime shuts down (drain, trigger); and a Stop that
\* waits for the drains does return (Stop, tickerLoop.Run).
TicksUntilStopped ==
  /\ \A key \in Keys, k \in Kinds :
       (active[key] # 0) ~> (stopped = "yes" \/ run = "cancelled" \/ active[key] = 0 \/ held[k][key] = active[key])
  /\ (stop = "waiting") ~> (stop = "returned")
================================================================================

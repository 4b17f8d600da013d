----------------------------- MODULE ProviderWatch -----------------------------
(***************************************************************************)
(* The event path from the in-process provider to the Scheduler: the       *)
(* provider publishes under its own mutex into bounded channels, one watch *)
(* loop per stream applies the events under the Scheduler's planMu, and    *)
(* reconcile workers read the provider's health while they hold planMu.    *)
(* An event is its index in the provider's log of one kind; the set        *)
(* malformed holds the sandbox events the Store refuses to apply.          *)
(***************************************************************************)
EXTENDS Integers, Sequences, FiniteSets, Functions

CONSTANTS
  Observers,     \* callers of the ObserveSandbox RPC
  Executors,     \* plan executors, which publish outside planMu
  Workers,       \* reconcile workers
  Retention,     \* events a stream retains; its channels hold one more
  MaxEvents,     \* bound on the events published per kind
  MaxMalformed,  \* bound on the malformed observations
  MaxReconnects  \* bound on the reconnects of a loop

ASSUME WatchAssumption ==
  /\ "free" \notin Observers \cup Executors
  /\ Retention \in Nat \ {0} /\ MaxEvents \in Nat \ {0, 1} /\ MaxMalformed \in Nat /\ MaxReconnects \in Nat

Kinds == {"resource", "sandbox"}
Publishers == Observers \cup Executors

VARIABLES
  providerMu,  \* the publisher that holds the provider's mutex, or "free"
  planMu,      \* the worker that holds planMu, or "free"
  published,   \* events published, per kind
  malformed,   \* the sandbox events that cannot be applied
  channels,    \* the subscribed channels of a kind, as sequences of events
  stream,      \* the channel each loop consumes
  loop,        \* where each watch loop is
  event,       \* the event each loop is applying
  seen,        \* the last event each loop took off its stream
  healthy, poisoned, live,  \* the kinds whose watch is healthy, poisoned, ready
  publisher,   \* where each publisher is
  unsent,      \* channels the publisher has still to serve
  worker,      \* where each worker is
  reconnects

provider == <<providerMu, published, malformed, publisher, unsent>>
health == <<healthy, poisoned, live>>
vars == <<provider, planMu, channels, stream, loop, event, seen, health, worker, reconnects>>

Capacity == Retention + 1
Oldest(k) == IF published[k] > Retention THEN published[k] - Retention + 1 ELSE 1
Replayed(k) == [i \in 1..(published[k] - Oldest(k) + 1) |-> Oldest(k) + i - 1]

(* The provider published its capabilities and its snapshot when it was built;       *)
(* start-up projected them and subscribed both streams from cursor 0.                *)
Init ==
  /\ providerMu = "free" /\ planMu = "free" /\ malformed = {}
  /\ published = [k \in Kinds |-> IF k = "resource" THEN 2 ELSE 0]
  /\ channels = [k \in Kinds |-> <<Replayed(k)>>]
  /\ stream = [k \in Kinds |-> 1] /\ loop = [k \in Kinds |-> "consume"]
  /\ event = [k \in Kinds |-> 0] /\ seen = [k \in Kinds |-> Oldest(k) - 1]
  /\ healthy = Kinds /\ poisoned = {} /\ live = Kinds
  /\ publisher = [p \in Publishers |-> "idle"] /\ unsent = {}
  /\ worker = [w \in Workers |-> "idle"] /\ reconnects = [k \in Kinds |-> 0]

--------------------------------------------------------------------------------
(* The provider. Publishing appends to the log and then sends to every subscriber,  *)
(* all of it under the provider's mutex; a full channel blocks the send.            *)

Append1(k) ==
  /\ published' = [published EXCEPT ![k] = @ + 1]
  /\ unsent' = 1..Len(channels[k])

(* ObserveSandbox, or an action of an executor: the sandbox event first. *)
Publish(p, bad) ==
  /\ publisher[p] = "idle" /\ providerMu = "free"
  /\ published["sandbox"] < MaxEvents /\ published["resource"] < MaxEvents
  /\ bad => p \in Observers /\ Cardinality(malformed) < MaxMalformed
  /\ providerMu' = p /\ publisher' = [publisher EXCEPT ![p] = "sandbox"]
  /\ Append1("sandbox")
  /\ malformed' = IF bad THEN malformed \cup {published["sandbox"] + 1} ELSE malformed
  /\ UNCHANGED <<planMu, channels, stream, loop, event, seen, health, worker, reconnects>>

\* Mutant: a full channel drops the event.
SendDropping(p, c) ==
  LET k == publisher[p] IN
  /\ k \in Kinds /\ c \in unsent
  /\ channels' = IF Len(channels[k][c]) < Capacity
                 THEN [channels EXCEPT ![k][c] = Append(@, published[k])] ELSE channels
  /\ unsent' = unsent \ {c}
  /\ UNCHANGED <<providerMu, published, malformed, publisher, planMu, stream, loop, event, seen, health, worker, reconnects>>

Send(p, c) ==
  LET k == publisher[p] IN
  /\ k \in Kinds /\ c \in unsent /\ Len(channels[k][c]) < Capacity
  /\ channels' = [channels EXCEPT ![k][c] = Append(@, published[k])]
  /\ unsent' = unsent \ {c}
  /\ UNCHANGED <<providerMu, published, malformed, publisher, planMu, stream, loop, event, seen, health, worker, reconnects>>

(* The resource snapshot follows the sandbox event. *)
PublishSnapshot(p) ==
  /\ publisher[p] = "sandbox" /\ unsent = {}
  /\ publisher' = [publisher EXCEPT ![p] = "resource"] /\ Append1("resource")
  /\ UNCHANGED <<providerMu, malformed, planMu, channels, stream, loop, event, seen, health, worker, reconnects>>

\* Mutant: the provider's mutex is kept.
PublishedKeepsLock(p) ==
  /\ publisher[p] = "resource" /\ unsent = {}
  /\ publisher' = [publisher EXCEPT ![p] = IF p \in Observers THEN "project" ELSE "idle"]
  /\ UNCHANGED <<providerMu, published, malformed, unsent, planMu, channels, stream, loop, event, seen, health, worker, reconnects>>

Published(p) ==
  /\ publisher[p] = "resource" /\ unsent = {} /\ providerMu' = "free"
  /\ publisher' = [publisher EXCEPT ![p] = IF p \in Observers THEN "project" ELSE "idle"]
  /\ UNCHANGED <<published, malformed, unsent, planMu, channels, stream, loop, event, seen, health, worker, reconnects>>

(* The RPC applies the event to the Store itself, under planMu, and answers. *)
ObserveReturns(p) ==
  /\ publisher[p] = "project" /\ planMu = "free"
  /\ publisher' = [publisher EXCEPT ![p] = "idle"]
  /\ UNCHANGED <<providerMu, published, malformed, unsent, planMu, channels, stream, loop, event, seen, health, worker, reconnects>>

--------------------------------------------------------------------------------
(* The watch loops. *)

Receive(k) ==
  LET c == stream[k] IN
  /\ loop[k] = "consume" /\ channels[k][c] # <<>>
  /\ event' = [event EXCEPT ![k] = Head(channels[k][c])]
  /\ seen' = [seen EXCEPT ![k] = Head(channels[k][c])]
  /\ channels' = [channels EXCEPT ![k][c] = Tail(@)]
  /\ loop' = [loop EXCEPT ![k] = "apply"]
  /\ UNCHANGED <<provider, planMu, stream, health, worker, reconnects>>

Refused(k) == k = "sandbox" /\ event[k] \in malformed

(* applyAuthoritativeResourceEvent, applyAuthoritativeSandboxEvent: a lock section.  *)
Apply(k) ==
  /\ loop[k] = "apply" /\ planMu = "free"
  /\ loop' = [loop EXCEPT ![k] = IF Refused(k) THEN "refused" ELSE "applied"]
  /\ UNCHANGED <<provider, planMu, channels, stream, event, seen, health, worker, reconnects>>

(* markProviderWatchEventHealthy, markProjectionLiveReady. *)
Applied(k) ==
  /\ loop[k] = "applied"
  /\ healthy' = healthy \cup {k} /\ poisoned' = poisoned \ {k} /\ live' = live \cup {k}
  /\ loop' = [loop EXCEPT ![k] = "consume"]
  /\ UNCHANGED <<provider, planMu, channels, stream, event, seen, worker, reconnects>>

(* poisonProviderWatch; the loop leaves its stream, which stays subscribed.          *)
Disconnect(k) ==
  /\ loop[k] = "refused" /\ reconnects[k] < MaxReconnects
  /\ healthy' = healthy \ {k} /\ poisoned' = poisoned \cup {k} /\ live' = live \ {k}
  /\ reconnects' = [reconnects EXCEPT ![k] = @ + 1]
  /\ loop' = [loop EXCEPT ![k] = "snapshot"]
  /\ UNCHANGED <<provider, planMu, channels, stream, event, seen, worker>>

(* bootstrapLiveProviderProjection: Snapshot and ListSandboxes take the provider's   *)
(* mutex, the two projections take planMu.                                           *)
Resync(k, from, to, lock) ==
  /\ loop[k] = from /\ lock = "free"
  /\ loop' = [loop EXCEPT ![k] = to]
  /\ UNCHANGED <<provider, planMu, channels, stream, event, seen, health, worker, reconnects>>

(* The second projection saves; a failed save leaves the loop on its old stream.     *)
ResyncFails(k) ==
  /\ loop[k] = "reconcile" /\ planMu = "free"
  /\ healthy' = healthy \ {k}
  /\ loop' = [loop EXCEPT ![k] = "consume"]
  /\ UNCHANGED <<provider, planMu, channels, stream, event, seen, poisoned, live, worker, reconnects>>

\* Mutant: opening a stream makes the watch healthy whatever happened before.
SetHealthyAlways(k) == healthy \cup {k}

(* setProviderWatchHealthy. *)
SetHealthy(k) == IF k \in poisoned THEN healthy ELSE healthy \cup {k}

(* WatchResources, WatchSandboxes from cursor 0, then setProviderWatchHealthy. *)
Reopen(k) ==
  /\ loop[k] = "open" /\ providerMu = "free"
  /\ channels' = [channels EXCEPT ![k] = Append(@, Replayed(k))]
  /\ stream' = [stream EXCEPT ![k] = Len(channels[k]) + 1]
  /\ seen' = [seen EXCEPT ![k] = Oldest(k) - 1]
  /\ healthy' = SetHealthy(k) /\ live' = live \cup {k}
  /\ loop' = [loop EXCEPT ![k] = "consume"]
  /\ UNCHANGED <<provider, planMu, event, poisoned, worker, reconnects>>

WatchLoop(k) ==
  \/ Receive(k) \/ Apply(k) \/ Applied(k) \/ Disconnect(k)
  \/ Resync(k, "snapshot", "project", providerMu) \/ Resync(k, "project", "list", planMu)
  \/ Resync(k, "list", "reconcile", providerMu) \/ Resync(k, "reconcile", "open", planMu)
  \/ ResyncFails(k) \/ Reopen(k)

--------------------------------------------------------------------------------
(* A reconcile worker: under planMu it checks both gates, evaluates, and asks the    *)
(* provider for its health before it stages the plan.                                *)

Gate == healthy = Kinds /\ live = Kinds

LockPlan(w) ==
  /\ worker[w] = "idle" /\ planMu = "free" /\ Gate
  /\ planMu' = w /\ worker' = [worker EXCEPT ![w] = "health"]
  /\ UNCHANGED <<provider, channels, stream, loop, event, seen, health, reconnects>>

CheckHealth(w) ==
  /\ worker[w] = "health" /\ providerMu = "free"
  /\ planMu' = "free" /\ worker' = [worker EXCEPT ![w] = "idle"]
  /\ UNCHANGED <<provider, channels, stream, loop, event, seen, health, reconnects>>

Publishing(p) ==
  (\E c \in unsent : Send(p, c)) \/ PublishSnapshot(p) \/ Published(p) \/ ObserveReturns(p)
Working(w) == LockPlan(w) \/ CheckHealth(w)

Next ==
  \/ \E p \in Publishers : (\E bad \in BOOLEAN : Publish(p, bad)) \/ Publishing(p)
  \/ \E k \in Kinds : WatchLoop(k)
  \/ \E w \in Workers : Working(w)

Spec == Init /\ [][Next]_vars

(* Every goroutine is scheduled, and Go's mutexes hand over to a goroutine that      *)
(* waits for them: the steps that take a lock are strongly fair. That an observation *)
(* or a plan arrives is not assumed.                                                 *)
FairSpec ==
  /\ Spec
  /\ \A p \in Publishers : SF_vars(Publishing(p))
  /\ \A k \in Kinds : SF_vars(WatchLoop(k))
  /\ \A w \in Workers : SF_vars(CheckHealth(w))

--------------------------------------------------------------------------------
(* Properties. *)

(* Type correctness of the watch state; no channel exceeds its buffer. *)
WatchTypeOK ==
  /\ providerMu \in Publishers \cup {"free"} /\ planMu \in Workers \cup {"free"}
  /\ published \in [Kinds -> 0..MaxEvents] /\ malformed \subseteq 1..published["sandbox"]
  /\ healthy \subseteq Kinds /\ poisoned \subseteq Kinds /\ live \subseteq Kinds
  /\ \A k \in Kinds : /\ stream[k] \in 1..Len(channels[k]) /\ seen[k] \in 0..published[k]
                      /\ \A c \in 1..Len(channels[k]) :
                           Len(channels[k][c]) <= Capacity /\ Range(channels[k][c]) \subseteq 1..published[k]

(* A watch poisoned by an event it could not apply stays unhealthy, whatever the     *)
(* reconnects of either loop do, until a later event is applied: the reconcile gate  *)
(* is closed all that time (setProviderWatchHealthy, runSandboxWatch).               *)
PoisonedIsClosed == \A k \in poisoned : k \notin healthy

(* A stream delivers the provider's events in order and without a gap: between two   *)
(* reconnects each event taken follows the one before (publishSandboxEventLocked     *)
(* blocks rather than drop, WatchSandboxes replays before it subscribes).            *)
StreamContiguous ==
  [][\A k \in Kinds : stream'[k] = stream[k] => seen'[k] \in {seen[k], seen[k] + 1}]_vars

(* Three goroutines that wait for each other: a publisher with the provider's mutex  *)
(* at a full channel, the channel's loop that waits for planMu to apply an event,    *)
(* and the worker that holds planMu and asks the provider for its health.            *)
Entangled ==
  \E p \in Publishers, w \in Workers :
    /\ providerMu = p /\ publisher[p] \in Kinds /\ planMu = w /\ worker[w] = "health"
    /\ \E c \in unsent : Len(channels[publisher[p]][c]) = Capacity
    /\ loop[publisher[p]] = "apply"

(* An event that was published is taken off its stream by the watch loop, as long as *)
(* all events can be applied, unless publisher, loop and worker end up entangled:    *)
(* there is no other way for the watch to stop.                                      *)
StopsOnlyEntangled ==
  \A k \in Kinds : \A i \in 1..MaxEvents :
    (published[k] >= i ~> (seen[k] >= i \/ malformed # {})) \/ <>[]Entangled

(* The watch tails the provider: an event that was published is taken off the stream *)
(* by its loop (WatchResources "tails future events until the context ends").        *)
WatchTails ==
  \A k \in Kinds : \A i \in 1..MaxEvents : published[k] >= i ~> seen[k] >= i
================================================================================

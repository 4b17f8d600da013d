------------------------- MODULE SandboxProjection -------------------------
(* One sandbox as the provider knows it and as the Store projects it. Observations   *)
(* reach the provider through the scheduler's ObserveSandbox RPC                     *)
(* (scheduler-go/service/server.go) or straight from the worker registry             *)
(* (scheduler-go/cmd/scheduler/worker_registry.go); plans act on the sandbox in the  *)
(* provider (scheduler-go/provider/actions.go). Every change is published on the     *)
(* watch stream; the RPC also applies its event to the Store itself and checkpoints. *)
(* A lost stream is repaired by listing the provider's sandboxes and applying the    *)
(* list (scheduler-go/service/provider_watch.go). The provider lives in the          *)
(* scheduler's process and is rebuilt when that restarts; the Store is restored from *)
(* its checkpoint.                                                                   *)
(*                                                                                   *)
(* The times are those of one clock: the source stamps an observation when it makes  *)
(* it, the provider stamps the sandbox when it accepts it.                           *)
EXTENDS SandboxCursor, Sequences, FiniteSets, TLC

CONSTANTS
  Reports,         \* the observations a substrate may make
  ReportStates,    \* the states they may report
  MaxGeneration,   \* generations of the sandbox
  MaxActs,         \* actions of plans
  MaxResyncs,      \* repairs of the stream
  MaxFaults,       \* checkpoints that fail
  MaxCrashes,      \* restarts of the scheduler
  MaxUpsets        \* repairs, failed checkpoints and restarts together

ASSUME ProjectionAssumption ==
  /\ ReportStates \subseteq States /\ IsFiniteSet(Reports)
  /\ MaxGeneration \in Nat \ {0} /\ MaxActs \in Nat /\ MaxResyncs \in Nat
  /\ MaxFaults \in Nat /\ MaxCrashes \in Nat /\ MaxUpsets \in Nat

VARIABLES
  clock,     \* the time
  prov,      \* the provider's sandbox
  rev,       \* the provider's revision
  log,       \* the sandbox events of this provider, oldest first
  taken,     \* the observations this provider accepted
  tail,      \* how much of the log the subscription has delivered
  report,    \* what each report says, and where it stands
  box,       \* the Store's projected sandbox
  cursor,    \* the Store's cursor for it
  saved,     \* box and cursor as of the last checkpoint
  list,      \* a resync's reading of the provider: NoList or the sandbox
  spent      \* the bounds used up

projection == <<box, cursor>>
provider == <<prov, rev, log, taken>>
vars == <<clock, prov, rev, log, taken, tail, report, box, cursor, saved, list, spent>>

NoList == [read |-> "no", entry |-> NoSandbox]

Unmade == [status |-> "unmade", via |-> "rpc", gen |-> 0, st |-> "REQUESTED", at |-> 0, rev |-> 0]

Durable == [box |-> box, cursor |-> cursor]

Init ==
  /\ clock = 1 /\ prov = NoSandbox /\ rev = 1 /\ log = <<>> /\ taken = {} /\ tail = 0
  /\ report = [r \in Reports |-> Unmade]
  /\ box = NoSandbox /\ cursor = NoCursor
  /\ saved = Durable /\ list = NoList
  /\ spent = [acts |-> 0, resyncs |-> 0, faults |-> 0, crashes |-> 0]

Spend(what) == spent' = [spent EXCEPT ![what] = @ + 1]

Upset(what, bound) ==
  /\ spent[what] < bound /\ spent.resyncs + spent.faults + spent.crashes < MaxUpsets
  /\ Spend(what)

-----------------------------------------------------------------------------
(* The Store: ApplyProviderSandboxEvent.                                             *)
Project(event) ==
  IF acceptSandboxCursor(cursor, box, event)
  THEN /\ cursor' = nextCursor(cursor, event)
       /\ box' = mergedSandbox(box, event)
  ELSE UNCHANGED projection

-----------------------------------------------------------------------------
(* The substrate makes an observation, of the current generation or of an earlier one.*)
Report(r) ==
  \E via \in {"rpc", "registry"}, g \in 1..MaxGeneration, s \in ReportStates :
    /\ report[r].status = "unmade" /\ g <= prov.gen
    /\ clock' = clock + 1
    /\ report' = [report EXCEPT ![r] =
                    [status |-> "waiting", via |-> via, gen |-> g, st |-> s, at |-> clock', rev |-> 0]]
    /\ UNCHANGED <<provider, tail, projection, saved, list, spent>>

Accepted(r, revision) ==
  [id |-> <<"observation", r>>, gen |-> report[r].gen, rev |-> revision, st |-> report[r].st,
   at |-> report[r].at, disp |-> "none", run |-> "named"]

(* ObserveSandbox of the provider, under its mutex. A repeated event id answers what  *)
(* it answered before; an observation that is refused is not sent again. The RPC      *)
(* goes on to the Store with the accepted event, the registry is done.                *)
ObserveSandbox(r) ==
  LET next == IF report[r].via = "rpc" THEN "accepted" ELSE "done"
  IN /\ report[r].status = "waiting" /\ list.read # "startup"
     /\ \/ /\ r \in taken
           /\ report' = [report EXCEPT ![r].status = next]
           /\ UNCHANGED <<clock, provider>>
        \/ /\ r \notin taken /\ ~observable(prov, Accepted(r, 0))
           /\ report' = [report EXCEPT ![r].status = "refused"]
           /\ UNCHANGED <<clock, provider>>
        \/ /\ r \notin taken /\ observable(prov, Accepted(r, 0))
           /\ clock' = clock + 1 /\ rev' = rev + 1
           /\ prov' = observedSandbox(prov, Accepted(r, rev'), clock')
           /\ taken' = taken \cup {r}
           /\ log' = Append(log, Accepted(r, rev'))
           /\ report' = [report EXCEPT ![r].status = next, ![r].rev = rev']
     /\ UNCHANGED <<tail, projection, saved, list, spent>>

(* Mutant of ProjectObservation: the RPC checkpoints only what it changed itself.     *)
ProjectObservationIfChanged(r) ==
  /\ report[r].status = "accepted"
  /\ Project(Accepted(r, report[r].rev))
  /\ saved' = IF box' # box THEN [box |-> box', cursor |-> cursor'] ELSE saved
  /\ report' = [report EXCEPT ![r].status = "done"]
  /\ UNCHANGED <<clock, provider, tail, list, spent>>

(* The rest of the RPC: the Store applies the event and checkpoints under planMu. A   *)
(* failed checkpoint is answered as an internal error, and the caller sends again.    *)
ProjectObservation(r) ==
  /\ report[r].status = "accepted"
  /\ Project(Accepted(r, report[r].rev))
  /\ \/ /\ saved' = [box |-> box', cursor |-> cursor']
        /\ report' = [report EXCEPT ![r].status = "done"]
        /\ UNCHANGED spent
     \/ /\ Upset("faults", MaxFaults)
        /\ report' = [report EXCEPT ![r].status = "waiting"]
        /\ UNCHANGED saved
  /\ UNCHANGED <<clock, provider, tail, list>>

-----------------------------------------------------------------------------
(* An action of a plan applied by the provider: bind, pause, resume, release, or a    *)
(* rebind or recreate, which opens a generation.                                      *)
Outcomes ==
  {[gen |-> 1, st |-> "BOUND"] : x \in IF prov.gen = 0 THEN {1} ELSE {}}
    \cup {[gen |-> prov.gen, st |-> "PAUSED"] : x \in IF prov.gen > 0 /\ prov.st = "RUNNING" THEN {1} ELSE {}}
    \cup {[gen |-> prov.gen, st |-> "RUNNING"] : x \in IF prov.gen > 0 /\ prov.st \in {"PAUSED", "SLEEPING"} THEN {1} ELSE {}}
    \cup {[gen |-> prov.gen, st |-> "TERMINATED"] : x \in IF prov.gen > 0 /\ prov.st # "TERMINATED" THEN {1} ELSE {}}
    \cup {[gen |-> prov.gen + 1, st |-> "BOUND"] : x \in IF prov.gen \in 1..(MaxGeneration - 1) THEN {1} ELSE {}}

executeAction ==
  \E outcome \in Outcomes :
    /\ spent.acts < MaxActs /\ Spend("acts") /\ list.read # "startup"
    /\ clock' = clock + 1 /\ rev' = rev + 1
    /\ prov' = [prov EXCEPT !.gen = outcome.gen, !.st = outcome.st, !.at = clock']
    /\ log' = Append(log, [id |-> <<"provider", Len(log) + 1>>, gen |-> outcome.gen,
                           rev |-> rev', st |-> outcome.st, at |-> clock',
                           disp |-> prov.disp, run |-> "unnamed"])
    /\ UNCHANGED <<taken, tail, report, projection, saved, list>>

(* The sandbox watch delivers the next event, unless its loop repairs its own stream; *)
(* the Store applies it, without a checkpoint.                                        *)
Deliver ==
  /\ tail < Len(log) /\ list.read \in {"no", "resource"}
  /\ tail' = tail + 1
  /\ Project(log[tail + 1])
  /\ UNCHANGED <<clock, provider, report, saved, list, spent>>

(* Any other work of the scheduler checkpoints the whole Store.                       *)
Checkpoint ==
  /\ saved # Durable /\ list.read # "startup"
  /\ saved' = Durable
  /\ UNCHANGED <<clock, provider, tail, report, projection, list, spent>>

-----------------------------------------------------------------------------
(* A repair, by the resource or by the sandbox watch loop, reads the provider's list  *)
(* outside planMu ...                                                                 *)
ListSandboxes ==
  /\ list.read = "no" /\ Upset("resyncs", MaxResyncs)
  /\ \E loop \in {"resource", "sandbox"} : list' = [read |-> loop, entry |-> prov]
  /\ UNCHANGED <<clock, provider, tail, report, projection, saved>>

(* ReplaceProjectedSandboxes: a sandbox that is not listed is dropped and its cursor  *)
(* kept; an entry the cursor does not admit leaves the projected sandbox as it is.    *)
Replace(entry) ==
  CASE entry.gen = 0 -> box' = NoSandbox /\ UNCHANGED cursor
    [] entry.gen > 0 /\ cursor.gen > 0 /\ ~acceptSandboxBootstrap(cursor, box, entry) ->
         UNCHANGED projection
    [] OTHER -> /\ box' = mergeDurableSandboxDisposition(box, entry)
                /\ cursor' = bootstrapCursor(cursor, entry)

(* ... applies it under planMu, checkpoints what changed, and subscribes its stream   *)
(* from cursor 0, which replays the retained events. A failed checkpoint leaves the   *)
(* stream as it was; at start-up it ends the process, which starts again.             *)
ReplaceProjectedSandboxes ==
  /\ list.read # "no"
  /\ \/ /\ Replace(list.entry)
        /\ saved' = IF box' # box THEN [box |-> box', cursor |-> cursor'] ELSE saved
        /\ list' = NoList
        /\ tail' = IF list.read = "resource" THEN tail ELSE 0
        /\ UNCHANGED spent
     \/ /\ Upset("faults", MaxFaults) /\ list.read # "startup"
        /\ Replace(list.entry) /\ box' # box
        /\ list' = NoList
        /\ UNCHANGED <<saved, tail>>
     \/ /\ Upset("faults", MaxFaults) /\ list.read = "startup"
        /\ UNCHANGED <<projection, saved, list, tail>>
  /\ UNCHANGED <<clock, provider, report>>

(* The process ends and starts again. The provider is built anew: its revision and    *)
(* its event ids start over, and of the sandbox it knows nothing (mock) or the        *)
(* binding the helper still holds (NVIDIA). The callers send again.                   *)
Crash ==
  /\ Upset("crashes", MaxCrashes)
  /\ clock' = clock + 1
  /\ prov' \in {NoSandbox} \cup
       {[NoSandbox EXCEPT !.gen = prov.gen, !.st = "BOUND", !.at = clock'] :
          x \in IF prov.gen > 0 /\ prov.st # "TERMINATED" THEN {1} ELSE {}}
  /\ rev' = 1 /\ log' = <<>> /\ taken' = {} /\ tail' = 0
  /\ report' = [r \in Reports |-> IF report[r].status = "accepted"
                                  THEN [report[r] EXCEPT !.status = "waiting"] ELSE report[r]]
  /\ box' = saved.box /\ cursor' = saved.cursor
  /\ list' = [read |-> "startup", entry |-> prov']
  /\ UNCHANGED saved

Next ==
  \/ \E r \in Reports : Report(r) \/ ObserveSandbox(r) \/ ProjectObservation(r)
  \/ executeAction \/ Deliver \/ Checkpoint
  \/ ListSandboxes \/ ReplaceProjectedSandboxes
  \/ Crash

Spec == Init /\ [][Next]_vars

-----------------------------------------------------------------------------
(* Every variable has its type, and the cursor never trails the projected sandbox's   *)
(* generation, which Restore refuses (validateAndRestoreProviderProjection).          *)
ProjectionTypeOK ==
  /\ rev \in Nat \ {0} /\ tail \in 0..Len(log)
  /\ \A b \in {prov, box, saved.box, list.entry} :
       b.gen \in 0..MaxGeneration /\ b.st \in States /\ b.disp \in Dispositions
  /\ cursor.gen \in 0..MaxGeneration
  /\ \A r \in Reports : report[r].status \in {"unmade", "waiting", "accepted", "done", "refused"}
  /\ box.gen <= cursor.gen /\ saved.box.gen <= saved.cursor.gen

(* The RPC, the watch and the repairs apply what the provider published in any order, *)
(* late and more than once, and still a projection is never of a generation older     *)
(* than any the Store has seen, a sandbox that a repair dropped in between included;  *)
(* only a restart goes back, to the checkpoint.                                       *)
ProjectionAdvances ==
  [][ spent'.crashes = spent.crashes =>
        /\ cursor'.gen >= cursor.gen
        /\ box' # box /\ box'.gen > 0 => box'.gen >= cursor.gen ]_vars

(* Nothing is on its way: no RPC is between the provider and the Store, the watch has *)
(* delivered every event, and no repair is under way.                                 *)
Quiet ==
  /\ \A r \in Reports : report[r].status # "accepted"
  /\ tail = Len(log) /\ list.read = "no"

(* An observation whose RPC was answered is settled durably: were it delivered again  *)
(* to the Store a crash would restore, it would be fenced. Whichever of the RPC and   *)
(* the watch applied it first, the RPC answers only after a checkpoint that holds it. *)
(* The exception is of the cursor's rule itself: a provider built anew counts its     *)
(* revisions from the start, and an observation at the very revision of the cursor is *)
(* decided by its time.                                                               *)
AcknowledgedIsSettled ==
  \A r \in Reports :
    report[r].status = "done" /\ report[r].via = "rpc" =>
      \/ ~acceptSandboxCursor(saved.cursor, saved.box, Accepted(r, report[r].rev))
      \/ /\ spent.crashes > 0
         /\ saved.cursor.gen = report[r].gen /\ saved.cursor.rev = report[r].rev

(* Once everything the provider published is delivered, the Store projects the        *)
(* sandbox as the provider has it, in whatever order RPC and watch applied it, as     *)
(* long as no repair read a list and the scheduler did not restart.                   *)
ProjectionAgrees ==
  Quiet /\ spent.resyncs = 0 /\ spent.crashes = 0 =>
    box.gen = prov.gen /\ (prov.gen > 0 => box.st = prov.st)

(* The same, repairs and restarts included: "Provider watch streams then update       *)
(* Store, so the Scheduler has one ordering and fencing path for all observations"    *)
(* (server.go).                                                                       *)
OneOrderingPath ==
  Quiet => box.gen = prov.gen /\ (prov.gen > 0 => box.st = prov.st)
=============================================================================

----------------------------- MODULE RunLedger -----------------------------
(* The allocations of one Run against what the provider observes of their sandboxes  *)
(* (scheduler-go/state/provider_projection.go). A terminal event retires the Run     *)
(* once all its allocations are terminal (retireRunFromTerminalEventLocked); a       *)
(* repair of the watch lists the provider's sandboxes, frees the allocations the     *)
(* list shows terminal, queues their units again or retires the Run                  *)
(* (ReconcileProviderSandboxes), and replaces the projection                         *)
(* (ReplaceProjectedSandboxes). Terminal observations carry a disposition: "true"    *)
(* for a stop of the whole Run, "false" for a scale-in, none for a worker that       *)
(* ended by itself.                                                                  *)
(*                                                                                   *)
(* Sandboxes have one generation here (SandboxProjection has several), and the       *)
(* capacity the allocations hold is left out. A unit's next allocation has a fresh   *)
(* sandbox, as its id is made from the decision's.                                   *)
EXTENDS SandboxCursor, Sequences, FiniteSets

CONSTANTS
  Units,             \* the units the intent asks for
  MaxIncarnations,   \* placements of one unit
  MaxResyncs,        \* repairs of the watch
  Commands,          \* the lifecycle commands that may come: a subset of {"stop"}
  Endings,           \* the dispositions of workers that end without a stop
  MayExpire          \* whether the intent may expire: {} or {"expire"}

ASSUME LedgerAssumption ==
  /\ IsFiniteSet(Units) /\ MaxIncarnations \in Nat \ {0} /\ MaxResyncs \in Nat
  /\ Commands \subseteq {"stop"} /\ Endings \subseteq {"none", "false"}
  /\ MayExpire \subseteq {"expire"}

Sandboxes == Units \X (1..MaxIncarnations)

VARIABLES
  intent,     \* the intent: "live", "expired" or "gone"
  pending,    \* the units that wait for a placement
  alloc,      \* each unit's allocation: the incarnation it holds, 0 for none
  last,       \* each unit's latest incarnation
  command,    \* the command the substrate was given: "none" or "stop"
  prov,       \* the provider's sandboxes
  now,        \* the time, and the provider's revision
  sent,        \* the published sandbox events, with their sandboxes
  tail,       \* how many of them the Store has applied
  box,        \* the Store's projected sandboxes
  boxCursor,     \* the Store's cursors
  list,       \* a repair's reading of the provider, or NoList
  resyncs     \* repairs begun

runLedger == <<intent, pending, alloc, last>>
projection == <<box, boxCursor>>
provider == <<prov, now, sent>>
runVars == <<intent, pending, alloc, last, command, prov, now, sent, tail, box, boxCursor, list, resyncs>>

NoList == <<>>

(* The Run's intent is published: all its units wait.                                *)
InitRun ==
  /\ intent = "live" /\ pending = Units /\ command = "none"
  /\ alloc = [u \in Units |-> 0] /\ last = [u \in Units |-> 0]
  /\ prov = [s \in Sandboxes |-> NoSandbox] /\ now = 1 /\ sent = <<>> /\ tail = 0
  /\ box = [s \in Sandboxes |-> NoSandbox] /\ boxCursor = [s \in Sandboxes |-> NoCursor]
  /\ list = NoList /\ resyncs = 0

Allocated == {u \in Units : alloc[u] > 0}
Sandbox(u) == <<u, alloc[u]>>

-----------------------------------------------------------------------------
(* The provider publishes a sandbox's new state.                                     *)
Publish(s, next, event) ==
  /\ now' = now + 1
  /\ prov' = [prov EXCEPT ![s] = next]
  /\ sent' = Append(sent, [sandbox |-> s, event |-> event])

(* A plan reserves a pending unit: the allocation is made before the provider acts.  *)
Reserve(u) ==
  /\ intent = "live" /\ u \in pending /\ last[u] < MaxIncarnations
  /\ pending' = pending \ {u}
  /\ last' = [last EXCEPT ![u] = @ + 1]
  /\ alloc' = [alloc EXCEPT ![u] = last'[u]]
  /\ UNCHANGED <<intent, command, provider, tail, projection, list, resyncs>>

(* The plan's BIND; its event names no Run.                                          *)
Bind(u) ==
  LET s == <<u, last[u]>>
  IN /\ last[u] > 0 /\ prov[s].gen = 0
     /\ Publish(s, [NoSandbox EXCEPT !.gen = 1, !.st = "BOUND", !.at = now'],
                [id |-> <<"provider", now'>>, gen |-> 1, rev |-> now', st |-> "BOUND",
                 at |-> now', disp |-> "none", run |-> "unnamed"])
     /\ UNCHANGED <<runLedger, command, tail, projection, list, resyncs>>

(* A lifecycle command stops the whole Run.                                          *)
StopRun ==
  /\ command = "none" /\ "stop" \in Commands
  /\ command' = "stop"
  /\ UNCHANGED <<runLedger, provider, tail, projection, list, resyncs>>

(* The substrate observes a worker's end and the provider accepts the observation.   *)
Terminate(s) ==
  \E disp \in IF command = "stop" THEN {"true"} ELSE Endings :
    LET event == [id |-> <<"observation", now'>>, gen |-> 1, rev |-> now', st |-> "TERMINATED",
                  at |-> now, disp |-> disp, run |-> "named"]
    IN /\ prov[s].gen > 0 /\ ~terminalRuntimeState(prov[s].st)
       /\ Publish(s, observedSandbox(prov[s], event, now'), event)
       /\ UNCHANGED <<runLedger, command, tail, projection, list, resyncs>>

Expire ==
  /\ intent = "live" /\ MayExpire # {}
  /\ intent' = "expired"
  /\ UNCHANGED <<pending, alloc, last, command, provider, tail, projection, list, resyncs>>

-----------------------------------------------------------------------------
(* Every allocation of the Run has a terminal sandbox, the event's own included.     *)
allRunAllocationsTerminal(observed, current) ==
  /\ Allocated # {}
  /\ \A u \in Allocated :
       \/ Sandbox(u) = current
       \/ observed[Sandbox(u)].gen = 1 /\ terminalRuntimeState(observed[Sandbox(u)].st)

(* The guard of retireRunFromTerminalEventLocked.                                    *)
retiresRun(s, event) ==
  /\ terminalRuntimeState(event.st) /\ event.run = "named"
  /\ \E u \in Allocated : Sandbox(u) = s
  /\ event.disp # "false"
  /\ allRunAllocationsTerminal(box, s)

RetireRun ==
  /\ intent' = "gone" /\ pending' = {}
  /\ alloc' = [u \in Units |-> 0]
  /\ UNCHANGED last

(* ApplyProviderSandboxEvent for the next event of the sandbox watch, whose loop      *)
(* does not read while it repairs its own stream.                                     *)
Deliver ==
  LET entry == sent[tail + 1]
      s == entry.sandbox
  IN /\ tail < Len(sent) /\ (list # NoList => list[1] = "resource")
     /\ tail' = tail + 1
     /\ \/ /\ acceptSandboxCursor(boxCursor[s], box[s], entry.event)
           /\ boxCursor' = [boxCursor EXCEPT ![s] = nextCursor(boxCursor[s], entry.event)]
           /\ box' = [box EXCEPT ![s] = mergedSandbox(box[s], entry.event)]
           /\ \/ retiresRun(s, entry.event) /\ RetireRun
              \/ ~retiresRun(s, entry.event) /\ UNCHANGED runLedger
        \/ /\ ~acceptSandboxCursor(boxCursor[s], box[s], entry.event)
           /\ UNCHANGED <<projection, runLedger>>
     /\ UNCHANGED <<command, provider, list, resyncs>>

-----------------------------------------------------------------------------
(* A repair, by the resource or by the sandbox watch loop, reads the provider's       *)
(* sandboxes outside planMu.                                                          *)
ListSandboxes ==
  /\ list = NoList /\ resyncs < MaxResyncs
  /\ resyncs' = resyncs + 1
  /\ \E loop \in {"resource", "sandbox"} : list' = <<loop, prov>>
  /\ UNCHANGED <<runLedger, command, provider, tail, projection>>

(* The list over the projection: sandboxToProto gives the entries no Run.            *)
Observed(live) ==
  [s \in Sandboxes |-> IF live[s].gen > 0 THEN mergeDurableSandboxDisposition(box[s], live[s])
                       ELSE box[s]]

(* The Runs a terminal sandbox of the merged view asks to retire, or not to.         *)
Asks(observed, disposition) ==
  \E s \in Sandboxes :
    /\ observed[s].gen > 0 /\ terminalRuntimeState(observed[s].st)
    /\ observed[s].run = "named" /\ observed[s].disp = disposition

RunRetires(observed) ==
  /\ \A u \in Allocated : observed[Sandbox(u)].gen = 1 /\ terminalRuntimeState(observed[Sandbox(u)].st)
  /\ Allocated # {}
  /\ Asks(observed, "true") \/ ~Asks(observed, "false")

(* Mutant of providerReleased: a sandbox that is not listed is gone.                 *)
providerReleasedAbsent(live, u) ==
  live[Sandbox(u)].gen = 0 \/ terminalRuntimeState(live[Sandbox(u)].st)

providerReleased(live, u) ==
  \/ live[Sandbox(u)].gen = 1 /\ terminalRuntimeState(live[Sandbox(u)].st)
  \/ live[Sandbox(u)].gen = 0 /\ intent = "expired"

(* The allocations ReconcileProviderSandboxes frees when the Run is not retired.     *)
Freed(live, observed) ==
  IF Asks(observed, "true") THEN {} ELSE {u \in Allocated : providerReleased(live, u)}

(* A freed unit is queued again while the intent is valid, unless its end was an     *)
(* explicit release. One unit has one allocation or one place in the queue, so the   *)
(* intent's unit count never stops it.                                               *)
Requeued(live, observed) ==
  {u \in Freed(live, observed) :
     /\ intent = "live" /\ u \notin pending
     /\ ~(observed[Sandbox(u)].gen = 1 /\ terminalRuntimeState(observed[Sandbox(u)].st)
            /\ observed[Sandbox(u)].disp = "false")}

ReconcileProviderSandboxes(live) ==
  LET observed == Observed(live)
  IN \/ RunRetires(observed) /\ RetireRun
     \/ /\ ~RunRetires(observed)
        /\ alloc' = [u \in Units |-> IF u \in Freed(live, observed) THEN 0 ELSE alloc[u]]
        /\ pending' = pending \cup Requeued(live, observed)
        /\ UNCHANGED <<intent, last>>

Accepts(live, s) ==
  live[s].gen > 0 /\ (boxCursor[s].gen > 0 => acceptSandboxBootstrap(boxCursor[s], box[s], live[s]))

(* ReplaceProjectedSandboxes.                                                        *)
Replaced(live) ==
  [s \in Sandboxes |-> CASE live[s].gen = 0    -> NoSandbox
                         [] Accepts(live, s)   -> mergeDurableSandboxDisposition(box[s], live[s])
                         [] OTHER              -> box[s]]

(* The repair applies its list under planMu and subscribes its own stream from the    *)
(* start.                                                                             *)
Resync ==
  LET live == list[2]
  IN /\ list # NoList
     /\ ReconcileProviderSandboxes(live)
     /\ box' = Replaced(live)
     /\ boxCursor' = [s \in Sandboxes |-> IF Accepts(live, s) THEN bootstrapCursor(boxCursor[s], live[s])
                                       ELSE boxCursor[s]]
     /\ list' = NoList
     /\ tail' = IF list[1] = "sandbox" THEN 0 ELSE tail
     /\ UNCHANGED <<command, provider, resyncs>>

NextRun ==
  \/ \E u \in Units : Reserve(u) \/ Bind(u)
  \/ \E s \in Sandboxes : Terminate(s)
  \/ StopRun \/ Expire \/ Deliver \/ ListSandboxes \/ Resync

SpecRun == InitRun /\ [][NextRun]_runVars

(* The executor drives a reserved plan to its bind, the watch loop keeps consuming,   *)
(* and the substrate carries out a stop.                                             *)
FairRun ==
  /\ SpecRun
  /\ WF_runVars(Deliver) /\ WF_runVars(Resync)
  /\ \A u \in Units : WF_runVars(Bind(u))
  /\ \A s \in Sandboxes : WF_runVars(command = "stop" /\ Terminate(s))

-----------------------------------------------------------------------------
(* Every variable has its type, and a unit that waits holds no allocation.            *)
LedgerTypeOK ==
  /\ intent \in {"live", "expired", "gone"} /\ pending \subseteq Units
  /\ alloc \in [Units -> 0..MaxIncarnations] /\ last \in [Units -> 0..MaxIncarnations]
  /\ \A s \in Sandboxes : prov[s].st \in States /\ box[s].st \in States
  /\ tail \in 0..Len(sent) /\ resyncs \in 0..MaxResyncs
  /\ \A u \in pending : alloc[u] = 0

(* An allocation of a valid intent leaves the ledger only when its sandbox is terminal*)
(* at the provider, whichever event, list or retirement freed it and however stale    *)
(* that was (ReconcileProviderSandboxes, retireRunFromTerminalEventLocked).           *)
FreedIsTerminal ==
  [][ \A u \in Units : alloc[u] > 0 /\ alloc'[u] = 0 /\ intent # "expired" =>
        LET s == <<u, alloc[u]>> IN prov[s].gen > 0 /\ terminalRuntimeState(prov[s].st) ]_runVars

(* A Run whose stop the Store has been told of keeps every allocation, and queues no  *)
(* unit again, until all its sandboxes are terminal.                                  *)
StoppingRunIsHeld ==
  [][ (\E u \in Allocated : box[Sandbox(u)].disp = "true" /\ terminalRuntimeState(box[Sandbox(u)].st))
        /\ (\E u \in Allocated : ~terminalRuntimeState(prov[Sandbox(u)].st))
      => (\A u \in Allocated : alloc'[u] = alloc[u]) /\ pending' \subseteq pending ]_runVars

(* A Run is not retired when every one of its allocations ended in a scale-in.        *)
ScaleInKeepsRun ==
  [][ intent = "live" /\ intent' = "gone" =>
        \E u \in Allocated : prov[Sandbox(u)].disp # "false" ]_runVars

(* A Run that is stopped while all its units hold allocations and some still run is   *)
(* retired, as long as no repair intervenes: its allocations, its intent and its      *)
(* waiting units go.                                                                  *)
StopRetiresRun ==
  (command = "stop" /\ Allocated = Units
     /\ \E u \in Units : ~terminalRuntimeState(prov[Sandbox(u)].st))
  ~> (intent = "gone" \/ resyncs > 0)
=============================================================================

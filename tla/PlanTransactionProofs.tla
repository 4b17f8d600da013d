------------------------- MODULE PlanTransactionProofs -------------------------
(***************************************************************************)
(* What is proved of PlanTransaction, for every plan size, crash bound and  *)
(* fault set, and of the run ledger that accounts for the allocations the   *)
(* plans make (RunLedger), for any number of callers and units, any repairs *)
(* and endings.                                                             *)
(*                                                                          *)
(* An allocation is freed on old news: an event the watch has not read yet, *)
(* the projection, or a list a repair took before other events came.  The   *)
(* inductive invariant of the ledger says of each of these sources that     *)
(* whatever it shows terminal is terminal at the provider; it stays so      *)
(* because the provider never takes a sandbox out of a terminal state.      *)
(***************************************************************************)
EXTENDS MCPlanTransaction, RunLedger, TLAPS

--------------------------------------------------------------------------------
(* The run ledger *)

RunNames == {"named", "unnamed"}
Events == [id : {"provider", "observation"} \X Nat, gen : {1}, rev : Nat, st : States,
           at : Nat, disp : Dispositions, run : RunNames]
Entries == [sandbox : Sandboxes, event : Events]

(* A sandbox is over in a view: the view knows it and shows it terminal. *)
Over(view, s) == view[s].gen > 0 /\ terminalRuntimeState(view[s].st)

(* Whatever a view shows terminal is over at the provider. *)
Truthful(view, real) == \A s \in Sandboxes : terminalRuntimeState(view[s].st) => Over(real, s)
TruthfulEvents(events, real) ==
  \A i \in 1..Len(events) : terminalRuntimeState(events[i].event.st) => Over(real, events[i].sandbox)
TruthfulList(reading, real) == reading # NoList => Truthful(reading[2], real)

Views(view) == DOMAIN view = Sandboxes /\ \A s \in Sandboxes : view[s].st \in States

RunTypeInv ==
  /\ intent \in {"live", "expired", "gone"} /\ pending \subseteq Units
  /\ alloc \in [Units -> 0..MaxIncarnations] /\ last \in [Units -> 0..MaxIncarnations]
  /\ \A u \in pending : alloc[u] = 0
  /\ now \in Nat /\ sent \in Seq(Entries) /\ tail \in 0..Len(sent) /\ resyncs \in 0..MaxResyncs
  /\ Views(prov) /\ Views(box)
  /\ list # NoList => Views(list[2])

TruthInv == Truthful(prov, prov) /\ Truthful(box, prov) /\ TruthfulEvents(sent, prov) /\ TruthfulList(list, prov)

RunInv == RunTypeInv /\ TruthInv

LEMMA RunStateFacts ==
  /\ NoSandbox.st = "REQUESTED" /\ "REQUESTED" \in States /\ "BOUND" \in States /\ "TERMINATED" \in States
  /\ ~terminalRuntimeState("REQUESTED") /\ ~terminalRuntimeState("BOUND") /\ terminalRuntimeState("TERMINATED")
BY DEF NoSandbox, States, terminalRuntimeState

LEMMA RunInit == InitRun => RunInv
<1> SUFFICES ASSUME InitRun PROVE RunInv
    OBVIOUS
<1>1. \A s \in Sandboxes : prov[s].st = "REQUESTED" /\ box[s].st = "REQUESTED"
      BY RunStateFacts, ZenonT(30) DEF InitRun
<1>2. RunTypeInv
  <2>1. Views(prov) /\ Views(box)
        BY <1>1, RunStateFacts DEF InitRun, Views
  <2>2. sent \in Seq(Entries) /\ Len(sent) = 0
        BY SMTT(30) DEF InitRun
  <2> QED BY <2>1, <2>2, LedgerAssumption, SMTT(30) DEF InitRun, RunTypeInv
<1>3. TruthInv
      BY <1>1, RunStateFacts DEF InitRun, TruthInv, Truthful, TruthfulEvents, TruthfulList
<1> QED BY <1>2, <1>3, ZenonT(30) DEF RunInv

-----------------------------------------------------------------------------
(* The provider's steps *)

(* What is over stays over when the provider publishes a state that is not a *)
(* way back, and every view stays truthful.                                  *)
LEMMA StillOver ==
  ASSUME RunInv, NEW real, \A s \in Sandboxes : Over(prov, s) => Over(real, s)
  PROVE  Truthful(box, real) /\ TruthfulEvents(sent, real) /\ TruthfulList(list, real)
<1>1. Truthful(box, real)
      BY ZenonT(30) DEF RunInv, TruthInv, Truthful
<1>2. TruthfulEvents(sent, real)
  <2>1. \A i \in 1..Len(sent) : sent[i] \in Entries
        BY SMTT(30) DEF RunInv, RunTypeInv
  <2>2. \A i \in 1..Len(sent) : sent[i].sandbox \in Sandboxes
        BY <2>1, ZenonT(30) DEF Entries
  <2> QED BY <2>2, ZenonT(30) DEF RunInv, TruthInv, TruthfulEvents
<1>3. TruthfulList(list, real)
      BY ZenonT(30) DEF RunInv, TruthInv, TruthfulList, Truthful
<1> QED BY <1>1, <1>2, <1>3, ZenonT(30)

LEMMA PublishPreserves ==
  ASSUME RunInv, NEW s \in Sandboxes, NEW next, NEW event \in Events, Publish(s, next, event),
         ~terminalRuntimeState(prov[s].st), next.gen > 0, next.st = event.st,
         UNCHANGED <<runLedger, tail, projection, list, resyncs>>
  PROVE  RunInv'
<1> DEFINE entry == [sandbox |-> s, event |-> event]
<1>1. prov' = [prov EXCEPT ![s] = next] /\ now' = now + 1 /\ sent' = Append(sent, entry)
      BY ZenonT(30) DEF Publish
<1>2. entry \in Entries /\ entry.sandbox = s /\ entry.event = event
      BY ZenonT(30) DEF Entries
<1> HIDE DEF entry
<1>3. event.st \in States
      BY ZenonT(30) DEF Events
<1>4. DOMAIN prov = Sandboxes /\ prov'[s] = next /\ \A r \in Sandboxes \ {s} : prov'[r] = prov[r]
      BY <1>1, ZenonT(30) DEF RunInv, RunTypeInv, Views
<1>5. Views(prov')
      BY <1>1, <1>3, <1>4, ZenonT(30) DEF RunInv, RunTypeInv, Views
<1>6. /\ sent' \in Seq(Entries) /\ Len(sent') = Len(sent) + 1 /\ sent'[Len(sent) + 1] = entry
      /\ \A i \in 1..Len(sent) : sent'[i] = sent[i]
      BY <1>1, <1>2, SMTT(30) DEF RunInv, RunTypeInv
<1>7. RunTypeInv'
      BY <1>1, <1>5, <1>6, SMTT(30) DEF RunInv, RunTypeInv, runLedger, projection
<1>8. \A r \in Sandboxes : Over(prov, r) => Over(prov', r)
      BY <1>4, ZenonT(30) DEF Over
<1>9. Truthful(box, prov') /\ TruthfulEvents(sent, prov') /\ TruthfulList(list, prov')
      BY <1>8, StillOver, ZenonT(30)
<1>10. TruthfulEvents(sent', prov')
  <2> SUFFICES ASSUME NEW i \in 1..Len(sent'), terminalRuntimeState(sent'[i].event.st)
               PROVE  Over(prov', sent'[i].sandbox)
      BY DEF TruthfulEvents
  <2>1. CASE i \in 1..Len(sent)
        BY <1>6, <1>9, <2>1, ZenonT(30) DEF TruthfulEvents
  <2>2. CASE i = Len(sent) + 1
        BY <1>2, <1>4, <1>6, <2>2, ZenonT(30) DEF Over
  <2> QED BY <1>6, <2>1, <2>2, SMTT(30) DEF RunInv, RunTypeInv
<1>11. Truthful(prov', prov')
      BY <1>3, <1>4, <1>8, ZenonT(30) DEF RunInv, TruthInv, Truthful, Over
<1>12. TruthInv'
      BY <1>9, <1>10, <1>11, ZenonT(30) DEF TruthInv, projection
<1> QED BY <1>7, <1>12, ZenonT(30) DEF RunInv

LEMMA BindPreserves == ASSUME RunInv, NEW u \in Units, Bind(u) PROVE RunInv'
<1> DEFINE s == <<u, last[u]>>
           next == [NoSandbox EXCEPT !.gen = 1, !.st = "BOUND", !.at = now']
           event == [id |-> <<"provider", now'>>, gen |-> 1, rev |-> now', st |-> "BOUND",
                     at |-> now', disp |-> "none", run |-> "unnamed"]
<1>1. /\ last[u] > 0 /\ prov[s].gen = 0 /\ Publish(s, next, event)
      /\ UNCHANGED <<runLedger, command, tail, projection, list, resyncs>>
      BY DEF Bind
<1>2. s \in Sandboxes
      BY <1>1, LedgerAssumption DEF RunInv, RunTypeInv, Sandboxes
<1>3. ~terminalRuntimeState(prov[s].st)
      BY <1>1, <1>2 DEF RunInv, TruthInv, Truthful, Over
<1>4. now' \in Nat
      BY <1>1, SMTT(30) DEF RunInv, RunTypeInv, Publish
<1>5. event \in Events /\ event.st = "BOUND"
      BY <1>4 DEF Events, States, Dispositions, RunNames
<1>6. next.gen = 1 /\ next.st = "BOUND"
      BY ZenonT(30) DEF NoSandbox
<1> HIDE DEF s, next, event
<1> QED BY <1>1, <1>2, <1>3, <1>5, <1>6, PublishPreserves, SMTT(30)

LEMMA TerminatePreserves == ASSUME RunInv, NEW s \in Sandboxes, Terminate(s) PROVE RunInv'
<1>1. PICK disp \in IF command = "stop" THEN {"true"} ELSE Endings :
        LET event == [id |-> <<"observation", now'>>, gen |-> 1, rev |-> now', st |-> "TERMINATED",
                      at |-> now, disp |-> disp, run |-> "named"]
        IN /\ prov[s].gen > 0 /\ ~terminalRuntimeState(prov[s].st)
           /\ Publish(s, observedSandbox(prov[s], event, now'), event)
           /\ UNCHANGED <<runLedger, command, tail, projection, list, resyncs>>
      BY ZenonT(30) DEF Terminate
<1> DEFINE event == [id |-> <<"observation", now'>>, gen |-> 1, rev |-> now', st |-> "TERMINATED",
                     at |-> now, disp |-> disp, run |-> "named"]
           next == observedSandbox(prov[s], event, now')
<1>2. /\ ~terminalRuntimeState(prov[s].st) /\ Publish(s, next, event)
      /\ UNCHANGED <<runLedger, command, tail, projection, list, resyncs>>
      BY <1>1, ZenonT(30)
<1>3. now \in Nat /\ now' \in Nat /\ disp \in Dispositions
  <2>1. now' = now + 1
        BY <1>2, Zenon DEF Publish
  <2>2. now \in Nat
        BY DEF RunInv, RunTypeInv
  <2>3. disp \in Dispositions
        BY LedgerAssumption, ZenonT(30) DEF Dispositions
  <2> QED BY <2>1, <2>2, <2>3
<1>4. event \in Events /\ event.st = "TERMINATED" /\ event.gen = 1
      BY <1>3, ZenonT(30) DEF Events, States, RunNames
<1>5. next.gen = 1 /\ next.st = "TERMINATED"
      BY DEF observedSandbox
<1> HIDE DEF event, next
<1> QED BY <1>2, <1>4, <1>5, PublishPreserves

-----------------------------------------------------------------------------
(* The Store's steps *)

LEMMA RetireTypes ==
  ASSUME RetireRun
  PROVE  /\ intent' = "gone" /\ pending' = {} /\ last' = last
         /\ alloc' \in [Units -> 0..MaxIncarnations] /\ \A u \in Units : alloc'[u] = 0
BY LedgerAssumption DEF RetireRun

LEMMA ReservePreserves == ASSUME RunInv, NEW u \in Units, Reserve(u) PROVE RunInv'
<1>1. last' = [last EXCEPT ![u] = @ + 1] /\ alloc' = [alloc EXCEPT ![u] = last'[u]] /\ pending' = pending \ {u}
      BY ZenonT(30) DEF Reserve
<1>2. UNCHANGED <<intent, prov, now, sent, tail, box, list, resyncs>>
      BY ZenonT(30) DEF Reserve, provider, projection
<1>3. last' \in [Units -> 0..MaxIncarnations]
      BY <1>1, LedgerAssumption, SMTT(30) DEF RunInv, RunTypeInv, Reserve
<1>4. alloc' \in [Units -> 0..MaxIncarnations] /\ \A v \in Units \ {u} : alloc'[v] = alloc[v]
      BY <1>1, <1>3, ZenonT(30) DEF RunInv, RunTypeInv
<1>5. RunTypeInv'
      BY <1>1, <1>2, <1>3, <1>4, ZenonT(30) DEF RunInv, RunTypeInv
<1> QED BY <1>2, <1>5, ZenonT(30) DEF RunInv, TruthInv

LEMMA DeliverPreserves == ASSUME RunInv, Deliver PROVE RunInv'
<1> DEFINE entry == sent[tail + 1]
           s == entry.sandbox
           merged == mergedSandbox(box[s], entry.event)
<1>1. tail \in Nat /\ tail + 1 \in 1..Len(sent) /\ tail' = tail + 1 /\ UNCHANGED <<prov, now, sent, list, resyncs>>
      BY SMTT(30) DEF RunInv, RunTypeInv, Deliver, provider
<1>2. entry \in Entries
      BY <1>1, SMTT(30) DEF RunInv, RunTypeInv
<1>3. s \in Sandboxes /\ entry.event \in Events
      BY <1>2, ZenonT(30) DEF Entries
<1>4. entry.event.st \in States /\ merged.st = entry.event.st
      BY <1>3, ZenonT(30) DEF Events, mergedSandbox
<1>5. terminalRuntimeState(entry.event.st) => Over(prov, s)
      BY <1>1, ZenonT(30) DEF RunInv, TruthInv, TruthfulEvents
<1>6. \/ box' = box
      \/ box' = [box EXCEPT ![s] = merged]
      BY ZenonT(30) DEF Deliver, projection
<1>7. RetireRun \/ UNCHANGED runLedger
      BY DEF Deliver
<1> HIDE DEF entry, s, merged
<1>8. Views(box') /\ Truthful(box', prov)
      BY <1>3, <1>4, <1>5, <1>6, ZenonT(30) DEF RunInv, RunTypeInv, TruthInv, Views, Truthful
<1>9. RunTypeInv'
  <2>1. tail' \in 0..Len(sent')
        BY <1>1, SMTT(30) DEF RunInv, RunTypeInv
  <2>2. CASE RetireRun
        BY <1>1, <1>8, <2>1, <2>2, RetireTypes, ZenonT(30) DEF RunInv, RunTypeInv
  <2>3. CASE UNCHANGED runLedger
        BY <1>1, <1>8, <2>1, <2>3, ZenonT(30) DEF RunInv, RunTypeInv, runLedger
  <2> QED BY <1>7, <2>2, <2>3, ZenonT(30)
<1>10. TruthInv'
      BY <1>1, <1>8 DEF RunInv, TruthInv
<1> QED BY <1>9, <1>10, ZenonT(30) DEF RunInv

LEMMA ListPreserves == ASSUME RunInv, ListSandboxes PROVE RunInv'
<1>1. PICK loop \in {"resource", "sandbox"} : list' = <<loop, prov>>
      BY ZenonT(30) DEF ListSandboxes
<1>2. resyncs' \in 0..MaxResyncs
      BY LedgerAssumption, SMTT(30) DEF ListSandboxes, RunInv, RunTypeInv
<1>3. UNCHANGED <<intent, pending, alloc, last, prov, now, sent, tail, box>>
      BY DEF ListSandboxes, runLedger, provider, projection
<1>4. list'[2] = prov
      BY <1>1, ZenonT(30)
<1>5. RunTypeInv'
      BY <1>2, <1>3, <1>4, ZenonT(30) DEF RunInv, RunTypeInv
<1>6. TruthInv'
      BY <1>3, <1>4 DEF RunInv, TruthInv, TruthfulList
<1> QED BY <1>5, <1>6 DEF RunInv

(* A merged entry shows the state of the list's. *)
LEMMA MergedState ==
  ASSUME NEW current, NEW incoming
  PROVE  mergeDurableSandboxDisposition(current, incoming).st = incoming.st
BY SMTT(30) DEF mergeDurableSandboxDisposition

LEMMA ResyncPreserves == ASSUME RunInv, Resync PROVE RunInv'
<1> DEFINE live == list[2]
<1>1. list # NoList /\ box' = Replaced(live) /\ list' = NoList /\ UNCHANGED <<prov, now, sent, resyncs>>
      BY ZenonT(30) DEF Resync, provider
<1>2. tail' \in 0..Len(sent)
      BY SMTT(30) DEF Resync, RunInv, RunTypeInv
<1>3. Views(live) /\ Truthful(live, prov)
      BY <1>1, ZenonT(30) DEF RunInv, RunTypeInv, TruthInv, TruthfulList
<1>4. ReconcileProviderSandboxes(live)
      BY ZenonT(30) DEF Resync
<1> HIDE DEF live
<1>5. \A s \in Sandboxes : box'[s].st \in {"REQUESTED", live[s].st, box[s].st}
  <2> SUFFICES ASSUME NEW s \in Sandboxes PROVE box'[s].st \in {"REQUESTED", live[s].st, box[s].st}
      OBVIOUS
  <2>1. box'[s] \in {NoSandbox, mergeDurableSandboxDisposition(box[s], live[s]), box[s]}
        BY <1>1 DEF Replaced, Accepts
  <2> QED BY <2>1, MergedState, RunStateFacts, ZenonT(30)
<1>6. Views(box') /\ Truthful(box', prov)
  <2>1. DOMAIN box' = Sandboxes
        BY <1>1 DEF Replaced
  <2> QED BY <1>3, <1>5, <2>1, RunStateFacts, ZenonT(30) DEF RunInv, RunTypeInv, TruthInv, Views, Truthful
<1>7. RunTypeInv'
  <2>1. CASE RetireRun
        BY <1>1, <1>2, <1>6, <2>1, RetireTypes DEF RunInv, RunTypeInv
  <2>2. CASE ~RetireRun
    <3> DEFINE freed == Freed(live, Observed(live))
               again == Requeued(live, Observed(live))
    <3>1. /\ alloc' = [u \in Units |-> IF u \in freed THEN 0 ELSE alloc[u]]
          /\ pending' = pending \cup again /\ UNCHANGED <<intent, last>>
          BY <1>4, <2>2, ZenonT(30) DEF ReconcileProviderSandboxes
    <3>2. again \subseteq freed /\ freed \subseteq Units
          BY ZenonT(30) DEF Requeued, Freed, Allocated
    <3> HIDE DEF freed, again
    <3>3. alloc' \in [Units -> 0..MaxIncarnations]
          BY <3>1, LedgerAssumption, SMTT(30) DEF RunInv, RunTypeInv
    <3>4. pending' \subseteq Units /\ \A u \in pending' : alloc'[u] = 0
          BY <3>1, <3>2, ZenonT(30) DEF RunInv, RunTypeInv
    <3> QED BY <1>1, <1>2, <1>6, <3>1, <3>3, <3>4, ZenonT(30) DEF RunInv, RunTypeInv
  <2> QED BY <2>1, <2>2, ZenonT(30)
<1>8. TruthInv'
      BY <1>1, <1>6 DEF RunInv, TruthInv, TruthfulList
<1> QED BY <1>7, <1>8 DEF RunInv

-----------------------------------------------------------------------------
LEMMA RunStep == RunInv /\ [NextRun]_runVars => RunInv'
<1> SUFFICES ASSUME RunInv, [NextRun]_runVars PROVE RunInv'
    OBVIOUS
<1>1. CASE UNCHANGED runVars
      BY <1>1 DEF runVars, RunInv, RunTypeInv, TruthInv
<1>2. CASE \E u \in Units : Reserve(u) \/ Bind(u)
      BY <1>2, ReservePreserves, BindPreserves
<1>3. CASE \E s \in Sandboxes : Terminate(s)
      BY <1>3, TerminatePreserves, ZenonT(30)
<1>4. CASE StopRun
      BY <1>4, ZenonT(30) DEF StopRun, runLedger, provider, projection, RunInv, RunTypeInv, TruthInv
<1>5. CASE Expire
      BY <1>5 DEF Expire, provider, projection, RunInv, RunTypeInv, TruthInv
<1>6. CASE Deliver \/ ListSandboxes \/ Resync
      BY <1>6, DeliverPreserves, ListPreserves, ResyncPreserves, ZenonT(30)
<1> QED BY <1>1, <1>2, <1>3, <1>4, <1>5, <1>6, ZenonT(30) DEF NextRun

(* Everything the Store may act on tells the truth about terminal sandboxes:   *)
(* the unread events, the projection, and the list of a repair in progress.    *)
THEOREM RunInvariant == SpecRun => []RunInv
BY RunInit, RunStep, PTL DEF SpecRun

(* The ledger keeps its types, and a unit never waits for a placement while it *)
(* holds an allocation (Reserve, ReconcileProviderSandboxes).                  *)
THEOREM LedgerTypeCorrect == SpecRun => []LedgerTypeOK
<1>1. RunInv => LedgerTypeOK
      BY ZenonT(30) DEF RunInv, RunTypeInv, LedgerTypeOK, Views
<1> QED BY <1>1, RunInvariant, PTL

(* No step frees a running unit's allocation. *)
FreesOnlyOver ==
  \A u \in Units : alloc[u] > 0 /\ alloc'[u] = 0 /\ intent # "expired" => Over(prov, <<u, alloc[u]>>)

LEMMA HeldUnit ==
  ASSUME RunInv, NEW u \in Units, alloc[u] > 0
  PROVE  u \in Allocated /\ Sandbox(u) = <<u, alloc[u]>> /\ Sandbox(u) \in Sandboxes
BY LedgerAssumption, SMTT(30) DEF RunInv, RunTypeInv, Allocated, Sandbox, Sandboxes

LEMMA DeliverFrees == ASSUME RunInv, Deliver PROVE FreesOnlyOver
<1> DEFINE entry == sent[tail + 1]
           s == entry.sandbox
<1>1. CASE UNCHANGED runLedger
      BY <1>1, SMTT(30) DEF runLedger, FreesOnlyOver
<1>2. CASE retiresRun(s, entry.event)
  <2>1. tail + 1 \in 1..Len(sent)
        BY SMTT(30) DEF RunInv, RunTypeInv, Deliver
  <2>2. terminalRuntimeState(entry.event.st) /\ allRunAllocationsTerminal(box, s)
        BY <1>2 DEF retiresRun
  <2>3. Over(prov, s)
        BY <2>1, <2>2 DEF RunInv, TruthInv, TruthfulEvents
  <2> HIDE DEF entry, s
  <2> SUFFICES ASSUME NEW u \in Units, alloc[u] > 0 PROVE Over(prov, <<u, alloc[u]>>)
      BY DEF FreesOnlyOver
  <2>4. u \in Allocated /\ Sandbox(u) = <<u, alloc[u]>> /\ Sandbox(u) \in Sandboxes
        BY HeldUnit
  <2>5. Sandbox(u) = s \/ terminalRuntimeState(box[Sandbox(u)].st)
        BY <2>2, <2>4 DEF allRunAllocationsTerminal
  <2> QED BY <2>3, <2>4, <2>5, ZenonT(30) DEF RunInv, TruthInv, Truthful
<1> QED BY <1>1, <1>2, ZenonT(30) DEF Deliver

LEMMA ResyncFrees == ASSUME RunInv, Resync PROVE FreesOnlyOver
<1> DEFINE live == list[2]
<1>1. Truthful(live, prov)
      BY ZenonT(30) DEF Resync, RunInv, TruthInv, TruthfulList
<1>2. ReconcileProviderSandboxes(live)
      BY ZenonT(30) DEF Resync
<1> HIDE DEF live
<1> SUFFICES ASSUME NEW u \in Units, alloc[u] > 0, alloc'[u] = 0, intent # "expired"
             PROVE  Over(prov, <<u, alloc[u]>>)
    BY ZenonT(30) DEF FreesOnlyOver
<1>3. u \in Allocated /\ Sandbox(u) = <<u, alloc[u]>> /\ Sandbox(u) \in Sandboxes
      BY HeldUnit, ZenonT(30)
<1>4. CASE RunRetires(Observed(live))
  <2>1. terminalRuntimeState(Observed(live)[Sandbox(u)].st)
        BY <1>3, <1>4, ZenonT(30) DEF RunRetires
  <2>2. Observed(live)[Sandbox(u)].st \in {live[Sandbox(u)].st, box[Sandbox(u)].st}
        BY <1>3, MergedState, ZenonT(30) DEF Observed
  <2> QED BY <1>1, <1>3, <2>1, <2>2, ZenonT(30) DEF RunInv, TruthInv, Truthful
<1>5. CASE ~RunRetires(Observed(live))
  <2>1. u \in Freed(live, Observed(live))
        BY <1>2, <1>5, SMTT(30) DEF ReconcileProviderSandboxes
  <2>2. terminalRuntimeState(live[Sandbox(u)].st)
        BY <2>1 DEF Freed, providerReleased
  <2> QED BY <1>1, <1>3, <2>2, ZenonT(30) DEF Truthful
<1> QED BY <1>4, <1>5, ZenonT(30)

(* An allocation of a valid intent leaves the ledger only when its sandbox is  *)
(* terminal at the provider, however stale the event, the projection or the    *)
(* list that freed it (ReconcileProviderSandboxes,                             *)
(* retireRunFromTerminalEventLocked).                                          *)
THEOREM FreedAlwaysTerminal == SpecRun => FreedIsTerminal
<1>1. RunInv /\ [NextRun]_runVars => [FreesOnlyOver]_runVars
  <2> SUFFICES ASSUME RunInv, NextRun PROVE FreesOnlyOver
      BY ZenonT(30)
  <2>1. ASSUME NEW u \in Units, Reserve(u) PROVE FreesOnlyOver
    <3>1. last[u] + 1 > 0 /\ alloc' = [alloc EXCEPT ![u] = last[u] + 1]
          BY <2>1, LedgerAssumption DEF Reserve, RunInv, RunTypeInv
    <3> QED BY <3>1, SMTT(30) DEF FreesOnlyOver, RunInv, RunTypeInv
  <2>2. CASE \E u \in Units : Bind(u)
        BY <2>2 DEF Bind, runLedger, FreesOnlyOver
  <2>3. CASE (\E s \in Sandboxes : Terminate(s)) \/ StopRun \/ Expire \/ ListSandboxes
    <3>1. ASSUME NEW s \in Sandboxes, Terminate(s) PROVE alloc' = alloc
          BY <3>1, Zenon DEF Terminate, runLedger
    <3>2. alloc' = alloc
          BY <2>3, <3>1, ZenonT(30) DEF StopRun, Expire, ListSandboxes, runLedger
    <3> QED BY <3>2 DEF FreesOnlyOver
  <2> QED BY <2>1, <2>2, <2>3, DeliverFrees, ResyncFrees DEF NextRun
<1>2. [FreesOnlyOver]_runVars =>
        [ \A u \in Units : alloc[u] > 0 /\ alloc'[u] = 0 /\ intent # "expired" =>
            LET s == <<u, alloc[u]>> IN prov[s].gen > 0 /\ terminalRuntimeState(prov[s].st) ]_runVars
      BY DEF FreesOnlyOver, Over
<1> QED BY <1>1, <1>2, RunInvariant, PTL DEF SpecRun, FreedIsTerminal

--------------------------------------------------------------------------------
(* The operators on Store records, receipts and the helper's file. *)

\* Merging a receipt into a record touches the step evidence only.
LEMMA MergeFacts ==
  ASSUME NEW record \in Records, NEW receipt \in Receipts
  PROVE  /\ MergeStateReceipt(record, receipt) \in Records
         /\ MergeStateReceipt(record, receipt).state = record.state
         /\ MergeStateReceipt(record, receipt).alloc = record.alloc
<1>1. \A e \in Effects : StateEffectStatus(e) \in StepStatuses
  BY DEF Effects, StateEffectStatus, StepStatuses
<1>2. [i \in Steps |-> StateEffectStatus(receipt.eff[i])] \in [Steps -> StepStatuses]
  BY <1>1 DEF Receipts
<1> QED
  BY <1>2, Zenon DEF Records, Receipts, MergeStateReceipt

\* AdvanceTransaction sets the state and keeps the reservation as it is.
LEMMA AdvanceFacts ==
  ASSUME mem \in Records, NEW receipt \in Receipts, NEW next \in TransactionStates
  PROVE  /\ Advance(next, receipt) \in Records
         /\ Advance(next, receipt).state = next
         /\ Advance(next, receipt).alloc = mem.alloc
<1> DEFINE merged == MergeStateReceipt(mem, receipt)
<1>1. merged \in Records /\ merged.alloc = mem.alloc
  BY MergeFacts
<1> HIDE DEF merged
<1>2. Advance(next, receipt) = [merged EXCEPT !.state = next]
  BY DEF Advance, merged
<1> QED
  BY <1>1, <1>2 DEF Records

\* FinalizeTransaction settles every allocation, and keeps all on success.
LEMMA FinalizeFacts ==
  ASSUME mem \in Records, NEW receipt \in Receipts, NEW final \in TransactionStates,
         NEW succeeded \in BOOLEAN
  PROVE  /\ Finalize(succeeded, final, receipt) \in Records
         /\ Finalize(succeeded, final, receipt).state = final
         /\ Finalize(succeeded, final, receipt).alloc \in [Steps -> {"active", "failed", "freed"}]
         /\ succeeded => Finalize(succeeded, final, receipt).alloc = [i \in Steps |-> "active"]
<1> DEFINE merged == MergeStateReceipt(mem, receipt)
<1>1. merged \in Records
  BY MergeFacts
<1> HIDE DEF merged
<1>2. /\ RetainedAllocations(merged, succeeded) \in [Steps -> {"active", "failed", "freed"}]
      /\ succeeded => RetainedAllocations(merged, succeeded) = [i \in Steps |-> "active"]
  BY DEF RetainedAllocations
<1>3. Finalize(succeeded, final, receipt)
        = [merged EXCEPT !.state = final, !.alloc = RetainedAllocations(merged, succeeded)]
  BY DEF Finalize, merged
<1>4. RetainedAllocations(merged, succeeded) \in [Steps -> AllocationStates]
  BY <1>2 DEF AllocationStates
<1> QED
  BY <1>1, <1>2, <1>3, <1>4, Zenon DEF Records

\* The receipts the provider hands out are receipts.
LEMMA ReceiptFacts ==
  ASSUME tx \in Receipts, recovered \in [Steps -> {"none", "succeeded", "superseded"}]
  PROVE  /\ NoReceipt \in Receipts
         /\ PreparedReceipt \in Receipts
         /\ \A i \in Steps, e \in Effects, f \in BOOLEAN : StepReceipt(i, e, f) \in Receipts
<1>1. NoReceipt \in Receipts
  BY DEF NoReceipt, Receipts, Phases, Effects
<1>2. RecoveredTransactionReceipt \in Receipts
  BY DEF RecoveredTransactionReceipt, Receipts, Phases, Effects
<1>3. [NoReceipt EXCEPT !.phase = "prepared"] \in Receipts
  BY <1>1 DEF Receipts, Phases
<1>4. PreparedReceipt \in Receipts
  BY <1>2, <1>3 DEF PreparedReceipt
<1>5. \A i \in Steps, e \in Effects, f \in BOOLEAN : StepReceipt(i, e, f) \in Receipts
  BY Zenon DEF StepReceipt, Receipts, Phases
<1> QED
  BY <1>1, <1>4, <1>5

\* The helper's file as its operations leave it: a sandbox is bound exactly when
\* the last receipt applied to it is its forward receipt.
HeadsAgree(h) ==
  \A i \in Steps : (i \in h.bound <=> h.head[i] = "bind") /\ (i \in h.receipts <=> h.head[i] # "none")

LEMMA HelperFacts ==
  ASSUME NEW h \in Helpers, HeadsAgree(h), NEW i \in Steps
  PROVE  /\ ApplyBinding(h, i) \in Helpers /\ HeadsAgree(ApplyBinding(h, i))
         /\ BindAccepted(h, i) => ApplyBinding(h, i).bound = h.bound \cup {i}
         /\ ApplyBinding(h, i).receipts = h.receipts \cup {i}
         /\ \A j \in Steps : h.head[j] = "release" => ApplyBinding(h, i).head[j] = "release"
         /\ \A outcome \in RollbackOutcomes(h, i) :
              /\ outcome.file \in Helpers /\ HeadsAgree(outcome.file)
              /\ outcome.file.receipts = h.receipts
              /\ \A j \in Steps : h.head[j] = "release" => outcome.file.head[j] = "release"
<1>1. /\ ApplyBinding(h, i) \in Helpers /\ HeadsAgree(ApplyBinding(h, i))
      /\ BindAccepted(h, i) => ApplyBinding(h, i).bound = h.bound \cup {i}
      /\ ApplyBinding(h, i).receipts = h.receipts \cup {i}
      /\ \A j \in Steps : h.head[j] = "release" => ApplyBinding(h, i).head[j] = "release"
  BY DEF ApplyBinding, BindAccepted, Helpers, HeadsAgree
<1>2. ASSUME ReleaseAccepted(h, i)
      PROVE  /\ ReleaseBinding(h, i) \in Helpers /\ HeadsAgree(ReleaseBinding(h, i))
             /\ ReleaseBinding(h, i).receipts = h.receipts
             /\ \A j \in Steps : h.head[j] = "release" => ReleaseBinding(h, i).head[j] = "release"
  BY <1>2 DEF ReleaseBinding, ReleaseAccepted, Helpers, HeadsAgree
<1>3. \A outcome \in RollbackOutcomes(h, i) :
        outcome.file = h \/ (ReleaseAccepted(h, i) /\ outcome.file = ReleaseBinding(h, i))
  BY DEF RollbackOutcomes
<1> QED
  BY <1>1, <1>2, <1>3

--------------------------------------------------------------------------------
(* The inductive invariant. *)

InFlight == {"RESERVED", "PREPARED", "APPLYING", "APPLY_FAILED", "COMPENSATING"}
ApplyPoints == {"execute", "executed", "apply_failure", "commit_failure", "committed"}
AbortPoints == {"abort", "aborting", "aborted", "abort_failure"}

\* Where the executor is, and what the checkpoint says there.
Control ==
  /\ pc # "halted" => mem = durable
  /\ pc = "idle" => durable.state = "NONE"
  /\ pc = "resume" => durable.state # "NONE"
  /\ pc \in {"idle", "resume"} => ~Known(tx)
  /\ pc = "step" => durable.state \in InFlight
  /\ pc \in ApplyPoints => durable.state = "APPLYING"
  /\ pc \in AbortPoints => durable.state = "COMPENSATING"
  /\ pc = "done" => durable.state \in Terminal
  /\ pc = "executed" => idx \in Steps
  /\ pc = "aborting" => Known(hand)

\* What the checkpoint says of the plan's capacity.
Capacity ==
  /\ durable.state = "NONE" => durable.alloc = [i \in Steps |-> "none"]
  /\ durable.state \in InFlight => durable.alloc = [i \in Steps |-> "pending"]
  /\ durable.state \in Terminal => durable.alloc \in [Steps -> {"active", "failed", "freed"}]
  /\ durable.state = "COMMITTED" => durable.alloc = [i \in Steps |-> "active"]

\* What is known of the helper's file.
File ==
  /\ HeadsAgree(helper)
  /\ NoEffectBeforeDurableApplying
  /\ HelperReceiptsArePrefix
  /\ durable.state = "COMMITTED" => helper.bound = Steps
  /\ pc = "committed" => helper.bound = Steps

\* What the provider's receipt and the recovered receipts are evidence of.
Evidence ==
  /\ \/ pc \in ApplyPoints \/ pc \in {"aborting", "aborted"}
     \/ pc = "step" /\ durable.state \in {"PREPARED", "APPLYING"}
     => Known(tx)
  /\ ~Known(tx) => \A i \in Steps : tx.eff[i] # "applied"
  /\ pc \in {"step", "execute", "executed"} /\ durable.state \in {"RESERVED", "PREPARED", "APPLYING"}
     => \A i \in Steps : tx.eff[i] = "applied" => i \in helper.bound
  /\ ~Known(tx) => \A i \in Steps : recovered[i] = "succeeded" => i \in helper.bound
  /\ tx.phase = "committed" => pc \in {"committed", "done", "halted"}
  /\ tx.phase = "aborted" => pc \in {"aborted", "done", "halted"}

IInv == TypeOK /\ Control /\ Capacity /\ File /\ Evidence

\* A Store write followed by its checkpoint: either both happened, or the
\* executor has stopped with the old checkpoint in place.
LEMMA PersistFacts ==
  ASSUME NEW record \in Records, NEW next, Persist(record, next)
  PROVE  /\ mem' = record
         /\ \/ durable' = record /\ pc' = next
            \/ durable' = durable /\ pc' = "halted"
BY DEF Persist

\* The states a transaction can be in are distinct names.
LEMMA StateFacts ==
  /\ InFlight \subseteq TransactionStates /\ Terminal \subseteq TransactionStates
  /\ InFlight \cap Terminal = {} /\ "NONE" \notin InFlight \cup Terminal
BY DEF InFlight, Terminal, TransactionStates

\* A plan starts in the invariant.
LEMMA InitEstablishes == Init => IInv
<1> SUFFICES ASSUME Init PROVE IInv
  OBVIOUS
<1>1. NoRecord \in Records /\ NoRecord.state = "NONE" /\ NoRecord.alloc = [i \in Steps |-> "none"]
  BY DEF NoRecord, Records, TransactionStates, Terminal, StepStatuses, AllocationStates
<1>2. NoReceipt \in Receipts /\ ~Known(NoReceipt) /\ NoReceipt.phase = "none"
      /\ \A i \in Steps : NoReceipt.eff[i] = "not_applied"
  BY DEF NoReceipt, Receipts, Phases, Effects, Known
<1>3. EmptyHelper \in Helpers /\ HeadsAgree(EmptyHelper) /\ EmptyHelper.receipts = {}
  BY DEF EmptyHelper, Helpers, HeadsAgree
<1>4. TypeOK
  BY <1>1, <1>2, <1>3, ConstantsAssumption DEF Init, TypeOK
<1>5. Control
  BY <1>1, <1>2 DEF Init, Control, ApplyPoints, AbortPoints
<1>6. Capacity
  BY <1>1, StateFacts DEF Init, Capacity, Terminal
<1>7. File
  BY <1>1, <1>3 DEF Init, File, NoEffectBeforeDurableApplying, HelperReceiptsArePrefix
<1>8. Evidence
  BY <1>2 DEF Init, Evidence, ApplyPoints
<1> QED
  BY <1>4, <1>5, <1>6, <1>7, <1>8 DEF IInv

--------------------------------------------------------------------------------
(* Every step preserves the invariant. *)

\* What PreparePlan returns to a provider that does not know the transaction is
\* backed by the helper's file.
LEMMA PreparedFacts ==
  ASSUME IInv
  PROVE  /\ PreparedReceipt \in Receipts /\ Known(PreparedReceipt)
         /\ Known(tx) => PreparedReceipt = tx
         /\ ~Known(tx) => /\ PreparedReceipt.phase \in {"prepared", "executing", "degraded"}
                          /\ \A i \in Steps : PreparedReceipt.eff[i] = "applied" => i \in helper.bound
<1>1. tx \in Receipts /\ recovered \in [Steps -> {"none", "succeeded", "superseded"}]
  BY DEF IInv, TypeOK
<1>2. PreparedReceipt \in Receipts
  BY <1>1, ReceiptFacts
<1>3. Known(tx) => PreparedReceipt = tx
  BY DEF PreparedReceipt
<1>4. ASSUME ~Known(tx), Found # {}
      PROVE  /\ PreparedReceipt.phase \in {"executing", "degraded"}
             /\ \A i \in Steps : PreparedReceipt.eff[i] = "applied" => i \in helper.bound
  BY <1>1, <1>4 DEF PreparedReceipt, RecoveredTransactionReceipt, IInv, Evidence
<1>5. ASSUME ~Known(tx), Found = {}
      PROVE  /\ PreparedReceipt.phase = "prepared"
             /\ \A i \in Steps : PreparedReceipt.eff[i] # "applied"
  BY <1>5 DEF PreparedReceipt, NoReceipt
<1> QED
  BY <1>2, <1>3, <1>4, <1>5 DEF Known

\* Staging reserves the plan and checkpoints it, or does neither.
LEMMA StageStep == ASSUME IInv, Stage PROVE IInv'
<1>1. /\ NewRecord \in Records /\ NewRecord.state = "RESERVED"
      /\ NewRecord.alloc = [i \in Steps |-> "pending"]
  BY Zenon DEF NewRecord, NoRecord, Records, TransactionStates, Terminal, StepStatuses, AllocationStates
<1>2. durable.state = "NONE" /\ mem = durable /\ ~Known(tx)
  BY DEF IInv, Control, Stage
<1>3. TypeOK'
  BY <1>1, <1>2 DEF IInv, TypeOK, Stage
<1>4. Control'
  BY <1>1, <1>2 DEF IInv, Control, InFlight, Terminal, ApplyPoints, AbortPoints, Known, Stage
<1>5. Capacity'
  BY <1>1, <1>2 DEF IInv, Capacity, InFlight, Terminal, Stage
<1>6. File'
  BY <1>1, <1>2, ZenonT(30) DEF IInv, File, NoEffectBeforeDurableApplying, HelperReceiptsArePrefix, HeadsAgree, Stage
<1>7. Evidence'
  BY <1>1, <1>2 DEF IInv, Evidence, ApplyPoints, Known, Stage
<1> QED
  BY <1>3, <1>4, <1>5, <1>6, <1>7 DEF IInv

\* Preparing has no external effect: the step either records the provider's receipt or ends the plan.
LEMMA PrepareStep == ASSUME IInv, Prepare PROVE IInv'
<1>1. mem = durable
  BY DEF IInv, Control, Prepare
<1>2. NoReceipt \in Receipts /\ ~Known(NoReceipt)
  BY ReceiptFacts, ZenonT(30) DEF IInv, TypeOK, NoReceipt, Known
<1>3. /\ PreparedReceipt \in Receipts /\ Known(PreparedReceipt)
      /\ \A i \in Steps : PreparedReceipt.eff[i] = "applied" => i \in helper.bound
      /\ PreparedReceipt.phase \notin {"committed", "aborted"}
  BY <1>1, PreparedFacts, ZenonT(30) DEF IInv, Evidence, Prepare
<1>4. /\ Advance("PREPARED", PreparedReceipt) \in Records /\ Advance("PREPARED", PreparedReceipt).state = "PREPARED"
      /\ Advance("PREPARED", PreparedReceipt).alloc = mem.alloc
  BY <1>3, AdvanceFacts DEF IInv, TypeOK, TransactionStates, Terminal
<1>5. /\ Finalize(FALSE, "PREPARE_FAILED", NoReceipt) \in Records /\ Finalize(FALSE, "PREPARE_FAILED", NoReceipt).state = "PREPARE_FAILED"
      /\ Finalize(FALSE, "PREPARE_FAILED", NoReceipt).alloc \in [Steps -> {"active", "failed", "freed"}]
  BY <1>2, FinalizeFacts, Zenon DEF IInv, TypeOK, TransactionStates, Terminal
<1>6. /\ mem' \in Records /\ durable' \in Records /\ tx' \in Receipts
      /\ \/ /\ tx' = PreparedReceipt
            /\ \/ durable' = Advance("PREPARED", PreparedReceipt) /\ mem' = durable' /\ pc' = "step"
               \/ durable' = durable /\ pc' = "halted"
         \/ /\ tx' = tx
            /\ \/ durable' = Finalize(FALSE, "PREPARE_FAILED", NoReceipt) /\ mem' = durable' /\ pc' = "done"
               \/ durable' = durable /\ pc' = "halted"
  BY <1>3, <1>4, <1>5, ZenonT(30) DEF Prepare, PreparePlanSucceeds, PreparePlanFails, Persist, IInv, TypeOK
<1>7. TypeOK'
  BY <1>1, <1>2, <1>3, <1>4, <1>5, <1>6, Zenon DEF IInv, TypeOK, Prepare
<1>8. Control'
  BY <1>1, <1>2, <1>3, <1>4, <1>5, <1>6, Zenon DEF IInv, Control, InFlight, Terminal, ApplyPoints, AbortPoints, Known, Prepare
<1>9. Capacity'
  BY <1>1, <1>2, <1>3, <1>4, <1>5, <1>6, Zenon DEF IInv, Capacity, InFlight, Terminal, Prepare
<1>10. File'
  BY <1>1, <1>2, <1>3, <1>4, <1>5, <1>6, Zenon DEF IInv, File, NoEffectBeforeDurableApplying, HelperReceiptsArePrefix, HeadsAgree, Prepare
<1>11. Evidence'
  BY <1>1, <1>2, <1>3, <1>4, <1>5, <1>6, ZenonT(30) DEF IInv, Evidence, ApplyPoints, Known, Prepare
<1> QED
  BY <1>7, <1>8, <1>9, <1>10, <1>11 DEF IInv

\* APPLYING is checkpointed before the first step runs.
LEMMA BeginApplyStep == ASSUME IInv, BeginApply PROVE IInv'
<1>1. mem = durable
  BY DEF IInv, Control, BeginApply
<1>2. NoReceipt \in Receipts /\ ~Known(NoReceipt)
  BY ReceiptFacts DEF IInv, TypeOK, NoReceipt, Known
<1>3. /\ Advance("APPLYING", NoReceipt) \in Records /\ Advance("APPLYING", NoReceipt).state = "APPLYING"
      /\ Advance("APPLYING", NoReceipt).alloc = mem.alloc
  BY <1>2, AdvanceFacts DEF IInv, TypeOK, TransactionStates, Terminal
<1>4. 1 \in 0..(N + 1)
  BY ConstantsAssumption
<1>5. TypeOK'
  BY <1>1, <1>2, <1>3, <1>4, ZenonT(30) DEF IInv, TypeOK, BeginApply, Persist
<1>6. Control'
  BY <1>1, <1>2, <1>3, <1>4, ZenonT(30) DEF IInv, Control, InFlight, Terminal, ApplyPoints, AbortPoints, Known, BeginApply, Persist
<1>7. Capacity'
  BY <1>1, <1>2, <1>3, <1>4, ZenonT(30) DEF IInv, Capacity, InFlight, Terminal, BeginApply, Persist
<1>8. File'
  BY <1>1, <1>2, <1>3, <1>4, ZenonT(30) DEF IInv, File, NoEffectBeforeDurableApplying, HelperReceiptsArePrefix, HeadsAgree, BeginApply, Persist
<1>9. Evidence'
  BY <1>1, <1>2, <1>3, <1>4, ZenonT(30) DEF IInv, Evidence, ApplyPoints, Known, BeginApply, Persist
<1> QED
  BY <1>5, <1>6, <1>7, <1>8, <1>9 DEF IInv

\* A step the Store knows to have succeeded is skipped.
LEMMA SkipStep == ASSUME IInv, SkipSucceededStep PROVE IInv'
<1>1. idx + 1 \in 0..(N + 1)
  BY ConstantsAssumption DEF SkipSucceededStep, Steps
<1>2. TypeOK'
  BY <1>1, ZenonT(30) DEF IInv, TypeOK, SkipSucceededStep
<1>3. Control'
  BY <1>1, ZenonT(30) DEF IInv, Control, InFlight, Terminal, ApplyPoints, AbortPoints, Known, SkipSucceededStep
<1>4. Capacity'
  BY <1>1, ZenonT(30) DEF IInv, Capacity, InFlight, Terminal, SkipSucceededStep
<1>5. File'
  BY <1>1, ZenonT(30) DEF IInv, File, NoEffectBeforeDurableApplying, HelperReceiptsArePrefix, HeadsAgree, SkipSucceededStep
<1>6. Evidence'
  BY <1>1, ZenonT(30) DEF IInv, Evidence, ApplyPoints, Known, SkipSucceededStep
<1> QED
  BY <1>2, <1>3, <1>4, <1>5, <1>6 DEF IInv

\* The receipt of an executed step is written to the Store.
LEMMA RecordStepStep == ASSUME IInv, RecordStep PROVE IInv'
<1>1. mem = durable /\ durable.state = "APPLYING" /\ Known(tx) /\ idx + 1 \in 0..(N + 1)
  BY ConstantsAssumption DEF IInv, Control, Evidence, ApplyPoints, RecordStep, Steps
<1>2. /\ Advance("APPLYING", hand) \in Records /\ Advance("APPLYING", hand).state = "APPLYING"
      /\ Advance("APPLYING", hand).alloc = mem.alloc
  BY AdvanceFacts DEF IInv, TypeOK, TransactionStates, Terminal
<1>3. /\ Advance("APPLY_FAILED", hand) \in Records /\ Advance("APPLY_FAILED", hand).state = "APPLY_FAILED"
      /\ Advance("APPLY_FAILED", hand).alloc = mem.alloc
  BY AdvanceFacts DEF IInv, TypeOK, TransactionStates, Terminal
<1>4. TypeOK'
  BY <1>1, <1>2, <1>3, ZenonT(30) DEF IInv, TypeOK, RecordStep, Persist
<1>5. Control'
  BY <1>1, <1>2, <1>3 DEF IInv, Control, InFlight, Terminal, ApplyPoints, AbortPoints, Known, RecordStep, Persist
<1>6. Capacity'
  BY <1>1, <1>2, <1>3, ZenonT(30) DEF IInv, Capacity, InFlight, Terminal, RecordStep, Persist
<1>7. File'
  BY <1>1, <1>2, <1>3, ZenonT(30) DEF IInv, File, NoEffectBeforeDurableApplying, HelperReceiptsArePrefix, HeadsAgree, RecordStep, Persist
<1>8. Evidence'
  BY <1>1, <1>2, <1>3, ZenonT(30) DEF IInv, Evidence, ApplyPoints, Known, RecordStep, Persist
<1> QED
  BY <1>4, <1>5, <1>6, <1>7, <1>8 DEF IInv

\* A commit is recorded only once every step is bound.
LEMMA FinishCommitStep == ASSUME IInv, FinishCommit PROVE IInv'
<1>1. mem = durable
  BY DEF IInv, Control, FinishCommit
<1>2. /\ Finalize(TRUE, "COMMITTED", hand) \in Records /\ Finalize(TRUE, "COMMITTED", hand).state = "COMMITTED"
      /\ Finalize(TRUE, "COMMITTED", hand).alloc \in [Steps -> {"active", "failed", "freed"}]
      /\ Finalize(TRUE, "COMMITTED", hand).alloc = [i \in Steps |-> "active"]
  BY FinalizeFacts, Zenon DEF IInv, TypeOK, TransactionStates, Terminal
<1>3. TypeOK'
  BY <1>1, <1>2, Zenon DEF IInv, TypeOK, FinishCommit, Persist
<1>4. Control'
  BY <1>1, <1>2, Zenon DEF IInv, Control, InFlight, Terminal, ApplyPoints, AbortPoints, Known, FinishCommit, Persist
<1>5. Capacity'
  BY <1>1, <1>2, Zenon DEF IInv, Capacity, InFlight, Terminal, FinishCommit, Persist
<1>6. File'
  BY <1>1, <1>2, Zenon DEF IInv, File, NoEffectBeforeDurableApplying, HelperReceiptsArePrefix, HeadsAgree, FinishCommit, Persist
<1>7. Evidence'
  BY <1>1, <1>2, ZenonT(30) DEF IInv, Evidence, ApplyPoints, Known, FinishCommit, Persist
<1> QED
  BY <1>3, <1>4, <1>5, <1>6, <1>7 DEF IInv

\* A complete abort settles the plan.
LEMMA FinishAbortStep == ASSUME IInv, FinishAbort PROVE IInv'
<1>1. mem = durable
  BY DEF IInv, Control, FinishAbort
<1>2. /\ Finalize(FALSE, "ABORTED", hand) \in Records /\ Finalize(FALSE, "ABORTED", hand).state = "ABORTED"
      /\ Finalize(FALSE, "ABORTED", hand).alloc \in [Steps -> {"active", "failed", "freed"}]
  BY FinalizeFacts, Zenon DEF IInv, TypeOK, TransactionStates, Terminal
<1>3. TypeOK'
  BY <1>1, <1>2, Zenon DEF IInv, TypeOK, FinishAbort, Persist
<1>4. Control'
  BY <1>1, <1>2, Zenon DEF IInv, Control, InFlight, Terminal, ApplyPoints, AbortPoints, Known, FinishAbort, Persist
<1>5. Capacity'
  BY <1>1, <1>2, Zenon DEF IInv, Capacity, InFlight, Terminal, FinishAbort, Persist
<1>6. File'
  BY <1>1, <1>2, Zenon DEF IInv, File, NoEffectBeforeDurableApplying, HelperReceiptsArePrefix, HeadsAgree, FinishAbort, Persist
<1>7. Evidence'
  BY <1>1, <1>2, Zenon DEF IInv, Evidence, ApplyPoints, Known, FinishAbort, Persist
<1> QED
  BY <1>3, <1>4, <1>5, <1>6, <1>7 DEF IInv

\* A failed step leads to APPLY_FAILED, or to DEGRADED when the provider cannot be asked.
LEMMA HandleApplyFailureStep == ASSUME IInv, HandleApplyFailure PROVE IInv'
<1>1. mem = durable /\ durable.state = "APPLYING" /\ Known(tx) /\ tx.phase \notin {"committed", "aborted"}
  BY DEF IInv, Control, Evidence, ApplyPoints, HandleApplyFailure
<1>2. LatestReceipt \in Receipts
  BY ZenonT(30) DEF IInv, TypeOK, LatestReceipt
<1>3. /\ Advance("APPLY_FAILED", LatestReceipt) \in Records /\ Advance("APPLY_FAILED", LatestReceipt).state = "APPLY_FAILED"
      /\ Advance("APPLY_FAILED", LatestReceipt).alloc = mem.alloc
  BY <1>2, AdvanceFacts DEF IInv, TypeOK, TransactionStates, Terminal
<1>4. /\ Finalize(FALSE, "DEGRADED", hand) \in Records /\ Finalize(FALSE, "DEGRADED", hand).state = "DEGRADED"
      /\ Finalize(FALSE, "DEGRADED", hand).alloc \in [Steps -> {"active", "failed", "freed"}]
  BY FinalizeFacts, Zenon DEF IInv, TypeOK, TransactionStates, Terminal
<1>5. /\ mem' \in Records /\ durable' \in Records
      /\ \/ durable' = Finalize(FALSE, "DEGRADED", hand) /\ mem' = durable' /\ pc' = "done"
         \/ /\ durable' = Advance("APPLY_FAILED", LatestReceipt)
            /\ mem' = durable' /\ pc' = "step"
         \/ durable' = durable /\ pc' = "halted"
  BY <1>1, <1>3, <1>4, Zenon DEF HandleApplyFailure, Persist, IInv, TypeOK
<1>6. TypeOK'
  BY <1>1, <1>2, <1>3, <1>4, <1>5, Zenon DEF IInv, TypeOK, HandleApplyFailure
<1>7. Control'
  BY <1>1, <1>2, <1>3, <1>4, <1>5, Zenon DEF IInv, Control, InFlight, Terminal, ApplyPoints, AbortPoints, Known, HandleApplyFailure
<1>8. Capacity'
  BY <1>1, <1>2, <1>3, <1>4, <1>5, Zenon DEF IInv, Capacity, InFlight, Terminal, HandleApplyFailure
<1>9. File'
  BY <1>1, <1>2, <1>3, <1>4, <1>5, Zenon DEF IInv, File, NoEffectBeforeDurableApplying, HelperReceiptsArePrefix, HeadsAgree, HandleApplyFailure
<1>10. Evidence'
  BY <1>1, <1>2, <1>3, <1>4, <1>5, ZenonT(30) DEF IInv, Evidence, ApplyPoints, Known, HandleApplyFailure
<1> QED
  BY <1>6, <1>7, <1>8, <1>9, <1>10 DEF IInv

\* A refused commit is treated as a failed step.
LEMMA HandleCommitFailureStep == ASSUME IInv, HandleCommitFailure PROVE IInv'
<1>1. mem = durable /\ Known(tx) /\ tx.phase # "committed"
  BY DEF IInv, Control, Evidence, ApplyPoints, HandleCommitFailure
<1>2. /\ Finalize(FALSE, "DEGRADED", hand) \in Records /\ Finalize(FALSE, "DEGRADED", hand).state = "DEGRADED"
      /\ Finalize(FALSE, "DEGRADED", hand).alloc \in [Steps -> {"active", "failed", "freed"}]
  BY FinalizeFacts, Zenon DEF IInv, TypeOK, TransactionStates, Terminal
<1>3. /\ mem' \in Records /\ durable' \in Records
      /\ \/ durable' = Finalize(FALSE, "DEGRADED", hand) /\ mem' = durable' /\ pc' = "done"
         \/ durable' = durable /\ mem' = mem /\ pc' = "apply_failure"
         \/ durable' = durable /\ pc' = "halted"
  BY <1>1, <1>2, Zenon DEF HandleCommitFailure, Persist, IInv, TypeOK
<1>4. TypeOK'
  BY <1>1, <1>2, <1>3, Zenon DEF IInv, TypeOK, HandleCommitFailure
<1>5. Control'
  BY <1>1, <1>2, <1>3, Zenon DEF IInv, Control, InFlight, Terminal, ApplyPoints, AbortPoints, Known, HandleCommitFailure
<1>6. Capacity'
  BY <1>1, <1>2, <1>3, Zenon DEF IInv, Capacity, InFlight, Terminal, HandleCommitFailure
<1>7. File'
  BY <1>1, <1>2, <1>3, Zenon DEF IInv, File, NoEffectBeforeDurableApplying, HelperReceiptsArePrefix, HeadsAgree, HandleCommitFailure
<1>8. Evidence'
  BY <1>1, <1>2, <1>3, ZenonT(30) DEF IInv, Evidence, ApplyPoints, Known, HandleCommitFailure
<1> QED
  BY <1>4, <1>5, <1>6, <1>7, <1>8, ZenonT(30) DEF IInv

\* COMPENSATING is checkpointed before the first compensation.
LEMMA BeginAbortStep == ASSUME IInv, BeginAbort PROVE IInv'
<1>1. mem = durable
  BY ZenonT(30) DEF IInv, Control, BeginAbort
<1>2. NoReceipt \in Receipts /\ ~Known(NoReceipt)
  BY ReceiptFacts, ZenonT(30) DEF IInv, TypeOK, NoReceipt, Known
<1>3. /\ Advance("COMPENSATING", NoReceipt) \in Records /\ Advance("COMPENSATING", NoReceipt).state = "COMPENSATING"
      /\ Advance("COMPENSATING", NoReceipt).alloc = mem.alloc
  BY <1>2, AdvanceFacts, ZenonT(30) DEF IInv, TypeOK, TransactionStates, Terminal
<1>4. TypeOK'
  BY <1>1, <1>2, <1>3, ZenonT(30) DEF IInv, TypeOK, BeginAbort, Persist
<1>5. Control'
  BY <1>1, <1>2, <1>3, ZenonT(30) DEF IInv, Control, InFlight, Terminal, ApplyPoints, AbortPoints, Known, BeginAbort, Persist
<1>6. Capacity'
  BY <1>1, <1>2, <1>3, ZenonT(30) DEF IInv, Capacity, InFlight, Terminal, BeginAbort, Persist
<1>7. File'
  BY <1>1, <1>2, <1>3, ZenonT(30) DEF IInv, File, NoEffectBeforeDurableApplying, HelperReceiptsArePrefix, HeadsAgree, BeginAbort, Persist
<1>8. Evidence'
  BY <1>1, <1>2, <1>3, ZenonT(30) DEF IInv, Evidence, ApplyPoints, Known, BeginAbort, Persist
<1> QED
  BY <1>4, <1>5, <1>6, <1>7, <1>8, ZenonT(30) DEF IInv

\* AbortPlan starts from the provider's own receipt.
LEMMA AbortPlanStep == ASSUME IInv, AbortPlan PROVE IInv'
<1>1. N \in 0..(N + 1)
  BY ConstantsAssumption, SMTT(30)
<1>2. TypeOK'
  BY <1>1, ZenonT(30) DEF IInv, TypeOK, AbortPlan
<1>3. Control'
  BY <1>1, ZenonT(30) DEF IInv, Control, InFlight, Terminal, ApplyPoints, AbortPoints, Known, AbortPlan
<1>4. Capacity'
  BY <1>1, ZenonT(30) DEF IInv, Capacity, InFlight, Terminal, AbortPlan
<1>5. File'
  BY <1>1, ZenonT(30) DEF IInv, File, NoEffectBeforeDurableApplying, HelperReceiptsArePrefix, HeadsAgree, AbortPlan
<1>6. Evidence'
  BY <1>1, ZenonT(30) DEF IInv, Evidence, ApplyPoints, Known, AbortPlan
<1> QED
  BY <1>2, <1>3, <1>4, <1>5, <1>6, ZenonT(30) DEF IInv

\* An incomplete compensation degrades the plan.
LEMMA HandleAbortFailureStep == ASSUME IInv, HandleAbortFailure PROVE IInv'
<1>1. mem = durable
  BY ZenonT(30) DEF IInv, Control, AbortPoints, HandleAbortFailure
<1>2. LatestReceipt \in Receipts
  BY ZenonT(30) DEF IInv, TypeOK, LatestReceipt
<1>3. /\ Finalize(FALSE, "ABORTED", tx) \in Records /\ Finalize(FALSE, "ABORTED", tx).state = "ABORTED"
      /\ Finalize(FALSE, "ABORTED", tx).alloc \in [Steps -> {"active", "failed", "freed"}]
  BY FinalizeFacts, Zenon DEF IInv, TypeOK, TransactionStates, Terminal
<1>4. /\ Finalize(FALSE, "DEGRADED", LatestReceipt) \in Records /\ Finalize(FALSE, "DEGRADED", LatestReceipt).state = "DEGRADED"
      /\ Finalize(FALSE, "DEGRADED", LatestReceipt).alloc \in [Steps -> {"active", "failed", "freed"}]
  BY <1>2, FinalizeFacts, Zenon DEF IInv, TypeOK, TransactionStates, Terminal
<1>5. /\ Finalize(FALSE, "DEGRADED", hand) \in Records /\ Finalize(FALSE, "DEGRADED", hand).state = "DEGRADED"
      /\ Finalize(FALSE, "DEGRADED", hand).alloc \in [Steps -> {"active", "failed", "freed"}]
  BY FinalizeFacts, Zenon DEF IInv, TypeOK, TransactionStates, Terminal
<1>6. /\ mem' \in Records /\ durable' \in Records
      /\ \/ durable' = Finalize(FALSE, "DEGRADED", hand) /\ mem' = durable' /\ pc' = "done"
         \/ durable' = Finalize(FALSE, "ABORTED", tx) /\ mem' = durable' /\ pc' = "done"
         \/ /\ durable' = Finalize(FALSE, "DEGRADED", LatestReceipt)
            /\ mem' = durable' /\ pc' = "done"
         \/ durable' = durable /\ pc' = "halted"
  <2>1. CASE ~Reconcilable
    BY <1>5, <2>1, Zenon DEF HandleAbortFailure, Persist, IInv, TypeOK
  <2>2. CASE Reconcilable /\ tx.phase = "aborted"
    BY <1>3, <2>2, Zenon DEF HandleAbortFailure, Persist, IInv, TypeOK
  <2>3. CASE Reconcilable /\ tx.phase # "aborted"
    BY <1>4, <2>3, Zenon DEF HandleAbortFailure, Persist, IInv, TypeOK
  <2> QED
    BY <2>1, <2>2, <2>3, Zenon
<1>7. TypeOK'
  BY <1>1, <1>2, <1>3, <1>4, <1>5, <1>6, Zenon DEF IInv, TypeOK, HandleAbortFailure
<1>8. Control'
  BY <1>1, <1>2, <1>3, <1>4, <1>5, <1>6, Zenon DEF IInv, Control, InFlight, Terminal, ApplyPoints, AbortPoints, Known, HandleAbortFailure
<1>9. Capacity'
  BY <1>1, <1>2, <1>3, <1>4, <1>5, <1>6, Zenon DEF IInv, Capacity, InFlight, Terminal, HandleAbortFailure
<1>10. File'
  BY <1>1, <1>2, <1>3, <1>4, <1>5, <1>6, Zenon DEF IInv, File, NoEffectBeforeDurableApplying, HelperReceiptsArePrefix, HeadsAgree, HandleAbortFailure
<1>11. Evidence'
  BY <1>1, <1>2, <1>3, <1>4, <1>5, <1>6, ZenonT(30) DEF IInv, Evidence, ApplyPoints, Known, HandleAbortFailure
<1> QED
  BY <1>7, <1>8, <1>9, <1>10, <1>11, ZenonT(30) DEF IInv

\* Cancelling the context changes nothing else.
LEMMA ShutdownStep == ASSUME IInv, Shutdown PROVE IInv'
<1>1. TypeOK'
  BY ZenonT(30) DEF IInv, TypeOK, Shutdown
<1>2. Control'
  BY ZenonT(30) DEF IInv, Control, InFlight, Terminal, ApplyPoints, AbortPoints, Known, Shutdown
<1>3. Capacity'
  BY ZenonT(30) DEF IInv, Capacity, InFlight, Terminal, Shutdown
<1>4. File'
  BY ZenonT(30) DEF IInv, File, NoEffectBeforeDurableApplying, HelperReceiptsArePrefix, HeadsAgree, Shutdown
<1>5. Evidence'
  BY ZenonT(30) DEF IInv, Evidence, ApplyPoints, Known, Shutdown
<1> QED
  BY <1>1, <1>2, <1>3, <1>4, <1>5, ZenonT(30) DEF IInv

\* Whatever a step's command did, the file stays consistent and its receipts a
\* prefix; a step reported as executed is bound if it is reported applied.
LEMMA StepOutcome ==
  ASSUME IInv, NEW i \in Steps, Executable(i),
         helper' \in Helpers, HeadsAgree(helper'),
         helper'.receipts = helper.receipts \/ helper'.receipts = helper.receipts \cup {i},
         ledger' \in SUBSET Steps,
         NEW effect \in Effects, NEW failed \in BOOLEAN, StepReturns(i, effect, failed),
         ~failed => /\ helper.bound \subseteq helper'.bound
                    /\ effect = "applied" => i \in helper'.bound
  PROVE  IInv'
<1>1. /\ pc = "execute" /\ idx = i /\ durable.state = "APPLYING" /\ mem = durable /\ Known(tx)
      /\ \A j \in 1..(i - 1) : j \in helper.receipts
      /\ \A j \in Steps : tx.eff[j] = "applied" => j \in helper.bound
  <2>1. /\ pc = "execute" /\ idx = i /\ durable.state = "APPLYING" /\ mem = durable /\ Known(tx)
        /\ \A j \in Steps : tx.eff[j] = "applied" => j \in helper.bound
    BY ZenonT(30) DEF Executable, AtStep, IInv, Control, Evidence, ApplyPoints
  <2>2. \A j \in 1..(i - 1) : j \in Steps /\ tx.eff[j] = "applied"
    BY ConstantsAssumption, SMTT(30) DEF Executable, PreviousApplied, Steps
  <2>3. helper.bound \subseteq helper.receipts
    BY ZenonT(30) DEF IInv, File, HeadsAgree, TypeOK, Helpers
  <2> QED
    BY <2>1, <2>2, <2>3, ZenonT(30)
<1>2. /\ tx' = StepReceipt(i, effect, failed) /\ hand' = tx' /\ tx' \in Receipts
      /\ tx'.phase \in {"degraded", "executing"}
      /\ tx'.eff = [tx.eff EXCEPT ![i] = effect]
      /\ pc' = IF failed THEN "apply_failure" ELSE "executed"
      /\ mem' = mem /\ durable' = durable /\ recovered' = recovered /\ idx' = idx
      /\ ctx' = ctx /\ crashes' = crashes
  BY ReceiptFacts, Zenon DEF StepReturns, StepReceipt, IInv, TypeOK, Receipts
<1>3. TypeOK'
  BY <1>1, <1>2, ZenonT(30) DEF IInv, TypeOK
<1>4. Control'
  BY <1>1, <1>2, ZenonT(30) DEF Control, InFlight, Terminal, ApplyPoints, AbortPoints
<1>5. Capacity'
  BY <1>2, ZenonT(30) DEF IInv, Capacity
<1>6. File'
  <2>1. HelperReceiptsArePrefix'
    BY <1>1, ZenonT(30) DEF IInv, File, HelperReceiptsArePrefix
  <2> QED
    BY <1>1, <1>2, <2>1, ZenonT(30) DEF File, NoEffectBeforeDurableApplying, HeadsAgree
<1>7. Evidence'
  <2>1. ASSUME pc' = "executed", NEW j \in Steps, tx'.eff[j] = "applied"
        PROVE  j \in helper'.bound
    <3>1. ~failed
      BY <1>2, <2>1, ZenonT(30)
    <3>2. CASE j = i
      BY <1>2, <2>1, <3>1, <3>2, ZenonT(30) DEF IInv, TypeOK, Receipts
    <3>3. CASE j # i
      BY <1>1, <1>2, <2>1, <3>1, <3>3, ZenonT(30) DEF IInv, TypeOK, Receipts
    <3> QED
      BY <3>2, <3>3, ZenonT(30)
  <2> QED
    BY <1>1, <1>2, <2>1, ZenonT(30) DEF Evidence, ApplyPoints, Known
<1> QED
  BY <1>3, <1>4, <1>5, <1>6, <1>7, ZenonT(30) DEF IInv

\* Every outcome of ExecuteStep is one of those.
LEMMA ExecuteStepStep == ASSUME IInv, ExecuteStep PROVE IInv'
<1> PICK i \in Steps :
      \/ ExecuteStepReturns(i) \/ ExecuteStepRefused(i) \/ ExecuteStepDryRun(i) \/ ExecuteStepSucceeds(i)
      \/ ExecuteStepUnaudited(i) \/ ExecuteStepUncertain(i)
  BY ZenonT(30) DEF ExecuteStep
<1> USE DEF Effects
<1>1. helper \in Helpers /\ HeadsAgree(helper) /\ ledger \in SUBSET Steps /\ ledger \cup {i} \in SUBSET Steps
  BY ZenonT(30) DEF IInv, File, TypeOK
<1>2. /\ ApplyBinding(helper, i) \in Helpers /\ HeadsAgree(ApplyBinding(helper, i))
      /\ BindAccepted(helper, i) => ApplyBinding(helper, i).bound = helper.bound \cup {i}
      /\ ApplyBinding(helper, i).receipts = helper.receipts \cup {i}
  BY <1>1, HelperFacts, ZenonT(30)
<1>3. CASE ExecuteStepReturns(i)
  <2>1. NoReceipt \in Receipts
    BY ReceiptFacts, ZenonT(30) DEF IInv, TypeOK
  <2>2. hand' \in Receipts /\ pc = "execute" /\ idx = i /\ pc' \in {"executed", "apply_failure"}
    BY <1>3, <2>1, ZenonT(30) DEF ExecuteStepReturns, AtStep, IInv, TypeOK
  <2>3. UNCHANGED <<mem, durable, tx, ledger, helper, recovered, idx, ctx, crashes>>
    BY <1>3, ZenonT(30) DEF ExecuteStepReturns
  <2>4. TypeOK'
    BY <2>2, <2>3, ZenonT(30) DEF IInv, TypeOK
  <2>5. Control'
    BY <2>2, <2>3, ZenonT(30) DEF IInv, Control, ApplyPoints, AbortPoints
  <2>6. Capacity'
    BY <2>3, ZenonT(30) DEF IInv, Capacity
  <2>7. File'
    BY <2>2, <2>3, ZenonT(30) DEF IInv, File, NoEffectBeforeDurableApplying, HelperReceiptsArePrefix, HeadsAgree
  <2>8. Evidence'
    BY <2>2, <2>3, ZenonT(30) DEF IInv, Evidence, ApplyPoints, Known
  <2> QED
    BY <2>4, <2>5, <2>6, <2>7, <2>8, ZenonT(30) DEF IInv
<1>4. CASE ExecuteStepRefused(i)
  <2>1. Executable(i) /\ StepReturns(i, "failed", TRUE) /\ helper' = helper /\ ledger' = ledger
    BY <1>4, Zenon DEF ExecuteStepRefused
  <2> QED
    BY <1>1, <2>1, StepOutcome, Zenon
<1>5. CASE ExecuteStepDryRun(i)
  <2>1. Executable(i) /\ StepReturns(i, "failed", FALSE) /\ helper' = helper /\ ledger' = ledger \cup {i}
    BY <1>5, Zenon DEF ExecuteStepDryRun
  <2> QED
    BY <1>1, <2>1, StepOutcome, Zenon
<1>6. CASE ExecuteStepSucceeds(i)
  <2>1. /\ Executable(i) /\ StepReturns(i, "applied", FALSE) /\ BindAccepted(helper, i)
        /\ helper' = ApplyBinding(helper, i) /\ ledger' = ledger \cup {i}
    BY <1>6, Zenon DEF ExecuteStepSucceeds
  <2> QED
    BY <1>1, <1>2, <2>1, StepOutcome, Zenon
<1>7. CASE ExecuteStepUnaudited(i)
  <2>1. /\ Executable(i) /\ StepReturns(i, "failed", TRUE)
        /\ helper' = ApplyBinding(helper, i) /\ ledger' = ledger \cup {i}
    BY <1>7, Zenon DEF ExecuteStepUnaudited
  <2> QED
    BY <1>1, <1>2, <2>1, StepOutcome, Zenon
<1>8. CASE ExecuteStepUncertain(i)
  <2>1. Executable(i) /\ ledger' = ledger \cup {i}
    BY <1>8, ZenonT(30) DEF ExecuteStepUncertain
  <2>2. PICK h \in {helper, ApplyBinding(helper, i)} : \E outcome \in RollbackOutcomes(h, i) :
          /\ helper' = outcome.file
          /\ StepReturns(i, IF outcome.ok THEN "failed" ELSE "applied", TRUE)
    BY <1>8, Zenon DEF ExecuteStepUncertain
  <2>3. PICK outcome \in RollbackOutcomes(h, i) :
          /\ helper' = outcome.file
          /\ StepReturns(i, IF outcome.ok THEN "failed" ELSE "applied", TRUE)
    BY <2>2, ZenonT(30)
  <2>4. h \in Helpers /\ HeadsAgree(h)
        /\ (h.receipts = helper.receipts \/ h.receipts = helper.receipts \cup {i})
    BY <1>1, <1>2, ZenonT(30)
  <2>5. outcome.file \in Helpers /\ HeadsAgree(outcome.file) /\ outcome.file.receipts = h.receipts
    BY <2>4, HelperFacts, ZenonT(30)
  <2>6. (IF outcome.ok THEN "failed" ELSE "applied") \in Effects
    BY ZenonT(30)
  <2> HIDE DEF Effects
  <2> QED
    BY <1>1, <2>1, <2>3, <2>4, <2>5, <2>6, StepOutcome, ZenonT(30)
<1> QED
  BY <1>3, <1>4, <1>5, <1>6, <1>7, <1>8, ZenonT(30)

\* The provider commits only what is bound.
LEMMA CommitPlanStep == ASSUME IInv, CommitPlan PROVE IInv'
<1>1. /\ pc = "execute" /\ durable.state = "APPLYING" /\ mem = durable /\ Known(tx)
      /\ \A j \in Steps : tx.eff[j] = "applied" => j \in helper.bound
      /\ helper.bound \subseteq Steps
  BY ZenonT(30) DEF CommitPlan, IInv, Control, Evidence, ApplyPoints, TypeOK, Helpers
<1>2. NoReceipt \in Receipts
  BY ReceiptFacts, ZenonT(30) DEF IInv, TypeOK
<1>3. \/ /\ tx' \in Receipts /\ tx'.phase = "committed" /\ tx'.eff = tx.eff /\ hand' = tx' /\ pc' = "committed"
         /\ helper.bound = Steps
      \/ tx' = tx /\ hand' = NoReceipt /\ pc' = "commit_failure"
  <2>1. CASE \A i \in Steps : tx.eff[i] = "applied"
    <3>1. helper.bound = Steps
      BY <1>1, <2>1, ZenonT(30)
    <3> QED
      BY <3>1, <2>1, ZenonT(30) DEF CommitPlan, IInv, TypeOK, Receipts, Phases
  <2>2. CASE ~ \A i \in Steps : tx.eff[i] = "applied"
    BY <2>2, ZenonT(30) DEF CommitPlan
  <2> QED
    BY <2>1, <2>2, ZenonT(30)
<1>4. UNCHANGED <<mem, durable, ledger, helper, recovered, idx, ctx, crashes>>
  BY ZenonT(30) DEF CommitPlan
<1>5. TypeOK'
  BY <1>2, <1>3, <1>4, ZenonT(30) DEF IInv, TypeOK
<1>6. Control'
  BY <1>1, <1>3, <1>4, ZenonT(30) DEF Control, ApplyPoints, AbortPoints
<1>7. Capacity'
  BY <1>4, ZenonT(30) DEF IInv, Capacity
<1>8. File'
  BY <1>3, <1>4, ZenonT(30) DEF IInv, File, NoEffectBeforeDurableApplying, HelperReceiptsArePrefix, HeadsAgree
<1>9. Evidence'
  BY <1>1, <1>3, <1>4, ZenonT(30) DEF IInv, Evidence, ApplyPoints, Known
<1> QED
  BY <1>5, <1>6, <1>7, <1>8, <1>9, ZenonT(30) DEF IInv

\* Compensating a step changes the file and the receipt in hand only.
LEMMA CompensateStepStep == ASSUME IInv, CompensateStep PROVE IInv'
<1>1. /\ pc = "aborting" /\ idx \in Steps /\ durable.state = "COMPENSATING" /\ mem = durable /\ Known(tx)
      /\ Known(hand) /\ idx - 1 \in 0..(N + 1)
  <2>1. pc = "aborting" /\ idx \in Steps
    BY Zenon DEF CompensateStep
  <2>2. idx - 1 \in 0..(N + 1)
    BY <2>1, ConstantsAssumption, SMTT(30) DEF Steps
  <2> QED
    BY <2>1, <2>2, ZenonT(30) DEF IInv, Control, Evidence, AbortPoints
<1>2. helper \in Helpers /\ HeadsAgree(helper) /\ hand \in Receipts
  BY ZenonT(30) DEF IInv, File, TypeOK
<1>3. /\ helper' \in Helpers /\ HeadsAgree(helper') /\ helper'.receipts = helper.receipts
      /\ hand' \in Receipts /\ hand'.phase = hand.phase
  <2>1. CASE hand' = hand /\ helper' = helper
    BY <1>2, <2>1, ZenonT(30)
  <2>2. CASE /\ hand' = [hand EXCEPT !.eff[idx] = "degraded", !.comp[idx] = TRUE]
             /\ helper' = helper
    BY <1>1, <1>2, <2>2, Zenon DEF Receipts, Effects
  <2>3. ASSUME NEW outcome \in RollbackOutcomes(helper, idx),
               helper' = outcome.file,
               hand' = [hand EXCEPT !.eff[idx] = IF outcome.ok THEN "compensated" ELSE "degraded",
                                    !.comp[idx] = TRUE]
        PROVE  /\ helper' \in Helpers /\ HeadsAgree(helper') /\ helper'.receipts = helper.receipts
               /\ hand' \in Receipts /\ hand'.phase = hand.phase
    <3>1. helper' \in Helpers /\ HeadsAgree(helper') /\ helper'.receipts = helper.receipts
      BY <1>1, <1>2, <2>3, HelperFacts
    <3>2. (IF outcome.ok THEN "compensated" ELSE "degraded") \in Effects
      BY ZenonT(30) DEF Effects
    <3>3. hand' \in Receipts /\ hand'.phase = hand.phase
      BY <1>1, <1>2, <2>3, <3>2, Zenon DEF Receipts
    <3> QED
      BY <3>1, <3>3, ZenonT(30)
  <2> QED
    BY <2>1, <2>2, <2>3, Zenon DEF CompensateStep
<1>4. UNCHANGED <<mem, durable, tx, ledger, recovered, pc, ctx, crashes>> /\ idx' = idx - 1
  BY Zenon DEF CompensateStep
<1>5. TypeOK'
  BY <1>1, <1>3, <1>4, ZenonT(30) DEF IInv, TypeOK
<1>6. Control'
  BY <1>1, <1>3, <1>4, ZenonT(30) DEF Control, ApplyPoints, AbortPoints, Known
<1>7. Capacity'
  BY <1>4, ZenonT(30) DEF IInv, Capacity
<1>8. File'
  BY <1>1, <1>3, <1>4, ZenonT(30) DEF IInv, File, NoEffectBeforeDurableApplying, HelperReceiptsArePrefix, HeadsAgree
<1>9. Evidence'
  BY <1>1, <1>4, ZenonT(30) DEF IInv, Evidence, ApplyPoints, Known
<1> QED
  BY <1>5, <1>6, <1>7, <1>8, <1>9, ZenonT(30) DEF IInv

\* AbortPlan stores its receipt; only a complete abort is in phase aborted.
LEMMA EndAbortPlanStep == ASSUME IInv, EndAbortPlan PROVE IInv'
<1>1. /\ pc = "aborting" /\ durable.state = "COMPENSATING" /\ mem = durable /\ hand \in Receipts
  BY ZenonT(30) DEF EndAbortPlan, IInv, Control, AbortPoints, TypeOK
<1>2. /\ hand' \in Receipts /\ tx' = hand'
      /\ \/ hand'.phase = "degraded" /\ pc' = "abort_failure"
         \/ hand'.phase = "aborted" /\ pc' = "aborted"
  BY <1>1, ZenonT(30) DEF EndAbortPlan, Receipts, Phases
<1>3. UNCHANGED <<mem, durable, ledger, helper, recovered, idx, ctx, crashes>>
  BY ZenonT(30) DEF EndAbortPlan
<1>4. TypeOK'
  BY <1>2, <1>3, ZenonT(30) DEF IInv, TypeOK
<1>5. Control'
  BY <1>1, <1>2, <1>3, ZenonT(30) DEF Control, ApplyPoints, AbortPoints
<1>6. Capacity'
  BY <1>3, ZenonT(30) DEF IInv, Capacity
<1>7. File'
  BY <1>2, <1>3, ZenonT(30) DEF IInv, File, NoEffectBeforeDurableApplying, HelperReceiptsArePrefix, HeadsAgree
<1>8. Evidence'
  BY <1>1, <1>2, <1>3, ZenonT(30) DEF Evidence, ApplyPoints, Known
<1> QED
  BY <1>4, <1>5, <1>6, <1>7, <1>8, ZenonT(30) DEF IInv

\* A restart keeps the checkpoint and the file; a receipt the helper still
\* reports as succeeded is backed by a binding.
LEMMA CrashStep == ASSUME IInv, CrashAndRestart PROVE IInv'
<1>1. NoReceipt \in Receipts /\ ~Known(NoReceipt) /\ \A i \in Steps : NoReceipt.eff[i] # "applied"
  BY ReceiptFacts, ZenonT(30) DEF IInv, TypeOK, NoReceipt, Known
<1>2. /\ mem' = durable /\ durable' = durable /\ helper' = helper /\ tx' = NoReceipt /\ hand' = NoReceipt
      /\ ledger' = {} /\ idx' = 0 /\ ctx' = "live" /\ crashes' = crashes + 1 /\ crashes < MaxCrashes
      /\ pc' = IF durable.state = "NONE" THEN "idle" ELSE "resume"
  BY ZenonT(30) DEF CrashAndRestart
<1>3. /\ recovered' \in [Steps -> {"none", "succeeded", "superseded"}]
      /\ \A i \in Steps : recovered'[i] = "succeeded" => i \in helper.bound
  <2>1. CASE recovered' = PublishedReceipts(helper)
    BY <2>1, ZenonT(30) DEF PublishedReceipts, IInv, File, HeadsAgree
  <2>2. CASE recovered' = [i \in Steps |-> "none"]
    BY <2>2, ZenonT(30)
  <2> QED
    BY <2>1, <2>2, ZenonT(30) DEF CrashAndRestart
<1>4. TypeOK'
  <2>1. crashes + 1 \in 0..MaxCrashes /\ 0 \in 0..(N + 1)
    BY <1>2, ConstantsAssumption DEF IInv, TypeOK
  <2> QED
    BY <1>1, <1>2, <1>3, <2>1, ZenonT(30) DEF IInv, TypeOK
<1>5. Control'
  BY <1>1, <1>2, ZenonT(30) DEF Control, ApplyPoints, AbortPoints
<1>6. Capacity'
  BY <1>2, ZenonT(30) DEF IInv, Capacity
<1>7. File'
  BY <1>2, ZenonT(30) DEF IInv, File, NoEffectBeforeDurableApplying, HelperReceiptsArePrefix, HeadsAgree
<1>8. Evidence'
  BY <1>1, <1>2, <1>3, ZenonT(30) DEF Evidence, ApplyPoints, Known
<1> QED
  BY <1>4, <1>5, <1>6, <1>7, <1>8, ZenonT(30) DEF IInv

\* What Resume can do to the checkpoint, for a provider that has forgotten the plan.
ResumeOutcome ==
  /\ mem' \in Records /\ durable' \in Records /\ tx' \in Receipts
  /\ \/ durable' = durable /\ pc' = "halted"
     \/ durable' = durable /\ mem' = mem /\ tx' = tx
        /\ \/ pc' = "done" /\ durable.state \in Terminal
           \/ pc' = "step" /\ durable.state \in {"RESERVED", "APPLY_FAILED", "COMPENSATING"}
     \/ durable' = durable /\ mem' = mem /\ tx' = PreparedReceipt /\ pc' = "step" /\ durable.state = "APPLYING"
     \/ /\ mem' = durable' /\ durable'.state = durable.state /\ durable'.alloc = durable.alloc
        /\ durable.state \in {"PREPARED", "APPLYING"} /\ tx' = PreparedReceipt /\ pc' = "step"
     \/ /\ mem' = durable' /\ durable.state = "APPLYING" /\ durable'.state = "DEGRADED" /\ pc' = "done"
        /\ durable'.alloc \in [Steps -> {"active", "failed", "freed"}]
  /\ tx' = tx \/ tx' = PreparedReceipt

LEMMA ResumeFacts == ASSUME IInv, Resume PROVE ResumeOutcome
<1>1. mem = durable /\ ~Known(tx) /\ tx \in Receipts /\ mem \in Records
  BY ZenonT(30) DEF Resume, IInv, Control, TypeOK
<1>2. NoReceipt \in Receipts
  BY ReceiptFacts, ZenonT(30) DEF IInv, TypeOK
<1>3. PreparedReceipt \in Receipts /\ PreparedReceipt.phase \in {"prepared", "executing", "degraded"}
  BY <1>1, PreparedFacts, ZenonT(30)
<1>4. /\ Advance("PREPARED", PreparedReceipt) \in Records
      /\ Advance("PREPARED", PreparedReceipt).state = "PREPARED"
      /\ Advance("PREPARED", PreparedReceipt).alloc = mem.alloc
      /\ Advance("APPLYING", PreparedReceipt) \in Records
      /\ Advance("APPLYING", PreparedReceipt).state = "APPLYING"
      /\ Advance("APPLYING", PreparedReceipt).alloc = mem.alloc
  BY <1>1, <1>3, AdvanceFacts, ZenonT(30) DEF TransactionStates, Terminal
<1>5. \A r \in Receipts :
        /\ Finalize(FALSE, "DEGRADED", r) \in Records
        /\ Finalize(FALSE, "DEGRADED", r).state = "DEGRADED"
        /\ Finalize(FALSE, "DEGRADED", r).alloc \in [Steps -> {"active", "failed", "freed"}]
  BY <1>1, FinalizeFacts, Zenon DEF TransactionStates, Terminal
<1>6. CASE ctx = "cancelled" /\ pc' = "halted" /\ UNCHANGED <<mem, durable, tx>>
  BY <1>1, <1>6, ZenonT(30) DEF ResumeOutcome
<1>7. CASE mem.state \in Terminal /\ pc' = "done" /\ UNCHANGED <<mem, durable, tx>>
  BY <1>1, <1>7, ZenonT(30) DEF ResumeOutcome
<1>8. CASE /\ mem.state \in {"RESERVED", "APPLY_FAILED", "COMPENSATING"} /\ pc' = "step"
           /\ UNCHANGED <<mem, durable, tx>>
  BY <1>1, <1>8, ZenonT(30) DEF ResumeOutcome
<1>9. CASE mem.state = "PREPARED" /\ PreparePlanSucceeds /\ Persist(Advance("PREPARED", tx'), "step")
  BY <1>1, <1>3, <1>4, <1>9, ZenonT(30) DEF ResumeOutcome, PreparePlanSucceeds, Persist
<1>10. CASE mem.state = "PREPARED" /\ PreparePlanFails /\ pc' = "halted" /\ UNCHANGED <<mem, durable>>
  BY <1>1, <1>10, ZenonT(30) DEF ResumeOutcome, PreparePlanFails
<1>11. CASE mem.state = "APPLYING" /\ PreparePlanSucceeds /\ ApplyReconciledReceipt(tx')
  <2>1. tx' = PreparedReceipt
    BY <1>11, ZenonT(30) DEF PreparePlanSucceeds
  <2>2. \/ Persist(Finalize(FALSE, "DEGRADED", PreparedReceipt), "done")
        \/ pc' = "step" /\ UNCHANGED <<mem, durable>>
        \/ Persist(Advance("APPLYING", PreparedReceipt), "step")
    <3> DEFINE r == PreparedReceipt
    <3>1. ApplyReconciledReceipt(r) /\ r.phase \in {"prepared", "executing", "degraded"}
      BY <1>3, <1>11, <2>1, ZenonT(30)
    <3> HIDE DEF r
    <3>2. CASE r.phase = "degraded"
      BY <3>1, <3>2, Zenon DEF ApplyReconciledReceipt, r
    <3>3. CASE r.phase = "prepared"
      BY <3>1, <3>3, ZenonT(30) DEF ApplyReconciledReceipt
    <3>4. CASE r.phase = "executing"
      <4>1. IF \E i \in Steps : r.eff[i] = "degraded"
            THEN Persist(Finalize(FALSE, "DEGRADED", r), "done")
            ELSE Persist(Advance("APPLYING", r), "step")
        BY <3>1, <3>4, Zenon DEF ApplyReconciledReceipt
      <4> QED
        BY <4>1, Zenon DEF r
    <3> QED
      BY <3>1, <3>2, <3>3, <3>4, Zenon
  <2>3. CASE Persist(Finalize(FALSE, "DEGRADED", PreparedReceipt), "done")
    BY <1>1, <1>3, <1>5, <1>11, <2>1, <2>3, ZenonT(30) DEF ResumeOutcome, Persist
  <2>4. CASE pc' = "step" /\ UNCHANGED <<mem, durable>>
    BY <1>1, <1>3, <1>11, <2>1, <2>4, ZenonT(30) DEF ResumeOutcome
  <2>5. CASE Persist(Advance("APPLYING", PreparedReceipt), "step")
    BY <1>1, <1>3, <1>4, <1>11, <2>1, <2>5, ZenonT(30) DEF ResumeOutcome, Persist
  <2> QED
    BY <2>2, <2>3, <2>4, <2>5, Zenon
<1>12. CASE /\ mem.state = "APPLYING" /\ PreparePlanFails
            /\ Persist(Finalize(FALSE, "DEGRADED", NoReceipt), "done")
  BY <1>1, <1>2, <1>5, <1>12, ZenonT(30) DEF ResumeOutcome, PreparePlanFails, Persist
<1> QED
  BY <1>6, <1>7, <1>8, <1>9, <1>10, <1>11, <1>12, ZenonT(30) DEF Resume

\* Resuming from the checkpoint preserves the invariant.
LEMMA ResumeStep == ASSUME IInv, Resume PROVE IInv'
<1>1. /\ mem = durable /\ ~Known(tx) /\ durable.state # "NONE"
      /\ tx.phase \notin {"committed", "aborted"}
  BY ZenonT(30) DEF Resume, IInv, Control, Evidence
<1>2. /\ Known(PreparedReceipt) /\ PreparedReceipt.phase \notin {"committed", "aborted"}
      /\ \A i \in Steps : PreparedReceipt.eff[i] = "applied" => i \in helper.bound
  BY <1>1, PreparedFacts, ZenonT(30)
<1>3. ResumeOutcome /\ UNCHANGED <<ledger, helper, recovered, idx, hand, ctx, crashes>>
  BY ResumeFacts, Zenon DEF Resume
<1>4. TypeOK'
  BY <1>3, ZenonT(30) DEF IInv, TypeOK, ResumeOutcome
<1>5. Control'
  BY <1>1, <1>3, ZenonT(30) DEF ResumeOutcome, Control, InFlight, Terminal, ApplyPoints, AbortPoints
<1>6. Capacity'
  BY <1>3, ZenonT(30) DEF IInv, ResumeOutcome, Capacity, InFlight, Terminal
<1>7. File'
  BY <1>3, ZenonT(30) DEF IInv, ResumeOutcome, File, NoEffectBeforeDurableApplying, HelperReceiptsArePrefix, HeadsAgree
<1>8. Evidence'
  BY <1>1, <1>2, <1>3, ZenonT(30) DEF IInv, ResumeOutcome, Evidence, ApplyPoints, Known
<1> QED
  BY <1>4, <1>5, <1>6, <1>7, <1>8, ZenonT(30) DEF IInv

--------------------------------------------------------------------------------
(* The invariant, and what one step may do to what survives a crash. *)

LEMMA NextPreserves == IInv /\ [Next]_vars => IInv'
<1> SUFFICES ASSUME IInv, [Next]_vars PROVE IInv'
  BY ZenonT(30)
<1>1. CASE UNCHANGED vars
  BY <1>1 DEF vars, IInv, TypeOK, Control, Capacity, File, Evidence, NoEffectBeforeDurableApplying,
              HelperReceiptsArePrefix, HeadsAgree, Known
<1>2. CASE Executor
  BY <1>2, StageStep, ResumeStep, PrepareStep, BeginApplyStep, SkipStep, ExecuteStepStep, RecordStepStep,
     CommitPlanStep, FinishCommitStep, HandleApplyFailureStep, HandleCommitFailureStep, BeginAbortStep,
     AbortPlanStep, CompensateStepStep, EndAbortPlanStep, FinishAbortStep, HandleAbortFailureStep, ZenonT(30)
  DEF Executor
<1>3. CASE Shutdown \/ CrashAndRestart
  BY <1>3, ShutdownStep, CrashStep, ZenonT(30)
<1> QED
  BY <1>1, <1>2, <1>3, ZenonT(30) DEF Next

\* The inductive invariant holds in every reachable state.
THEOREM Invariance == Spec => []IInv
<1>1. Init => IInv
  BY InitEstablishes, ZenonT(30)
<1>2. IInv /\ [Next]_vars => IInv'
  BY NextPreserves, ZenonT(30)
<1> QED
  BY <1>1, <1>2, PTL DEF Spec

\* Every variable keeps its type: Store, provider, helper and executor.
THEOREM TypeCorrectness == Spec => []TypeOK
<1>1. IInv => TypeOK
  BY ZenonT(30) DEF IInv
<1> QED
  BY <1>1, Invariance, PTL

\* For every plan and any number of crashes, no helper command leaves a trace
\* before APPLYING is checkpointed.
THEOREM WriteAhead == Spec => []NoEffectBeforeDurableApplying
<1>1. IInv => NoEffectBeforeDurableApplying
  BY ZenonT(30) DEF IInv, File
<1> QED
  BY <1>1, Invariance, PTL

\* Recovery never meets helper receipts that are not a prefix of the plan.
THEOREM ReceiptsPrefix == Spec => []HelperReceiptsArePrefix
<1>1. IInv => HelperReceiptsArePrefix
  BY ZenonT(30) DEF IInv, File
<1> QED
  BY <1>1, Invariance, PTL

\* A step changes the file, or the checkpoint along an edge of the state table,
\* or neither.
SurvivingStep ==
  \/ UNCHANGED <<durable, helper>>
  \/ /\ durable' = durable /\ durable.state \in {"APPLYING", "COMPENSATING"}
     /\ \A j \in Steps : helper.head[j] = "release" => helper'.head[j] = "release"
  \/ /\ helper' = helper
     /\ \/ <<durable.state, durable'.state>> \in AllowedEdges
        \/ durable'.state = durable.state /\ durable.state \in InFlight

LEMMA StepShape == ASSUME IInv, [Next]_vars PROVE SurvivingStep
<1> USE DEF AllowedEdges
<1>0. mem \in Records /\ hand \in Receipts /\ tx \in Receipts /\ NoReceipt \in Receipts /\ LatestReceipt \in Receipts
      /\ PreparedReceipt \in Receipts
  BY ReceiptFacts, ZenonT(30) DEF IInv, TypeOK, LatestReceipt
<1>1. \A r \in Receipts, s \in TransactionStates : Advance(s, r).state = s
  BY <1>0, AdvanceFacts, ZenonT(30)
<1>2. \A r \in Receipts, s \in TransactionStates, b \in BOOLEAN : Finalize(b, s, r).state = s
  BY <1>0, FinalizeFacts, ZenonT(30)
<1>3. /\ Terminal \subseteq TransactionStates /\ InFlight \subseteq TransactionStates
      /\ pc \in ApplyPoints => durable.state = "APPLYING" /\ tx.phase # "aborted"
      /\ pc \in {"apply_failure", "commit_failure"} => tx.phase # "committed" /\ Known(tx)
      /\ pc \in AbortPoints => durable.state = "COMPENSATING"
      /\ pc # "halted" => mem = durable
  BY StateFacts, ZenonT(30) DEF IInv, Control, Evidence, ApplyPoints, AbortPoints
<1>4. CASE UNCHANGED vars \/ Shutdown \/ CrashAndRestart \/ SkipSucceededStep \/ CommitPlan \/ AbortPlan \/ EndAbortPlan
  BY <1>4, ZenonT(30) DEF SurvivingStep, vars, Shutdown, CrashAndRestart, SkipSucceededStep, CommitPlan, AbortPlan, EndAbortPlan
<1>5. CASE Stage
  BY <1>5, Zenon DEF SurvivingStep, Stage, NewRecord, NoRecord, IInv, Control
<1>6. CASE Resume
  BY <1>6, ResumeFacts, Zenon DEF SurvivingStep, ResumeOutcome, Resume, InFlight
<1>7. CASE Prepare
  <2>1. Advance("PREPARED", PreparedReceipt).state = "PREPARED"
        /\ Finalize(FALSE, "PREPARE_FAILED", NoReceipt).state = "PREPARE_FAILED"
    BY <1>0, <1>1, <1>2, ZenonT(30) DEF TransactionStates, Terminal
  <2>2. mem = durable
    BY <1>7, ZenonT(30) DEF IInv, Control, Prepare
  <2> QED
    BY <1>7, <2>1, <2>2, Zenon DEF SurvivingStep, Prepare, PreparePlanSucceeds, Persist
<1>8. CASE BeginApply
  <2>1. Advance("APPLYING", NoReceipt).state = "APPLYING"
    BY <1>0, <1>1, ZenonT(30) DEF TransactionStates, Terminal
  <2>2. mem = durable
    BY <1>8, ZenonT(30) DEF IInv, Control, BeginApply
  <2> QED
    BY <1>8, <2>1, <2>2, ZenonT(30) DEF SurvivingStep, BeginApply, Persist
<1>9. CASE ExecuteStep
  <2>1. PICK i \in Steps :
      \/ ExecuteStepReturns(i) \/ ExecuteStepRefused(i) \/ ExecuteStepDryRun(i) \/ ExecuteStepSucceeds(i)
      \/ ExecuteStepUnaudited(i) \/ ExecuteStepUncertain(i)
    BY <1>9, ZenonT(30) DEF ExecuteStep
  <2>2. durable' = durable /\ durable.state = "APPLYING"
    BY <2>1, <1>3, ZenonT(30) DEF ApplyPoints, ExecuteStepReturns, ExecuteStepRefused, ExecuteStepDryRun, ExecuteStepSucceeds,
      ExecuteStepUnaudited, ExecuteStepUncertain, StepReturns, Executable, AtStep
  <2>3. helper \in Helpers /\ HeadsAgree(helper)
    BY ZenonT(30) DEF IInv, File, TypeOK
  <2>4. /\ ApplyBinding(helper, i) \in Helpers /\ HeadsAgree(ApplyBinding(helper, i))
        /\ \A j \in Steps : helper.head[j] = "release" => ApplyBinding(helper, i).head[j] = "release"
    BY <2>3, HelperFacts, ZenonT(30)
  <2>5. CASE helper' = helper \/ helper' = ApplyBinding(helper, i)
    BY <2>2, <2>4, <2>5, ZenonT(30) DEF SurvivingStep
  <2>6. CASE ExecuteStepUncertain(i)
    <3>1. PICK h \in {helper, ApplyBinding(helper, i)} :
            \E outcome \in RollbackOutcomes(h, i) : helper' = outcome.file
      BY <2>6, ZenonT(30) DEF ExecuteStepUncertain
    <3>2. \A j \in Steps : h.head[j] = "release" => helper'.head[j] = "release"
      BY <2>3, <2>4, <3>1, HelperFacts, SMTT(30)
    <3> QED
      BY <2>2, <2>4, <3>1, <3>2, ZenonT(30) DEF SurvivingStep
  <2> QED
    BY <2>1, <2>5, <2>6, Zenon DEF ExecuteStepReturns, ExecuteStepRefused, ExecuteStepDryRun, ExecuteStepSucceeds,
      ExecuteStepUnaudited
<1>10. CASE RecordStep
  <2>1. Advance("APPLYING", hand).state = "APPLYING" /\ Advance("APPLY_FAILED", hand).state = "APPLY_FAILED"
    BY <1>0, <1>1, ZenonT(30) DEF TransactionStates, Terminal
  <2>2. durable.state = "APPLYING"
    BY <1>3, <1>10, ZenonT(30) DEF RecordStep, ApplyPoints
  <2> QED
    BY <1>10, <2>1, <2>2, ZenonT(30) DEF SurvivingStep, RecordStep, Persist, InFlight
<1>11. CASE FinishCommit
  <2>1. Finalize(TRUE, "COMMITTED", hand).state = "COMMITTED"
    BY <1>0, <1>2, ZenonT(30) DEF TransactionStates, Terminal
  <2>2. durable.state = "APPLYING"
    BY <1>3, <1>11, ZenonT(30) DEF FinishCommit, ApplyPoints
  <2> QED
    BY <1>11, <2>1, <2>2, Zenon DEF SurvivingStep, FinishCommit, Persist
<1>12. CASE HandleApplyFailure \/ HandleCommitFailure
  <2>1. /\ Finalize(FALSE, "DEGRADED", hand).state = "DEGRADED"
        /\ Advance("APPLY_FAILED", LatestReceipt).state = "APPLY_FAILED"
    BY <1>0, <1>1, <1>2, Zenon DEF TransactionStates, Terminal
  <2>2. durable.state = "APPLYING" /\ tx.phase \notin {"committed", "aborted"}
    BY <1>3, <1>12, ZenonT(30) DEF HandleApplyFailure, HandleCommitFailure, ApplyPoints
  <2> QED
    BY <1>12, <2>1, <2>2, Zenon DEF SurvivingStep, HandleApplyFailure, HandleCommitFailure, Persist
<1>13. CASE BeginAbort
  <2>1. Advance("COMPENSATING", NoReceipt).state = "COMPENSATING"
    BY <1>0, <1>1, ZenonT(30) DEF TransactionStates, Terminal
  <2>2. mem = durable
    BY <1>13, ZenonT(30) DEF IInv, Control, BeginAbort
  <2> QED
    BY <1>13, <2>1, <2>2, ZenonT(30) DEF SurvivingStep, BeginAbort, Persist
<1>14. CASE CompensateStep
  <2>1. durable' = durable /\ durable.state = "COMPENSATING" /\ idx \in Steps
    BY <1>3, <1>14, ZenonT(30) DEF CompensateStep, AbortPoints
  <2>2. helper \in Helpers /\ HeadsAgree(helper)
    BY ZenonT(30) DEF IInv, File, TypeOK
  <2>3. helper' = helper \/ \E outcome \in RollbackOutcomes(helper, idx) : helper' = outcome.file
    BY <1>14, Zenon DEF CompensateStep
  <2> QED
    BY <2>1, <2>2, <2>3, HelperFacts, SMTT(30) DEF SurvivingStep
<1>15. CASE FinishAbort
  <2>1. Finalize(FALSE, "ABORTED", hand).state = "ABORTED"
    BY <1>0, <1>2, ZenonT(30) DEF TransactionStates, Terminal
  <2>2. durable.state = "COMPENSATING"
    BY <1>3, <1>15, ZenonT(30) DEF FinishAbort, AbortPoints
  <2> QED
    BY <1>15, <2>1, <2>2, Zenon DEF SurvivingStep, FinishAbort, Persist
<1>16. CASE HandleAbortFailure
  <2>1. /\ Finalize(FALSE, "DEGRADED", hand).state = "DEGRADED"
        /\ Finalize(FALSE, "ABORTED", tx).state = "ABORTED"
        /\ Finalize(FALSE, "DEGRADED", LatestReceipt).state = "DEGRADED"
    BY <1>0, <1>2, Zenon DEF TransactionStates, Terminal
  <2>2. durable.state = "COMPENSATING"
    BY <1>3, <1>16, ZenonT(30) DEF HandleAbortFailure, AbortPoints
  <2>3. \/ Persist(Finalize(FALSE, "DEGRADED", hand), "done")
        \/ Persist(Finalize(FALSE, "ABORTED", tx), "done")
        \/ Persist(Finalize(FALSE, "DEGRADED", LatestReceipt), "done")
    <3>1. CASE ~Reconcilable
      BY <1>16, <3>1, Zenon DEF HandleAbortFailure
    <3>2. CASE Reconcilable /\ tx.phase = "aborted"
      BY <1>16, <3>2, Zenon DEF HandleAbortFailure
    <3>3. CASE Reconcilable /\ tx.phase # "aborted"
      BY <1>16, <3>3, Zenon DEF HandleAbortFailure
    <3> QED
      BY <3>1, <3>2, <3>3, Zenon
  <2> QED
    BY <1>16, <2>1, <2>2, <2>3, Zenon DEF SurvivingStep, HandleAbortFailure, Persist
<1> QED
  BY <1>4, <1>5, <1>6, <1>7, <1>8, <1>9, <1>10, <1>11, <1>12, <1>13, <1>14, <1>15, <1>16, ZenonT(30) DEF Next, Executor

\* Every change of the checkpointed state is an edge of transactionStateAllowed,
\* although FinalizeTransaction does not consult it.
THEOREM StateTable == Spec => DurableFollowsStateTable
<1>1. IInv /\ [Next]_vars
        => [durable'.state # durable.state => <<durable.state, durable'.state>> \in AllowedEdges]_vars
  BY StepShape, ZenonT(30) DEF SurvivingStep
<1> QED
  BY <1>1, Invariance, PTL DEF Spec, DurableFollowsStateTable

\* A rolled back binding is never established again, whatever fails or restarts.
THEOREM RollbackIsFinal == Spec => RolledBackStaysReleased
<1>1. ASSUME IInv, [Next]_vars, IInv'
      PROVE  \A i \in Steps : helper.head[i] = "release" => i \notin helper'.bound
  <2>1. HeadsAgree(helper) /\ HeadsAgree(helper')
    BY <1>1, ZenonT(30) DEF IInv, File, HeadsAgree
  <2>2. helper' = helper \/ \A i \in Steps : helper.head[i] = "release" => helper'.head[i] = "release"
    BY <1>1, StepShape, ZenonT(30) DEF SurvivingStep
  <2> QED
    BY <2>1, <2>2, ZenonT(30) DEF HeadsAgree
<1>2. IInv /\ [Next]_vars /\ IInv'
        => [\A i \in Steps : helper.head[i] = "release" => i \notin helper'.bound]_vars
  BY <1>1, ZenonT(30)
<1> QED
  BY <1>2, Invariance, PTL DEF Spec, RolledBackStaysReleased

\* The checkpoint and the helper's file, through any crash, behave as AtomicPlan.
THEOREM Refinement == Spec => ImplementsAtomicPlan
<1>1. Init => Abstract!Init
  BY SMTT(30) DEF Init, Abstract!Init, NoRecord, EmptyHelper
<1>2. IInv /\ IInv' /\ [Next]_vars => [Abstract!Next]_(Abstract!vars)
  <2> SUFFICES ASSUME IInv, IInv', [Next]_vars PROVE [Abstract!Next]_(Abstract!vars)
    BY ZenonT(30)
  <2>1. SurvivingStep
    BY StepShape, ZenonT(30)
  <2>2. CASE UNCHANGED <<durable, helper>>
    BY <2>2, ZenonT(30) DEF Abstract!vars
  <2>3. CASE /\ durable' = durable /\ durable.state \in {"APPLYING", "COMPENSATING"}
    <3>1. helper'.bound \in SUBSET Steps
      BY ZenonT(30) DEF IInv, TypeOK, Helpers
    <3>2. Abstract!ChangeEffects
      BY <2>3, <3>1, ZenonT(30) DEF Abstract!ChangeEffects
    <3> QED
      BY <3>2, ZenonT(30) DEF Abstract!Next
  <2>4. CASE /\ helper' = helper
             /\ durable.state \in InFlight /\ durable'.state \in InFlight
    <3>1. durable.alloc = [i \in Steps |-> "pending"] /\ durable'.alloc = [i \in Steps |-> "pending"]
      BY <2>4, ZenonT(30) DEF IInv, Capacity
    <3> QED
      BY <2>4, <3>1, ZenonT(30) DEF Abstract!vars, InFlight
  <2>5. CASE helper' = helper /\ durable.state = "NONE" /\ durable'.state = "RESERVED"
    <3>1. durable'.alloc = [i \in Steps |-> "pending"]
      BY <2>5, ZenonT(30) DEF IInv, Capacity, InFlight
    <3>2. Abstract!Reserve
      BY <2>5, <3>1, ZenonT(30) DEF Abstract!Reserve
    <3> QED
      BY <3>2, ZenonT(30) DEF Abstract!Next
  <2>6. CASE helper' = helper /\ durable.state \in InFlight /\ durable'.state = "COMMITTED"
    <3>1. durable'.alloc = [i \in Steps |-> "active"] /\ helper.bound = Steps
      BY <2>6, ZenonT(30) DEF IInv, Capacity, File
    <3>2. Abstract!Commit
      BY <2>6, <3>1, ZenonT(30) DEF Abstract!Commit, InFlight
    <3> QED
      BY <3>2, ZenonT(30) DEF Abstract!Next
  <2>7. CASE /\ helper' = helper /\ durable.state \in InFlight
             /\ durable'.state \in {"ABORTED", "DEGRADED", "PREPARE_FAILED"}
    <3>1. durable'.alloc \in [Steps -> {"active", "failed", "freed"}]
      BY <2>7, ZenonT(30) DEF IInv, Capacity, Terminal
    <3>2. Abstract!Fail
      BY <2>7, <3>1, ZenonT(30) DEF Abstract!Fail, InFlight
    <3> QED
      BY <3>2, ZenonT(30) DEF Abstract!Next
  <2> QED
    BY <2>1, <2>2, <2>3, <2>4, <2>5, <2>6, <2>7, ZenonT(30) DEF SurvivingStep, AllowedEdges, InFlight
<1> QED
  BY <1>1, <1>2, Invariance, PTL DEF Spec, ImplementsAtomicPlan, Abstract!Spec


--------------------------------------------------------------------------------
(* What a settled plan says of its capacity agrees with the bindings in place. *)

\* Receipt r reports every binding of file h as applied.
Claims(r, h) == \A i \in h.bound : r.eff[i] = "applied"

\* Receipt r reports a binding that finishAbort does not release.
Covered(r, i) == r.eff[i] = "applied" \/ (r.eff[i] = "degraded" /\ r.comp[i])

BeforeAbort == {"step", "execute", "executed", "apply_failure", "commit_failure", "committed", "abort"}

\* While evidence is kept the provider's receipt, or what a restart reads of the
\* helper, accounts for every binding in place; the reverse loop of AbortPlan
\* keeps that up to its index, and marks what it could not release.
Traced ==
  /\ ~Known(tx) => recovered = PublishedReceipts(helper)
  /\ Known(tx) /\ pc \in BeforeAbort => Claims(tx, helper)
  /\ pc = "aborting" =>
       \A i \in helper.bound : \/ i <= idx /\ hand.eff[i] = "applied"
                               \/ i > idx /\ hand.eff[i] = "degraded" /\ hand.comp[i]
  /\ pc = "aborted" => helper.bound = {}
  /\ durable.state = "ABORTED" => helper.bound = {}

\* In a process that never restarted the executor always holds the provider's
\* own receipt when it settles a plan after a failure.
Attended ==
  /\ pc \notin {"resume", "commit_failure"}
  /\ pc = "abort" \/ (pc = "step" /\ durable.state # "RESERVED") => Known(tx)
  /\ pc \in {"execute", "executed"} => \A j \in 1..(idx - 1) : tx.eff[j] = "applied"
  /\ pc = "executed" => tx.eff[idx] \in {"applied", "failed"}
  /\ pc \in {"executed", "apply_failure", "abort_failure"} => hand = tx /\ Known(tx)
  /\ pc = "abort_failure" => \A i \in helper.bound : Covered(tx, i)
  /\ pc \in {"step", "execute", "executed"} /\ durable.state \in {"RESERVED", "PREPARED", "APPLYING"}
     => \A j \in Steps : mem.steps[j] = "succeeded" => tx.eff[j] = "applied"
  /\ \A i \in Steps : durable.alloc[i] = "freed" => i \notin helper.bound

Accounted == Traced /\ (crashes = 0 => Attended)

\* finishAbort releases nothing that the receipt covers.
LEMMA RetainedFacts ==
  ASSUME mem \in Records, NEW r \in Receipts, Known(r), NEW final \in TransactionStates,
         NEW i \in Steps, Covered(r, i)
  PROVE  Finalize(FALSE, final, r).alloc[i] # "freed"
<1> DEFINE merged == MergeStateReceipt(mem, r)
<1>1. merged \in Records
  BY MergeFacts, ZenonT(30)
<1>2. merged.steps[i] = StateEffectStatus(r.eff[i]) /\ merged.comp[i] = r.comp[i]
  BY ZenonT(30) DEF MergeStateReceipt, Records
<1>3. r.comp[i] \in BOOLEAN
  BY ZenonT(30) DEF Receipts
<1> HIDE DEF merged
<1>4. StateEffectStatus("applied") = "succeeded" /\ StateEffectStatus("degraded") = "degraded"
  BY ZenonT(30) DEF StateEffectStatus
<1>5. RollbackIncomplete(merged, i) \/ MutationMayRemain(merged, i)
  BY <1>2, <1>3, <1>4, ZenonT(30) DEF Covered, RollbackIncomplete, MutationMayRemain
<1>6. RetainedAllocations(merged, FALSE)[i] # "freed"
  BY <1>5, ZenonT(30) DEF RetainedAllocations
<1>7. Finalize(FALSE, final, r) = [merged EXCEPT !.state = final, !.alloc = RetainedAllocations(merged, FALSE)]
  BY ZenonT(30) DEF Finalize, merged
<1> QED
  BY <1>1, <1>6, <1>7, Zenon DEF Records

\* A step the merged record has as succeeded is applied in the receipt.
LEMMA MirrorFacts ==
  ASSUME mem \in Records, NEW r \in Receipts, NEW next \in TransactionStates
  PROVE  /\ Known(r) => \A j \in Steps : Advance(next, r).steps[j] = "succeeded" => r.eff[j] = "applied"
         /\ ~Known(r) => Advance(next, r).steps = mem.steps
<1> DEFINE merged == MergeStateReceipt(mem, r)
<1>1. merged \in Records
  BY MergeFacts, ZenonT(30)
<1>2. Known(r) => merged.steps = [j \in Steps |-> StateEffectStatus(r.eff[j])]
  BY ZenonT(30) DEF MergeStateReceipt, Records
<1>3. ~Known(r) => merged = mem
  BY ZenonT(30) DEF MergeStateReceipt
<1>4. Advance(next, r) = [merged EXCEPT !.state = next]
  BY ZenonT(30) DEF Advance
<1> HIDE DEF merged
<1>5. Advance(next, r).steps = merged.steps
  BY <1>1, <1>4, ZenonT(30) DEF Records
<1>6. \A e \in Effects : StateEffectStatus(e) = "succeeded" => e = "applied"
  BY ZenonT(30) DEF Effects, StateEffectStatus
<1>7. \A j \in Steps : r.eff[j] \in Effects
  BY ZenonT(30) DEF Receipts
<1> QED
  BY <1>2, <1>3, <1>5, <1>6, <1>7, ZenonT(30)


\* What PreparePlan returns after a restart claims every binding in place, unless
\* the helper has moved on and the receipt is degraded.
LEMMA RecoveredClaims ==
  ASSUME IInv, Accounted
  PROVE  /\ ~Known(tx) /\ PreparedReceipt.phase # "degraded" => Claims(PreparedReceipt, helper)
         /\ ~Known(tx) /\ helper = EmptyHelper => PreparedReceipt.phase = "prepared"
         /\ ~Known(tx) /\ helper = EmptyHelper => \A i \in Steps : PreparedReceipt.eff[i] = "not_applied"
<1> SUFFICES ASSUME ~Known(tx)
             PROVE  /\ PreparedReceipt.phase # "degraded" => Claims(PreparedReceipt, helper)
                    /\ helper = EmptyHelper => /\ PreparedReceipt.phase = "prepared"
                                               /\ \A i \in Steps : PreparedReceipt.eff[i] = "not_applied"
  BY ZenonT(30)
<1>1. recovered = PublishedReceipts(helper) /\ helper \in Helpers /\ HeadsAgree(helper)
  BY ZenonT(30) DEF Accounted, Traced, IInv, TypeOK, File
<1>2. \A i \in helper.bound : i \in Steps /\ i \in helper.receipts
  BY <1>1, ZenonT(30) DEF Helpers, HeadsAgree
<1>3. \A i \in Steps : i \in Found <=> i \in helper.receipts
  BY <1>1, ZenonT(30) DEF Found, PublishedReceipts
<1>4. \A i \in Steps : recovered[i] \in {"none", "succeeded", "superseded"}
  BY ZenonT(30) DEF IInv, TypeOK
<1>5. CASE Found = {}
  <2>1. PreparedReceipt = [NoReceipt EXCEPT !.phase = "prepared"]
    BY <1>5, ZenonT(30) DEF PreparedReceipt
  <2>2. PreparedReceipt.phase = "prepared" /\ \A i \in Steps : PreparedReceipt.eff[i] = "not_applied"
    BY <2>1, ZenonT(30) DEF NoReceipt
  <2>3. helper.bound = {}
    BY <1>2, <1>3, <1>5, ZenonT(30)
  <2> QED
    BY <2>2, <2>3, ZenonT(30) DEF Claims
<1>6. CASE Found # {}
  <2>1. PreparedReceipt = RecoveredTransactionReceipt
    BY <1>6, ZenonT(30) DEF PreparedReceipt
  <2>2. helper # EmptyHelper
    BY <1>3, <1>6 DEF EmptyHelper, Found
  <2>3. ASSUME PreparedReceipt.phase # "degraded", NEW i \in helper.bound
        PROVE  PreparedReceipt.eff[i] = "applied"
    <3>1. recovered[i] = "succeeded"
      BY <1>2, <1>3, <1>4, <2>1, <2>3, ZenonT(30) DEF RecoveredTransactionReceipt, Found
    <3> QED
      BY <1>2, <2>1, <3>1, ZenonT(30) DEF RecoveredTransactionReceipt
  <2> QED
    BY <2>2, <2>3, ZenonT(30) DEF Claims
<1> QED
  BY <1>5, <1>6, ZenonT(30)

\* The plan starts with nothing to account for.
LEMMA AccountedInit == Init => Accounted
<1> SUFFICES ASSUME Init PROVE Accounted
  BY ZenonT(30)
<1>1. recovered = PublishedReceipts(helper) /\ helper.bound = {}
  BY ZenonT(30) DEF Init, PublishedReceipts, EmptyHelper
<1>2. pc = "idle" /\ durable.state = "NONE" /\ \A i \in Steps : durable.alloc[i] = "none"
  BY ZenonT(30) DEF Init, NoRecord
<1> QED
  BY <1>1, <1>2, ZenonT(30) DEF Accounted, Traced, Attended, BeforeAbort

\* Staging touches neither the provider nor the helper.
LEMMA AccountedStage == ASSUME IInv, IInv', Accounted, Stage PROVE Accounted'
<1>1. UNCHANGED <<tx, helper, recovered, idx, hand, crashes>> /\ ~Known(tx) /\ helper = EmptyHelper
  BY ZenonT(30) DEF Stage, IInv, Control, File, NoEffectBeforeDurableApplying
<1>2. helper.bound = {}
  BY <1>1, ZenonT(30) DEF EmptyHelper
<1>3. \/ durable' = NewRecord /\ mem' = NewRecord /\ pc' = "step"
      \/ pc' = "halted" /\ UNCHANGED <<mem, durable>>
  BY ZenonT(30) DEF Stage
<1>4. NewRecord.state = "RESERVED" /\ \A j \in Steps : NewRecord.steps[j] = "absent"
  BY ZenonT(30) DEF NewRecord, NoRecord
<1>5. Traced'
  BY <1>1, <1>2, ZenonT(30) DEF Accounted, Traced, Known, Claims
<1>6. crashes' = 0 => Attended'
  BY <1>1, <1>2, <1>3, <1>4, ZenonT(30) DEF Accounted, Attended, Covered
<1> QED
  BY <1>5, <1>6, ZenonT(30) DEF Accounted

\* Resuming continues only with a receipt that claims every binding in place.
LEMMA AccountedResume == ASSUME IInv, IInv', Accounted, Resume PROVE Accounted'
<1>1. /\ UNCHANGED <<helper, recovered, idx, hand, crashes>> /\ pc = "resume"
      /\ mem = durable /\ ~Known(tx)
  BY ZenonT(30) DEF Resume, IInv, Control
<1>2. crashes # 0
  BY <1>1, ZenonT(30) DEF Accounted, Attended
<1>3. ResumeOutcome
  BY ResumeFacts, ZenonT(30)
<1>4. PreparedReceipt.phase \in {"prepared", "executing", "degraded"} /\ Known(PreparedReceipt)
  BY <1>1, PreparedFacts, ZenonT(30)
<1>5. ASSUME tx' = PreparedReceipt, PreparedReceipt.phase = "degraded" PROVE pc' \in {"done", "halted"}
  <2>1. helper # EmptyHelper
    BY <1>1, <1>5, RecoveredClaims, ZenonT(30)
  <2>2. mem.state \notin {"PREPARED", "RESERVED"}
    BY <1>1, <2>1, ZenonT(30) DEF IInv, File, NoEffectBeforeDurableApplying
  <2>3. tx # PreparedReceipt
    BY <1>1, <1>4, ZenonT(30)
  <2>4. mem.state = "APPLYING" /\ PreparePlanSucceeds /\ ApplyReconciledReceipt(tx')
    BY <1>5, <2>2, <2>3, Zenon DEF Resume, PreparePlanFails
  <2>5. tx'.phase = "degraded"
    BY <1>5, ZenonT(30)
  <2>6. Persist(Finalize(FALSE, "DEGRADED", tx'), "done")
    BY <2>4, <2>5, Zenon DEF ApplyReconciledReceipt
  <2> QED
    BY <2>6, ZenonT(30) DEF Persist
<1>6. durable'.state = "ABORTED" => durable.state = "ABORTED"
  BY <1>3, ZenonT(30) DEF ResumeOutcome
<1>7. pc' \in {"done", "halted", "step"}
  BY <1>3, ZenonT(30) DEF ResumeOutcome
<1>8. pc' = "step" /\ Known(tx') => Claims(tx', helper)
  BY <1>1, <1>3, <1>5, RecoveredClaims, ZenonT(30) DEF ResumeOutcome
<1>9. tx' = tx \/ Known(tx')
  BY <1>3, <1>4, ZenonT(30) DEF ResumeOutcome
<1> QED
  BY <1>1, <1>2, <1>6, <1>7, <1>8, <1>9, ZenonT(30) DEF Accounted, Traced, BeforeAbort, Claims

\* A plan that is not yet APPLYING has no binding in place.
LEMMA AccountedPrepare == ASSUME IInv, IInv', Accounted, Prepare PROVE Accounted'
<1>1. /\ UNCHANGED <<helper, recovered, idx, hand, crashes>> /\ pc = "step" /\ mem.state = "RESERVED"
      /\ mem = durable
  BY ZenonT(30) DEF Prepare, IInv, Control
<1>2. helper = EmptyHelper /\ helper.bound = {}
  BY <1>1, SMTT(30) DEF IInv, File, NoEffectBeforeDurableApplying, EmptyHelper
<1>3. PreparedReceipt \in Receipts /\ Known(PreparedReceipt) /\ mem \in Records
  BY PreparedFacts, ZenonT(30) DEF IInv, TypeOK
<1>4. \/ tx' = tx /\ pc' \in {"done", "halted"}
      \/ tx' = PreparedReceipt /\ pc' = "halted"
      \/ tx' = PreparedReceipt /\ pc' = "step" /\ mem' = Advance("PREPARED", PreparedReceipt)
  BY ZenonT(30) DEF Prepare, PreparePlanSucceeds, PreparePlanFails, Persist
<1>5. Traced'
  BY <1>1, <1>2, <1>3, <1>4, ZenonT(30) DEF Accounted, Traced, Claims
<1>6. \A j \in Steps : Advance("PREPARED", PreparedReceipt).steps[j] = "succeeded" => PreparedReceipt.eff[j] = "applied"
  BY <1>3, MirrorFacts, ZenonT(30) DEF TransactionStates
<1>7. crashes' = 0 => Attended'
  BY <1>1, <1>2, <1>3, <1>4, <1>6, ZenonT(30) DEF Accounted, Attended
<1> QED
  BY <1>5, <1>7, ZenonT(30) DEF Accounted


\* Entering the loop over the steps changes neither the evidence nor the file.
LEMMA AccountedBeginApply == ASSUME IInv, IInv', Accounted, BeginApply PROVE Accounted'
<1>1. /\ UNCHANGED <<tx, helper, recovered, hand, crashes>> /\ pc = "step" /\ idx' = 1
      /\ mem.state \in {"PREPARED", "APPLYING"} /\ mem = durable /\ mem \in Records /\ NoReceipt \in Receipts
  BY ReceiptFacts, ZenonT(30) DEF BeginApply, IInv, Control, TypeOK
<1>2. Advance("APPLYING", NoReceipt).steps = mem.steps /\ Advance("APPLYING", NoReceipt).alloc = mem.alloc
      /\ Advance("APPLYING", NoReceipt).state = "APPLYING"
  BY <1>1, MirrorFacts, AdvanceFacts, ZenonT(30) DEF TransactionStates, NoReceipt, Known
<1>3. /\ pc' \in {"execute", "halted"} /\ durable'.alloc = durable.alloc
      /\ durable'.state \in {"PREPARED", "APPLYING"}
      /\ pc' = "execute" => mem'.steps = mem.steps
  BY <1>1, <1>2, ZenonT(30) DEF BeginApply, Persist
<1>4. Traced'
  BY <1>1, <1>3, ZenonT(30) DEF Accounted, Traced, BeforeAbort, Claims
<1>5. crashes' = 0 => Attended'
  BY <1>1, <1>3, SMTT(30) DEF Accounted, Attended, Covered
<1> QED
  BY <1>4, <1>5, ZenonT(30) DEF Accounted

\* The step that is skipped is one the provider's receipt has as applied.
LEMMA AccountedSkip == ASSUME IInv, IInv', Accounted, SkipSucceededStep PROVE Accounted'
<1>1. /\ UNCHANGED <<mem, durable, tx, helper, recovered, pc, hand, crashes>> /\ pc = "execute" /\ idx \in Steps
      /\ idx' = idx + 1 /\ mem.steps[idx] = "succeeded" /\ durable.state = "APPLYING"
  BY ZenonT(30) DEF SkipSucceededStep, IInv, Control, ApplyPoints
<1>2. Traced'
  BY <1>1, ZenonT(30) DEF Accounted, Traced, BeforeAbort, Claims
<1>3. ASSUME crashes = 0 PROVE Attended'
  <2>1. tx.eff[idx] = "applied" /\ \A j \in 1..(idx - 1) : tx.eff[j] = "applied"
    BY <1>1, <1>3, ZenonT(30) DEF Accounted, Attended
  <2>2. \A j \in 1..(idx' - 1) : j = idx \/ j \in 1..(idx - 1)
    BY <1>1, SMTT(30) DEF Steps
  <2>3. \A j \in 1..(idx' - 1) : tx'.eff[j] = "applied"
    BY <1>1, <2>1, <2>2, ZenonT(30)
  <2> QED
    BY <1>1, <1>3, <2>3, ZenonT(30) DEF Accounted, Attended
<1> QED
  BY <1>1, <1>2, <1>3, ZenonT(30) DEF Accounted

\* Whatever an audited command did, the receipt it returns claims what is in place.
LEMMA AccountedOutcome ==
  ASSUME IInv, IInv', Accounted, NEW i \in Steps, Executable(i),
         NEW effect \in {"applied", "failed"}, NEW failed \in BOOLEAN, StepReturns(i, effect, failed),
         helper'.bound \subseteq helper.bound \cup {i}, effect = "failed" => i \notin helper'.bound
  PROVE  Accounted'
<1>1. /\ pc = "execute" /\ idx = i /\ mem.steps[i] # "succeeded" /\ durable.state = "APPLYING" /\ Known(tx)
      /\ \A j \in 1..(i - 1) : tx.eff[j] = "applied"
  BY ZenonT(30) DEF Executable, AtStep, PreviousApplied, IInv, Control, ApplyPoints, Evidence
<1>2. /\ tx' = StepReceipt(i, effect, failed) /\ hand' = tx' /\ pc' = (IF failed THEN "apply_failure" ELSE "executed")
      /\ UNCHANGED <<mem, durable, recovered, idx, crashes>>
  BY ZenonT(30) DEF StepReturns
<1>3. tx \in Receipts
  BY ZenonT(30) DEF IInv, TypeOK
<1>4. /\ tx'.phase \in {"degraded", "executing"} /\ tx'.eff[i] = effect
      /\ \A j \in Steps : j # i => tx'.eff[j] = tx.eff[j]
  BY <1>2, <1>3, ZenonT(30) DEF StepReceipt, Receipts
<1>5. Known(tx') /\ pc' \in {"apply_failure", "executed"}
  BY <1>2, <1>4, ZenonT(30) DEF Known
<1>6. Claims(tx, helper) /\ helper'.bound \subseteq Steps
  BY <1>1, ZenonT(30) DEF Accounted, Traced, BeforeAbort, IInv, TypeOK, Helpers
<1>7. Claims(tx', helper')
  <2> SUFFICES ASSUME NEW j \in helper'.bound PROVE tx'.eff[j] = "applied"
    BY ZenonT(30) DEF Claims
  <2>1. CASE j = i
    BY <1>4, <2>1, ZenonT(30)
  <2>2. CASE j # i
    BY <1>4, <1>6, <2>2, ZenonT(30) DEF Claims
  <2> QED
    BY <2>1, <2>2, ZenonT(30)
<1>8. Traced'
  BY <1>1, <1>2, <1>5, <1>7, ZenonT(30) DEF Accounted, Traced
<1>9. ASSUME crashes = 0 PROVE Attended'
  <2>1. \A j \in 1..(idx' - 1) : j \in Steps /\ j # i
    BY <1>1, <1>2, ConstantsAssumption, SMTT(30) DEF Steps
  <2>2. \A j \in 1..(idx' - 1) : tx'.eff[j] = "applied"
    BY <1>1, <1>2, <1>4, <2>1, ZenonT(30)
  <2>3. \A j \in Steps : mem'.steps[j] = "succeeded" => tx'.eff[j] = "applied"
    BY <1>1, <1>2, <1>4, <1>9, ZenonT(30) DEF Accounted, Attended
  <2>4. \A j \in Steps : durable'.alloc[j] # "freed"
    BY <1>1, <1>2, ZenonT(30) DEF IInv, Capacity, InFlight
  <2> QED
    BY <1>1, <1>2, <1>4, <1>5, <2>2, <2>3, <2>4, ZenonT(30) DEF Attended
<1> QED
  BY <1>2, <1>8, <1>9, ZenonT(30) DEF Accounted

\* Binding or releasing one sandbox in the file concerns that sandbox alone.
LEMMA BoundFacts ==
  ASSUME NEW h \in Helpers, NEW i \in Steps
  PROVE  /\ ApplyBinding(h, i).bound \subseteq h.bound \cup {i}
         /\ \A outcome \in RollbackOutcomes(h, i) : /\ outcome.file.bound \subseteq h.bound
                                                    /\ outcome.ok => i \notin outcome.file.bound
                                                    /\ outcome.ok \in BOOLEAN
<1>1. ApplyBinding(h, i).bound \subseteq h.bound \cup {i}
  BY ZenonT(30) DEF ApplyBinding
<1>2. ReleaseBinding(h, i).bound = h.bound \ {i}
  BY ZenonT(30) DEF ReleaseBinding
<1>3. \A outcome \in RollbackOutcomes(h, i) :
        /\ outcome.ok \in BOOLEAN
        /\ outcome.file = h \/ outcome.file = ReleaseBinding(h, i)
        /\ outcome.ok => outcome.file = ReleaseBinding(h, i)
  BY ZenonT(30) DEF RollbackOutcomes
<1> QED
  BY <1>1, <1>2, <1>3, ZenonT(30)

\* Every outcome of ExecuteStep but the unaudited command is one of those.
LEMMA AccountedExecute ==
  ASSUME IInv, IInv', Accounted, ExecuteStep, \A i \in Steps : ~ExecuteStepUnaudited(i)
  PROVE  Accounted'
<1> PICK i \in Steps :
      \/ ExecuteStepReturns(i) \/ ExecuteStepRefused(i) \/ ExecuteStepDryRun(i) \/ ExecuteStepSucceeds(i)
      \/ ExecuteStepUncertain(i)
  BY ZenonT(30) DEF ExecuteStep
<1>1. helper \in Helpers
  BY ZenonT(30) DEF IInv, TypeOK
<1>2. ASSUME Executable(i) PROVE i \notin helper.bound
  <2>1. Claims(tx, helper) /\ tx.eff[i] # "applied"
    BY <1>2, ZenonT(30) DEF Executable, AtStep, Accounted, Traced, BeforeAbort, IInv, Evidence, ApplyPoints
  <2> QED
    BY <2>1, ZenonT(30) DEF Claims
<1>3. CASE ExecuteStepReturns(i)
  <2>1. /\ UNCHANGED <<mem, durable, tx, helper, recovered, idx, crashes>> /\ pc = "execute" /\ idx = i
        /\ mem.steps[i] # "succeeded" /\ pc' \in {"executed", "apply_failure"} /\ Known(tx)
        /\ durable.state = "APPLYING"
    BY <1>3, ZenonT(30) DEF ExecuteStepReturns, AtStep, IInv, Evidence, ApplyPoints, Control
  <2>2. Traced'
    BY <2>1, ZenonT(30) DEF Accounted, Traced, BeforeAbort, Claims
  <2>3. ASSUME crashes = 0 PROVE Attended'
    <3>1. PreviousApplied(i)
      BY <2>1, <2>3, ZenonT(30) DEF Accounted, Attended, PreviousApplied
    <3>2. hand' = tx /\ (pc' = "executed" => tx.eff[i] = "applied")
      BY <1>3, <3>1, ZenonT(30) DEF ExecuteStepReturns
    <3> QED
      BY <2>1, <2>3, <3>2, ZenonT(30) DEF Accounted, Attended, Known
  <2> QED
    BY <2>1, <2>2, <2>3, ZenonT(30) DEF Accounted
<1>4. CASE ExecuteStepRefused(i)
  <2>1. Executable(i) /\ StepReturns(i, "failed", TRUE) /\ helper' = helper
    BY <1>4, Zenon DEF ExecuteStepRefused
  <2> QED
    BY <1>2, <2>1, AccountedOutcome, Zenon
<1>5. CASE ExecuteStepDryRun(i)
  <2>1. Executable(i) /\ StepReturns(i, "failed", FALSE) /\ helper' = helper
    BY <1>5, Zenon DEF ExecuteStepDryRun
  <2> QED
    BY <1>2, <2>1, AccountedOutcome, Zenon
<1>6. CASE ExecuteStepSucceeds(i)
  <2>1. Executable(i) /\ StepReturns(i, "applied", FALSE) /\ helper' = ApplyBinding(helper, i)
    BY <1>6, ZenonT(30) DEF ExecuteStepSucceeds
  <2>2. helper'.bound \subseteq helper.bound \cup {i}
    BY <1>1, <2>1, BoundFacts, ZenonT(30)
  <2> QED
    BY <2>1, <2>2, AccountedOutcome, Zenon
<1>7. CASE ExecuteStepUncertain(i)
  <2>1. Executable(i)
    BY <1>7, ZenonT(30) DEF ExecuteStepUncertain
  <2>2. PICK h \in {helper, ApplyBinding(helper, i)} : \E outcome \in RollbackOutcomes(h, i) :
          helper' = outcome.file /\ StepReturns(i, IF outcome.ok THEN "failed" ELSE "applied", TRUE)
    BY <1>7, Zenon DEF ExecuteStepUncertain
  <2>3. PICK outcome \in RollbackOutcomes(h, i) :
          helper' = outcome.file /\ StepReturns(i, IF outcome.ok THEN "failed" ELSE "applied", TRUE)
    BY <2>2, ZenonT(30)
  <2>4. h \in Helpers /\ h.bound \subseteq helper.bound \cup {i}
    <3>1. HeadsAgree(helper)
      BY ZenonT(30) DEF IInv, File
    <3>2. ApplyBinding(helper, i) \in Helpers /\ ApplyBinding(helper, i).bound \subseteq helper.bound \cup {i}
      BY <1>1, <3>1, HelperFacts, BoundFacts, ZenonT(30)
    <3> QED
      BY <1>1, <3>2, ZenonT(30)
  <2>5. /\ outcome.file.bound \subseteq h.bound /\ outcome.ok \in BOOLEAN
        /\ outcome.ok => i \notin outcome.file.bound
    BY <2>4, BoundFacts, ZenonT(30)
  <2>6. CASE outcome.ok
    <3>1. StepReturns(i, "failed", TRUE)
      BY <2>3, <2>6, Zenon
    <3> QED
      BY <2>1, <2>3, <2>4, <2>5, <2>6, <3>1, AccountedOutcome, Zenon
  <2>7. CASE ~outcome.ok
    <3>1. StepReturns(i, "applied", TRUE)
      BY <2>3, <2>7, Zenon
    <3> QED
      BY <2>1, <2>3, <2>4, <2>5, <3>1, AccountedOutcome, Zenon
  <2> QED
    BY <2>6, <2>7, ZenonT(30)
<1> QED
  BY <1>3, <1>4, <1>5, <1>6, <1>7, ZenonT(30)


\* The receipt of an executed step goes into the Store.
LEMMA AccountedRecord == ASSUME IInv, IInv', Accounted, RecordStep PROVE Accounted'
<1>1. /\ UNCHANGED <<tx, helper, recovered, hand, crashes>> /\ pc = "executed" /\ idx \in Steps /\ idx' = idx + 1
      /\ durable.state = "APPLYING" /\ mem = durable /\ mem \in Records /\ hand \in Receipts /\ Known(tx)
  BY ZenonT(30) DEF RecordStep, IInv, Control, TypeOK, ApplyPoints, Evidence
<1>2. \A s \in {"APPLYING", "APPLY_FAILED"} :
        /\ Advance(s, hand).alloc = mem.alloc /\ Advance(s, hand).state = s
        /\ Known(hand) => \A j \in Steps : Advance(s, hand).steps[j] = "succeeded" => hand.eff[j] = "applied"
  BY <1>1, AdvanceFacts, MirrorFacts, ZenonT(30) DEF TransactionStates
<1>3. \/ durable' = durable /\ pc' = "halted"
      \/ durable' = Advance("APPLY_FAILED", hand) /\ pc' = "step"
      \/ durable' = Advance("APPLYING", hand) /\ mem' = durable' /\ pc' = "execute" /\ hand.eff[idx] # "failed"
  BY ZenonT(30) DEF RecordStep, Persist
<1>4. Traced'
  BY <1>1, <1>2, <1>3, ZenonT(30) DEF Accounted, Traced, BeforeAbort, Claims
<1>5. ASSUME crashes = 0 PROVE Attended'
  <2>1. /\ hand = tx /\ tx.eff[idx] \in {"applied", "failed"}
        /\ \A j \in 1..(idx - 1) : tx.eff[j] = "applied"
    BY <1>1, <1>5, ZenonT(30) DEF Accounted, Attended
  <2>2. \A j \in 1..(idx' - 1) : j = idx \/ j \in 1..(idx - 1)
    BY <1>1, SMTT(30) DEF Steps
  <2>3. pc' = "execute" => \A j \in 1..(idx' - 1) : tx'.eff[j] = "applied"
    BY <1>1, <1>3, <2>1, <2>2, ZenonT(30)
  <2>4. \A i \in Steps : durable'.alloc[i] # "freed"
    BY <1>1, <1>2, <1>3, ZenonT(30) DEF IInv, Capacity, InFlight
  <2> QED
    BY <1>1, <1>2, <1>3, <2>1, <2>3, <2>4, SMTT(30) DEF Attended
<1> QED
  BY <1>1, <1>4, <1>5, ZenonT(30) DEF Accounted

\* In a process that never restarted every step before the commit is applied, so
\* CommitPlan is not refused.
LEMMA AccountedCommit == ASSUME IInv, IInv', Accounted, CommitPlan PROVE Accounted'
<1>1. /\ UNCHANGED <<mem, durable, helper, recovered, idx, crashes>> /\ pc = "execute" /\ idx = N + 1
      /\ durable.state = "APPLYING" /\ tx \in Receipts /\ Known(tx)
      /\ pc' \in {"committed", "commit_failure"}
  BY ZenonT(30) DEF CommitPlan, IInv, Control, TypeOK, ApplyPoints, Evidence
<1>2. /\ tx'.eff = tx.eff /\ Known(tx')
      /\ pc' = "commit_failure" => \E i \in Steps : tx.eff[i] # "applied"
  BY <1>1, ZenonT(30) DEF CommitPlan, Receipts, Known
<1>3. Traced'
  BY <1>1, <1>2, ZenonT(30) DEF Accounted, Traced, BeforeAbort, Claims
<1>4. ASSUME crashes = 0 PROVE Attended'
  <2>1. \A j \in 1..((N + 1) - 1) : tx.eff[j] = "applied"
    BY <1>1, <1>4, ZenonT(30) DEF Accounted, Attended
  <2>2. \A j \in Steps : j \in 1..((N + 1) - 1)
    BY ConstantsAssumption, SMTT(30) DEF Steps
  <2>3. pc' = "committed"
    BY <1>1, <1>2, <2>1, <2>2, ZenonT(30)
  <2>4. \A i \in Steps : durable'.alloc[i] # "freed"
    BY <1>1, ZenonT(30) DEF IInv, Capacity, InFlight
  <2> QED
    BY <2>3, <2>4, ZenonT(30) DEF Attended
<1> QED
  BY <1>1, <1>3, <1>4, ZenonT(30) DEF Accounted

\* How each way of settling a plan leaves its record.
LEMMA SettlingFacts ==
  ASSUME IInv, NEW r \in Receipts
  PROVE  /\ Finalize(TRUE, "COMMITTED", r).state = "COMMITTED"
         /\ Finalize(TRUE, "COMMITTED", r).alloc = [i \in Steps |-> "active"]
         /\ Finalize(FALSE, "DEGRADED", r).state = "DEGRADED"
         /\ Finalize(FALSE, "ABORTED", r).state = "ABORTED"
<1>1. mem \in Records /\ {"COMMITTED", "DEGRADED", "ABORTED"} \subseteq TransactionStates
  BY ZenonT(30) DEF IInv, TypeOK, TransactionStates, Terminal
<1>2. /\ Finalize(TRUE, "COMMITTED", r).state = "COMMITTED"
      /\ Finalize(TRUE, "COMMITTED", r).alloc = [i \in Steps |-> "active"]
  BY <1>1, FinalizeFacts, ZenonT(30)
<1>3. Finalize(FALSE, "DEGRADED", r).state = "DEGRADED"
  BY <1>1, FinalizeFacts, Zenon
<1>4. Finalize(FALSE, "ABORTED", r).state = "ABORTED"
  BY <1>1, FinalizeFacts, Zenon
<1> QED
  BY <1>2, <1>3, <1>4, ZenonT(30)

\* A commit keeps every allocation.
LEMMA AccountedFinishCommit == ASSUME IInv, IInv', Accounted, FinishCommit PROVE Accounted'
<1>1. /\ UNCHANGED <<tx, helper, recovered, hand, crashes>> /\ pc = "committed" /\ durable.state = "APPLYING"
      /\ Known(tx) /\ hand \in Receipts
  BY ZenonT(30) DEF FinishCommit, IInv, TypeOK, Control, ApplyPoints, Evidence
<1>2. /\ Finalize(TRUE, "COMMITTED", hand).state = "COMMITTED"
      /\ Finalize(TRUE, "COMMITTED", hand).alloc = [i \in Steps |-> "active"]
  BY <1>1, SettlingFacts, Zenon
<1>3. \/ durable' = Finalize(TRUE, "COMMITTED", hand) /\ pc' = "done"
      \/ durable' = durable /\ pc' = "halted"
  BY Zenon DEF FinishCommit, Persist
<1>4. durable'.state # "ABORTED" /\ \A i \in Steps : durable'.alloc[i] # "freed"
  BY <1>1, <1>2, <1>3, ZenonT(30) DEF IInv, Capacity, InFlight
<1> QED
  BY <1>1, <1>3, <1>4, ZenonT(30) DEF Accounted, Traced, Attended, BeforeAbort

\* A plan that is degraded because the provider cannot be asked keeps what the
\* last receipt claims.
LEMMA AccountedApplyFailure == ASSUME IInv, IInv', Accounted, HandleApplyFailure PROVE Accounted'
<1>1. /\ UNCHANGED <<tx, helper, recovered, hand, crashes>> /\ pc = "apply_failure" /\ durable.state = "APPLYING"
      /\ mem = durable /\ mem \in Records /\ hand \in Receipts /\ LatestReceipt \in Receipts
      /\ Known(tx) /\ tx.phase \notin {"committed", "aborted"} /\ helper.bound \subseteq Steps
  BY ZenonT(30) DEF HandleApplyFailure, IInv, Control, TypeOK, ApplyPoints, Evidence, LatestReceipt, Helpers
<1>2. /\ Finalize(FALSE, "DEGRADED", hand).state = "DEGRADED"
      /\ Advance("APPLY_FAILED", LatestReceipt).state = "APPLY_FAILED"
  BY <1>1, SettlingFacts, AdvanceFacts, ZenonT(30) DEF TransactionStates
<1>3. \/ durable' = Finalize(FALSE, "DEGRADED", hand) /\ pc' = "done"
      \/ durable' = Advance("APPLY_FAILED", LatestReceipt) /\ pc' = "step"
      \/ durable' = durable /\ pc' = "halted"
  BY <1>1, Zenon DEF HandleApplyFailure, Persist
<1>4. Claims(tx, helper)
  BY <1>1, ZenonT(30) DEF Accounted, Traced, BeforeAbort
<1>5. Traced'
  BY <1>1, <1>2, <1>3, <1>4, Zenon DEF Accounted, Traced, BeforeAbort, Claims
<1>6. ASSUME crashes = 0 PROVE Attended'
  <2>1. hand = tx
    BY <1>1, <1>6, ZenonT(30) DEF Accounted, Attended
  <2>2. \A i \in helper.bound : Covered(hand, i)
    BY <1>4, <2>1, ZenonT(30) DEF Claims, Covered
  <2>3. \A i \in helper.bound : Finalize(FALSE, "DEGRADED", hand).alloc[i] # "freed"
    BY <1>1, <2>1, <2>2, RetainedFacts, Zenon DEF TransactionStates, Terminal
  <2>4. \A i \in Steps : durable'.alloc[i] = "freed" => i \notin helper'.bound
    <3>1. CASE durable' = Finalize(FALSE, "DEGRADED", hand)
      BY <1>1, <2>3, <3>1, ZenonT(30)
    <3>2. CASE durable'.state \in {"APPLYING", "APPLY_FAILED"}
      BY <3>2, ZenonT(30) DEF IInv, Capacity, InFlight
    <3> QED
      BY <1>1, <1>2, <1>3, <3>1, <3>2, Zenon
  <2> QED
    BY <1>1, <1>2, <1>3, <2>4, Zenon DEF Attended
<1> QED
  BY <1>1, <1>5, <1>6, ZenonT(30) DEF Accounted

\* A refused commit happens only after a restart.
LEMMA AccountedCommitFailure == ASSUME IInv, IInv', Accounted, HandleCommitFailure PROVE Accounted'
<1>1. /\ UNCHANGED <<tx, helper, recovered, hand, crashes>> /\ pc = "commit_failure" /\ durable.state = "APPLYING"
      /\ Known(tx) /\ tx.phase # "committed" /\ hand \in Receipts
  BY ZenonT(30) DEF HandleCommitFailure, IInv, TypeOK, Control, ApplyPoints, Evidence
<1>2. crashes # 0
  BY <1>1, ZenonT(30) DEF Accounted, Attended
<1>3. Finalize(FALSE, "DEGRADED", hand).state = "DEGRADED"
  BY <1>1, SettlingFacts, Zenon
<1>4. /\ durable' \in {durable, Finalize(FALSE, "DEGRADED", hand)}
      /\ pc' \in {"done", "halted", "apply_failure"}
  BY <1>1, ZenonT(30) DEF HandleCommitFailure, Persist
<1> QED
  BY <1>1, <1>2, <1>3, <1>4, Zenon DEF Accounted, Traced, BeforeAbort, Claims


\* Entering compensation changes neither the evidence nor the file.
LEMMA AccountedBeginAbort == ASSUME IInv, IInv', Accounted, BeginAbort PROVE Accounted'
<1>1. /\ UNCHANGED <<tx, helper, recovered, hand, crashes>> /\ pc = "step"
      /\ mem.state \in {"APPLY_FAILED", "COMPENSATING"} /\ mem = durable /\ mem \in Records /\ NoReceipt \in Receipts
  BY ReceiptFacts, ZenonT(30) DEF BeginAbort, IInv, Control, TypeOK
<1>2. Advance("COMPENSATING", NoReceipt).state = "COMPENSATING"
  BY <1>1, AdvanceFacts, ZenonT(30) DEF TransactionStates
<1>3. pc' \in {"abort", "halted"} /\ durable'.state \in {"APPLY_FAILED", "COMPENSATING"}
  BY <1>1, <1>2, ZenonT(30) DEF BeginAbort, Persist
<1>4. \A i \in Steps : durable'.alloc[i] # "freed"
  BY <1>3, ZenonT(30) DEF IInv, Capacity, InFlight
<1>5. Traced'
  BY <1>1, <1>3, ZenonT(30) DEF Accounted, Traced, BeforeAbort, Claims
<1>6. crashes' = 0 => Attended'
  BY <1>1, <1>3, <1>4, ZenonT(30) DEF Accounted, Attended
<1> QED
  BY <1>5, <1>6, ZenonT(30) DEF Accounted

\* The reverse loop starts at the last step, from a receipt that claims every
\* binding in place.
LEMMA AccountedAbort == ASSUME IInv, IInv', Accounted, AbortPlan PROVE Accounted'
<1>1. /\ UNCHANGED <<mem, durable, tx, helper, recovered, crashes>> /\ pc = "abort" /\ hand' = tx /\ idx' = N
      /\ durable.state = "COMPENSATING" /\ pc' = (IF Known(tx) THEN "aborting" ELSE "abort_failure")
  BY ZenonT(30) DEF AbortPlan, IInv, Control, AbortPoints
<1>2. \A i \in helper.bound : i <= N
  BY ConstantsAssumption, SMTT(30) DEF IInv, TypeOK, Helpers, Steps
<1>3. \A i \in Steps : durable'.alloc[i] # "freed"
  BY <1>1, ZenonT(30) DEF IInv, Capacity, InFlight
<1>4. Known(tx) => Claims(tx, helper)
  BY <1>1, ZenonT(30) DEF Accounted, Traced, BeforeAbort
<1>5. Traced'
  BY <1>1, <1>2, <1>4, ZenonT(30) DEF Accounted, Traced, BeforeAbort, Claims
<1>6. ASSUME crashes = 0 PROVE Attended'
  <2>1. pc' = "aborting"
    BY <1>1, <1>6, ZenonT(30) DEF Accounted, Attended
  <2> QED
    BY <1>3, <2>1, ZenonT(30) DEF Attended
<1> QED
  BY <1>1, <1>5, <1>6, ZenonT(30) DEF Accounted

\* One round of the reverse loop releases its binding, or marks it degraded.
LEMMA AccountedCompensate == ASSUME IInv, IInv', Accounted, CompensateStep PROVE Accounted'
<1>1. /\ UNCHANGED <<mem, durable, tx, recovered, pc, crashes>> /\ pc = "aborting" /\ idx \in Steps /\ idx' = idx - 1
      /\ durable.state = "COMPENSATING" /\ Known(tx)
  BY ZenonT(30) DEF CompensateStep, IInv, Control, AbortPoints, Evidence
<1>2. helper \in Helpers /\ hand \in Receipts
  BY ZenonT(30) DEF IInv, TypeOK
<1>3. /\ \A j \in Steps : j # idx => hand'.eff[j] = hand.eff[j] /\ hand'.comp[j] = hand.comp[j]
      /\ helper'.bound \subseteq helper.bound
      /\ idx \in helper'.bound => hand'.eff[idx] = "degraded" /\ hand'.comp[idx]
  <2>1. CASE hand.eff[idx] # "applied" /\ UNCHANGED <<hand, helper>>
    <3>1. idx \notin helper.bound
      BY <1>1, <2>1 DEF Accounted, Traced, Steps
    <3> QED
      BY <2>1, <3>1, ZenonT(30)
  <2>2. CASE /\ hand' = [hand EXCEPT !.eff[idx] = "degraded", !.comp[idx] = TRUE]
             /\ UNCHANGED helper
    BY <1>1, <1>2, <2>2, ZenonT(30) DEF Receipts
  <2>3. ASSUME NEW outcome \in RollbackOutcomes(helper, idx), helper' = outcome.file,
               hand' = [hand EXCEPT !.eff[idx] = IF outcome.ok THEN "compensated" ELSE "degraded",
                                    !.comp[idx] = TRUE]
        PROVE  /\ \A j \in Steps : j # idx => hand'.eff[j] = hand.eff[j] /\ hand'.comp[j] = hand.comp[j]
               /\ helper'.bound \subseteq helper.bound
               /\ idx \in helper'.bound => hand'.eff[idx] = "degraded" /\ hand'.comp[idx]
    <3>1. /\ helper'.bound \subseteq helper.bound
          /\ outcome.ok => idx \notin helper'.bound
      BY <1>1, <1>2, <2>3, BoundFacts, ZenonT(30)
    <3>2. /\ \A j \in Steps : j # idx => hand'.eff[j] = hand.eff[j] /\ hand'.comp[j] = hand.comp[j]
          /\ hand'.comp[idx] /\ (~outcome.ok => hand'.eff[idx] = "degraded")
      BY <1>1, <1>2, <2>3, ZenonT(30) DEF Receipts
    <3> QED
      BY <3>1, <3>2, ZenonT(30)
  <2> QED
    BY <2>1, <2>2, <2>3, ZenonT(30) DEF CompensateStep
<1>4. ASSUME NEW i \in helper'.bound
      PROVE  \/ i <= idx' /\ hand'.eff[i] = "applied"
             \/ i > idx' /\ hand'.eff[i] = "degraded" /\ hand'.comp[i]
  <2>1. i \in helper.bound /\ i \in Steps
    BY <1>2, <1>3, <1>4, ZenonT(30) DEF Helpers
  <2>2. \/ i <= idx /\ hand.eff[i] = "applied"
        \/ i > idx /\ hand.eff[i] = "degraded" /\ hand.comp[i]
    BY <1>1, <2>1, ZenonT(30) DEF Accounted, Traced
  <2>3. CASE i = idx
    BY <1>1, <1>3, <1>4, <2>3, SMTT(30) DEF Steps
  <2>4. CASE i # idx
    BY <1>1, <1>3, <2>1, <2>2, <2>4, SMTT(30) DEF Steps
  <2> QED
    BY <2>3, <2>4, ZenonT(30)
<1>5. \A i \in Steps : durable'.alloc[i] # "freed"
  BY <1>1, ZenonT(30) DEF IInv, Capacity, InFlight
<1>6. Traced'
  BY <1>1, <1>4, ZenonT(30) DEF Traced, BeforeAbort
<1>7. crashes' = 0 => Attended'
  BY <1>1, <1>5, ZenonT(30) DEF Attended
<1> QED
  BY <1>6, <1>7, ZenonT(30) DEF Accounted

\* When the loop ends every binding still in place is marked degraded.
LEMMA AccountedEndAbort == ASSUME IInv, IInv', Accounted, EndAbortPlan PROVE Accounted'
<1> DEFINE failed == \E i \in Steps : hand.eff[i] = "degraded"
<1>1. /\ UNCHANGED <<mem, durable, helper, recovered, idx, crashes>> /\ pc = "aborting" /\ idx = 0
      /\ durable.state = "COMPENSATING" /\ hand \in Receipts /\ helper \in Helpers
      /\ hand' = [hand EXCEPT !.phase = IF failed THEN "degraded" ELSE "aborted"] /\ tx' = hand'
      /\ pc' = (IF failed THEN "abort_failure" ELSE "aborted")
  BY ZenonT(30) DEF EndAbortPlan, IInv, Control, AbortPoints, TypeOK
<1>2. hand'.eff = hand.eff /\ hand'.comp = hand.comp /\ Known(hand')
  BY <1>1, ZenonT(30) DEF Receipts, Known
<1>3. ASSUME NEW i \in helper.bound PROVE i \in Steps /\ hand.eff[i] = "degraded" /\ hand.comp[i]
  <2>1. i \in Steps /\ i > 0
    BY <1>1, ConstantsAssumption DEF Helpers, Steps
  <2> QED
    BY <1>1, <2>1 DEF Accounted, Traced, Steps
<1>4. pc' = "aborted" => helper.bound = {}
  BY <1>1, <1>3, ZenonT(30)
<1>5. \A i \in Steps : durable'.alloc[i] # "freed"
  BY <1>1, ZenonT(30) DEF IInv, Capacity, InFlight
<1>6. \A i \in helper'.bound : Covered(tx', i)
  BY <1>1, <1>2, <1>3, ZenonT(30) DEF Covered
<1>7. Traced'
  BY <1>1, <1>2, <1>4, ZenonT(30) DEF Traced, BeforeAbort
<1>8. crashes' = 0 => Attended'
  BY <1>1, <1>2, <1>5, <1>6, ZenonT(30) DEF Attended
<1> QED
  BY <1>7, <1>8, ZenonT(30) DEF Accounted

\* A complete abort settles a plan with no binding left.
LEMMA AccountedFinishAbort == ASSUME IInv, IInv', Accounted, FinishAbort PROVE Accounted'
<1>1. UNCHANGED <<tx, helper, recovered, hand, crashes>> /\ pc = "aborted" /\ Known(tx)
  BY ZenonT(30) DEF FinishAbort, IInv, Evidence
<1>2. helper.bound = {}
  BY <1>1, ZenonT(30) DEF Accounted, Traced
<1>3. pc' \in {"done", "halted"}
  BY Zenon DEF FinishAbort, Persist
<1> QED
  BY <1>1, <1>2, <1>3, ZenonT(30) DEF Accounted, Traced, Attended, BeforeAbort

\* An incomplete abort keeps what it could not release.
LEMMA AccountedAbortFailure == ASSUME IInv, IInv', Accounted, HandleAbortFailure PROVE Accounted'
<1>1. /\ UNCHANGED <<tx, helper, recovered, hand, crashes>> /\ pc = "abort_failure" /\ tx.phase # "aborted"
      /\ mem \in Records /\ hand \in Receipts /\ LatestReceipt \in Receipts /\ durable.state = "COMPENSATING"
      /\ helper.bound \subseteq Steps
  BY ZenonT(30) DEF HandleAbortFailure, IInv, Evidence, TypeOK, LatestReceipt, Control, AbortPoints, Helpers
<1>2. Finalize(FALSE, "DEGRADED", hand).state = "DEGRADED" /\ Finalize(FALSE, "DEGRADED", LatestReceipt).state = "DEGRADED"
  BY <1>1, SettlingFacts, Zenon
<1>3. /\ pc' \in {"done", "halted"}
      /\ durable' \in {durable, Finalize(FALSE, "DEGRADED", hand), Finalize(FALSE, "DEGRADED", LatestReceipt)}
  <2>1. CASE ~Reconcilable
    BY <2>1, Zenon DEF HandleAbortFailure, Persist
  <2>2. CASE Reconcilable
    BY <1>1, <2>2, Zenon DEF HandleAbortFailure, Persist
  <2> QED
    BY <2>1, <2>2, Zenon
<1>4. Traced'
  BY <1>1, <1>2, <1>3, Zenon DEF Accounted, Traced, BeforeAbort
<1>5. ASSUME crashes = 0 PROVE Attended'
  <2>1. hand = tx /\ Known(hand) /\ LatestReceipt = hand /\ \A i \in helper.bound : Covered(hand, i)
    BY <1>1, <1>5, ZenonT(30) DEF Accounted, Attended, LatestReceipt
  <2>2. \A i \in helper.bound : Finalize(FALSE, "DEGRADED", hand).alloc[i] # "freed"
    BY <1>1, <2>1, RetainedFacts, ZenonT(30) DEF TransactionStates, Terminal
  <2>3. \A i \in Steps : durable.alloc[i] # "freed"
    BY <1>1, ZenonT(30) DEF IInv, Capacity, InFlight
  <2> QED
    BY <1>1, <1>3, <2>1, <2>2, <2>3, ZenonT(30) DEF Attended
<1> QED
  BY <1>1, <1>4, <1>5, ZenonT(30) DEF Accounted


\* A restart that reads the helper's receipts starts with a complete account.
LEMMA AccountedCrash ==
  ASSUME IInv, IInv', Accounted, CrashAndRestart, recovered' = PublishedReceipts(helper)
  PROVE  Accounted'
<1>1. /\ UNCHANGED <<durable, helper>> /\ tx' = NoReceipt /\ pc' \in {"idle", "resume"}
      /\ crashes' = crashes + 1 /\ crashes \in Nat
  BY ConstantsAssumption, SMTT(30) DEF CrashAndRestart, IInv, TypeOK
<1>2. ~Known(tx')
  BY <1>1, ZenonT(30) DEF NoReceipt, Known
<1>3. crashes' # 0
  BY <1>1
<1> QED
  BY <1>1, <1>2, <1>3, ZenonT(30) DEF Accounted, Traced

\* The account is kept by every step that loses no evidence.
LEMMA AccountedNext ==
  ASSUME IInv, IInv', Accounted, Next, ~EvidenceLost
  PROVE  Accounted'
<1>1. \A i \in Steps : ~ExecuteStepUnaudited(i)
  BY ZenonT(30) DEF EvidenceLost
<1>2. CASE Executor
  BY <1>1, <1>2, AccountedStage, AccountedResume, AccountedPrepare, AccountedBeginApply, AccountedSkip,
     AccountedExecute, AccountedRecord, AccountedCommit, AccountedFinishCommit, AccountedApplyFailure,
     AccountedCommitFailure, AccountedBeginAbort, AccountedAbort, AccountedCompensate, AccountedEndAbort,
     AccountedFinishAbort, AccountedAbortFailure, ZenonT(30)
  DEF Executor
<1>3. CASE Shutdown
  BY <1>3, ZenonT(30) DEF Shutdown, Accounted, Traced, Attended, Claims, Covered, Known
<1>4. CASE CrashAndRestart
  <2>1. crashes' # crashes
    BY <1>4, ConstantsAssumption, SMTT(30) DEF CrashAndRestart, IInv, TypeOK
  <2>2. recovered' = PublishedReceipts(helper)
    BY <2>1, ZenonT(30) DEF EvidenceLost
  <2> QED
    BY <1>4, <2>2, AccountedCrash, ZenonT(30)
<1> QED
  BY <1>2, <1>3, <1>4, ZenonT(30) DEF Next

EvidenceInv == IInv /\ (evidence = "kept" => Accounted)

\* While no evidence was lost the receipts account for every binding in place.
THEOREM EvidenceInvariant == MCSpec => []EvidenceInv
<1>1. MCInit => EvidenceInv
  BY InitEstablishes, AccountedInit, ZenonT(30) DEF MCInit, EvidenceInv
<1>2. EvidenceInv /\ [MCNext]_mcVars => EvidenceInv'
  <2> SUFFICES ASSUME EvidenceInv, [MCNext]_mcVars PROVE EvidenceInv'
    BY ZenonT(30)
  <2>1. [Next]_vars
    BY ZenonT(30) DEF MCNext, mcVars
  <2>2. IInv /\ IInv'
    BY <2>1, NextPreserves, ZenonT(30) DEF EvidenceInv
  <2>3. CASE MCNext
    <3>1. Next /\ (evidence' = "kept" => evidence = "kept" /\ ~EvidenceLost)
      BY <2>3, ZenonT(30) DEF MCNext
    <3> QED
      BY <2>2, <3>1, AccountedNext, ZenonT(30) DEF EvidenceInv
  <2>4. CASE UNCHANGED mcVars
    <3>1. UNCHANGED vars /\ evidence' = evidence
      BY <2>4, ZenonT(30) DEF mcVars
    <3>2. Accounted => Accounted'
      BY <3>1, ZenonT(30) DEF vars, Accounted, Traced, Attended, Claims, Covered, Known
    <3> QED
      BY <2>2, <3>1, <3>2, ZenonT(30) DEF EvidenceInv
  <2> QED
    BY <2>3, <2>4, ZenonT(30)
<1> QED
  BY <1>1, <1>2, PTL DEF MCSpec

\* An ABORTED plan left no binding behind, and a process that never restarted
\* gives back only capacity that no binding occupies, for every plan size, crash
\* bound and set of faults, as long as every command was audited and every
\* restart could read the helper's receipts (AbortPlan, finishAbort,
\* retainedAllocations).
THEOREM SettledAlwaysMatches == MCSpec => []SettledMatchesEffects
<1>1. EvidenceInv => SettledMatchesEffects
  BY ZenonT(30) DEF EvidenceInv, Accounted, Traced, Attended, SettledMatchesEffects, AbortedIsClean, ReleasedIsUnbound
<1> QED
  BY <1>1, EvidenceInvariant, PTL
================================================================================

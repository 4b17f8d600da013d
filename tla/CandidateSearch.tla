--------------------------- MODULE CandidateSearch ---------------------------
(***************************************************************************)
(* One decision of the Scheduler (scheduler.EvaluateWithContext): the      *)
(* gates, the units still to place, the candidate engine that places them  *)
(* one at a time over a frontier of devices it re-evaluates only where it  *)
(* consumed something (candidates.Engine.Evaluate), the selection policy,  *)
(* preemption when nothing fits, and the plan.  The plan is then carried   *)
(* out one action at a time or compensated, and the next intent is decided *)
(* on what it left.                                                        *)
(*                                                                         *)
(* A device has two resources: memory, and accelerator share in quarters.  *)
(* Scores are exact: the code's fractions times 2400, with capacities      *)
(* whose ratios divide 12.  The guard's verdict, the contract's verdict    *)
(* and the safe point are inputs (ProtectionGuard, ContractEvaluator).     *)
(***************************************************************************)
EXTENDS Integers, Sequences, FiniteSets, SequencesExt

CONSTANTS CsDevices,     \* device ids, ordered as integers
          CsCapacity,    \* Device.capacity: [mem, acc]
          CsProfiles,    \* what devices may be like: health, capabilities, labels
          CsInputs,      \* intents with what they meet: [exec, count, req, prio, named,
                         \* policy : [name, topK, preempt], queued : [n, version, req],
                         \* held (expired or blocked), needsSafe, safe]
          CsMixed,       \* [policy, units]: what the engine is asked for directly
          CsBudget,      \* Config.EvidenceBudget
          MaxIntents,    \* bound: intents decided
          MaxHeld        \* bound: allocation ids ever used

VARIABLES csProfile,     \* device -> profile
          csFree,        \* device -> Device.allocatable
          csAllocs,      \* allocation id -> allocation, the snapshot's
          csStage,       \* "idle", "search", "conclude", "execute", "compensate"
          csIntent,      \* intent and decision inputs
          csUnits,       \* units still to place
          csDev,         \* device -> [free, used, over]: deviceResources
          csEval,        \* device -> cached pairEvaluation
          csFrontier,    \* devices in the heap
          csFeasible,    \* feasibleCount
          csRequest,     \* evaluatedRequest and evaluatedCapabilities
          csSelected,    \* Result.Selected
          csEvidence,    \* evidenceCollector.entries
          csTotal,       \* TotalCandidateCount + TotalRejectionCount
          csPlan,        \* the plan: sequence of actions
          csDone,        \* actions of the plan carried out
          csRounds
csSearch == <<csUnits, csDev, csEval, csFrontier, csFeasible, csRequest, csSelected, csEvidence, csTotal>>
csCluster == <<csFree, csAllocs>>
csVars == <<csProfile, csCluster, csStage, csIntent, csSearch, csPlan, csDone, csRounds>>

NoPriority == -1
NoRequest == [res |-> [mem |-> -1, acc |-> -1], revision |-> 0, names |-> {}]
Empty == [mem |-> 0, acc |-> 0]
One == 4
NoIntent == [exec |-> "none"]
NoEval == [feasible |-> FALSE, headroom |-> 0, affinity |-> 0, total |-> 0]

-----------------------------------------------------------------------------
(* constraints: ResourceLessOrEqual, SumFits, AcceleratorShareFits *)
ResourceLessOrEqual(r, a) == r.mem <= a.mem /\ r.acc <= a.acc
Added(a, b) == [mem |-> a.mem + b.mem, acc |-> a.acc + b.acc]
SumFits(used, r, capacity) == ResourceLessOrEqual(Added(used, r), capacity)
AcceleratorShareFits(used, r) == used.acc + r.acc <= One
AddResourcesCapped(a, b, capacity) ==
  LET cap(x, limit) == IF x > limit THEN limit ELSE x
  IN [mem |-> cap(a.mem + b.mem, capacity.mem), acc |-> cap(a.acc + b.acc, capacity.acc)]

Counted(id) == csAllocs[id].state \in {"pending", "active"}
Ids == DOMAIN csAllocs
TotalOf(ids) == FoldLeft(LAMBDA sum, id : Added(sum, csAllocs[id].res), Empty, SetToSeq(ids))

(* buildDeviceStates: reclaimed allocations are not used and return to the    *)
(* allocatable vector, capped by the capacity                                 *)
BuildDeviceState(d, reclaimed) ==
  LET on == {id \in Ids : csAllocs[id].dev = d /\ Counted(id)}
      used == TotalOf(on \ reclaimed)
  IN [free |-> AddResourcesCapped(csFree[d], TotalOf(on \cap reclaimed), CsCapacity),
      used |-> used,
      over |-> ~SumFits(used, Empty, CsCapacity) \/ ~AcceleratorShareFits(used, Empty)]

(* capabilityMismatch: measured, with evidence as new as the set, able to     *)
(* bind, and at least what is required                                        *)
CapabilityMismatch(p, req) ==
  \/ p.evidence < p.revision \/ "bind" \notin p.actions
  \/ p.revision < req.revision \/ ~(req.names \subseteq p.names)

(* scoring.TraceAffinity in tenths: the trace's labels, then the job's *)
TraceAffinity(p) ==
  LET trace == CASE p.trace = "exact" -> 10 [] p.trace = "contains" -> 9 [] OTHER -> 0
      job == CASE p.job = "exact" -> 6 [] p.job = "contains" -> 5 [] OTHER -> 0
  IN IF trace > job THEN trace ELSE job

(* scorePair: mean headroom over the requested dimensions, share headroom,    *)
(* readiness and affinity, weighted 0.70, 0.20, 0.10 and 0.30                 *)
ScorePair(p, ds, r) ==
  LET ratio(req, avail) == IF req > 0 /\ avail > 0 THEN <<(12 * (avail - req)) \div avail>> ELSE <<>>
      ratios == ratio(r.mem, ds.free.mem) \o ratio(r.acc, ds.free.acc)
      headroom == IF ratios = <<>> THEN 24
                  ELSE (2 * FoldLeft(LAMBDA a, b : a + b, 0, ratios)) \div Len(ratios)
      share == One - ds.used.acc - r.acc
  IN [feasible |-> TRUE, headroom |-> headroom, affinity |-> TraceAffinity(p),
      total |-> 70 * headroom + 120 * (IF share > 0 THEN share ELSE 0) + 240 + 72 * TraceAffinity(p)]

EvaluatePair(d, ds, req, unsafe) ==
  LET p == csProfile[d]
  IN IF \/ ~p.ready \/ unsafe \/ ds.over \/ CapabilityMismatch(p, req)
        \/ ~ResourceLessOrEqual(req.res, ds.free)
        \/ ~AcceleratorShareFits(ds.used, req.res)
        \/ ~SumFits(ds.used, req.res, CsCapacity)
     THEN NoEval ELSE ScorePair(p, ds, req.res)

(* consume *)
Consume(ds, r) ==
  [ds EXCEPT !.free = [mem |-> @.mem - r.mem, acc |-> IF @.acc > r.acc THEN @.acc - r.acc ELSE 0],
             !.used = Added(@, r)]

-----------------------------------------------------------------------------
(* compareRank over the frontier: score descending, device ascending *)
Better(evals, d, e) ==
  evals[d].total > evals[e].total \/ (evals[d].total = evals[e].total /\ d < e)
Shortlist(evals, frontier, n) ==
  LET ranked == SetToSortSeq(frontier, LAMBDA d, e : Better(evals, d, e))
  IN SubSeq(ranked, 1, IF n < Len(ranked) THEN n ELSE Len(ranked))

(* policy.Binpack and policy.TraceAware on a shortlist; ScoreFirst takes the  *)
(* head, and the engine does so itself for score_first                        *)
Preferred(evals, list, key) ==
  LET S == ToSet(list)
  IN CHOOSE d \in S : \A e \in S \ {d} :
       key[d] > key[e] \/ (key[d] = key[e] /\ Better(evals, d, e))
Choose(evals, frontier, policy) ==
  LET list == Shortlist(evals, frontier, policy.topK)
  IN CASE policy.name = "binpack" -> Preferred(evals, list, [d \in ToSet(list) |-> -evals[d].headroom])
       [] policy.name = "trace_aware" -> Preferred(evals, list, [d \in ToSet(list) |-> evals[d].affinity])
       [] OTHER -> Head(list)

(* evidenceCollector: a selected candidate always enters, evicting the last   *)
(* entry that is not selected once the budget is spent                        *)
EvidenceEntry(unit, d, sel) == [unit |-> unit, dev |-> d, selected |-> sel]

AddSelected(ev, unit, d) ==
  LET others == {i \in DOMAIN ev : ~ev[i].selected}
  IN IF Len(ev) < CsBudget \/ others = {} THEN Append(ev, EvidenceEntry(unit, d, TRUE))
     ELSE [ev EXCEPT ![CHOOSE i \in others : \A j \in others : j <= i] = EvidenceEntry(unit, d, TRUE)]

(* collectUnitEvidence, in device order, while there is budget; a candidate   *)
(* already recorded for the unit is not recorded again                        *)
CollectUnitEvidence(ev, unit, retain) ==
  FoldLeft(LAMBDA acc, d :
             IF \/ Len(acc) >= CsBudget \/ (csEval[d].feasible /\ ~retain)
                \/ \E i \in DOMAIN acc : acc[i].unit = unit /\ acc[i].dev = d
             THEN acc ELSE Append(acc, EvidenceEntry(unit, d, FALSE)),
           ev, SetToSortSeq(CsDevices, <))

-----------------------------------------------------------------------------
(* An allocation the provider reported: no priority, no runtime unit *)
Adopted(d) == [exec |-> "adopted", state |-> "active", dev |-> d, res |-> [mem |-> 1, acc |-> 1],
               prio |-> NoPriority, complete |-> FALSE]

CsInit ==
  /\ csProfile \in [CsDevices -> CsProfiles]
  /\ \E a \in {<<>>} \cup {<<Adopted(d)>> : d \in CsDevices} :
       /\ csAllocs = a
       /\ csFree = [d \in CsDevices |->
                     IF a # <<>> /\ a[1].dev = d
                     THEN [mem |-> CsCapacity.mem - 1, acc |-> CsCapacity.acc - 1] ELSE CsCapacity]
  /\ csStage = "idle" /\ csIntent = NoIntent /\ csUnits = <<>>
  /\ csDev = <<>> /\ csEval = <<>> /\ csFrontier = {} /\ csFeasible = 0
  /\ csRequest = NoRequest /\ csSelected = <<>> /\ csEvidence = <<>> /\ csTotal = 0
  /\ csPlan = <<>> /\ csDone = 0 /\ csRounds = 0

(* what a decision worked on goes away with it *)
SearchOver == /\ csIntent' = NoIntent /\ csUnits' = <<>> /\ csDev' = <<>> /\ csEval' = <<>>
              /\ csFrontier' = {} /\ csFeasible' = 0 /\ csRequest' = NoRequest
              /\ csSelected' = <<>> /\ csEvidence' = <<>> /\ csTotal' = 0
PlanOver == csStage' = "idle" /\ csPlan' = <<>> /\ csDone' = 0

(* workUnits: a fallback unless the queued units are of this version, ask for *)
(* what the intent asks, and with the committed ones make up unit_count       *)
Committed(exec) == Cardinality({id \in Ids : csAllocs[id].exec = exec /\ Counted(id)})
WorkUnits(i) ==
  LET remaining == i.count - Committed(i.exec)
  IN IF \/ remaining < 0 \/ i.queued.version # "same" \/ i.queued.n \notin {0, remaining}
        \/ (i.queued.n > 0 /\ i.queued.req # i.req)
     THEN <<>> ELSE [k \in 1..remaining |-> i.req]

StartSearch(i, units) ==
  /\ csStage' = "search" /\ csIntent' = i /\ csUnits' = units
  /\ csDev' = [d \in CsDevices |-> BuildDeviceState(d, {})]
  /\ csEval' = [d \in CsDevices |-> NoEval] /\ csFrontier' = {} /\ csFeasible' = 0
  /\ csRequest' = NoRequest /\ csSelected' = <<>> /\ csEvidence' = <<>> /\ csTotal' = 0

(* Evaluate up to the engine: an expired intent, a blocking contract, a queue *)
(* of another version, nothing left to place, or a policy that never acts     *)
(* gives a plan without actions, and the decision is over.                    *)
EvaluateIntent(i) ==
  /\ csStage = "idle" /\ csRounds < MaxIntents /\ csRounds' = csRounds + 1
  /\ Cardinality(Ids) + i.count <= MaxHeld
  /\ LET units == IF i.held \/ i.policy.name \in {"noop", "static"} THEN <<>> ELSE WorkUnits(i)
     IN IF units = <<>> THEN UNCHANGED <<csStage, csIntent, csSearch>>
        ELSE StartSearch(i, units)
  /\ UNCHANGED <<csProfile, csCluster, csPlan, csDone>>

(* The engine asked directly, for units that ask for different things *)
EvaluateUnits(m) ==
  /\ csStage = "idle" /\ csRounds < MaxIntents /\ csRounds' = csRounds + 1
  /\ StartSearch([exec |-> "none", count |-> Len(m.units), policy |-> m.policy,
                  needsSafe |-> FALSE, safe |-> FALSE], m.units)
  /\ UNCHANGED <<csProfile, csCluster, csPlan, csDone>>

Direct == csIntent.exec = "none"
Unsafe == csIntent.needsSafe /\ ~csIntent.safe

(* mutated: capabilities that changed do not count *)
RequestChangedResources(req) == csRequest.res # req.res

(* requestChanged or capabilitiesChanged *)
RequestChanged(req) == csRequest # req

RebuildFrontier ==
  /\ csStage = "search" /\ csUnits # <<>> /\ RequestChanged(Head(csUnits))
  /\ LET req == Head(csUnits)
         evals == [d \in CsDevices |-> EvaluatePair(d, csDev[d], req, Unsafe)]
         frontier == {d \in CsDevices : evals[d].feasible}
     IN /\ csEval' = evals /\ csFrontier' = frontier
        /\ csFeasible' = Cardinality(frontier) /\ csRequest' = req
  /\ UNCHANGED <<csProfile, csCluster, csStage, csIntent, csUnits, csDev, csSelected, csEvidence,
                 csTotal, csPlan, csDone, csRounds>>

(* One unit: the policy's choice among the shortlist is recorded, consumed,   *)
(* re-evaluated and put back; the others stay in the frontier as they were.   *)
SelectUnit ==
  LET unit == Len(csSelected) + 1
      req == Head(csUnits)
      retain == csIntent.policy.name # "score_first"
                \/ Cardinality(CsDevices) <= CsBudget \div csIntent.count
      evidence(ev) == IF retain \/ csFeasible < Cardinality(CsDevices)
                      THEN CollectUnitEvidence(ev, unit, retain) ELSE ev
  IN /\ csStage = "search" /\ csUnits # <<>> /\ ~RequestChanged(Head(csUnits))
     /\ csTotal' = csTotal + Cardinality(CsDevices)
     /\ IF csFrontier = {}
        THEN /\ csStage' = "conclude" /\ csEvidence' = evidence(csEvidence)
             /\ UNCHANGED <<csUnits, csDev, csEval, csFrontier, csFeasible, csSelected>>
        ELSE LET d == Choose(csEval, csFrontier, csIntent.policy)
                 ds == Consume(csDev[d], req.res)
                 again == EvaluatePair(d, ds, req, Unsafe)
             IN /\ csEvidence' = evidence(AddSelected(csEvidence, unit, d))
                /\ csSelected' = Append(csSelected, [dev |-> d, req |-> req])
                /\ csDev' = [csDev EXCEPT ![d] = ds] /\ csEval' = [csEval EXCEPT ![d] = again]
                /\ csFrontier' = IF again.feasible THEN csFrontier ELSE csFrontier \ {d}
                /\ csFeasible' = IF again.feasible THEN csFeasible ELSE csFeasible - 1
                /\ csUnits' = Tail(csUnits)
                /\ csStage' = IF Tail(csUnits) = <<>> THEN "conclude" ELSE "search"
     /\ UNCHANGED <<csProfile, csCluster, csIntent, csRequest, csPlan, csDone, csRounds>>

-----------------------------------------------------------------------------
(* An action of a plan, with the allocation it makes or releases; a release   *)
(* carries the binding its rollback restores.                                 *)
PlanAction(type, id, allocation) == [type |-> type, id |-> id, alloc |-> allocation]
Bound(d, res) ==
  [exec |-> csIntent.exec, state |-> "pending", dev |-> d, res |-> res,
   prio |-> csIntent.prio, complete |-> csIntent.named]
FreshId(k) == SetToSortSeq((1..MaxHeld) \ Ids, <)[k]

(* makePlan: one BIND per unit *)
MakePlan == [k \in DOMAIN csSelected |->
               PlanAction("bind", FreshId(k), Bound(csSelected[k].dev, csSelected[k].req.res))]

(* LowPriorityFirst.Pick, then CanRelease *)
Victims == {id \in Ids : /\ csAllocs[id].state = "active" /\ csAllocs[id].prio # NoPriority
                         /\ csAllocs[id].prio < csIntent.prio}
Weaker(a, b) ==
  LET x == csAllocs[a]
      y == csAllocs[b]
  IN \/ x.prio < y.prio
     \/ x.prio = y.prio /\ (x.dev < y.dev \/ (x.dev = y.dev /\ a < b))
CanRelease(id) == csAllocs[id].complete /\ "release" \in csProfile[csAllocs[id].dev].actions

(* preemptionTargetFits: the engine on one device with the victims reclaimed *)
PreemptionTargetFits(d, victims) ==
  EvaluatePair(d, BuildDeviceState(d, victims), Head(csUnits), FALSE).feasible

(* mutated: the replacement is bound before the victims are released *)
BuildPreemptionPlanBindFirst(d, victims) ==
  LET released == SetToSortSeq(victims, Weaker)
  IN <<PlanAction("bind", FreshId(1), Bound(d, Head(csUnits).res))>>
     \o [k \in DOMAIN released |-> PlanAction("release", released[k], csAllocs[released[k]])]

(* buildPreemptionPlan: the victims' releases in victim order, then the bind *)
BuildPreemptionPlan(d, victims) ==
  LET released == SetToSortSeq(victims, Weaker)
  IN [k \in DOMAIN released |-> PlanAction("release", released[k], csAllocs[released[k]])]
     \o <<PlanAction("bind", FreshId(1), Bound(d, Head(csUnits).res))>>

(* preemptionPlan: victims from the weakest on, kept per device, until those  *)
(* of one device make room; <<>> when they never do or may not be released    *)
PreemptionPlan ==
  LET order == SetToSortSeq(Victims, Weaker)
      group(k) == {order[i] : i \in {i \in 1..k : /\ CanRelease(order[i])
                                                 /\ csAllocs[order[i]].dev = csAllocs[order[k]].dev}}
      enough == {k \in DOMAIN order : CanRelease(order[k])
                                      /\ PreemptionTargetFits(csAllocs[order[k]].dev, group(k))}
      first == CHOOSE k \in enough : \A j \in enough : k <= j
  IN IF ~csIntent.policy.preempt \/ ~csIntent.safe \/ enough = {} THEN <<>>
     ELSE BuildPreemptionPlan(csAllocs[order[first]].dev, group(first))

(* Evaluate after the engine: every unit placed, or none of one unit and      *)
(* victims found, and the guard allows it; else a fallback without actions.   *)
Conclude ==
  /\ csStage = "conclude"
  /\ \E allowed \in BOOLEAN :
       LET plan == CASE Direct -> <<>>
                     [] ~Direct /\ csUnits = <<>> -> MakePlan
                     [] ~Direct /\ csSelected = <<>> /\ Len(csUnits) = 1 -> PreemptionPlan
                     [] OTHER -> <<>>
           kept == IF allowed THEN plan ELSE <<>>
       IN IF kept = <<>> THEN PlanOver
          ELSE csStage' = "execute" /\ csPlan' = kept /\ csDone' = 0
  /\ SearchOver
  /\ UNCHANGED <<csProfile, csCluster, csRounds>>

-----------------------------------------------------------------------------
(* The plan is carried out by the provider (PlanTransaction, CapacityLedger). *)
Without(id) == [x \in Ids \ {id} |-> csAllocs[x]]
With(id, a) == [x \in Ids \cup {id} |-> IF x = id THEN a ELSE csAllocs[x]]
Taken(d, res) == [csFree EXCEPT ![d] = [mem |-> @.mem - res.mem, acc |-> @.acc - res.acc]]
Returned(d, res) == [csFree EXCEPT ![d] = AddResourcesCapped(@, res, CsCapacity)]

Bind(id, a) == csAllocs' = With(id, a) /\ csFree' = Taken(a.dev, a.res)
Release(id, a) == csAllocs' = Without(id) /\ csFree' = Returned(a.dev, a.res)

ExecuteAction ==
  /\ csStage = "execute" /\ csDone < Len(csPlan)
  /\ LET act == csPlan[csDone + 1]
     IN IF act.type = "bind" THEN Bind(act.id, act.alloc) ELSE Release(act.id, act.alloc)
  /\ csDone' = csDone + 1
  /\ UNCHANGED <<csProfile, csStage, csIntent, csSearch, csPlan, csRounds>>

FinishPlan ==
  /\ csStage = "execute" /\ csDone = Len(csPlan)
  /\ csAllocs' = [id \in Ids |-> IF csAllocs[id].state = "pending"
                                 THEN [csAllocs[id] EXCEPT !.state = "active"] ELSE csAllocs[id]]
  /\ PlanOver
  /\ UNCHANGED <<csProfile, csFree, csIntent, csSearch, csRounds>>

FailAction ==
  /\ csStage = "execute" /\ csDone < Len(csPlan) /\ csStage' = "compensate"
  /\ UNCHANGED <<csProfile, csCluster, csIntent, csSearch, csPlan, csDone, csRounds>>

(* The declared rollback of the last action carried out: RELEASE of the bind, *)
(* or BIND of the restore_binding                                             *)
Rollback(act) ==
  IF act.type = "bind" THEN Release(act.id, act.alloc) ELSE Bind(act.id, act.alloc)

CompensateAction ==
  /\ csStage = "compensate"
  /\ IF csDone = 0 THEN PlanOver /\ UNCHANGED csCluster
     ELSE /\ Rollback(csPlan[csDone]) /\ csDone' = csDone - 1
          /\ UNCHANGED <<csStage, csPlan>>
  /\ UNCHANGED <<csProfile, csIntent, csSearch, csRounds>>

(* An allocation ends on its own: RELEASING, still on its device, then gone *)
EndAllocation(id) ==
  /\ csStage = "idle"
  /\ \/ /\ csAllocs[id].state = "active"
        /\ csAllocs' = With(id, [csAllocs[id] EXCEPT !.state = "releasing"]) /\ UNCHANGED csFree
     \/ /\ csAllocs[id].state = "releasing" /\ Release(id, csAllocs[id])
  /\ UNCHANGED <<csProfile, csStage, csIntent, csSearch, csPlan, csDone, csRounds>>

CsNext ==
  \/ \E i \in CsInputs : EvaluateIntent(i)
  \/ \E m \in CsMixed : EvaluateUnits(m)
  \/ RebuildFrontier \/ SelectUnit \/ Conclude
  \/ ExecuteAction \/ FinishPlan \/ FailAction \/ CompensateAction
  \/ \E id \in Ids : EndAllocation(id)

-----------------------------------------------------------------------------
(* At every step of every plan and of every compensation, what is on a       *)
(* device, ending allocations included, fits it, and the pending and active  *)
(* shares make at most one (evaluatePair, consume, preemptionTargetFits,     *)
(* buildPreemptionPlan's order of releases and bind).                        *)
NeverOverfull ==
  \A d \in CsDevices :
    LET on == {id \in Ids : csAllocs[id].dev = d}
    IN /\ ResourceLessOrEqual(TotalOf(on), CsCapacity)
       /\ TotalOf({id \in on : Counted(id)}).acc <= One

(* The device of a search's k-th unit recomputed with every device evaluated *)
(* afresh on what the first k-1 left                                         *)
Left(d, k) ==
  LET taken == SelectSeq(SubSeq(csSelected, 1, k - 1), LAMBDA s : s.dev = d)
      sum == FoldLeft(LAMBDA a, s : Added(a, s.req.res), Empty, taken)
      ds == BuildDeviceState(d, {})
  IN [ds EXCEPT !.free = [mem |-> @.mem - sum.mem, acc |-> @.acc - sum.acc], !.used = Added(@, sum)]
FullEvaluation(k, req) == [d \in CsDevices |-> EvaluatePair(d, Left(d, k), req, Unsafe)]
FeasibleOf(evals) == {d \in CsDevices : evals[d].feasible}

(* The heap, re-evaluated only where a unit was placed and rebuilt only when  *)
(* the requirements change, gives every unit the device that an evaluation of *)
(* all devices would give it, and fails a unit only when none is feasible     *)
(* (Engine.Evaluate, rebuildFrontier, consume).                               *)
MatchesFullSearch ==
  csStage \in {"search", "conclude"} =>
    /\ \A k \in DOMAIN csSelected :
         LET evals == FullEvaluation(k, csSelected[k].req)
         IN /\ evals[csSelected[k].dev].feasible
            /\ csSelected[k].dev = Choose(evals, FeasibleOf(evals), csIntent.policy)
    /\ (csStage = "conclude" /\ csUnits # <<>>) =>
         FeasibleOf(FullEvaluation(Len(csSelected) + 1, Head(csUnits))) = {}

(* However small the evidence budget, the decision's evidence has every       *)
(* selected candidate, no pair twice, and no more entries than the budget or  *)
(* the selection (evidenceCollector.addSelected, collectUnitEvidence).        *)
SelectedIsRecorded ==
  csStage \in {"search", "conclude"} =>
    /\ \A k \in DOMAIN csSelected : \E i \in DOMAIN csEvidence :
         csEvidence[i] = EvidenceEntry(k, csSelected[k].dev, TRUE)
    /\ \A i, j \in DOMAIN csEvidence :
         (csEvidence[i].unit = csEvidence[j].unit /\ csEvidence[i].dev = csEvidence[j].dev) => i = j
    /\ Len(csEvidence) <= IF CsBudget > Len(csSelected) THEN CsBudget ELSE Len(csSelected)
    /\ Len(csEvidence) <= csTotal
=============================================================================

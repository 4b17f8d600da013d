--------------------------- MODULE AdaptivePlanner ---------------------------
(***************************************************************************)
(* Adaptive planning of one intent (scheduler.EvaluateAdaptive and the     *)
(* Coordinator below it): the tick's planner proposes changes to running   *)
(* sandboxes beside the admission of pending units, arbitration merges     *)
(* compatible proposals under a budget, the action policy and the guard    *)
(* have their say, and the plan is carried out.  The planners read the     *)
(* projected sandboxes, with their age, and the intent's last decisions,   *)
(* which the service passes back to them (recentDecisionsForIntent).       *)
(*                                                                         *)
(* Shares are tenths, utilities multiples of 5,000,000 nanoutilities, time *)
(* is in clock units.  The candidate engine's answers, the guard's and the *)
(* contract's verdicts are inputs (CandidateSearch, ProtectionGuard,       *)
(* ContractEvaluator).                                                     *)
(***************************************************************************)
EXTENDS Integers, Sequences, FiniteSets, SequencesExt

CONSTANTS ApAllocs,        \* allocation ids, ordered as integers
          ApInputs,        \* what an evaluation reads beside snapshot and projection:
                           \* [cause, tick, contract, phase, level, lag, ess, stale, restores, facts,
                           \*  safe, cost, want, dir, malformed, supports, room, admit]
          ApBudget,        \* PlannerBudgetConfig: [actions, boxes, gpus, cost, noL4], 0 unset
          ApMarks,         \* BackpressurePolicy: [low, high, max]
          ApIdle,          \* Coordinator: [sleep, offload] thresholds
          ApFreshness,     \* defaultSandboxMaximumAge: [fast, medium, slow]
          WindowTime,      \* DefaultPlannerObservationWindow
          DecisionWindow,  \* adaptiveDecisionWindow
          MaxApAge,        \* ages saturate here
          MaxApRounds, MaxApChanges, MaxApTicks    \* bounds

VARIABLES apActive,    \* the intent's active allocations in the snapshot
          apBox,       \* allocation -> its projected sandbox
          apRecent,    \* RecentDecisions, oldest first
          apPlan,      \* the plan being carried out, or NoApPlan
          apOutcome,   \* what the last evaluation answered, and under which contract
          apSince,     \* allocation -> time since its last directional share step
          apRounds, apChanges, apTicks
apVars == <<apActive, apBox, apRecent, apPlan, apOutcome, apSince, apRounds, apChanges, apTicks>>

NoApPlan == [purpose |-> "none", acts |-> <<>>, policy |-> "not_required", caps |-> {},
             affected |-> {}, steered |-> {}, contract |-> "clear", age |-> 0]
(* Directives with nothing asked for: -1 is an absent share or priority *)
NoDirectives == [share |-> -1, prio |-> -1, resize |-> FALSE, scaleIn |-> FALSE, state |-> "any",
                 offload |-> FALSE, rebind |-> FALSE, recreate |-> FALSE, sleepAfter |-> 0,
                 offloadAfter |-> 0, only |-> {}]
Aged(age, cap) == IF age < cap THEN age + 1 ELSE cap

-----------------------------------------------------------------------------
(* actionpolicy: levels, tick ceilings, and what compensation restores *)
ActionTypes == {"set_share", "set_priority", "resize", "bind", "release", "pause", "resume",
                "sleep", "offload", "rebind", "recreate"}
LevelForAction(type) ==
  CASE type \in {"pause", "resume"} -> 2
    [] type \in {"sleep", "offload"} -> 3
    [] type \in {"rebind", "recreate"} -> 4
    [] OTHER -> 1
CeilingForTick(tick) == [fast |-> 1, medium |-> 3, slow |-> 4][tick]

ValidateAction(act, tick) == act.type \in ActionTypes /\ LevelForAction(act.type) <= CeilingForTick(tick)

ValidatePurposeAction(purpose, type) ==
  CASE purpose = "admission" -> type = "bind"
    [] purpose = "rebalance" -> type \notin {"bind", "release"}
    [] purpose = "preemption" -> type \in {"bind", "release"}
    [] purpose = "recovery" -> type \in {"resume", "rebind", "recreate"}
    [] OTHER -> TRUE

(* validatePlanContract: rollback policy, capabilities, affected allocations *)
ValidatePlanContract(plan) ==
  LET types == {plan.acts[i].type : i \in DOMAIN plan.acts}
      released == {plan.acts[i].target : i \in {j \in DOMAIN plan.acts : plan.acts[j].type = "release"}}
  IN /\ plan.policy = "required" => "compensate" \in plan.caps
     /\ Len(plan.acts) > 1 => plan.policy = "required" /\ {"ordered", "compensate"} \subseteq plan.caps
     /\ plan.purpose = "admission" => plan.affected = {}
     /\ plan.purpose = "rebalance" => plan.affected # {}
     /\ plan.purpose = "preemption" =>
          /\ plan.policy = "required"
          /\ {"ordered", "compensate", "transactional", "atomic"} \subseteq plan.caps
          /\ {"release", "bind"} \subseteq types /\ released = plan.affected

(* validateExplicitActionContract: a mutation names an affected allocation *)
ValidateTarget(plan, act) == act.type = "bind" \/ plan.affected = {} \/ act.target \in plan.affected

ValidatePlan(plan, tick) ==
  /\ ValidatePlanContract(plan)
  /\ \A i \in DOMAIN plan.acts :
       /\ ValidateAction(plan.acts[i], tick)
       /\ ValidatePurposeAction(plan.purpose, plan.acts[i].type)
       /\ ValidateTarget(plan, plan.acts[i])

-----------------------------------------------------------------------------
(* collectAdaptiveFacts: a fact two sources disagree on is an error *)
SignalError(w) == (\E k \in DOMAIN w.facts : Cardinality(w.facts[k]) > 1) \/ w.facts.budget = {0}
Fact(w, key, otherwise) == IF w.facts[key] = {} THEN otherwise ELSE CHOOSE v \in w.facts[key] : TRUE

(* recentActionInFlight: the newest decision that had actions *)
RecentActionInFlight ==
  LET acting == {i \in DOMAIN apRecent : apRecent[i].acts # <<>>}
      newest == CHOOSE i \in acting : \A j \in acting : j <= i
  IN CASE acting = {} -> "unknown"
       [] acting # {} /\ apRecent[newest].result \in {"none", "unknown"} -> "yes"
       [] OTHER -> "no"

BufferPressureForLevel(level) ==
  CASE level <= ApMarks.low -> "low"
    [] level > ApMarks.low /\ level > ApMarks.max -> "critical"
    [] level > ApMarks.low /\ level <= ApMarks.max /\ level >= ApMarks.high -> "high"
    [] OTHER -> "normal"

(* normalizePlanningSignals: facts first, then what the contract lets it derive *)
NormalizePlanningSignals(w) ==
  [pressure |-> Fact(w, "pressure", IF w.level < 0 THEN "unknown" ELSE BufferPressureForLevel(w.level)),
   below |-> Fact(w, "below", IF w.level < 0 THEN "unknown" ELSE IF w.level <= ApMarks.low THEN "yes" ELSE "no"),
   capable |-> Fact(w, "capable", IF w.restores THEN "yes" ELSE "unknown"),
   resid |-> Fact(w, "resid", -1),
   inflight |-> Fact(w, "inflight", RecentActionInFlight),
   budget |-> Fact(w, "budget", IF ApBudget.actions > 0 THEN ApBudget.actions ELSE 1)]

(* normalizePlannerBudget: an observation may only tighten the policy's budget *)
NormalizePlannerBudget(n) ==
  [actions |-> IF ApBudget.actions <= 0 \/ n < ApBudget.actions THEN n ELSE ApBudget.actions,
   boxes |-> IF ApBudget.boxes <= 0 THEN n ELSE ApBudget.boxes,
   gpus |-> IF ApBudget.gpus <= 0 THEN 1 ELSE ApBudget.gpus]

-----------------------------------------------------------------------------
(* adaptiveTargets: active allocations with a matching sandbox, fresh ones, *)
(* and those the caller's filter leaves                                     *)
Observed == {a \in apActive : apBox[a].seen >= 0}
FreshAt(tick) == {a \in Observed : apBox[a].seen <= ApFreshness[tick]}
Filtered(targets, only) == IF only = {} THEN targets ELSE targets \cap only

(* missingTargetEvidence, staleTargetEvidence *)
Unobserved(w, only) == (apActive \cup only) \ FreshAt(w.tick)

(* DefaultPlannerUtilityConfig *)
Utility == [bind |-> 200, set_share |-> 180, set_priority |-> 170, resize |-> 160, release |-> 156,
            pause |-> 140, resume |-> 190, sleep |-> 130, offload |-> 124, rebind |-> 110,
            recreate |-> 100, step |-> 5, benefit |-> 200, risk |-> 20]

(* providerSupports: every device of the allocation advertises the action *)
ProviderSupports(w, type) == type \in w.supports

(* actionEligibility *)
ActionEligibility(w, type, a, needsSafe) ==
  IF w.contract # "clear" /\ ~(w.contract = "pause" /\ type = "pause") THEN "contract"
  ELSE IF type # "resume" /\ needsSafe /\ ~(w.safe /\ apBox[a].safe) THEN "safe_point"
  ELSE IF LevelForAction(type) > CeilingForTick(w.tick) THEN "tick"
  ELSE IF type \notin {"rebind", "recreate"} /\ ~ProviderSupports(w, type) THEN "capability"
  ELSE "eligible"

(* buildAdaptivePlan: an action carries the generation it was planned for *)
AdaptiveAction(type, a, value, needsSafe) ==
  [type |-> type, target |-> a, value |-> value, gen |-> apBox[a].gen, fenced |-> needsSafe]

(* actionProposal: one action, compensated *)
ActionProposal(w, purpose, type, a, value, utility, reason, needsSafe, steered) ==
  [purpose |-> purpose, type |-> type, target |-> a, utility |-> utility,
   cost |-> IF type \in {"rebind", "recreate"} THEN w.cost ELSE 0,
   reason |-> IF reason = "eligible" THEN ActionEligibility(w, type, a, needsSafe) ELSE reason,
   acts |-> <<AdaptiveAction(type, a, value, needsSafe)>>,
   policy |-> "required", caps |-> {"compensate"}, affected |-> {a},
   steered |-> IF steered THEN {a} ELSE {}]
Unplanned(type, a, reason) ==
  [purpose |-> "reconciliation", type |-> type, target |-> a, utility |-> 0, cost |-> 0, reason |-> reason,
   acts |-> <<>>, policy |-> "not_required", caps |-> {}, affected |-> {}, steered |-> {}]

-----------------------------------------------------------------------------
(* AdmissionPlanner: what EvaluateWithContext placed, bind by bind, or its *)
(* preemption plan as a whole.  workUnits wants the units not yet active.  *)
Admitting(w) == Cardinality(apActive) < w.want.units
AdmissionActions(w) ==
  LET free == SetToSortSeq(ApAllocs \ apActive, <)
      places == IF w.contract # "clear" \/ w.admit # "binds" THEN 0 ELSE w.want.units - Cardinality(apActive)
  IN [i \in 1..places |-> [type |-> "bind", target |-> free[i], value |-> w.want.res, gen |-> 0, fenced |-> FALSE]]
WholeAdmission(acts) ==
  [purpose |-> "admission", type |-> "bind", target |-> 0, utility |-> Utility.bind, cost |-> 0,
   reason |-> "eligible", acts |-> acts, affected |-> {}, steered |-> {},
   policy |-> IF Len(acts) > 1 THEN "required" ELSE "not_required",
   caps |-> IF Len(acts) > 1 THEN {"ordered", "compensate"} ELSE {}]
(* the victim of a preemption is another intent's allocation, 0 here *)
PreemptionProposal(w) ==
  LET free == SetToSortSeq(ApAllocs \ apActive, <)
      acts == <<[type |-> "release", target |-> 0, value |-> 0, gen |-> 1, fenced |-> TRUE],
                [type |-> "bind", target |-> free[1], value |-> w.want.res, gen |-> 0, fenced |-> FALSE]>>
  IN [purpose |-> "preemption", type |-> "release", target |-> 0, utility |-> Utility.release + Utility.bind,
      cost |-> 0, reason |-> "eligible", acts |-> acts, policy |-> "required", affected |-> {0},
      caps |-> {"ordered", "compensate", "transactional", "atomic"}, steered |-> {}]
AdmissionProposals(w) ==
  LET acts == AdmissionActions(w)
      one(i) == [WholeAdmission(<<acts[i]>>) EXCEPT !.target = acts[i].target]
  IN CASE ~Admitting(w) -> {}
       [] Admitting(w) /\ w.contract = "clear" /\ w.admit = "preempts" -> {PreemptionProposal(w)}
       [] Admitting(w) /\ acts = <<>> /\ (w.contract # "clear" \/ w.admit = "none") -> {Unplanned("bind", 0, "no_action")}
       [] OTHER -> {one(i) : i \in DOMAIN acts}

-----------------------------------------------------------------------------
(* generateDirectionalShareTarget: producers slow down, consumers speed up *)
Steering(w, s) ==
  LET producer == w.phase = "producer"
      high == s.pressure \in {"high", "critical"}
      slowDown == \/ producer /\ (w.ess \in 0..49 \/ w.stale = "yes")
                  \/ producer /\ (w.lag > 2 \/ high)
      speedUp == \/ w.phase = "consumer" /\ (w.lag > 2 \/ high)
                 \/ producer /\ s.pressure = "low" /\ w.stale # "yes" /\ w.lag <= 0
  IN CASE slowDown -> -1 [] ~slowDown /\ speedUp -> 1 [] OTHER -> 0

(* directionalObservationWindowElapsed, over the decisions passed back *)
WindowElapsed(a) ==
  \A i \in DOMAIN apRecent : a \in apRecent[i].steered => apRecent[i].age >= WindowTime

SteeredShare(w, s, a) ==
  LET share == apBox[a].share + Steering(w, s) IN IF share < 0 THEN 0 ELSE IF share > 10 THEN 10 ELSE share
Steers(w, s, a) == SteeredShare(w, s, a) # apBox[a].share /\ WindowElapsed(a)

(* directionalSignalUtility, less the recovery cost *)
SteeringUtility(w, s) ==
  LET count(c) == IF c THEN Utility.step ELSE 0
  IN Utility.set_share + count(s.pressure \in {"high", "critical"}) + count(w.lag > 0)
     + (IF w.phase = "producer" THEN count(w.stale = "yes") + count(w.ess \in 0..49) ELSE 0) - w.cost

(* hasPriorityDrift, hasResourceDrift: over the targets seen, however long ago *)
PriorityDrift(w, seen) == \E a \in seen : apBox[a].prio # w.want.prio
ResourceDrift(w, seen) == \E a \in seen : apBox[a].res # w.want.res
(* resizeGrowthEligibility; a smaller request always fits *)
ResizeGrowth(w, a) == IF w.want.res > apBox[a].res /\ "grow" \notin w.room THEN "insufficient" ELSE "eligible"

(* FastMutationPlanner *)
FastProposals(w, s) ==
  LET d == w.dir
      explicit == d.share >= 0 \/ d.prio >= 0 \/ d.resize \/ d.scaleIn
      seen == Filtered(Observed, d.only)
      targets == Filtered(FreshAt(w.tick), d.only)
      prio == IF d.prio < 0 /\ ~explicit /\ PriorityDrift(w, seen) THEN w.want.prio ELSE d.prio
      scaleIn == d.scaleIn \/ (~explicit /\ Cardinality(seen) > w.want.units)
      resize == d.resize \/ (~explicit /\ ResourceDrift(w, seen))
      share(a) == IF d.share >= 0 THEN d.share
                  ELSE IF explicit THEN -1
                  ELSE IF Steering(w, s) # 0 THEN IF Steers(w, s, a) THEN SteeredShare(w, s, a) ELSE -1
                  ELSE IF w.want.res <= 10 /\ apBox[a].share # w.want.res THEN w.want.res ELSE -1
      satisfied(c) == IF c THEN "satisfied" ELSE "eligible"
      resizing(a) == IF d.resize THEN "missing_target"
                     ELSE IF apBox[a].res = w.want.res THEN "satisfied"
                     ELSE ResizeGrowth(w, a)
      victim == CHOOSE a \in targets : \A b \in targets : b <= a
  IN IF d.share < 0 /\ prio < 0 /\ ~resize /\ ~scaleIn /\ Steering(w, s) = 0 THEN {}
     ELSE {Unplanned("none", a, "unobserved") : a \in Unobserved(w, d.only)}
          \cup {ActionProposal(w, "reconciliation", "set_share", a, share(a),
                   IF d.share < 0 /\ Steering(w, s) # 0 THEN SteeringUtility(w, s) ELSE Utility.set_share,
                   satisfied(share(a) = apBox[a].share), FALSE, d.share < 0 /\ Steering(w, s) # 0)
                 : a \in {b \in targets : share(b) >= 0}}
          \cup {ActionProposal(w, "reconciliation", "set_priority", a, prio, Utility.set_priority,
                   satisfied(apBox[a].prio = prio), FALSE, FALSE) : a \in IF prio >= 0 THEN targets ELSE {}}
          \cup {ActionProposal(w, "rebalance", "resize", a, w.want.res, Utility.resize, resizing(a), FALSE, FALSE)
                 : a \in IF resize THEN targets ELSE {}}
          \cup {ActionProposal(w, "reconciliation", "release", a, 0, Utility.release, "eligible", TRUE, FALSE)
                 : a \in IF scaleIn /\ Cardinality(targets) > w.want.units THEN {victim} ELSE {}}

-----------------------------------------------------------------------------
(* hasRecentSchedulerSuspension, recentSchedulerSuspension *)
Suspends(act) == act.type \in {"pause", "sleep", "offload"}
RecentActs == UNION {{apRecent[i].acts[j] : j \in DOMAIN apRecent[i].acts} : i \in DOMAIN apRecent}
RecentSuspension(w, a) ==
  /\ w.contract = "clear" /\ apBox[a].st \in {"paused", "sleeping"}
  /\ \E act \in RecentActs : Suspends(act) /\ act.target = a /\ act.gen = apBox[a].gen

(* lifecycleEligibility *)
LifecycleEligibility(type, a, sleepAfter, offloadAfter) ==
  LET box == apBox[a]
      young(after) == after > 0 /\ box.changed < after
  IN CASE type = "pause" -> IF box.st = "paused" THEN "satisfied" ELSE IF box.st = "running" THEN "eligible" ELSE "transition"
       [] type = "resume" -> IF box.st = "running" THEN "satisfied"
                             ELSE IF box.st \in {"paused", "sleeping"} THEN "eligible" ELSE "transition"
       [] type = "sleep" -> IF box.st = "sleeping" /\ ~box.off THEN "satisfied"
                            ELSE IF box.st \notin {"running", "paused"} THEN "transition"
                            ELSE IF young(sleepAfter) THEN "age" ELSE "eligible"
       [] OTHER -> IF box.off THEN "satisfied"
                   ELSE IF box.st \notin {"running", "paused", "sleeping"} THEN "transition"
                   ELSE IF young(offloadAfter) THEN "age" ELSE "eligible"

(* mediumSignalEligibility: suspending fails closed on any unknown signal *)
MediumSignalEligibility(s, type, a) ==
  IF type = "resume" THEN IF s.inflight = "yes" THEN "in_flight" ELSE "eligible"
  ELSE IF s.capable = "yes" /\ s.below = "yes" /\ s.resid >= 0 /\ apBox[a].changed >= s.resid /\ s.inflight = "no"
  THEN "eligible" ELSE "signals"

(* MediumLifecyclePlanner: a contract's pause ignores the caller's filter *)
MediumProposals(w, s) ==
  LET d == w.dir
      contractPause == w.contract = "pause"
      autoResume == \E act \in RecentActs : Suspends(act)
      sleepAfter == IF w.phase = "idle" /\ d.sleepAfter = 0 THEN ApIdle.sleep ELSE d.sleepAfter
      offloadAfter == IF w.phase = "idle" /\ d.offloadAfter = 0 THEN ApIdle.offload ELSE d.offloadAfter
      only == IF contractPause THEN {} ELSE d.only
      autoOffload(a) == offloadAfter > 0 /\ apBox[a].changed >= offloadAfter
      autoSleep(a) == sleepAfter > 0 /\ apBox[a].changed >= sleepAfter /\ ~autoOffload(a)
      enabled(a) == (IF contractPause \/ d.state = "paused" THEN {"pause"} ELSE {})
                    \cup (IF RecentSuspension(w, a) \/ d.state = "running" THEN {"resume"} ELSE {})
                    \cup (IF autoSleep(a) \/ d.state = "sleeping" THEN {"sleep"} ELSE {})
                    \cup (IF autoOffload(a) \/ d.offload THEN {"offload"} ELSE {})
      reason(type, a) == LET r == LifecycleEligibility(type, a, sleepAfter, offloadAfter)
                         IN IF r = "eligible" THEN MediumSignalEligibility(s, type, a) ELSE r
      purpose(type) == IF type = "resume" THEN "recovery" ELSE "reconciliation"
  IN IF ~contractPause /\ ~autoResume /\ ~d.offload /\ sleepAfter = 0 /\ offloadAfter = 0 /\ d.state = "any" THEN {}
     ELSE {Unplanned("none", a, "unobserved") : a \in Unobserved(w, only)}
          \cup UNION {{ActionProposal(w, purpose(type), type, a, 0, Utility[type], reason(type, a), type # "resume", FALSE)
                        : type \in enabled(a)} : a \in Filtered(FreshAt(w.tick), only)}

(* targetHasUnhealthyDevice *)
Unhealthy(a) == apBox[a].dev = "bad"
Broken(a) == apBox[a].st = "failed"

(* slowUtility *)
SlowUtility(w, s, type, a) ==
  Utility[type] - w.cost - (IF s.capable = "yes" THEN 0 ELSE Utility.risk)
  + (IF (type = "recreate" /\ Broken(a)) \/ (type = "rebind" /\ Unhealthy(a)) THEN Utility.benefit ELSE 0)

(* validateReplacementBinding; room holds what the engine finds: "rebind" a   *)
(* place on another device, "recreate" that the same device still fits        *)
ReplacementReason(w, type, a) ==
  IF type \in w.room /\ (type = "recreate" => Broken(a) /\ ~Unhealthy(a)) THEN "eligible" ELSE "replacement"

(* SlowReconfigurationPlanner *)
SlowProposals(w, s) ==
  LET d == w.dir
      reason(type, a) == IF ReplacementReason(w, type, a) = "eligible" /\ ~(w.safe /\ apBox[a].safe)
                         THEN "safe_point" ELSE ReplacementReason(w, type, a)
      enabled(a) == (IF Unhealthy(a) \/ d.rebind THEN {"rebind"} ELSE {})
                    \cup (IF Broken(a) \/ d.recreate THEN {"recreate"} ELSE {})
      purpose(type, a) == IF type = "recreate" \/ Unhealthy(a) THEN "recovery" ELSE "rebalance"
  IN IF /\ ~d.rebind /\ ~d.recreate
        /\ (\A a \in apActive : ~Unhealthy(a)) /\ (\A a \in Filtered(Observed, d.only) : ~Broken(a))
     THEN {}
     ELSE {Unplanned("none", a, "unobserved") : a \in Unobserved(w, d.only)}
          \cup UNION {{ActionProposal(w, purpose(type, a), type, a, 0, SlowUtility(w, s, type, a), reason(type, a), TRUE, FALSE)
                        : type \in enabled(a)} : a \in Filtered(FreshAt(w.tick), d.only)}

PlannerProposals(w, s) ==
  AdmissionProposals(w) \cup CASE w.tick = "fast" -> FastProposals(w, s)
                               [] w.tick = "medium" -> MediumProposals(w, s)
                               [] OTHER -> SlowProposals(w, s)

-----------------------------------------------------------------------------
(* plannerPriority, then utility, planner, type and target *)
PlannerPriority(w, p) ==
  IF p.type = "pause" /\ w.contract # "clear" THEN 0
  ELSE [recovery |-> 1, preemption |-> 2, admission |-> 3, rebalance |-> 4, reconciliation |-> 5][p.purpose]
TypeOrder(type) ==
  [none |-> 0, set_share |-> 1, set_priority |-> 2, pause |-> 3, resume |-> 4, sleep |-> 5, offload |-> 6,
   rebind |-> 7, recreate |-> 8, bind |-> 9, release |-> 10, resize |-> 11][type]
Ahead(w, p, q) ==
  LET key(r) == <<PlannerPriority(w, r), 1000 - r.utility,
                  IF r.purpose \in {"admission", "preemption"} THEN 0 ELSE 1, TypeOrder(r.type), r.target>>
      first == CHOOSE i \in 1..6 : /\ i < 6 => key(p)[i] # key(q)[i]
                                   /\ \A j \in 1..(i - 1) : key(p)[j] = key(q)[j]
  IN first < 6 /\ key(p)[first] < key(q)[first]

(* classifyPlanMerge *)
MergeClass(p) ==
  IF p.purpose = "admission" THEN "admission"
  ELSE IF \A i \in DOMAIN p.acts : p.acts[i].type \in {"set_share", "set_priority", "pause", "resume", "sleep", "offload"}
  THEN "lifecycle" ELSE "exclusive"

ActTargets(acts) == {acts[i].target : i \in DOMAIN acts}
Reconfigurations(p) == Cardinality({i \in DOMAIN p.acts : LevelForAction(p.acts[i].type) = 4})
(* conflictsWithSelected, compatibleSameTargetActions *)
Conflicts(p, acts) ==
  \E i \in DOMAIN p.acts, j \in DOMAIN acts :
    /\ p.acts[i].target = acts[j].target
    /\ {p.acts[i].type, acts[j].type} # {"set_share", "set_priority"}

(* arbitrateProposals, one proposal: taken only if every budget still allows it *)
Arbitrate(b, sel, p) ==
  LET acts == FlattenSeq([i \in DOMAIN sel |-> sel[i].acts])
      spent == FoldLeft(LAMBDA n, q : n + q.cost, 0, sel)
      l4s == FoldLeft(LAMBDA n, q : n + Reconfigurations(q), 0, sel)
      fits == /\ p.acts # <<>> /\ p.reason = "eligible"
              /\ sel # <<>> => p.purpose = sel[1].purpose
              /\ Len(acts) + Len(p.acts) <= b.actions
              /\ Cardinality(ActTargets(acts) \cup ActTargets(p.acts)) <= b.boxes
              /\ l4s + Reconfigurations(p) <= b.gpus
              /\ Reconfigurations(p) > 0 => ~ApBudget.noL4
              /\ ApBudget.cost > 0 => spent + p.cost <= ApBudget.cost
              /\ sel # <<>> => MergeClass(sel[1]) # "exclusive" /\ MergeClass(p) = MergeClass(sel[1])
              /\ ~Conflicts(p, acts)
  IN IF fits THEN Append(sel, p) ELSE sel

(* mutated: only the allocations that were observed have to be paused *)
PauseActionsCompleteObserved(w, acts) ==
  LET paused == {acts[i].target : i \in {j \in DOMAIN acts : acts[j].type = "pause"}}
      already == {a \in FreshAt(w.tick) : apBox[a].st = "paused"}
  IN apActive # {} /\ FreshAt(w.tick) \subseteq paused \cup already

(* contractPauseActionsComplete: every active allocation, whatever the filter *)
PauseActionsComplete(w, acts) ==
  LET paused == {acts[i].target : i \in {j \in DOMAIN acts : acts[j].type = "pause"}}
      already == {a \in FreshAt(w.tick) : apBox[a].st = "paused"}
  IN apActive # {} /\ apActive \subseteq paused \cup already

(* mutated: the merged plan keeps the first proposal's rollback declaration *)
MergeSelectedPlansAsFirst(w, sel) ==
  [sel[1] EXCEPT !.acts = FlattenSeq([i \in DOMAIN sel |-> sel[i].acts]),
                 !.affected = UNION {sel[i].affected : i \in DOMAIN sel},
                 !.steered = UNION {sel[i].steered : i \in DOMAIN sel}]

(* mergeSelectedPlans *)
MergeSelectedPlans(w, sel) ==
  LET acts == FlattenSeq([i \in DOMAIN sel |-> sel[i].acts])
      admitted == AdmissionActions(w)
      all(key(_)) == UNION {key(sel[i]) : i \in DOMAIN sel}
  IN IF Admitting(w) /\ w.admit = "binds" /\ sel[1].purpose = "admission" /\ Len(sel) = Len(admitted)
     THEN WholeAdmission(admitted)
     ELSE IF Len(sel) = 1 THEN sel[1]
     ELSE [sel[1] EXCEPT !.acts = acts, !.affected = all(LAMBDA p : p.affected),
                         !.steered = all(LAMBDA p : p.steered), !.policy = "required",
                         !.caps = all(LAMBDA p : p.caps) \cup {"ordered", "compensate"}]

(* Coordinator.Plan: a plan, convergence, or a fallback *)
CoordinatorPlan(w) ==
  LET s == NormalizePlanningSignals(w)
      proposals == PlannerProposals(w, s)
      b == NormalizePlannerBudget(s.budget)
      selected(all) == FoldLeft(LAMBDA acc, p : Arbitrate(b, acc, p), <<>>,
                                SetToSortSeq(all, LAMBDA p, q : Ahead(w, p, q)))
      answer(all, sel, plan) ==
        LET complete == sel # <<>> /\ (w.contract = "pause" => PauseActionsComplete(w, plan.acts))
        IN CASE complete -> [kind |-> "plan", plan |-> plan]
             [] ~complete /\ (\A p \in all : p.reason \in {"satisfied", "tick"}) ->
                  [kind |-> "converged", plan |-> Unplanned("none", 0, "none")]
             [] OTHER -> [kind |-> "fallback", plan |-> Unplanned("none", 0, "none")]
      merged(all, sel) == answer(all, sel, MergeSelectedPlans(w, sel))
  IN merged(proposals, selected(proposals))

(* plannerResultSatisfiesPause *)
SatisfiesPause(w, acts) == (\A i \in DOMAIN acts : acts[i].type = "pause") /\ PauseActionsComplete(w, acts)

(* EvaluateAdaptive up to the guard *)
AdaptiveOutcome(w, r) ==
  IF r.kind # "plan" /\ Admitting(w) THEN "fallback"
  ELSE IF w.contract # "clear" /\ ~SatisfiesPause(w, r.plan.acts) THEN "fallback"
  ELSE IF r.kind # "plan" THEN r.kind
  ELSE IF ~ValidatePlan(r.plan, w.tick) THEN "policy" ELSE "selected"

-----------------------------------------------------------------------------
Running == [st |-> "running", off |-> FALSE, share |-> 5, prio |-> 1, res |-> 5, gen |-> 1,
            safe |-> TRUE, dev |-> "ready", changed |-> MaxApAge, seen |-> 0]
Decision(acts, steered, fallback, result, contract, age) ==
  [acts |-> acts, steered |-> steered, fallback |-> fallback, result |-> result, contract |-> contract, age |-> age]

(* an intent just published, or one whose units were admitted and run *)
ApInit ==
  /\ apActive \in {{}, ApAllocs}
  /\ apBox = [a \in ApAllocs |-> Running]
  /\ apRecent = IF apActive = {} THEN <<>>
                ELSE <<Decision(<<[type |-> "bind", target |-> 0, value |-> 5, gen |-> 0, fenced |-> FALSE]>>,
                                {}, FALSE, "success", "clear", WindowTime)>>
  /\ apPlan = NoApPlan /\ apOutcome = [kind |-> "none", contract |-> "clear"]
  /\ apSince = [a \in ApAllocs |-> WindowTime]
  /\ apRounds = 0 /\ apChanges = 0 /\ apTicks = 0

(* appendDecision; recentDecisionsForIntent passes back the newest ones *)
Remember(d) ==
  apRecent' = LET all == Append(apRecent, d)
              IN IF Len(all) > DecisionWindow THEN Tail(all) ELSE all

(* shouldSuppressDecision: signatures of two converged decisions are equal   *)
(* when nothing was confirmed between them, which is left open               *)
FollowsSuccess(w) ==
  /\ Cardinality(apActive) >= w.want.units
  /\ \E i \in DOMAIN apRecent : /\ ~apRecent[i].fallback /\ apRecent[i].acts # <<>>
                                /\ apRecent[i].contract = w.contract
FollowsConverged(w) ==
  /\ Cardinality(apActive) >= w.want.units
  /\ \E i \in DOMAIN apRecent : ~apRecent[i].fallback /\ apRecent[i].acts = <<>>

(* shouldEvaluateAdaptively: the trigger's cause lets an intent without labels *)
(* through only when it is a provider's event alone, or manual                 *)
ShouldEvaluateAdaptively(w) ==
  /\ w.cause # "publish_intent"
  /\ [w.dir EXCEPT !.only = {}] = NoDirectives => Observed # {} /\ w.cause \in {"provider_event", "manual"}

(* evaluateIntent and what reconcile does with the answer, up to Stage *)
EvaluateAdaptive(w) ==
  LET answer(kind) == apOutcome' = [kind |-> kind, contract |-> w.contract]
      fellBack(steered) == Remember(Decision(<<>>, steered, TRUE, "none", w.contract, 0)) /\ UNCHANGED apPlan
  IN /\ ShouldEvaluateAdaptively(w)
     /\ apPlan = NoApPlan /\ apRounds < MaxApRounds /\ apRounds' = apRounds + 1
     /\ \E r \in {CoordinatorPlan(w)} :
        \E o \in {IF w.malformed \/ SignalError(w) THEN "error" ELSE AdaptiveOutcome(w, r)} :
        \/ o = "error" /\ answer("error") /\ UNCHANGED <<apRecent, apPlan>>
        \/ o \in {"fallback", "policy"} /\ answer(o) /\ fellBack({})
        \/ o = "selected" /\ answer("fallback") /\ fellBack({})                 \* the guard refuses
        \/ o = "selected" /\ answer("fallback") /\ fellBack(r.plan.steered)     \* Stage refuses
        \/ /\ o = "converged" /\ answer("converged") /\ UNCHANGED apPlan
           /\ \/ (FollowsSuccess(w) \/ FollowsConverged(w)) /\ UNCHANGED apRecent
              \/ ~FollowsSuccess(w) /\ Remember(Decision(<<>>, {}, FALSE, "none", w.contract, 0))
        \/ /\ o = "selected" /\ answer("selected") /\ UNCHANGED apRecent
           /\ apPlan' = [purpose |-> r.plan.purpose, acts |-> r.plan.acts, policy |-> r.plan.policy,
                         caps |-> r.plan.caps, affected |-> r.plan.affected, steered |-> r.plan.steered,
                         contract |-> w.contract, age |-> 0]
     /\ UNCHANGED <<apActive, apBox, apSince, apChanges, apTicks>>

-----------------------------------------------------------------------------
(* the provider: applyActionLocked, with its fences *)
Applies(act) ==
  LET box == apBox[act.target]
  IN \/ act.type = "bind" \/ act.target = 0
     \/ /\ act.target \in apActive /\ act.gen = box.gen /\ (act.fenced => box.safe)
        /\ act.type = "pause" => box.st = "running"
        /\ act.type = "resume" => box.st \in {"paused", "sleeping"}
        /\ act.type = "sleep" => box.st \in {"running", "paused"}
        /\ act.type = "offload" => box.st \in {"running", "paused", "sleeping"}
Applied(box, act) ==
  LET to(st, off) == [box EXCEPT !.st = st, !.off = off, !.changed = 0, !.seen = 0]
  IN CASE act.type = "bind" -> [Running EXCEPT !.st = "bound", !.share = act.value, !.res = act.value,
                                               !.safe = FALSE, !.changed = 0]
       [] act.type = "set_share" -> [box EXCEPT !.share = act.value, !.seen = 0]
       [] act.type = "set_priority" -> [box EXCEPT !.prio = act.value, !.seen = 0]
       [] act.type = "resize" -> [box EXCEPT !.res = act.value, !.seen = 0]
       [] act.type = "pause" -> to("paused", box.off)
       [] act.type = "resume" -> to("running", FALSE)
       [] act.type = "sleep" -> to("sleeping", box.off)
       [] act.type = "offload" -> IF box.st = "sleeping" THEN [box EXCEPT !.off = TRUE, !.seen = 0] ELSE to("sleeping", TRUE)
       [] act.type \in {"rebind", "recreate"} ->
            [to("bound", FALSE) EXCEPT !.gen = box.gen + 1, !.dev = "ready"]
       [] OTHER -> box
ApplyPlan(acts) ==
  LET mine == SelectSeq(acts, LAMBDA act : act.target # 0)
      released == {mine[i].target : i \in {j \in DOMAIN mine : mine[j].type = "release"}}
      bound == {mine[i].target : i \in {j \in DOMAIN mine : mine[j].type = "bind"}}
  IN /\ apBox' = FoldLeft(LAMBDA boxes, act : [boxes EXCEPT ![act.target] = Applied(@, act)], apBox, mine)
     /\ apActive' = (apActive \ released) \cup bound

(* Resume and the decision that records its outcome; a plan whose outcome is  *)
(* unknown may have been applied                                              *)
ExecutePlan ==
  LET applicable == \A i \in DOMAIN apPlan.acts : Applies(apPlan.acts[i])
      record(result) == Remember(Decision(apPlan.acts, apPlan.steered, result # "success", result, apPlan.contract, apPlan.age))
  IN /\ apPlan # NoApPlan /\ apPlan' = NoApPlan
     /\ \/ /\ applicable /\ ApplyPlan(apPlan.acts) /\ record("success")
           /\ apSince' = [a \in ApAllocs |-> IF a \in apPlan.steered THEN apPlan.age ELSE apSince[a]]
        \/ record("failed") /\ UNCHANGED <<apActive, apBox, apSince>>
        \/ \E result \in {"unknown", "none"} :
             record(result) /\ UNCHANGED <<apActive, apBox, apSince>>
        \/ applicable /\ ApplyPlan(apPlan.acts) /\ record("unknown") /\ UNCHANGED apSince
     /\ UNCHANGED <<apOutcome, apRounds, apChanges, apTicks>>

(* the provider watch projects a change of a sandbox or of its device, drops  *)
(* its match, or only confirms it                                             *)
Changed(box) ==
  {[box EXCEPT !.seen = 0]}
    \cup {[box EXCEPT !.seen = 0, !.st = "failed", !.changed = 0]}
    \cup (IF box.st = "bound" THEN {[box EXCEPT !.seen = 0, !.st = "running", !.safe = TRUE, !.changed = 0]} ELSE {})
    \cup {[box EXCEPT !.seen = 0, !.safe = ~box.safe]}
    \cup {[box EXCEPT !.dev = IF box.dev = "bad" THEN "ready" ELSE "bad"]}
    \cup {[box EXCEPT !.seen = -1]}
Observe(a) ==
  /\ a \in apActive /\ apChanges < MaxApChanges /\ apChanges' = apChanges + 1
  /\ \E box \in Changed(apBox[a]) : apBox' = [apBox EXCEPT ![a] = box]
  /\ UNCHANGED <<apActive, apRecent, apPlan, apOutcome, apSince, apRounds, apTicks>>

ApTick ==
  /\ apTicks < MaxApTicks /\ apTicks' = apTicks + 1
  /\ apBox' = [a \in ApAllocs |-> [apBox[a] EXCEPT !.changed = Aged(@, MaxApAge),
                                                 !.seen = IF @ < 0 THEN @ ELSE Aged(@, MaxApAge)]]
  /\ apRecent' = [i \in DOMAIN apRecent |-> [apRecent[i] EXCEPT !.age = Aged(@, WindowTime)]]
  /\ apPlan' = IF apPlan = NoApPlan THEN apPlan ELSE [apPlan EXCEPT !.age = Aged(@, WindowTime)]
  /\ apSince' = [a \in ApAllocs |-> Aged(apSince[a], WindowTime)]
  /\ UNCHANGED <<apActive, apOutcome, apRounds, apChanges>>

ApNext == (\E w \in ApInputs : EvaluateAdaptive(w)) \/ ExecutePlan \/ (\E a \in ApAllocs : Observe(a)) \/ ApTick

-----------------------------------------------------------------------------
(* Under a blocking contract the scheduler answers with a plan, or with "no   *)
(* change", only if every active allocation is freshly seen paused or paused  *)
(* by that plan, and the plan does nothing else; otherwise it falls back      *)
(* (contractPauseActionsComplete, plannerResultSatisfiesPause).               *)
PauseCoversAll ==
  [][apRounds' # apRounds /\ apOutcome'.contract # "clear" /\ apOutcome'.kind \in {"selected", "converged"}
     => LET acts == apPlan'.acts
        IN /\ \A i \in DOMAIN acts : acts[i].type = "pause"
           /\ \A a \in apActive : (\A i \in DOMAIN acts : acts[i].target # a)
                => apBox[a].st = "paused" /\ apBox[a].seen \in 0..ApFreshness.slow]_apVars

(* Whatever arbitration merges, the action policy accepts: a merged plan      *)
(* declares the compensation, capabilities and targets that its actions need  *)
(* (mergeSelectedPlans, actionpolicy.ValidatePlan).                           *)
SelectedIsValid == apOutcome.kind # "policy"

(* After a directional share step that took effect, the same target is not    *)
(* stepped again within the observation window                                *)
(* (directionalObservationWindowElapsed over recentDecisionsForIntent).  The  *)
(* code does not keep it when the step has left the recent decisions.         *)
NoEarlyRetune ==
  [][\A a \in apPlan'.steered : a \notin apPlan.steered => apSince[a] >= WindowTime]_apVars
=============================================================================

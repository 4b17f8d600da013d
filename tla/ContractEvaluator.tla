-------------------------- MODULE ContractEvaluator --------------------------
(***************************************************************************)
(* The Scheduler's contract evaluator (scheduler-go/semantics): facts and  *)
(* component versions are collected from observations of different         *)
(* authority and age, each clause of an execution contract is evaluated    *)
(* over them in a logic with unknown values, and the evaluations are       *)
(* aggregated into one answer: may this intent be planned now?             *)
(*                                                                         *)
(* Three fact paths stand for all: the safe point (boolean, resolved from  *)
(* observations or annotations), the buffer level (read by backpressure)   *)
(* and the effective sample size (which may be reported invalid).  A       *)
(* contract has one clause of any kind and at most one critical-fact       *)
(* policy; as a clause reads facts or versions, never both, a behaviour    *)
(* collects one of the two.  Evidence, details and ids are left out.       *)
(***************************************************************************)
EXTENDS Integers, Sequences, FiniteSets

CONSTANTS EvalTime,       \* EvaluationContext.evaluation_time
          ObservedTimes,  \* times observations carry
          FactValues,     \* values of a numeric fact; 0 and 1 are false and true
          Versions,       \* versions: [syntax, core, pre]
          Clauses,        \* clauses over facts
          VersionClauses, \* version constraints
          Policies,       \* observation policies: [missing, stale, age]
          MaxObservations \* bound: facts and versions registered

VARIABLES evFacts,    \* factRegistry.values, metadata, origins, issues
          evVersions, \* componentRegistry.entries
          evDevices,  \* the snapshot's devices: "none", "unknown", "cpu", "gpu"
          evAt,       \* ContractObservation.observed_at
          evStage,    \* what is being registered, "evaluated" or "error"
          evContract, \* the clause and the policies it was evaluated with
          evAnswer,   \* AggregateResult
          evCount     \* bound
evVars == <<evFacts, evVersions, evDevices, evAt, evStage, evContract, evAnswer, evCount>>

NoTime == 0 - 1
Paths == {"safe_point", "buffer_level", "sample_size"}
KindOf(path) == IF path = "safe_point" THEN "bool" ELSE "number"
ValuesOf(path) == IF path = "safe_point" THEN {0, 1} ELSE FactValues
NoFact == [known |-> FALSE, value |-> 0, at |-> NoTime, origin |-> 0, issue |-> FALSE]
NoPolicy == [missing |-> "none", stale |-> "none", age |-> NoTime]

Components == {"protocol", "driver_a", "driver_b"}
ComponentKind(name) == IF name = "protocol" THEN "protocol" ELSE "cuda_driver"
NoComponent == [priority |-> 0, version |-> CHOOSE v \in Versions : TRUE, at |-> NoTime, conflict |-> FALSE]
BuiltIn == 3
ProtocolVersion == [syntax |-> TRUE, core |-> <<0, 3>>, pre |-> <<>>]

EvInit ==
  /\ evFacts = [p \in Paths |-> NoFact]
  /\ evVersions = [c \in Components |-> IF c = "protocol"
       THEN [NoComponent EXCEPT !.priority = BuiltIn, !.version = ProtocolVersion] ELSE NoComponent]
  /\ \/ evStage = "safe_point" /\ evAt \in ObservedTimes \cup {NoTime} /\ evDevices = "none"
     \/ evStage = "versions" /\ evAt = NoTime /\ evDevices \in {"none", "unknown", "cpu", "gpu"}
  /\ evContract = <<>> /\ evAnswer = <<>> /\ evCount = 0

-----------------------------------------------------------------------------
(* register: a second observation of a path must agree; the metadata kept is  *)
(* that of the highest origin (built-in, legacy, explicit).                   *)
RegisterConflicts(fact, value, origin) ==
  \/ fact.issue
  \/ fact.known /\ (fact.value # value \/ (origin = 3 /\ fact.origin = 3))
Registered(fact, value, at, origin) ==
  IF fact.known /\ origin <= fact.origin THEN fact
  ELSE [known |-> TRUE, value |-> value, at |-> at, origin |-> origin, issue |-> FALSE]

(* ResolveSafePoint: the context's observation, the intent's, then the first   *)
(* annotation present, which also marks the path; one that does not parse      *)
(* marks it without a value.                                                   *)
ResolveSafePoint(context, intent, annotations) ==
  LET observed == IF context # "absent" THEN context ELSE intent
      present == {i \in DOMAIN annotations : annotations[i] # "absent"}
      note == IF present = {} THEN "absent"
              ELSE annotations[CHOOSE i \in present : \A j \in present : i <= j]
      fact(s) == Registered(NoFact, IF s = "true" THEN 1 ELSE 0, NoTime, 1)
  IN CASE observed # "absent" -> fact(observed)
       [] observed = "absent" /\ note \in {"true", "false"} -> [fact(note) EXCEPT !.issue = TRUE]
       [] observed = "absent" /\ note = "garbage" -> [NoFact EXCEPT !.issue = TRUE]
       [] OTHER -> NoFact
CollectSafePoint(context, intent, annotations) ==
  /\ evStage = "safe_point" /\ evStage' = "legacy"
  /\ evFacts' = [evFacts EXCEPT !["safe_point"] = ResolveSafePoint(context, intent, annotations)]
  /\ UNCHANGED <<evVersions, evDevices, evAt, evContract, evAnswer, evCount>>

(* buildFacts: legacy fields and typed facts carry the observation's time, *)
(* explicit ones (origin 3) their own; a conflict fails the evaluation.    *)
CollectFact(path, value, at, origin) ==
  /\ evCount < MaxObservations /\ evCount' = evCount + 1
  /\ \/ evStage = "legacy" /\ origin = 2 /\ at = evAt
     \/ evStage \in {"legacy", "explicit"} /\ origin = 3 /\ at # NoTime
  /\ IF RegisterConflicts(evFacts[path], value, origin)
     THEN evStage' = "error" /\ UNCHANGED evFacts
     ELSE /\ evFacts' = [evFacts EXCEPT ![path] = Registered(@, value, at, origin)]
          /\ evStage' = IF origin = 3 THEN "explicit" ELSE evStage
  /\ UNCHANGED <<evVersions, evDevices, evAt, evContract, evAnswer>>

(* buildFacts: a legacy sample size that is negative or not finite *)
CollectInvalid ==
  /\ evStage = "legacy" /\ ~evFacts["sample_size"].known /\ ~evFacts["sample_size"].issue
  /\ evCount < MaxObservations /\ evCount' = evCount + 1
  /\ evFacts' = [evFacts EXCEPT !["sample_size"].issue = TRUE]
  /\ UNCHANGED <<evVersions, evDevices, evAt, evStage, evContract, evAnswer>>

(* componentRegistry.add: observations (2) before devices' capabilities (1);   *)
(* a lower priority is ignored, a different version of the same one conflicts. *)
CollectVersion(name, version, at, priority) ==
  LET entry == evVersions[name]
  IN /\ evStage \in {"versions", "devices"} /\ evCount < MaxObservations
     /\ priority = 2 => evStage # "devices"
     /\ priority = 1 => evDevices # "none" /\ name # "protocol"
     /\ evStage' = IF priority = 1 THEN "devices" ELSE evStage
     /\ evVersions' = [evVersions EXCEPT ![name] =
          IF priority > entry.priority
          THEN [priority |-> priority, version |-> version, at |-> at, conflict |-> FALSE]
          ELSE IF priority = entry.priority /\ version # entry.version
          THEN [entry EXCEPT !.conflict = TRUE] ELSE entry]
     /\ evCount' = evCount + 1
     /\ UNCHANGED <<evFacts, evDevices, evAt, evContract, evAnswer>>

-----------------------------------------------------------------------------
(* observationState and observationGuard *)
ObservationState(path, policy) ==
  LET fact == evFacts[path]
  IN IF ~fact.known THEN "missing"
     ELSE IF fact.at # NoTime /\ EvalTime < fact.at THEN "stale"
     ELSE IF policy.age = NoTime THEN "fresh"
     ELSE IF fact.at = NoTime \/ EvalTime - fact.at > policy.age THEN "stale" ELSE "fresh"
DispositionOf(path, policies) ==
  IF policies[path] = NoPolicy THEN "none"
  ELSE CASE ObservationState(path, policies[path]) = "fresh" -> "none"
         [] ObservationState(path, policies[path]) = "missing" -> policies[path].missing
         [] OTHER -> policies[path].stale
StatusFor(disposition) ==
  CASE disposition = "na" -> "na" [] disposition = "block" -> "violated" [] OTHER -> "indeterminate"
ActionForDisposition(disposition) ==
  CASE disposition \in {"na", "degrade"} -> "allow" [] disposition = "hold" -> "pause" [] OTHER -> "reject"
Rank(disposition) ==
  CASE disposition = "block" -> 4 [] disposition = "hold" -> 3 [] disposition = "degrade" -> 2
    [] disposition = "na" -> 1 [] OTHER -> 0
Stronger(left, right) == IF Rank(right) > Rank(left) THEN right ELSE left

Outcome(status, disposition) == [status |-> status, disposition |-> disposition]

(* compareValues: values of two kinds do not compare, booleans have no order; *)
(* IN takes the first candidate that matches or does not compare.              *)
Compare(op, left, leftKind, right, rightKind) ==
  IF leftKind # rightKind \/ (leftKind = "bool" /\ op = "ge") THEN "error"
  ELSE IF (op = "eq" /\ left = right) \/ (op = "ne" /\ left # right) \/ (op = "ge" /\ left >= right)
  THEN "true" ELSE "false"
CompareList(op, left, leftKind, list) ==
  LET found(i) == Compare("eq", left, leftKind, list[i].value, list[i].kind)
      decisive == {i \in DOMAIN list : found(i) # "false"}
      answer == IF decisive = {} THEN "false" ELSE found(CHOOSE i \in decisive : \A j \in decisive : i <= j)
  IN IF op = "in" \/ answer = "error" THEN answer ELSE IF answer = "true" THEN "false" ELSE "true"

(* evalExists and evalBinaryCondition *)
EvalLeaf(cond, policies) ==
  LET fact == evFacts[cond.path]
      guard(p) == DispositionOf(p, policies)
      result == IF cond.op \in {"in", "not_in"} THEN CompareList(cond.op, fact.value, KindOf(cond.path), cond.list)
                ELSE IF cond.other # "operand" THEN
                  Compare(cond.op, fact.value, KindOf(cond.path), evFacts[cond.other].value, KindOf(cond.other))
                ELSE Compare(cond.op, fact.value, KindOf(cond.path), cond.operand, "number")
  IN IF guard(cond.path) # "none" THEN Outcome(StatusFor(guard(cond.path)), guard(cond.path))
     ELSE IF cond.op = "exists"
     THEN Outcome(IF fact.known THEN "satisfied" ELSE IF fact.issue THEN "indeterminate" ELSE "violated", "none")
     ELSE IF cond.other # "operand" /\ guard(cond.other) # "none"
     THEN Outcome(StatusFor(guard(cond.other)), guard(cond.other))
     ELSE IF ~fact.known \/ (cond.other # "operand" /\ ~evFacts[cond.other].known) \/ result = "error"
     THEN Outcome("indeterminate", "none")
     ELSE Outcome(IF result = "true" THEN "satisfied" ELSE "violated", "none")

(* evalLogicalNOT: an unavailable observation is not negated *)
Negated(r) ==
  IF r.disposition # "none" THEN r
  ELSE CASE r.status = "satisfied" -> Outcome("violated", "none")
         [] r.status = "violated" -> Outcome("satisfied", "none") [] OTHER -> r

(* mutated: only the last predicate's doubt survives *)
CombinedLast(op, a, b) ==
  LET stop == IF op = "and" THEN "violated" ELSE "satisfied"
      kept(r) == Outcome(stop, IF op = "and" THEN r.disposition ELSE "none")
  IN IF a.status = stop THEN kept(a) ELSE IF b.status = stop THEN kept(b)
     ELSE Outcome(IF b.status = "indeterminate" THEN "indeterminate"
                  ELSE IF op = "and" THEN "satisfied" ELSE "violated",
                  Stronger(Stronger("none", a.disposition), b.disposition))

(* evalLogicalAND and evalLogicalOR over two predicates: the first that decides *)
(* ends it, with its own disposition for AND and none for OR; otherwise any     *)
(* doubt is kept, with the strongest disposition met.                           *)
Combined(op, a, b) ==
  LET stop == IF op = "and" THEN "violated" ELSE "satisfied"
      kept(r) == Outcome(stop, IF op = "and" THEN r.disposition ELSE "none")
  IN IF a.status = stop THEN kept(a) ELSE IF b.status = stop THEN kept(b)
     ELSE Outcome(IF "indeterminate" \in {a.status, b.status} THEN "indeterminate"
                  ELSE IF op = "and" THEN "satisfied" ELSE "violated",
                  Stronger(Stronger("none", a.disposition), b.disposition))

RECURSIVE EvalCondition(_, _)
EvalCondition(cond, policies) ==
  CASE cond.op = "not" -> Negated(EvalCondition(cond.a, policies))
    [] cond.op \in {"and", "or"} ->
         Combined(cond.op, EvalCondition(cond.a, policies), EvalCondition(cond.b, policies))
    [] OTHER -> EvalLeaf(cond, policies)

ActionFor(status, mode) ==
  IF status \in {"satisfied", "na"} THEN "allow"
  ELSE CASE mode = "abort" -> "abort" [] mode = "pause" -> "pause" [] OTHER -> "reject"

-----------------------------------------------------------------------------
(* compareSemanticVersions and protocolCompatible.  A pre-release identifier   *)
(* is a number below 100 or, from 100, a word; a prefix is older.              *)
PreOlder(left, right) ==
  \E i \in 1..(Len(left) + 1) :
    /\ \A j \in 1..(i - 1) : j <= Len(right) /\ left[j] = right[j]
    /\ i <= Len(right) /\ (i > Len(left) \/ left[i] < right[i])
Older(left, right) ==
  \/ left.core[1] < right.core[1]
  \/ left.core[1] = right.core[1] /\ left.core[2] < right.core[2]
  \/ /\ left.core = right.core /\ left.pre # <<>>
     /\ right.pre = <<>> \/ PreOlder(left.pre, right.pre)
ProtocolCompatible(current, required) ==
  /\ current.core[1] = required.core[1] /\ ~Older(current, required)
  /\ current.core[1] = 0 => current.core[2] = required.core[2]

(* parseSemanticVersion has accepted the version; what it refuses is only ever *)
(* matched exactly.                                                            *)
Parses(version) == version.syntax

(* evaluateVersionMatch *)
VersionMatches(current, c) ==
  IF c.match = "exact"
  THEN current = c.version /\ (Parses(current) /\ current.pre # <<>> => c.prerelease)
  ELSE /\ Parses(current) /\ Parses(c.version)
       /\ current.pre # <<>> \/ c.version.pre # <<>> => c.prerelease
       /\ IF c.match = "semver" THEN ~Older(current, c.version) ELSE ProtocolCompatible(current, c.version)

(* componentRegistry.resolve: an alias names the only component of its kind *)
Resolved(c) ==
  IF ~c.alias THEN {n \in {c.component} : evVersions[n].priority > 0}
  ELSE {n \in Components : ComponentKind(n) = ComponentKind(c.component) /\ evVersions[n].priority > 0}
VersionStale(entry, policy) ==
  entry.priority # BuiltIn /\ (EvalTime < entry.at \/ (policy.age # NoTime /\ EvalTime - entry.at > policy.age))

(* evaluateVersionConstraint: no policy means missing and stale block *)
EvaluateVersion(c) ==
  LET policy == IF c.policy = NoPolicy THEN [NoPolicy EXCEPT !.missing = "block", !.stale = "block"] ELSE c.policy
      entry == evVersions[CHOOSE n \in Resolved(c) : TRUE]
      by(disposition) == [status |-> StatusFor(disposition), disposition |-> disposition,
                          action |-> ActionForDisposition(disposition)]
      plain(status) == [status |-> status, disposition |-> "none",
                        action |-> IF status = "satisfied" THEN "allow" ELSE "reject"]
  IN IF ComponentKind(c.component) = "cuda_driver" /\ evDevices = "cpu" THEN by("na")
     ELSE IF Cardinality(Resolved(c)) > 1 THEN plain("indeterminate")
     ELSE IF Resolved(c) = {} THEN by(policy.missing)
     ELSE IF entry.conflict THEN plain("indeterminate")
     ELSE IF VersionStale(entry, policy) THEN by(policy.stale)
     ELSE plain(IF VersionMatches(entry.version, c) THEN "satisfied" ELSE "violated")

-----------------------------------------------------------------------------
Evaluation(r, mode) ==
  [status |-> r.status, disposition |-> r.disposition,
   action |-> IF r.disposition = "none" THEN ActionFor(r.status, mode) ELSE ActionForDisposition(r.disposition)]
Verdict(status, action) == [status |-> status, disposition |-> "none", action |-> action]

(* evaluateBackpressure; backpressureDirective's four directives rank alike *)
EvaluateBackpressure(c, policies) ==
  LET guard == DispositionOf("buffer_level", policies)
      level == evFacts["buffer_level"].value
  IN IF guard # "none" THEN Evaluation(Outcome(StatusFor(guard), guard), "reject")
     ELSE IF ~evFacts["buffer_level"].known THEN Verdict("indeterminate", "allow")
     ELSE IF level <= c.low THEN Verdict("satisfied", "allow")
     ELSE IF level > c.maximum THEN Verdict("violated", "reject")
     ELSE IF level >= c.high THEN Verdict("violated", "directive")
     ELSE Verdict("indeterminate", "allow")

(* evaluateSafePoint *)
EvaluateSafePoint(c, policies) ==
  LET guard == DispositionOf("safe_point", policies)
      fact == evFacts["safe_point"]
  IN IF ~c.require THEN Verdict("na", "allow")
     ELSE IF guard # "none" THEN Evaluation(Outcome(StatusFor(guard), guard), "pause")
     ELSE IF ~fact.known THEN Verdict("indeterminate", "wait")
     ELSE IF fact.value = 1 THEN Verdict("satisfied", "allow") ELSE Verdict("violated", "wait")

(* evaluateValidityRule (one without a predicate only informs) and the rest *)
EvaluateClause(c, policies) ==
  CASE c.kind = "legacy_rule" -> Verdict("indeterminate", "allow")
    [] c.kind = "rule" -> Evaluation(EvalCondition(c.cond, policies), c.mode)
    [] c.kind = "condition" -> Evaluation(EvalCondition(c.cond, policies), "reject")
    [] c.kind = "backpressure" -> EvaluateBackpressure(c, policies)
    [] c.kind = "safe_point" -> EvaluateSafePoint(c, policies)
    [] c.kind = "version" -> EvaluateVersion(c)

(* evaluateCriticalFactPolicy *)
EvaluateCritical(path, policies) ==
  LET disposition == DispositionOf(path, policies)
  IN IF disposition = "none" THEN Verdict("satisfied", "allow")
     ELSE Evaluation(Outcome(StatusFor(disposition), disposition), "reject")

(* isBlocking, aggregatePriorityGreater: BLOCK before HOLD before the rest, *)
(* then the gravest action; of equals, the first in clause order.           *)
IsBlocking(e) ==
  CASE e.disposition \in {"block", "hold"} -> TRUE
    [] e.disposition \in {"degrade", "na"} -> FALSE
    [] OTHER -> e.action # "allow"
Priority(e) ==
  10 * (CASE e.disposition = "block" -> 2 [] e.disposition = "hold" -> 1 [] OTHER -> 0)
  + (CASE e.action = "abort" -> 3 [] e.action \in {"pause", "wait"} -> 2
       [] e.action \in {"reject", "directive"} -> 1 [] OTHER -> 0)
Aggregate(evaluations) ==
  LET blocking == {i \in DOMAIN evaluations : IsBlocking(evaluations[i])}
      best == CHOOSE i \in blocking :
                \A j \in blocking \ {i} :
                  \/ Priority(evaluations[i]) > Priority(evaluations[j])
                  \/ Priority(evaluations[i]) = Priority(evaluations[j]) /\ i < j
  IN IF blocking = {} THEN [blocking |-> FALSE, action |-> "allow"]
     ELSE [blocking |-> TRUE, action |-> evaluations[best].action]

(* Evaluate: the contract's clauses over what was collected *)
EvaluateContract(clause, policies) ==
  LET critical == {p \in Paths : policies[p] # NoPolicy}
      guarded == IF critical = {} THEN <<>> ELSE <<EvaluateCritical(CHOOSE p \in critical : TRUE, policies)>>
  IN /\ evStage \in (IF clause.kind = "version" THEN {"versions", "devices"} ELSE {"legacy", "explicit"})
     /\ evStage' = "evaluated"
     /\ evContract' = [clause |-> clause, policies |-> policies]
     /\ evAnswer' = Aggregate(<<EvaluateClause(clause, policies)>> \o guarded)
     /\ UNCHANGED <<evFacts, evVersions, evDevices, evAt, evCount>>

-----------------------------------------------------------------------------
EvNext ==
  \/ \E context, intent \in {"absent", "true", "false"},
        annotations \in [1..2 -> {"absent", "true", "false", "garbage"}] :
       CollectSafePoint(context, intent, annotations)
  \/ \E path \in Paths, at \in ObservedTimes \cup {NoTime}, origin \in {2, 3} :
       \E value \in ValuesOf(path) : CollectFact(path, value, at, origin)
  \/ CollectInvalid
  \/ \E name \in Components, version \in Versions, at \in ObservedTimes, priority \in {1, 2} :
       CollectVersion(name, version, at, priority)
  \/ \E clause \in Clauses, path \in Paths, policy \in Policies \cup {NoPolicy} :
       EvaluateContract(clause, [p \in Paths |-> IF p = path THEN policy ELSE NoPolicy])
  \/ \E clause \in VersionClauses : EvaluateContract(clause, [p \in Paths |-> NoPolicy])

-----------------------------------------------------------------------------
(* A world completes what was observed: it agrees with every fact the          *)
(* evaluation may rely on, and decides as it likes about the others and about  *)
(* comparisons that have no answer.                                            *)
Available(path) == evFacts[path].known /\ DispositionOf(path, evContract.policies) = "none"
Worlds == {w \in [value : [Paths -> FactValues \cup {0, 1}], there : [Paths -> BOOLEAN], odd : BOOLEAN] :
             \A p \in Paths :
               /\ Available(p) => w.value[p] = evFacts[p].value /\ w.there[p]
               /\ ~evFacts[p].known /\ ~evFacts[p].issue => ~w.there[p]}
RECURSIVE Holds(_, _)
Holds(cond, w) ==
  LET answer == IF cond.op = "in" THEN CompareList("in", w.value[cond.path], KindOf(cond.path), cond.list)
                ELSE IF cond.other # "operand"
                THEN Compare(cond.op, w.value[cond.path], KindOf(cond.path), w.value[cond.other], KindOf(cond.other))
                ELSE Compare(cond.op, w.value[cond.path], KindOf(cond.path), cond.operand, "number")
  IN CASE cond.op = "not" -> ~Holds(cond.a, w)
       [] cond.op = "and" -> Holds(cond.a, w) /\ Holds(cond.b, w)
       [] cond.op = "or" -> Holds(cond.a, w) \/ Holds(cond.b, w)
       [] cond.op = "exists" -> w.there[cond.path]
       [] OTHER -> IF answer = "error" THEN w.odd ELSE answer = "true"
RECURSIVE Reads(_)
Reads(cond) ==
  CASE cond.op = "not" -> Reads(cond.a)
    [] cond.op \in {"and", "or"} -> Reads(cond.a) \cup Reads(cond.b)
    [] OTHER -> {cond.path, cond.other} \ {"operand"}
Excused(path) == DispositionOf(path, evContract.policies) \in {"na", "degrade"}
Justified(c) ==
  CASE c.kind \in {"rule", "condition"} ->
         (\E p \in Reads(c.cond) : Excused(p)) \/ (\A w \in Worlds : Holds(c.cond, w))
    [] c.kind = "backpressure" ->
         Available("buffer_level") => evFacts["buffer_level"].value < c.high
    [] c.kind = "safe_point" ->
         c.require => Excused("safe_point") \/ (Available("safe_point") /\ evFacts["safe_point"].value = 1)
    [] c.kind = "version" ->
         \/ c.component # "protocol" /\ evDevices = "cpu"
         \/ c.policy # NoPolicy /\ Resolved(c) = {}
         \/ \E n \in Resolved(c) : /\ Resolved(c) = {n} /\ ~evVersions[n].conflict
                                   /\ c.match # "exact" => ~Older(evVersions[n].version, c.version)
    [] OTHER -> TRUE

(* An intent is let through only with reason: every critical fact is fresh or    *)
(* its policy is lenient, and the clause is true however the facts nobody        *)
(* observed turn out, or it reads a fact whose policy excuses its absence; a     *)
(* version constraint is met by the one, unconflicted version that is known      *)
(* (Evaluate, evalCondition, evaluateVersionConstraint, Aggregate).              *)
AllowedIsJustified ==
  evStage = "evaluated" /\ ~evAnswer.blocking =>
    /\ \A p \in Paths : DispositionOf(p, evContract.policies) \notin {"hold", "block"}
    /\ Justified(evContract.clause)
=============================================================================

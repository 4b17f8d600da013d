------------------------------ MODULE MCDeciding ------------------------------
(***************************************************************************)
(* How the scheduler decides, for TLC: ContractEvaluator, CandidateSearch, *)
(* AdaptivePlanner and ProtectionGuard side by side.  In a behaviour one   *)
(* of them is at work and the others stay in one initial state, so that    *)
(* their state spaces add up.                                              *)
(***************************************************************************)
EXTENDS ContractEvaluator, CandidateSearch, AdaptivePlanner, ProtectionGuard, TLC

VARIABLE focus
decidingVars == <<evVars, csVars, apVars, vars, focus>>

DecidingInit ==
  /\ EvInit /\ CsInit /\ ApInit /\ Init
  /\ focus \in {"contract", "search", "adaptive", "guard"}
  /\ focus # "contract" => evStage = "safe_point" /\ evAt = NoTime
  /\ focus # "search" => csAllocs = <<>> /\ \E p \in CsProfiles : p.trace = "none" /\ csProfile = [d \in CsDevices |-> p]
  /\ focus # "adaptive" => apActive = {}

DecidingNext ==
  /\ UNCHANGED focus
  /\ \/ focus = "contract" /\ EvNext /\ UNCHANGED <<csVars, apVars, vars>>
     \/ focus = "search" /\ CsNext /\ UNCHANGED <<evVars, apVars, vars>>
     \/ focus = "adaptive" /\ ApNext /\ UNCHANGED <<evVars, csVars, vars>>
     \/ focus = "guard" /\ Next /\ UNCHANGED <<evVars, csVars, apVars>>

DecidingSpec == DecidingInit /\ [][DecidingNext]_decidingVars

KeySymmetry == Permutations(Keys)

-------------------------------------------------------------------------------
(* ContractEvaluator: versions, leaves and nested conditions, every clause    *)
(* kind, and constraints of each match.                                       *)
Ver(major, minor, pre) == [syntax |-> TRUE, core |-> <<major, minor>>, pre |-> pre]
SomeVersions ==
  {Ver(0, 3, <<>>), Ver(1, 1, <<>>), Ver(1, 1, <<1, 100>>), [syntax |-> FALSE, core |-> <<0, 0>>, pre |-> <<>>]}

Leaf(op, path, other, operand) == [op |-> op, path |-> path, other |-> other, operand |-> operand]
Not(a) == [op |-> "not", a |-> a]
Two(op, a, b) == [op |-> op, a |-> a, b |-> b]
LevelIsOne == Leaf("eq", "buffer_level", "operand", 1)
HasSamples == Leaf("exists", "sample_size", "operand", 0)
Enough == Leaf("ge", "sample_size", "operand", 1)
AboveLevel == Leaf("ge", "sample_size", "buffer_level", 0)
NotSafe == Leaf("ne", "safe_point", "operand", 1)
Unlisted == [op |-> "not_in", path |-> "sample_size", other |-> "operand",
             list |-> <<[kind |-> "number", value |-> 0], [kind |-> "bool", value |-> 1]>>]
SomeConditions ==
  {Not(HasSamples), Two("and", LevelIsOne, Enough), Not(Two("or", LevelIsOne, Unlisted)),
   Two("or", Not(LevelIsOne), Two("and", AboveLevel, NotSafe))}
SomeClauses ==
  {[kind |-> "legacy_rule"]} \cup [kind : {"rule"}, cond : {AboveLevel}, mode : {"pause"}]
  \cup [kind : {"condition"}, cond : SomeConditions]
  \cup [kind : {"backpressure"}, low : {0}, high : {1}, maximum : {1}]
  \cup [kind : {"safe_point"}, require : BOOLEAN]

Policy(missing, stale, age) == [missing |-> missing, stale |-> stale, age |-> age]
SomePolicies ==
  {Policy("block", "hold", 1), Policy("hold", "block", NoTime), Policy("degrade", "na", 1)}
Constraint(component, alias, match, version, pre, policy) ==
  [kind |-> "version", component |-> component, alias |-> alias, match |-> match,
   version |-> version, prerelease |-> pre, policy |-> policy]
SomeConstraints ==
  {Constraint("driver_a", FALSE, m, Ver(1, 1, <<1>>), pre, NoPolicy) :
     m \in {"exact", "semver", "compatible"}, pre \in BOOLEAN}
  \cup {Constraint("driver_a", TRUE, "semver", v, TRUE, Policy("degrade", "hold", 1)) : v \in SomeVersions}
  \cup {Constraint("protocol", TRUE, "compatible", Ver(0, n, <<>>), FALSE, NoPolicy) : n \in {2, 3, 4}}

-------------------------------------------------------------------------------
(* CandidateSearch: two devices, one profile that may preempt and one matched *)
(* by trace and job, policies of each kind, mixed requests in one decision.   *)
SearchCapacity == [mem |-> 3, acc |-> 4]
Profile(actions, names, trace, job) ==
  [ready |-> TRUE, evidence |-> 1, revision |-> 1, actions |-> actions, names |-> names, trace |-> trace, job |-> job]
Releasing == Profile({"bind", "release"}, {"c"}, "none", "none")
SomeProfiles == {Releasing, Profile({"bind"}, {}, "contains", "exact")}
Request(mem, acc, names) == [res |-> [mem |-> mem, acc |-> acc], revision |-> 1, names |-> names]
Small == Request(1, 1, {})
SmallNamed == Request(1, 1, {"c"})
Half == Request(2, 1, {})
HalfNamed == Request(2, 1, {"c"})
Full == Request(3, 3, {})
Search(name, topK, preempt) == [name |-> name, topK |-> topK, preempt |-> preempt]
Queued(n, version, req) == [n |-> n, version |-> version, req |-> req]
Asks(exec, count, req, prio, policy, queued, held, needsSafe, safe, named) ==
  [exec |-> exec, count |-> count, req |-> req, prio |-> prio, named |-> named, policy |-> policy,
   queued |-> queued, held |-> held, needsSafe |-> needsSafe, safe |-> safe]
SomeIntents ==
  {Asks("x", 2, Small, 0, Search("score_first", 1, FALSE), Queued(2, "same", Small), FALSE, FALSE, FALSE, TRUE),
   Asks("x", 2, Half, 1, Search("binpack", 2, FALSE), Queued(0, "same", Half), FALSE, FALSE, FALSE, TRUE),
   Asks("x", 3, Small, 0, Search("trace_aware", 2, FALSE), Queued(0, "same", Small), FALSE, TRUE, TRUE, FALSE),
   Asks("x", 2, Small, 0, Search("score_first", 1, FALSE), Queued(2, "same", Half), FALSE, FALSE, FALSE, TRUE),
   Asks("y", 1, Full, 1, Search("score_first", 1, TRUE), Queued(1, "same", Full), FALSE, FALSE, TRUE, TRUE),
   Asks("y", 1, Half, 2, Search("score_first", 1, TRUE), Queued(1, "same", Half), FALSE, TRUE, TRUE, TRUE),
   Asks("y", 1, Full, 2, Search("score_first", 1, TRUE), Queued(0, "same", Full), FALSE, TRUE, FALSE, TRUE),
   Asks("y", 1, Small, 2, Search("noop", 1, TRUE), Queued(0, "same", Small), FALSE, FALSE, TRUE, TRUE),
   Asks("y", 1, Small, 2, Search("score_first", 1, TRUE), Queued(1, "other", Small), FALSE, FALSE, TRUE, TRUE),
   Asks("y", 1, Small, 2, Search("score_first", 1, TRUE), Queued(0, "same", Small), TRUE, FALSE, TRUE, TRUE)}
SomeMixes ==
  [units : {<<Half, HalfNamed>>, <<Small, Half, Half>>, <<SmallNamed, Small>>},
   policy : {Search("score_first", 1, FALSE), Search("binpack", 2, FALSE), Search("binpack", 1, FALSE)}]

-------------------------------------------------------------------------------
(* AdaptivePlanner: a quiet reading and fourteen others that call for the      *)
(* fast, medium and slow actions, alone and merged.                           *)
Facts == [pressure |-> {}, below |-> {"yes"}, capable |-> {"yes"}, resid |-> {0}, inflight |-> {}, budget |-> {}]
Quiet ==
  [cause |-> "provider_event", tick |-> "fast", contract |-> "clear", phase |-> "other",
   level |-> -1, lag |-> -1, ess |-> -1, stale |-> "unknown", restores |-> FALSE, facts |-> Facts,
   safe |-> TRUE, cost |-> 0, want |-> [units |-> 2, res |-> 5, prio |-> 1], dir |-> NoDirectives,
   malformed |-> FALSE, supports |-> ActionTypes, room |-> {"rebind", "recreate", "grow"}, admit |-> "binds"]
Medium == [Quiet EXCEPT !.tick = "medium"]
Slow == [Quiet EXCEPT !.tick = "slow"]
SomeReadings ==
  {Quiet,
   [Quiet EXCEPT !.phase = "producer", !.level = 9, !.facts.below = {}],
   [Quiet EXCEPT !.phase = "consumer", !.lag = 3],
   [Quiet EXCEPT !.phase = "producer", !.facts.pressure = {"low"}, !.want.prio = 2],
   [Quiet EXCEPT !.want = [units |-> 1, res |-> 7, prio |-> 1]],
   [Quiet EXCEPT !.dir.share = 8, !.dir.prio = 3, !.cause = "both"],
   [Quiet EXCEPT !.contract = "pause", !.admit = "preempts"],
   [Quiet EXCEPT !.facts.pressure = {"low", "high"}],
   [Medium EXCEPT !.contract = "pause"],
   [Medium EXCEPT !.contract = "pause", !.dir.only = {1}],
   [Medium EXCEPT !.contract = "block"],
   [Medium EXCEPT !.phase = "idle"],
   [Medium EXCEPT !.dir.state = "sleeping", !.facts.capable = {}, !.restores = TRUE],
   [Slow EXCEPT !.cost = 1],
   [Slow EXCEPT !.dir.rebind = TRUE, !.admit = "preempts", !.cause = "both"]}
SomeMarks == [low |-> 1, high |-> 5, max |-> 8]
IdleAfter == [sleep |-> 1, offload |-> 2]
TwoActions == [actions |-> 2, boxes |-> 0, gpus |-> 0, cost |-> 0, noL4 |-> FALSE]
MaximumAges == [fast |-> 0, medium |-> 1, slow |-> 1]
===============================================================================

------------------------- MODULE JobControlProofs -------------------------
(***************************************************************************)
(* What is proved of the Job Controller (JobControl), for every number of  *)
(* callers and keys and every bound: of its repository, and of its startup *)
(* reconciliation.                                                         *)
(***************************************************************************)
EXTENDS JobControl, FiniteSetTheorems, WellFoundedInduction, TLAPS

(* A non-empty set of naturals has a least element. *)
LEMMA LeastExists ==
  ASSUME NEW S \in SUBSET Nat, S # {} PROVE \E i \in S : \A j \in S : i <= j
<1> DEFINE R == {ss \in Nat \X Nat : ss[1] < ss[2]}
<1>1. IsWellFoundedOn(R, Nat)
      BY NatLessThanWellFounded DEF OpToRel
<1>2. ASSUME NEW x \in Nat, NEW y \in Nat, <<y, x>> \notin R PROVE x <= y
      BY <1>2
<1> HIDE DEF R
<1>3. PICK x \in S : \A y \in S : ~(<<y, x>> \in R)
      BY <1>1, WFMin, Zenon
<1>4. ASSUME NEW y \in S PROVE x <= y
      BY <1>2, <1>3, Zenon
<1> QED BY <1>4

-----------------------------------------------------------------------------
(* The Job Controller's startup reconciliation *)

JobStates == {"none", "pending", "running", "paused", "cancelled", "failed"}
RunStates == {"validating", "admitting", "admitted", "waiting", "starting", "pausing", "resuming", "stopping",
              "terminating", "retrying", "running", "paused", "stopped", "terminated", "succeeded", "failed"}
JobKinds == {"admit", "retry"} \cup Lifecycle
RunBound == 1 + MaxCreated + MaxAttempts
RunIds == (1..RunBound) \X JobStates
OpIds == JobKinds \X RunIds \X (Keys \cup {NoKey}) \X (0..MaxOps)
OpRecords == [state : {"running", "succeeded", "failed"}, accepted : BOOLEAN, born : 1..MaxOps]
Tables(K, V) == UNION {[S -> V] : S \in SUBSET K}
RunRecords == [st : RunStates, ops : Tables(OpIds, OpRecords), obs : Observed \cup {NoObs}]
IdemRecords == [hash : JobKinds \X (RunIds \cup {LatestOne}), op : OpIds]

(* The calls in progress, by the step they are at. *)
PersistCalls == [pc : {"persist"}, cmd : JobKinds, run : RunIds \cup {LatestOne}, key : Keys \cup {NoKey}]
WaitCalls == [pc : {"wait", "resume"}, op : OpIds, saw : BOOLEAN, cmd : JobKinds, key : Keys \cup {NoKey}]
ReplayCalls == [pc : {"resume"}, op : OpIds, key : Keys \cup {NoKey}]
PlanCalls == [pc : {"enter", "dispatch"}, cmd : JobKinds, key : Keys \cup {NoKey}, op : OpIds,
              stableJob : JobStates, stableRun : RunRecords]
FinalizeCalls == [pc : {"finalize"}, outcome : {"accepted", "refused", "ambiguous"}, cmd : JobKinds,
                  key : Keys \cup {NoKey}, op : OpIds, stableJob : JobStates, stableRun : RunRecords]
StartupCalls == [pc : {"status", "decide", "confirm"}, op : OpIds]
JobCallRecords == UNION {[pc : {"idle", "next"}], PersistCalls, WaitCalls, ReplayCalls, PlanCalls,
                         FinalizeCalls, StartupCalls}

JobTypeOK ==
  /\ jobState \in JobStates /\ jobRuns \in Tables(RunIds, RunRecords) /\ jobOps \in Tables(OpIds, OpRecords)
  /\ jobIdem \in Tables(Keys, IdemRecords) /\ jobCalls \in [Callers \cup {Recovery} -> JobCallRecords]

(* The tables of the repository name each other's entries, and so do calls. *)
HasOp == {"wait", "resume", "enter", "dispatch", "finalize", "confirm", "status", "decide"}
HasPlan == {"enter", "dispatch", "finalize"}
JobCallOK(call, ids, runs) ==
  /\ call.pc \in HasOp => call.op \in ids
  /\ call.pc = "persist" => call.run \in runs \cup {LatestOne}
  /\ call.pc \in HasPlan => call.cmd = call.op[1] /\ DOMAIN call.stableRun.ops \subseteq ids
RunsLinked(runs, ops) ==
  /\ \A id \in DOMAIN ops : id[2] \in DOMAIN runs
  /\ \A run \in DOMAIN runs : DOMAIN runs[run].ops \subseteq DOMAIN ops
LinkInv ==
  /\ RunsLinked(jobRuns, jobOps) /\ jobTodo \subseteq DOMAIN jobOps
  /\ \A key \in DOMAIN jobIdem : jobIdem[key].op \in DOMAIN jobOps
  /\ \A c \in Callers \cup {Recovery} : JobCallOK(jobCalls[c], DOMAIN jobOps, DOMAIN jobRuns)

(* Only lifecycle commands are ever marked as accepted by the runtime. *)
AcceptedOK(ops) == \A id \in DOMAIN ops : ops[id].accepted => id[1] \in Lifecycle

(* While recovery is under way no other call is, and an operation still       *)
(* running is on its list, in its hands, or accepted.                         *)
InDoubt(ops) == {id \in DOMAIN ops : ops[id].state = "running" /\ ~(ops[id].accepted /\ id[1] \in Lifecycle)}
RecoverySteps == {"next", "status", "decide", "resume", "enter", "dispatch", "finalize", "confirm"}
RecOK(calls, ops, todo, inflight) ==
  LET rec == calls[Recovery]
  IN rec.pc # "idle" =>
       /\ rec.pc \in RecoverySteps /\ \A c \in Callers : calls[c].pc = "idle"
       /\ inflight \subseteq IF rec.pc \in {"dispatch", "finalize"} THEN {rec.op} ELSE {}
       /\ InDoubt(ops) \subseteq todo \cup IF rec.pc = "next" THEN {} ELSE {rec.op}
       /\ rec.pc \in {"resume", "enter"} => ops[rec.op].state = "running"
RecInv == RecOK(jobCalls, jobOps, jobTodo, jobInflight)

StoreInv == JobTypeOK /\ LinkInv /\ AcceptedOK(jobOps)
JobInv == StoreInv /\ RecInv

(* Tables *)
LEMMA TableFacts ==
  ASSUME NEW K, NEW V, NEW t \in Tables(K, V)
  PROVE  DOMAIN t \subseteq K /\ \A k \in DOMAIN t : t[k] \in V
BY DEF Tables

LEMMA EmptyTable ==
  ASSUME NEW K, NEW V PROVE <<>> \in Tables(K, V) /\ DOMAIN <<>> = {}
<1>1. DOMAIN <<>> = {}
      OBVIOUS
<1>2. <<>> \in [{} -> V]
      OBVIOUS
<1> QED BY <1>1, <1>2 DEF Tables

LEMMA PutFacts ==
  ASSUME NEW K, NEW V, NEW t \in Tables(K, V), NEW k \in K, NEW v \in V
  PROVE  /\ Put(t, k, v) \in Tables(K, V) /\ DOMAIN Put(t, k, v) = DOMAIN t \cup {k}
         /\ Put(t, k, v)[k] = v /\ \A j \in DOMAIN t \ {k} : Put(t, k, v)[j] = t[j]
<1>1. DOMAIN t \subseteq K /\ \A j \in DOMAIN t : t[j] \in V
      BY TableFacts
<1>2. Put(t, k, v) \in [DOMAIN t \cup {k} -> V]
      BY <1>1 DEF Put
<1>3. Put(t, k, v) \in Tables(K, V)
  <2>1. DOMAIN t \cup {k} \in SUBSET K
        BY <1>1
  <2> QED BY <1>2, <2>1, Zenon DEF Tables
<1> QED BY <1>3 DEF Put

SetAt(t, k, v) == [t EXCEPT ![k] = v]
LEMMA SetFacts ==
  ASSUME NEW K, NEW V, NEW t \in Tables(K, V), NEW k, NEW v \in V
  PROVE  /\ SetAt(t, k, v) \in Tables(K, V) /\ DOMAIN SetAt(t, k, v) = DOMAIN t
         /\ \A j \in DOMAIN t : SetAt(t, k, v)[j] = IF j = k THEN v ELSE t[j]
<1>1. PICK S \in SUBSET K : t \in [S -> V]
      BY DEF Tables
<1>2. /\ SetAt(t, k, v) \in [S -> V] /\ DOMAIN t = S
      /\ \A j \in S : SetAt(t, k, v)[j] = IF j = k THEN v ELSE t[j]
      BY <1>1, Zenon DEF SetAt
<1>3. SetAt(t, k, v) \in Tables(K, V)
      BY <1>2 DEF Tables
<1> QED BY <1>2, <1>3

(* Identities, births and the newest of several operations or runs. *)
LEMMA LifecycleIs == Lifecycle = {"start", "pause", "resume", "stop", "terminate"}
BY DEF Lifecycle, Settles

LEMMA OpIdParts ==
  ASSUME NEW id \in OpIds
  PROVE  /\ id[1] \in JobKinds /\ id[2] \in RunIds /\ id[3] \in Keys \cup {NoKey}
         /\ id[2][1] \in 1..RunBound /\ id[2][2] \in JobStates
BY DEF OpIds, RunIds

(* A bounded set of naturals has a greatest element. *)
LEMMA GreatestExists ==
  ASSUME NEW n \in Nat, NEW S \in SUBSET (0..n), S # {} PROVE \E i \in S : \A j \in S : j <= i
<1> DEFINE T == {n - i : i \in S}
<1>1. T \in SUBSET Nat /\ T # {}
  <2>1. ASSUME NEW i \in S PROVE n - i \in Nat
        BY i \in 0..n
  <2> QED BY <2>1, Zenon
<1>2. PICK x \in T : \A y \in T : x <= y
  <2> HIDE DEF T
  <2> QED BY <1>1, LeastExists
<1>3. PICK i \in S : x = n - i
      OBVIOUS
<1>4. ASSUME NEW j \in S PROVE j <= i
  <2>1. x <= n - j
        BY <1>2
  <2> QED BY <1>3, <2>1
<1> QED BY <1>4

LEMMA LatestOpExists ==
  ASSUME NEW ops \in Tables(OpIds, OpRecords), NEW ids \in SUBSET DOMAIN ops, ids # {}
  PROVE  LatestOp(ids, ops) \in ids
<1> DEFINE S == {ops[i].born : i \in ids}
<1>1. \A i \in ids : ops[i].born \in 1..MaxOps
  <2>1. \A i \in ids : ops[i] \in OpRecords
        BY TableFacts
  <2> QED BY <2>1 DEF OpRecords
<1>2. S \in SUBSET (0..MaxOps) /\ S # {} /\ MaxOps \in Nat
      BY <1>1, JobAssumption
<1>3. PICK b \in S : \A x \in S : x <= b
  <2> HIDE DEF S
  <2> QED BY <1>2, GreatestExists, Zenon
<1>4. PICK i \in ids : b = ops[i].born
      OBVIOUS
<1>5. \A j \in ids : ops[j].born <= ops[i].born
      BY <1>3, <1>4
<1> QED BY <1>4, <1>5 DEF LatestOp

LEMMA OldestExists ==
  ASSUME NEW ops \in Tables(OpIds, OpRecords), NEW ids \in SUBSET DOMAIN ops, ids # {}
  PROVE  (CHOOSE i \in ids : \A j \in ids : ops[i].born <= ops[j].born) \in ids
<1> DEFINE S == {ops[i].born : i \in ids}
<1>1. \A i \in ids : ops[i].born \in 1..MaxOps
  <2>1. \A i \in ids : ops[i] \in OpRecords
        BY TableFacts
  <2> QED BY <2>1 DEF OpRecords
<1>2. S \in SUBSET Nat /\ S # {}
      BY <1>1, JobAssumption
<1>3. PICK b \in S : \A x \in S : b <= x
  <2> HIDE DEF S
  <2> QED BY <1>2, LeastExists
<1>4. PICK i \in ids : b = ops[i].born
      OBVIOUS
<1>5. \A j \in ids : ops[i].born <= ops[j].born
      BY <1>3, <1>4
<1> QED BY <1>4, <1>5

LEMMA LatestRunExists ==
  ASSUME jobRuns \in Tables(RunIds, RunRecords), DOMAIN jobRuns # {}
  PROVE  LatestRun \in DOMAIN jobRuns
<1> DEFINE S == {r[1] : r \in DOMAIN jobRuns}
<1>1. \A r \in DOMAIN jobRuns : r[1] \in 1..RunBound
      BY TableFacts DEF RunIds
<1>2. RunBound \in Nat
      BY JobAssumption DEF RunBound
<1>3. S \in SUBSET (0..RunBound) /\ S # {}
      BY <1>1, <1>2
<1>4. PICK b \in S : \A x \in S : x <= b
  <2> HIDE DEF S
  <2> QED BY <1>2, <1>3, GreatestExists, Zenon
<1>5. PICK r \in DOMAIN jobRuns : b = r[1]
      OBVIOUS
<1>6. \A q \in DOMAIN jobRuns : q[1] <= r[1]
      BY <1>4, <1>5
<1> QED BY <1>5, <1>6 DEF LatestRun

LEMMA BornFacts ==
  ASSUME jobOps \in Tables(OpIds, OpRecords), Born <= MaxOps
  PROVE  Born \in 1..MaxOps /\ \A st \in {"running", "succeeded", "failed"} : NewOperation(st) \in OpRecords
<1> DEFINE S == UNION {1..jobOps[i].born : i \in DOMAIN jobOps}
<1>1. \A i \in DOMAIN jobOps : jobOps[i].born \in 1..MaxOps
  <2>1. \A i \in DOMAIN jobOps : jobOps[i] \in OpRecords
        BY TableFacts
  <2> QED BY <2>1 DEF OpRecords
<1>2. S \subseteq 1..MaxOps /\ MaxOps \in Nat
      BY <1>1, JobAssumption
<1> HIDE DEF S
<1>3. IsFiniteSet(1..MaxOps)
      BY <1>2, FS_Interval
<1>4. Cardinality(S) \in Nat
      BY <1>2, <1>3, FS_Subset, FS_CardinalityType, Zenon
<1>5. Born = Cardinality(S) + 1
      BY DEF Born, S
<1>6. Born \in 1..MaxOps
      BY <1>2, <1>4, <1>5
<1> QED BY <1>6 DEF NewOperation, OpRecords


(* What a call in progress is, from the step it is at. *)
LEMMA CallKind ==
  ASSUME NEW call \in JobCallRecords
  PROVE  /\ call.pc = "persist" => call \in PersistCalls
         /\ call.pc = "wait" => call \in WaitCalls
         /\ call.pc = "resume" => call \in WaitCalls \cup ReplayCalls
         /\ call.pc \in {"enter", "dispatch"} => call \in PlanCalls
         /\ call.pc = "finalize" => call \in FinalizeCalls
         /\ call.pc \in {"status", "decide", "confirm"} => call \in StartupCalls
<1>1. CASE call \in [pc : {"idle", "next"}]
      BY <1>1
<1>2. CASE call \in PersistCalls
      BY <1>2 DEF PersistCalls
<1>3. CASE call \in WaitCalls
      BY <1>3 DEF WaitCalls
<1>4. CASE call \in ReplayCalls
      BY <1>4 DEF ReplayCalls
<1>5. CASE call \in PlanCalls
      BY <1>5 DEF PlanCalls
<1>6. CASE call \in FinalizeCalls
      BY <1>6 DEF FinalizeCalls
<1>7. CASE call \in StartupCalls
      BY <1>7 DEF StartupCalls
<1> QED BY <1>1, <1>2, <1>3, <1>4, <1>5, <1>6, <1>7 DEF JobCallRecords

LEMMA CallTyped ==
  ASSUME StoreInv, NEW c \in Callers \cup {Recovery}
  PROVE  jobCalls[c] \in JobCallRecords /\ JobCallOK(jobCalls[c], DOMAIN jobOps, DOMAIN jobRuns)
BY DEF StoreInv, JobTypeOK, LinkInv

LEMMA IdleCallOK ==
  ASSUME NEW ids, NEW runs, NEW pc \in {"idle", "next"}
  PROVE  [pc |-> pc] \in JobCallRecords /\ JobCallOK([pc |-> pc], ids, runs)
<1>1. [pc |-> pc] \in [pc : {"idle", "next"}]
      OBVIOUS
<1>2. [pc |-> pc].pc = pc
      OBVIOUS
<1>3. JobCallOK([pc |-> pc], ids, runs)
      BY <1>2 DEF JobCallOK, HasOp, HasPlan
<1> QED BY <1>1, <1>3 DEF JobCallRecords

(* What a step does to the tables of operations and runs: entries are added   *)
(* or rewritten, never removed, and the tables stay linked.                   *)
StoreGrown ==
  /\ jobOps' \in Tables(OpIds, OpRecords) /\ jobRuns' \in Tables(RunIds, RunRecords)
  /\ DOMAIN jobOps \subseteq DOMAIN jobOps' /\ DOMAIN jobRuns \subseteq DOMAIN jobRuns'
  /\ RunsLinked(jobRuns', jobOps') /\ AcceptedOK(jobOps')

(* A step of one call leaves a valid repository and valid calls behind. *)
LEMMA StoreStep ==
  ASSUME StoreInv, StoreGrown, jobState' \in JobStates, jobIdem' \in Tables(Keys, IdemRecords),
         \A key \in DOMAIN jobIdem' : jobIdem'[key].op \in DOMAIN jobOps', jobTodo' \subseteq DOMAIN jobOps',
         NEW c \in Callers \cup {Recovery}, NEW call \in JobCallRecords,
         UNCHANGED jobCalls \/ SetCall(c, call), JobCallOK(call, DOMAIN jobOps', DOMAIN jobRuns')
  PROVE  StoreInv'
<1>1. \A d \in Callers \cup {Recovery} : JobCallOK(jobCalls[d], DOMAIN jobOps', DOMAIN jobRuns')
  <2>1. TAKE d \in Callers \cup {Recovery}
  <2>2. JobCallOK(jobCalls[d], DOMAIN jobOps, DOMAIN jobRuns)
        BY DEF StoreInv, LinkInv
  <2>3. DOMAIN jobOps \subseteq DOMAIN jobOps' /\ DOMAIN jobRuns \subseteq DOMAIN jobRuns'
        BY DEF StoreGrown
  <2> QED BY <2>2, <2>3 DEF JobCallOK
<1>2. jobCalls \in [Callers \cup {Recovery} -> JobCallRecords]
      BY DEF StoreInv, JobTypeOK
<1>3. /\ jobCalls' \in [Callers \cup {Recovery} -> JobCallRecords]
      /\ \A d \in Callers \cup {Recovery} : jobCalls'[d] = jobCalls[d] \/ jobCalls'[d] = call
      BY <1>2 DEF SetCall
<1>4. \A d \in Callers \cup {Recovery} : JobCallOK(jobCalls'[d], DOMAIN jobOps', DOMAIN jobRuns')
      BY <1>1, <1>3
<1> QED BY <1>3, <1>4, ZenonT(30) DEF StoreInv, JobTypeOK, LinkInv, StoreGrown

(* The same for a step that leaves the repository alone. *)
LEMMA QuietStep ==
  ASSUME StoreInv, UNCHANGED jobStore, jobTodo' \subseteq jobTodo,
         NEW c \in Callers \cup {Recovery}, NEW call \in JobCallRecords, SetCall(c, call),
         JobCallOK(call, DOMAIN jobOps, DOMAIN jobRuns)
  PROVE  StoreInv'
<1>1. jobState' = jobState /\ jobRuns' = jobRuns /\ jobOps' = jobOps /\ jobIdem' = jobIdem
      BY DEF jobStore
<1>2. StoreGrown
      BY <1>1 DEF StoreGrown, StoreInv, JobTypeOK, LinkInv
<1>3. /\ jobState' \in JobStates /\ jobIdem' \in Tables(Keys, IdemRecords) /\ jobTodo' \subseteq DOMAIN jobOps'
      /\ \A key \in DOMAIN jobIdem' : jobIdem'[key].op \in DOMAIN jobOps'
      BY <1>1 DEF StoreInv, JobTypeOK, LinkInv
<1> QED BY <1>1, <1>2, <1>3, StoreStep

(* And for a step that rewrites operations but no idempotency record. *)
LEMMA RewriteStep ==
  ASSUME StoreInv, StoreGrown, jobState' \in JobStates, jobIdem' = jobIdem, jobTodo' = jobTodo,
         NEW c \in Callers \cup {Recovery}, NEW call \in JobCallRecords,
         UNCHANGED jobCalls \/ SetCall(c, call), JobCallOK(call, DOMAIN jobOps', DOMAIN jobRuns')
  PROVE  StoreInv'
<1>1. /\ jobIdem' \in Tables(Keys, IdemRecords) /\ jobTodo' \subseteq DOMAIN jobOps'
      /\ \A key \in DOMAIN jobIdem' : jobIdem'[key].op \in DOMAIN jobOps'
      BY DEF StoreInv, JobTypeOK, LinkInv, StoreGrown
<1> QED BY <1>1, StoreStep

(* Rewriting one operation, in both tables. *)
LEMMA PutBothFacts ==
  ASSUME StoreInv, NEW id \in DOMAIN jobOps, NEW op \in OpRecords, NEW run \in RunRecords,
         DOMAIN run.ops \subseteq DOMAIN jobOps, op.accepted => id[1] \in Lifecycle, PutBoth(id, op, run)
  PROVE  /\ StoreGrown /\ DOMAIN jobOps' = DOMAIN jobOps
         /\ jobOps'[id] = op /\ \A j \in DOMAIN jobOps \ {id} : jobOps'[j] = jobOps[j]
<1> DEFINE new == [run EXCEPT !.ops = Put(@, id, op)]
<1>0. /\ jobOps \in Tables(OpIds, OpRecords) /\ jobRuns \in Tables(RunIds, RunRecords)
      /\ RunsLinked(jobRuns, jobOps) /\ AcceptedOK(jobOps)
      BY DEF StoreInv, JobTypeOK, LinkInv
<1>1. id \in OpIds /\ id[2] \in DOMAIN jobRuns
      BY <1>0, TableFacts DEF RunsLinked
<1>2. run.ops \in Tables(OpIds, OpRecords)
      BY DEF RunRecords
<1>3. Put(run.ops, id, op) \in Tables(OpIds, OpRecords) /\ DOMAIN Put(run.ops, id, op) \subseteq DOMAIN jobOps
  <2>1. Put(run.ops, id, op) \in Tables(OpIds, OpRecords)
        BY <1>1, <1>2, PutFacts, Zenon
  <2>2. DOMAIN Put(run.ops, id, op) = DOMAIN run.ops \cup {id}
        BY DEF Put
  <2> QED BY <2>1, <2>2
<1>4. new \in RunRecords /\ new.ops = Put(run.ops, id, op)
      BY <1>3 DEF RunRecords
<1>5. jobOps' = Put(jobOps, id, op) /\ jobRuns' = SetAt(jobRuns, id[2], new)
      BY DEF PutBoth, SetAt
<1> HIDE DEF new
<1>6. /\ jobOps' \in Tables(OpIds, OpRecords) /\ DOMAIN jobOps' = DOMAIN jobOps
      /\ jobOps'[id] = op /\ \A j \in DOMAIN jobOps \ {id} : jobOps'[j] = jobOps[j]
  <2>1. Put(jobOps, id, op) \in Tables(OpIds, OpRecords)
        BY <1>0, <1>1, PutFacts, ZenonT(30)
  <2>2. /\ DOMAIN Put(jobOps, id, op) = DOMAIN jobOps /\ Put(jobOps, id, op)[id] = op
        /\ \A j \in DOMAIN jobOps \ {id} : Put(jobOps, id, op)[j] = jobOps[j]
        BY Zenon DEF Put
  <2> QED BY <1>5, <2>1, <2>2
<1>7. /\ jobRuns' \in Tables(RunIds, RunRecords) /\ DOMAIN jobRuns' = DOMAIN jobRuns
      /\ \A r \in DOMAIN jobRuns : jobRuns'[r] = IF r = id[2] THEN new ELSE jobRuns[r]
      BY <1>0, <1>4, <1>5, SetFacts, SMTT(30)
<1>8. RunsLinked(jobRuns', jobOps')
  <2>1. ASSUME NEW r \in DOMAIN jobRuns PROVE DOMAIN jobRuns'[r].ops \subseteq DOMAIN jobOps
        BY <1>0, <1>3, <1>4, <1>7 DEF RunsLinked
  <2> QED BY <2>1, <1>0, <1>6, <1>7 DEF RunsLinked
<1>9. AcceptedOK(jobOps')
      BY <1>0, <1>6 DEF AcceptedOK
<1> QED BY <1>6, <1>7, <1>8, <1>9, ZenonT(30) DEF StoreGrown


LEMMA SettlesTyped ==
  ASSUME NEW k \in Lifecycle PROVE Settles[k].run \in RunStates /\ Settles[k].job \in JobStates
BY LifecycleIs DEF Settles, RunStates, JobStates

LEMMA StoreFacts ==
  ASSUME StoreInv
  PROVE  /\ jobOps \in Tables(OpIds, OpRecords) /\ jobRuns \in Tables(RunIds, RunRecords)
         /\ RunsLinked(jobRuns, jobOps) /\ AcceptedOK(jobOps) /\ jobState \in JobStates
         /\ \A id \in DOMAIN jobOps : id \in OpIds /\ jobOps[id] \in OpRecords /\ id[2] \in DOMAIN jobRuns
         /\ \A run \in DOMAIN jobRuns : /\ run \in RunIds /\ jobRuns[run] \in RunRecords
                                        /\ DOMAIN jobRuns[run].ops \subseteq DOMAIN jobOps
<1>1. jobOps \in Tables(OpIds, OpRecords) /\ jobRuns \in Tables(RunIds, RunRecords)
      BY DEF StoreInv, JobTypeOK
<1>2. DOMAIN jobOps \subseteq OpIds /\ \A id \in DOMAIN jobOps : jobOps[id] \in OpRecords
      BY <1>1, TableFacts
<1>3. DOMAIN jobRuns \subseteq RunIds /\ \A run \in DOMAIN jobRuns : jobRuns[run] \in RunRecords
      BY <1>1, TableFacts
<1> QED BY <1>1, <1>2, <1>3 DEF StoreInv, JobTypeOK, LinkInv, RunsLinked

(* A runtime observation settles at most one operation, a lifecycle command. *)
LEMMA AdvanceFacts ==
  ASSUME StoreInv, NEW run \in DOMAIN jobRuns, NEW seen \in Observed, AdvanceRun(run, seen)
  PROVE  /\ StoreGrown /\ jobState' \in JobStates /\ DOMAIN jobOps' = DOMAIN jobOps
         /\ \A j \in DOMAIN jobOps : jobOps'[j] = jobOps[j] \/ jobOps'[j].state # "running"
<1> DEFINE r == jobRuns[run]
           live == {i \in DOMAIN r.ops : r.ops[i].state = "running"}
           ends == {k \in Lifecycle : Transient[k] = r.st /\ seen = Settles[k].obs}
           failed == seen = "failed"
           hit == {i \in live : i[1] \in IF failed THEN Lifecycle ELSE ends}
           id == LatestOp(hit, r.ops)
           state == IF failed THEN "failed" ELSE "succeeded"
           op == [r.ops[id] EXCEPT !.state = state]
           end == CHOOSE k \in ends : TRUE
           st == IF failed THEN "failed" ELSE IF ends = {} THEN r.st ELSE Settles[end].run
           ops == IF hit = {} THEN r.ops ELSE Put(r.ops, id, op)
           new == [st |-> st, ops |-> ops, obs |-> seen]
<1>1. /\ jobState' = IF failed THEN "failed" ELSE IF ends = {} THEN jobState ELSE Settles[end].job
      /\ jobRuns' = SetAt(jobRuns, run, new)
      /\ jobOps' = IF hit = {} THEN jobOps ELSE Put(jobOps, id, op)
      BY DEF AdvanceRun, SetAt
<1>2. /\ r \in RunRecords /\ DOMAIN r.ops \subseteq DOMAIN jobOps /\ r.ops \in Tables(OpIds, OpRecords)
      /\ r.st \in RunStates
      BY StoreFacts DEF RunRecords
<1>3. ends \subseteq Lifecycle /\ hit \subseteq DOMAIN r.ops /\ \A i \in hit : i[1] \in Lifecycle
      OBVIOUS
<1>4. ends # {} => end \in Lifecycle
      BY <1>3
<1>5. jobState' \in JobStates /\ st \in RunStates
  <2> HIDE DEF ends, end, r
  <2>1. jobState' \in JobStates
        BY <1>1, <1>4, SettlesTyped, StoreFacts, ZenonT(30) DEF JobStates
  <2>2. st \in RunStates
        BY <1>2, <1>4, SettlesTyped DEF RunStates
  <2> QED BY <2>1, <2>2, ZenonT(30)
<1>6. hit # {} => id \in hit
  <2> HIDE DEF hit, r
  <2> QED BY <1>2, <1>3, LatestOpExists
<1>7. state \in {"failed", "succeeded"}
      OBVIOUS
<1> HIDE DEF state, st, ends, end, live, failed
<1>8. hit # {} => op \in OpRecords /\ op.state # "running" /\ id[1] \in Lifecycle /\ id \in DOMAIN r.ops
  <2> SUFFICES ASSUME hit # {} PROVE op \in OpRecords /\ op.state # "running" /\ id[1] \in Lifecycle /\ id \in DOMAIN r.ops
      OBVIOUS
  <2>1. id \in DOMAIN r.ops /\ id[1] \in Lifecycle
        BY <1>3, <1>6, ZenonT(30)
  <2>2. r.ops[id] \in OpRecords
        BY <1>2, <2>1, TableFacts
  <2> HIDE DEF id, hit, r
  <2>3. op \in OpRecords /\ op.state # "running"
        BY <1>7, <2>2 DEF OpRecords
  <2> QED BY <2>1, <2>3
<1> HIDE DEF hit, id, op
<1>9. ops \in Tables(OpIds, OpRecords) /\ DOMAIN ops = DOMAIN r.ops
  <2>1. CASE hit = {}
        BY <1>2, <2>1
  <2>2. CASE hit # {}
    <3>1. id \in OpIds
          BY <1>2, <1>8, <2>2, TableFacts
    <3>2. Put(r.ops, id, op) \in Tables(OpIds, OpRecords)
          BY <1>2, <1>8, <2>2, <3>1, PutFacts, Zenon
    <3>3. DOMAIN Put(r.ops, id, op) = DOMAIN r.ops
          BY <1>8, <2>2 DEF Put
    <3> QED BY <2>2, <3>2, <3>3
  <2> QED BY <2>1, <2>2
<1> HIDE DEF ops
<1>10. new \in RunRecords /\ new.ops = ops
      BY <1>5, <1>9, ZenonT(30) DEF RunRecords
<1> HIDE DEF new
<1>11. /\ jobRuns' \in Tables(RunIds, RunRecords) /\ DOMAIN jobRuns' = DOMAIN jobRuns
       /\ \A q \in DOMAIN jobRuns : jobRuns'[q] = IF q = run THEN new ELSE jobRuns[q]
      BY <1>1, <1>10, StoreFacts, SetFacts
<1>12. /\ jobOps' \in Tables(OpIds, OpRecords) /\ DOMAIN jobOps' = DOMAIN jobOps
       /\ \A j \in DOMAIN jobOps : \/ jobOps'[j] = jobOps[j]
                                   \/ jobOps'[j].state # "running" /\ j[1] \in Lifecycle
  <2>1. CASE hit = {}
        BY <1>1, <2>1, StoreFacts, ZenonT(30)
  <2>2. CASE hit # {}
    <3>1. id \in DOMAIN jobOps /\ id \in OpIds
          BY <1>2, <1>8, <2>2, StoreFacts
    <3>2. Put(jobOps, id, op) \in Tables(OpIds, OpRecords)
          BY <1>8, <2>2, <3>1, StoreFacts, PutFacts, Zenon
    <3>3. /\ DOMAIN Put(jobOps, id, op) = DOMAIN jobOps
          /\ \A j \in DOMAIN jobOps : Put(jobOps, id, op)[j] = IF j = id THEN op ELSE jobOps[j]
          BY <3>1, ZenonT(30) DEF Put
    <3> QED BY <1>1, <1>8, <2>2, <3>2, <3>3, ZenonT(30)
  <2> QED BY <2>1, <2>2, ZenonT(30)
<1>13. RunsLinked(jobRuns', jobOps')
  <2>1. ASSUME NEW q \in DOMAIN jobRuns PROVE DOMAIN jobRuns'[q].ops \subseteq DOMAIN jobOps
        BY <1>2, <1>9, <1>10, <1>11, StoreFacts, ZenonT(30)
  <2>2. \A j \in DOMAIN jobOps : j[2] \in DOMAIN jobRuns
        BY StoreFacts
  <2> QED BY <2>1, <2>2, <1>11, <1>12, ZenonT(30) DEF RunsLinked
<1>14. AcceptedOK(jobOps')
      BY <1>12, StoreFacts DEF AcceptedOK
<1> QED BY <1>5, <1>11, <1>12, <1>13, <1>14, ZenonT(30) DEF StoreGrown

LEMMA ObserveFacts ==
  ASSUME StoreInv, NEW run \in DOMAIN jobRuns, NEW seen \in Observed, ObserveRun(run, seen)
  PROVE  /\ StoreGrown /\ jobState' \in JobStates /\ DOMAIN jobOps' = DOMAIN jobOps
         /\ \A j \in DOMAIN jobOps : jobOps'[j] = jobOps[j] \/ jobOps'[j].state # "running"
<1>1. AdvanceRun(run, seen)
      BY Zenon DEF ObserveRun
<1> QED BY <1>1, AdvanceFacts

(* An operation recovery gives up on is settled as failed. *)
LEMMA MarkFacts ==
  ASSUME StoreInv, NEW id \in DOMAIN jobOps, MarkReconciliationRequired(id)
  PROVE  /\ StoreGrown /\ DOMAIN jobOps' = DOMAIN jobOps /\ jobOps'[id].state # "running"
         /\ \A j \in DOMAIN jobOps \ {id} : jobOps'[j] = jobOps[j]
<1> DEFINE op == [jobOps[id] EXCEPT !.state = "failed"]
<1>1. CASE jobOps[id].state = "running"
  <2>1. PutBoth(id, op, jobRuns[id[2]])
        BY <1>1 DEF MarkReconciliationRequired
  <2>2. /\ jobOps[id] \in OpRecords /\ jobRuns[id[2]] \in RunRecords
        /\ DOMAIN jobRuns[id[2]].ops \subseteq DOMAIN jobOps
        BY StoreFacts
  <2>3. op \in OpRecords /\ op.state = "failed" /\ (op.accepted => id[1] \in Lifecycle)
        BY <2>2, StoreFacts, ZenonT(30) DEF OpRecords, AcceptedOK
  <2> HIDE DEF op
  <2> QED BY <2>1, <2>2, <2>3, PutBothFacts
<1>2. CASE jobOps[id].state # "running"
  <2>1. jobRuns' = jobRuns /\ jobOps' = jobOps
        BY <1>2 DEF MarkReconciliationRequired
  <2> QED BY <1>2, <2>1, StoreFacts DEF StoreGrown
<1> QED BY <1>1, <1>2, ZenonT(30)


(* Each kind of step keeps the repository and the calls valid. *)
LEMMA CreateJobKeeps ==
  ASSUME StoreInv, CreateJob PROVE StoreInv'
<1>1. jobState' = "pending" /\ UNCHANGED <<jobRuns, jobOps, jobIdem, jobCalls, jobTodo>>
      BY DEF CreateJob
<1>2. StoreGrown /\ jobState' \in JobStates
      BY <1>1, StoreFacts DEF StoreGrown, JobStates
<1>3. /\ jobCalls[Recovery] \in JobCallRecords
      /\ JobCallOK(jobCalls[Recovery], DOMAIN jobOps', DOMAIN jobRuns')
      BY <1>1, CallTyped
<1> QED BY <1>1, <1>2, <1>3, RewriteStep

LEMMA NewRunTyped ==
  ASSUME NEW st \in RunStates PROVE NewRun(st) \in RunRecords /\ DOMAIN NewRun(st).ops = {}
<1>1. <<>> \in Tables(OpIds, OpRecords) /\ DOMAIN <<>> = {}
      BY EmptyTable, ZenonT(30)
<1> QED BY <1>1 DEF NewRun, RunRecords

LEMMA CreateJobRunKeeps ==
  ASSUME StoreInv, CreateJobRun PROVE StoreInv'
<1> DEFINE attempt == IF DOMAIN jobRuns = {} THEN 1 ELSE LatestRun[1] + 1
           run == <<attempt, jobState'>>
<1>1. /\ jobState' = (IF jobState = "none" THEN "pending" ELSE jobState) /\ attempt <= MaxCreated
      /\ jobRuns' = Put(jobRuns, run, NewRun("validating"))
      /\ UNCHANGED <<jobOps, jobIdem, jobCalls, jobTodo>>
      BY DEF CreateJobRun
<1>2. jobState' \in JobStates
      BY <1>1, StoreFacts DEF JobStates
<1>3. attempt \in 1..RunBound
  <2>1. CASE DOMAIN jobRuns = {}
        BY <2>1, JobAssumption DEF RunBound
  <2>2. CASE DOMAIN jobRuns # {}
    <3>1. LatestRun \in RunIds
          BY <2>2, StoreFacts, LatestRunExists
    <3>2. LatestRun[1] \in 1..RunBound
          BY <3>1 DEF RunIds
    <3> QED BY <1>1, <2>2, <3>2, JobAssumption, SMTT(30) DEF RunBound
  <2> QED BY <2>1, <2>2, ZenonT(30)
<1> HIDE DEF attempt
<1>4. run \in RunIds
      BY <1>2, <1>3 DEF RunIds
<1>5. NewRun("validating") \in RunRecords /\ DOMAIN NewRun("validating").ops = {}
      BY NewRunTyped DEF RunStates
<1> HIDE DEF run
<1>6. /\ jobRuns' \in Tables(RunIds, RunRecords) /\ DOMAIN jobRuns' = DOMAIN jobRuns \cup {run}
      /\ jobRuns'[run] = NewRun("validating")
      /\ \A q \in DOMAIN jobRuns \ {run} : jobRuns'[q] = jobRuns[q]
  <2>1. Put(jobRuns, run, NewRun("validating")) \in Tables(RunIds, RunRecords)
        BY <1>4, <1>5, StoreFacts, PutFacts, Zenon
  <2> QED BY <1>1, <2>1 DEF Put
<1>7. RunsLinked(jobRuns', jobOps')
  <2>1. ASSUME NEW q \in DOMAIN jobRuns' PROVE DOMAIN jobRuns'[q].ops \subseteq DOMAIN jobOps
        BY <1>5, <1>6, StoreFacts, ZenonT(30)
  <2>2. \A id \in DOMAIN jobOps : id[2] \in DOMAIN jobRuns'
        BY <1>6, StoreFacts, ZenonT(30)
  <2> QED BY <1>1, <2>1, <2>2, ZenonT(30) DEF RunsLinked
<1>8. StoreGrown
      BY <1>1, <1>6, <1>7, StoreFacts DEF StoreGrown
<1>9. /\ jobCalls[Recovery] \in JobCallRecords
      /\ JobCallOK(jobCalls[Recovery], DOMAIN jobOps, DOMAIN jobRuns)
      BY CallTyped, ZenonT(30)
<1>10. JobCallOK(jobCalls[Recovery], DOMAIN jobOps', DOMAIN jobRuns')
      BY <1>8, <1>9 DEF StoreGrown, JobCallOK
<1> QED BY <1>1, <1>2, <1>8, <1>9, <1>10, RewriteStep, ZenonT(30)

LEMMA OpIdTyped ==
  ASSUME StoreInv, Born <= MaxOps, NEW type \in JobKinds, NEW run \in RunIds, NEW key \in Keys \cup {NoKey}
  PROVE  OpId(type, run, key) \in OpIds /\ OpId(type, run, key)[1] = type /\ OpId(type, run, key)[2] = run
<1>1. Born \in 0..MaxOps /\ 0 \in 0..MaxOps
      BY BornFacts, StoreFacts, JobAssumption, SMTT(30)
<1> QED BY <1>1, ZenonT(30) DEF OpId, OpIds

(* Adding a new operation to both tables, on a run that is there or is added. *)
LEMMA AddOperation ==
  ASSUME StoreInv, NEW id \in OpIds, NEW op \in OpRecords, ~op.accepted, NEW old \in RunRecords,
         DOMAIN old.ops \subseteq DOMAIN jobOps, NEW new \in RunRecords, new.ops = Put(old.ops, id, op),
         jobOps' = Put(jobOps, id, op), jobRuns' = Put(jobRuns, id[2], new)
  PROVE  StoreGrown /\ id \in DOMAIN jobOps' /\ id[2] \in DOMAIN jobRuns'
<1>1. id[2] \in RunIds
      BY OpIdParts
<1>2. /\ jobOps' \in Tables(OpIds, OpRecords) /\ jobRuns' \in Tables(RunIds, RunRecords)
      BY <1>1, StoreFacts, PutFacts, ZenonT(30)
<1>3. /\ DOMAIN jobOps' = DOMAIN jobOps \cup {id} /\ jobOps'[id] = op
      /\ \A j \in DOMAIN jobOps \ {id} : jobOps'[j] = jobOps[j]
      BY DEF Put
<1>4. /\ DOMAIN jobRuns' = DOMAIN jobRuns \cup {id[2]} /\ jobRuns'[id[2]] = new
      /\ \A q \in DOMAIN jobRuns \ {id[2]} : jobRuns'[q] = jobRuns[q]
      BY DEF Put
<1>5. DOMAIN new.ops \subseteq DOMAIN jobOps'
      BY <1>3 DEF Put
<1>6. RunsLinked(jobRuns', jobOps')
  <2>1. ASSUME NEW q \in DOMAIN jobRuns' PROVE DOMAIN jobRuns'[q].ops \subseteq DOMAIN jobOps'
        BY <1>3, <1>4, <1>5, StoreFacts, ZenonT(30)
  <2>2. ASSUME NEW j \in DOMAIN jobOps' PROVE j[2] \in DOMAIN jobRuns'
        BY <1>3, <1>4, StoreFacts, ZenonT(30)
  <2> QED BY <2>1, <2>2, ZenonT(30) DEF RunsLinked
<1>7. AcceptedOK(jobOps')
      BY <1>3, StoreFacts, ZenonT(30) DEF AcceptedOK
<1> QED BY <1>2, <1>3, <1>4, <1>6, <1>7, ZenonT(30) DEF StoreGrown

LEMMA RecordOperationKeeps ==
  ASSUME StoreInv, NEW run \in DOMAIN jobRuns, NEW type \in JobKinds, RecordOperation(run, type)
  PROVE  StoreInv'
<1> DEFINE id == OpId(type, run, NoKey)
           op == NewOperation("succeeded")
           new == [jobRuns[run] EXCEPT !.ops = Put(@, id, op)]
<1>1. /\ Born <= MaxOps /\ jobOps' = Put(jobOps, id, op)
      /\ jobRuns' = [jobRuns EXCEPT ![run] = new]
      /\ UNCHANGED <<jobState, jobIdem, jobCalls, jobTodo>>
      BY ZenonT(30) DEF RecordOperation
<1>2. jobRuns[run] \in RunRecords /\ DOMAIN jobRuns[run].ops \subseteq DOMAIN jobOps /\ run \in RunIds
      BY StoreFacts, ZenonT(30)
<1>3. op \in OpRecords /\ ~op.accepted
  <2>1. op \in OpRecords
        BY <1>1, StoreFacts, BornFacts, ZenonT(30)
  <2> QED BY <2>1, ZenonT(30) DEF NewOperation
<1>4. id \in OpIds /\ id[2] = run
      BY <1>1, <1>2, OpIdTyped
<1> HIDE DEF id, op
<1>5. new \in RunRecords /\ new.ops = Put(jobRuns[run].ops, id, op)
  <2>1. Put(jobRuns[run].ops, id, op) \in Tables(OpIds, OpRecords)
        BY <1>2, <1>3, <1>4, PutFacts, Zenon DEF RunRecords
  <2> QED BY <1>2, <2>1, ZenonT(30) DEF RunRecords
<1> HIDE DEF new
<1>6. jobRuns' = Put(jobRuns, id[2], new)
      BY <1>1, <1>4, StoreFacts, Zenon DEF Put, Tables
<1>7. StoreGrown
      BY <1>1, <1>2, <1>3, <1>4, <1>5, <1>6, AddOperation, ZenonT(30)
<1>8. /\ jobCalls[Recovery] \in JobCallRecords
      /\ JobCallOK(jobCalls[Recovery], DOMAIN jobOps, DOMAIN jobRuns)
      BY CallTyped, ZenonT(30)
<1>9. JobCallOK(jobCalls[Recovery], DOMAIN jobOps', DOMAIN jobRuns')
      BY <1>7, <1>8, ZenonT(30) DEF StoreGrown, JobCallOK
<1>10. jobState' \in JobStates
      BY <1>1, StoreFacts, ZenonT(30)
<1> QED BY <1>1, <1>7, <1>8, <1>9, <1>10, RewriteStep, ZenonT(30)


LEMMA LoadIdempotencyKeeps ==
  ASSUME StoreInv, NEW c \in Callers, NEW cmd \in JobKinds, NEW run \in DOMAIN jobRuns \cup {LatestOne},
         NEW key \in Keys \cup {NoKey}, LoadIdempotency(c, cmd, run, key)
  PROVE  StoreInv'
<1> DEFINE op == jobIdem[key].op
           fresh == [pc |-> "persist", cmd |-> cmd, run |-> run, key |-> key]
           again == [pc |-> "wait", op |-> op, saw |-> jobOps[op].accepted, cmd |-> cmd, key |-> key]
<1>1. /\ SetCall(c, fresh) \/ (key \in DOMAIN jobIdem /\ SetCall(c, again))
      /\ UNCHANGED jobStore /\ UNCHANGED jobTodo
      BY Zenon DEF LoadIdempotency
<1>2. CASE SetCall(c, fresh)
  <2>1. run \in RunIds \cup {LatestOne}
        BY StoreFacts, ZenonT(30)
  <2>2. fresh \in JobCallRecords
        BY <2>1, ZenonT(30) DEF JobCallRecords, PersistCalls
  <2>3. JobCallOK(fresh, DOMAIN jobOps, DOMAIN jobRuns)
        BY ZenonT(30) DEF JobCallOK, HasOp, HasPlan
  <2> HIDE DEF fresh
  <2> QED BY <1>1, <1>2, <2>2, <2>3, QuietStep, ZenonT(30)
<1>3. CASE key \in DOMAIN jobIdem /\ SetCall(c, again)
  <2>1. op \in DOMAIN jobOps
        BY <1>3, ZenonT(30) DEF StoreInv, LinkInv
  <2> HIDE DEF op
  <2>2. op \in OpIds /\ jobOps[op].accepted \in BOOLEAN
        BY <2>1, StoreFacts, ZenonT(30) DEF OpRecords
  <2>3. again \in JobCallRecords
        BY <2>2, ZenonT(30) DEF JobCallRecords, WaitCalls
  <2>4. JobCallOK(again, DOMAIN jobOps, DOMAIN jobRuns)
        BY <2>1, ZenonT(30) DEF JobCallOK, HasOp, HasPlan
  <2> HIDE DEF again
  <2> QED BY <1>1, <1>3, <2>3, <2>4, QuietStep, ZenonT(30)
<1> QED BY <1>1, <1>2, <1>3, ZenonT(30)

LEMMA WaitInflightKeeps ==
  ASSUME StoreInv, NEW c \in Callers \cup {Recovery}, WaitInflight(c) PROVE StoreInv'
<1> DEFINE call == jobCalls[c]
           next == [call EXCEPT !.pc = "resume"]
<1>1. /\ call.pc = "wait" /\ (SetCall(c, [pc |-> "idle"]) \/ SetCall(c, next))
      /\ UNCHANGED jobStore /\ UNCHANGED jobTodo
      BY ZenonT(30) DEF WaitInflight, Return, JobIdle
<1>2. call \in WaitCalls /\ call.op \in DOMAIN jobOps
      BY <1>1, CallTyped, CallKind, ZenonT(30) DEF JobCallOK, HasOp
<1> HIDE DEF call
<1>3. next \in JobCallRecords /\ JobCallOK(next, DOMAIN jobOps, DOMAIN jobRuns)
  <2>1. next \in WaitCalls /\ next.pc = "resume" /\ next.op = call.op
        BY <1>2, ZenonT(30) DEF WaitCalls
  <2> HIDE DEF next
  <2> QED BY <1>2, <2>1, ZenonT(30) DEF JobCallRecords, JobCallOK, HasOp, HasPlan
<1> HIDE DEF next
<1>4. [pc |-> "idle"] \in JobCallRecords /\ JobCallOK([pc |-> "idle"], DOMAIN jobOps, DOMAIN jobRuns)
      BY IdleCallOK, ZenonT(30)
<1> QED BY <1>1, <1>3, <1>4, QuietStep, ZenonT(30)

LEMMA ResumePlanKeeps ==
  ASSUME StoreInv, NEW c \in Callers \cup {Recovery}, ResumePlan(c) PROVE StoreInv'
<1> DEFINE id == jobCalls[c].op
           plan == [pc |-> "enter", cmd |-> id[1], key |-> jobCalls[c].key, op |-> id,
                    stableJob |-> jobState, stableRun |-> jobRuns[id[2]]]
<1>1. /\ jobCalls[c].pc = "resume" /\ (SetCall(c, [pc |-> "idle"]) \/ SetCall(c, plan))
      /\ UNCHANGED jobStore /\ UNCHANGED jobTodo
      BY ZenonT(30) DEF ResumePlan, Return, JobIdle
<1>2. jobCalls[c] \in WaitCalls \cup ReplayCalls /\ id \in DOMAIN jobOps
      BY <1>1, CallTyped, CallKind, ZenonT(30) DEF JobCallOK, HasOp
<1>3. jobCalls[c].key \in Keys \cup {NoKey}
      BY <1>2, ZenonT(30) DEF WaitCalls, ReplayCalls
<1> HIDE DEF id
<1>4. /\ id \in OpIds /\ id[1] \in JobKinds /\ jobRuns[id[2]] \in RunRecords
      /\ DOMAIN jobRuns[id[2]].ops \subseteq DOMAIN jobOps
      BY <1>2, StoreFacts, OpIdParts, ZenonT(30)
<1>5. plan \in JobCallRecords /\ JobCallOK(plan, DOMAIN jobOps, DOMAIN jobRuns)
  <2>1. plan \in PlanCalls
        BY <1>3, <1>4, StoreFacts, ZenonT(30) DEF PlanCalls
  <2>2. JobCallOK(plan, DOMAIN jobOps, DOMAIN jobRuns)
        BY <1>2, <1>4, ZenonT(30) DEF JobCallOK, HasOp, HasPlan
  <2> QED BY <2>1, <2>2, ZenonT(30) DEF JobCallRecords
<1> HIDE DEF plan
<1>6. [pc |-> "idle"] \in JobCallRecords /\ JobCallOK([pc |-> "idle"], DOMAIN jobOps, DOMAIN jobRuns)
      BY IdleCallOK, ZenonT(30)
<1> QED BY <1>1, <1>5, <1>6, QuietStep, ZenonT(30)

LEMMA RunInflightKeeps ==
  ASSUME StoreInv, NEW c \in Callers \cup {Recovery}, RunInflight(c) PROVE StoreInv'
<1> DEFINE call == jobCalls[c]
           next == [call EXCEPT !.pc = "dispatch"]
<1>1. /\ call.pc = "enter" /\ (SetCall(c, [pc |-> "idle"]) \/ SetCall(c, next))
      /\ UNCHANGED jobStore /\ UNCHANGED jobTodo
      BY ZenonT(30) DEF RunInflight, Return, JobIdle
<1>2. call \in PlanCalls /\ JobCallOK(call, DOMAIN jobOps, DOMAIN jobRuns)
      BY <1>1, CallTyped, CallKind, ZenonT(30)
<1> HIDE DEF call
<1>3. next \in PlanCalls /\ next.pc = "dispatch" /\ next.op = call.op /\ next.cmd = call.cmd
      /\ next.stableRun = call.stableRun
      BY <1>2, ZenonT(30) DEF PlanCalls
<1> HIDE DEF next
<1>4. next \in JobCallRecords /\ JobCallOK(next, DOMAIN jobOps, DOMAIN jobRuns)
      BY <1>1, <1>2, <1>3, ZenonT(30) DEF JobCallRecords, JobCallOK, HasOp, HasPlan
<1>5. [pc |-> "idle"] \in JobCallRecords /\ JobCallOK([pc |-> "idle"], DOMAIN jobOps, DOMAIN jobRuns)
      BY IdleCallOK, ZenonT(30)
<1> QED BY <1>1, <1>4, <1>5, QuietStep, ZenonT(30)

LEMMA InvokeRuntimeKeeps ==
  ASSUME StoreInv, NEW c \in Callers \cup {Recovery}, NEW outcome, InvokeRuntime(c, outcome) PROVE StoreInv'
<1> DEFINE call == jobCalls[c]
           next == [pc |-> "finalize", outcome |-> outcome, cmd |-> call.cmd, key |-> call.key, op |-> call.op,
                    stableJob |-> call.stableJob, stableRun |-> call.stableRun]
<1>1. /\ call.pc = "dispatch" /\ outcome \in {"accepted", "refused", "ambiguous"} /\ SetCall(c, next)
      /\ UNCHANGED jobStore /\ UNCHANGED jobTodo
      BY ZenonT(30) DEF InvokeRuntime
<1>2. call \in PlanCalls /\ JobCallOK(call, DOMAIN jobOps, DOMAIN jobRuns)
      BY <1>1, CallTyped, CallKind, ZenonT(30)
<1> HIDE DEF call
<1>3. next \in FinalizeCalls
      BY <1>1, <1>2, ZenonT(30) DEF PlanCalls, FinalizeCalls
<1>4. JobCallOK(next, DOMAIN jobOps, DOMAIN jobRuns)
      BY <1>1, <1>2, ZenonT(30) DEF JobCallOK, HasOp, HasPlan
<1> HIDE DEF next
<1>5. next \in JobCallRecords
      BY <1>3, ZenonT(30) DEF JobCallRecords
<1> QED BY <1>1, <1>4, <1>5, QuietStep, ZenonT(30)


LEMMA IdempotencyKept ==
  ASSUME StoreInv, NEW key \in Keys \cup {NoKey}, NEW hash \in JobKinds \X (RunIds \cup {LatestOne}),
         NEW op \in OpIds, op \in DOMAIN jobOps', DOMAIN jobOps \subseteq DOMAIN jobOps',
         PutIdempotency(key, hash, op)
  PROVE  /\ jobIdem' \in Tables(Keys, IdemRecords)
         /\ \A k \in DOMAIN jobIdem' : jobIdem'[k].op \in DOMAIN jobOps'
<1> DEFINE rec == [hash |-> hash, op |-> op]
<1>0. /\ jobIdem \in Tables(Keys, IdemRecords)
      /\ \A k \in DOMAIN jobIdem : jobIdem[k].op \in DOMAIN jobOps'
      BY ZenonT(30) DEF StoreInv, JobTypeOK, LinkInv
<1>1. CASE key = NoKey
      BY <1>0, <1>1, ZenonT(30) DEF PutIdempotency
<1>2. CASE key # NoKey
  <2>1. jobIdem' = Put(jobIdem, key, rec)
        BY <1>2, ZenonT(30) DEF PutIdempotency
  <2>2. rec \in IdemRecords /\ rec.op = op
        BY ZenonT(30) DEF IdemRecords
  <2> HIDE DEF rec
  <2>3. jobIdem' \in Tables(Keys, IdemRecords)
        BY <1>0, <1>2, <2>1, <2>2, PutFacts, ZenonT(30)
  <2>4. /\ DOMAIN jobIdem' = DOMAIN jobIdem \cup {key} /\ jobIdem'[key] = rec
        /\ \A k \in DOMAIN jobIdem \ {key} : jobIdem'[k] = jobIdem[k]
        BY <2>1, ZenonT(30) DEF Put
  <2> QED BY <1>0, <2>2, <2>3, <2>4, ZenonT(30)
<1> QED BY <1>1, <1>2, ZenonT(30)

LEMMA RecordRunningKeeps ==
  ASSUME StoreInv, NEW c \in Callers \cup {Recovery}, jobCalls[c].pc = "persist",
         NEW type \in JobKinds, NEW run \in RunIds, NEW st \in RunStates, NEW js \in JobStates,
         NEW stableRun \in RunRecords, DOMAIN stableRun.ops \subseteq DOMAIN jobOps,
         RecordRunning(c, type, run, st, js, stableRun), jobTodo' = jobTodo
  PROVE  StoreInv'
<1> DEFINE call == jobCalls[c]
           id == OpId(type, run, call.key)
           op == NewOperation("running")
           old == IF run \in DOMAIN jobRuns /\ type # "retry" THEN jobRuns[run] ELSE NewRun(st)
           new == [old EXCEPT !.st = st, !.ops = Put(@, id, op)]
           next == [pc |-> "enter", cmd |-> type, key |-> call.key, op |-> id,
                    stableJob |-> jobState, stableRun |-> stableRun]
<1>1. /\ Born <= MaxOps /\ jobState' = js /\ jobOps' = Put(jobOps, id, op)
      /\ jobRuns' = Put(jobRuns, run, new)
      /\ PutIdempotency(call.key, CommandHash(call.cmd, call.run), id)
      /\ SetCall(c, next)
      BY ZenonT(30) DEF RecordRunning
<1>2. call \in PersistCalls
      BY CallTyped, CallKind, ZenonT(30)
<1>3. call.key \in Keys \cup {NoKey} /\ CommandHash(call.cmd, call.run) \in JobKinds \X (RunIds \cup {LatestOne})
      BY <1>2, ZenonT(30) DEF PersistCalls, CommandHash
<1> HIDE DEF call
<1>4. id \in OpIds /\ id[1] = type /\ id[2] = run
      BY <1>1, <1>3, OpIdTyped, SMTT(30)
<1>5. op \in OpRecords /\ ~op.accepted
  <2>1. op \in OpRecords
        BY <1>1, StoreFacts, BornFacts, ZenonT(30)
  <2> QED BY <2>1, ZenonT(30) DEF NewOperation
<1>6. old \in RunRecords /\ DOMAIN old.ops \subseteq DOMAIN jobOps
  <2>1. CASE run \in DOMAIN jobRuns /\ type # "retry"
        BY <2>1, StoreFacts, ZenonT(30)
  <2>2. CASE ~(run \in DOMAIN jobRuns /\ type # "retry")
        BY <2>2, NewRunTyped, ZenonT(30)
  <2> QED BY <2>1, <2>2, ZenonT(30)
<1> HIDE DEF id, op, old
<1>7. new \in RunRecords /\ new.ops = Put(old.ops, id, op)
  <2>1. Put(old.ops, id, op) \in Tables(OpIds, OpRecords)
        BY <1>4, <1>5, <1>6, PutFacts, ZenonT(30) DEF RunRecords
  <2> QED BY <1>6, <2>1, Zenon DEF RunRecords
<1> HIDE DEF new
<1>8. StoreGrown /\ id \in DOMAIN jobOps' /\ id[2] \in DOMAIN jobRuns'
      BY <1>1, <1>4, <1>5, <1>6, <1>7, AddOperation, ZenonT(30)
<1>9. DOMAIN jobOps \subseteq DOMAIN jobOps'
      BY <1>8, ZenonT(30) DEF StoreGrown
<1>10. /\ jobIdem' \in Tables(Keys, IdemRecords)
       /\ \A k \in DOMAIN jobIdem' : jobIdem'[k].op \in DOMAIN jobOps'
      BY <1>1, <1>3, <1>4, <1>8, <1>9, IdempotencyKept, ZenonT(30)
<1>11. next \in JobCallRecords
  <2>1. next \in PlanCalls
        BY <1>3, <1>4, StoreFacts, ZenonT(30) DEF PlanCalls
  <2> QED BY <2>1, ZenonT(30) DEF JobCallRecords
<1>12. JobCallOK(next, DOMAIN jobOps', DOMAIN jobRuns')
      BY <1>4, <1>8, <1>9, ZenonT(30) DEF JobCallOK, HasOp, HasPlan
<1> HIDE DEF next
<1>13. jobState' \in JobStates /\ jobTodo' \subseteq DOMAIN jobOps'
      BY <1>1, <1>9, ZenonT(30) DEF StoreInv, LinkInv
<1> QED BY <1>1, <1>8, <1>10, <1>11, <1>12, <1>13, StoreStep, ZenonT(30)

(* Recording a key for an operation already there, and answering. *)
LEMMA AnswerKeeps ==
  ASSUME StoreInv, StoreGrown, NEW c \in Callers \cup {Recovery}, jobCalls[c].pc = "persist",
         NEW id \in OpIds, id \in DOMAIN jobOps', jobState' = jobState, jobTodo' = jobTodo, Return(c),
         PutIdempotency(jobCalls[c].key, CommandHash(jobCalls[c].cmd, jobCalls[c].run), id)
  PROVE  StoreInv'
<1> DEFINE call == jobCalls[c]
<1>1. call \in PersistCalls
      BY CallTyped, CallKind, ZenonT(30)
<1>2. call.key \in Keys \cup {NoKey} /\ CommandHash(call.cmd, call.run) \in JobKinds \X (RunIds \cup {LatestOne})
      BY <1>1, ZenonT(30) DEF PersistCalls, CommandHash
<1>3. DOMAIN jobOps \subseteq DOMAIN jobOps'
      BY ZenonT(30) DEF StoreGrown
<1>4. /\ jobIdem' \in Tables(Keys, IdemRecords)
      /\ \A k \in DOMAIN jobIdem' : jobIdem'[k].op \in DOMAIN jobOps'
      BY <1>2, <1>3, IdempotencyKept, ZenonT(30)
<1>5. jobState' \in JobStates /\ jobTodo' \subseteq DOMAIN jobOps'
      BY <1>3, StoreFacts, ZenonT(30) DEF StoreInv, LinkInv
<1>6. [pc |-> "idle"] \in JobCallRecords /\ JobCallOK([pc |-> "idle"], DOMAIN jobOps', DOMAIN jobRuns')
      BY IdleCallOK, ZenonT(30)
<1>7. SetCall(c, [pc |-> "idle"])
      BY ZenonT(30) DEF Return, JobIdle
<1> QED BY <1>4, <1>5, <1>6, <1>7, StoreStep, ZenonT(30)

LEMMA ReturnKeeps ==
  ASSUME StoreInv, NEW c \in Callers \cup {Recovery}, Return(c), UNCHANGED jobStore, jobTodo' = jobTodo
  PROVE  StoreInv'
<1>1. [pc |-> "idle"] \in JobCallRecords /\ JobCallOK([pc |-> "idle"], DOMAIN jobOps, DOMAIN jobRuns)
      BY IdleCallOK, ZenonT(30)
<1>2. SetCall(c, [pc |-> "idle"])
      BY ZenonT(30) DEF Return, JobIdle
<1> QED BY <1>1, <1>2, QuietStep, ZenonT(30)


LEMMA TransientTyped ==
  ASSUME NEW k \in Lifecycle PROVE Transient[k] \in RunStates /\ JobStateOf[k] \in JobStates
BY LifecycleIs, SMTT(30) DEF Transient, JobStateOf, RunStates, JobStates

LEMMA PersistCommandKeeps ==
  ASSUME StoreInv, NEW c \in Callers \cup {Recovery}, PersistCommand(c) PROVE StoreInv'
<1> DEFINE call == jobCalls[c]
           run == IF call.run = LatestOne THEN LatestRun ELSE call.run
           next == <<run[1] + 1, jobState>>
           ids == {i \in DOMAIN jobOps : i[1] = call.cmd /\ i[2] = run}
           last == LatestOp(ids, jobOps)
<1>1. call.pc = "persist" /\ call.cmd # "admit" /\ jobTodo' = jobTodo
      BY ZenonT(30) DEF PersistCommand
<1>2. /\ call.cmd \in JobKinds /\ call.run \in DOMAIN jobRuns \cup {LatestOne}
  <2>1. call \in PersistCalls /\ JobCallOK(call, DOMAIN jobOps, DOMAIN jobRuns)
        BY <1>1, CallTyped, CallKind, ZenonT(30)
  <2> QED BY <1>1, <2>1, ZenonT(30) DEF PersistCalls, JobCallOK
<1>3. DOMAIN jobRuns # {} => run \in DOMAIN jobRuns
  <2>1. CASE call.run = LatestOne
        BY <2>1, StoreFacts, LatestRunExists, ZenonT(30)
  <2>2. CASE call.run # LatestOne
        BY <1>2, <2>2, ZenonT(30)
  <2> QED BY <2>1, <2>2, ZenonT(30)
<1>4. \/ /\ DOMAIN jobRuns # {} /\ AlreadyDone(call.cmd, run)
         /\ PutIdempotency(call.key, CommandHash(call.cmd, call.run), last)
         /\ Return(c) /\ UNCHANGED <<jobState, jobRuns, jobOps>>
      \/ /\ DOMAIN jobRuns # {}
         /\ IF call.cmd = "retry"
              THEN /\ next[1] <= MaxAttempts
                   /\ RecordRunning(c, "retry", next, "retrying", "pending", jobRuns[run])
              ELSE RecordRunning(c, call.cmd, run, Transient[call.cmd], JobStateOf[call.cmd], jobRuns[run])
      \/ Return(c) /\ UNCHANGED jobStore
      BY ZenonT(30) DEF PersistCommand
<1>5. ASSUME DOMAIN jobRuns # {}, AlreadyDone(call.cmd, run),
             PutIdempotency(call.key, CommandHash(call.cmd, call.run), last),
             Return(c), UNCHANGED <<jobState, jobRuns, jobOps>>
      PROVE  StoreInv'
  <2>1. ids # {} /\ ids \subseteq DOMAIN jobOps
        BY <1>5, ZenonT(30) DEF AlreadyDone
  <2>2. last \in ids
    <3> HIDE DEF ids
    <3> QED BY <2>1, StoreFacts, LatestOpExists, ZenonT(30)
  <2>3. last \in DOMAIN jobOps' /\ last \in OpIds
        BY <1>5, <2>1, <2>2, StoreFacts, ZenonT(30)
  <2>4. StoreGrown
        BY <1>5, StoreFacts, ZenonT(30) DEF StoreGrown
  <2> HIDE DEF last, ids
  <2> QED BY <1>1, <1>5, <2>3, <2>4, AnswerKeeps, ZenonT(30)
<1>6. ASSUME DOMAIN jobRuns # {},
             IF call.cmd = "retry"
               THEN /\ next[1] <= MaxAttempts
                    /\ RecordRunning(c, "retry", next, "retrying", "pending", jobRuns[run])
               ELSE RecordRunning(c, call.cmd, run, Transient[call.cmd], JobStateOf[call.cmd], jobRuns[run])
      PROVE  StoreInv'
  <2> HIDE DEF run
  <2>1. /\ run \in RunIds /\ jobRuns[run] \in RunRecords
        /\ DOMAIN jobRuns[run].ops \subseteq DOMAIN jobOps
        BY <1>3, <1>6, StoreFacts, ZenonT(30)
  <2>2. CASE call.cmd = "retry"
    <3>1. run[1] \in 1..RunBound
          BY <2>1, ZenonT(30) DEF RunIds
    <3>2. next[1] \in 1..RunBound
          BY <1>6, <2>2, <3>1, JobAssumption, SMTT(30) DEF RunBound
    <3>3. next \in RunIds
          BY <3>2, StoreFacts, ZenonT(30) DEF RunIds
    <3>4. RecordRunning(c, "retry", next, "retrying", "pending", jobRuns[run])
          BY <1>6, <2>2, ZenonT(30)
    <3>5. "retry" \in JobKinds /\ "retrying" \in RunStates /\ "pending" \in JobStates
          BY ZenonT(30) DEF JobKinds, RunStates, JobStates
    <3> HIDE DEF next
    <3> QED BY <1>1, <2>1, <3>3, <3>4, <3>5, RecordRunningKeeps, ZenonT(30)
  <2>3. CASE call.cmd # "retry"
    <3>1. call.cmd \in Lifecycle
          BY <1>1, <1>2, <2>3, ZenonT(30) DEF JobKinds
    <3>2. Transient[call.cmd] \in RunStates /\ JobStateOf[call.cmd] \in JobStates
          BY <3>1, TransientTyped, ZenonT(30)
    <3>3. RecordRunning(c, call.cmd, run, Transient[call.cmd], JobStateOf[call.cmd], jobRuns[run])
          BY <1>6, <2>3, ZenonT(30)
    <3> HIDE DEF call
    <3> QED BY <1>1, <1>2, <2>1, <3>2, <3>3, RecordRunningKeeps, ZenonT(30) DEF call
  <2> QED BY <2>2, <2>3, ZenonT(30)
<1>7. ASSUME Return(c), UNCHANGED jobStore PROVE StoreInv'
      BY <1>1, <1>7, ReturnKeeps, ZenonT(30)
<1> QED BY <1>4, <1>5, <1>6, <1>7, ZenonT(30)

LEMMA PersistAdmitKeeps ==
  ASSUME StoreInv, NEW c \in Callers \cup {Recovery}, PersistAdmit(c) PROVE StoreInv'
<1> DEFINE call == jobCalls[c]
           fresh == DOMAIN jobRuns = {}
           run == IF fresh THEN <<1, jobState>> ELSE LatestRun
           ids == {i \in DOMAIN jobOps : i[1] = "admit" /\ i[2] = run}
           id == IF ids = {} THEN OpId("admit", run, call.key) ELSE LatestOp(ids, jobOps)
           op == NewOperation("succeeded")
           stable == IF fresh THEN NewRun("admitting") ELSE jobRuns[run]
<1>1. call.pc = "persist" /\ jobTodo' = jobTodo
      BY ZenonT(30) DEF PersistAdmit
<1>2. call.key \in Keys \cup {NoKey}
      BY <1>1, CallTyped, CallKind, ZenonT(30) DEF PersistCalls
<1>3. /\ run \in RunIds
      /\ ~fresh => run \in DOMAIN jobRuns
  <2>1. CASE fresh
        BY <2>1, StoreFacts, JobAssumption, SMTT(30) DEF RunIds, RunBound
  <2>2. CASE ~fresh
        BY <2>2, StoreFacts, LatestRunExists, ZenonT(30)
  <2> QED BY <2>1, <2>2, ZenonT(30)
<1>4. "admit" \in JobKinds /\ "admitting" \in RunStates /\ "pending" \in JobStates
      BY ZenonT(30) DEF JobKinds, RunStates, JobStates
<1>5. \/ /\ ~fresh /\ (ids = {} => Born <= MaxOps)
         /\ jobOps' = (IF ids # {} THEN jobOps ELSE Put(jobOps, id, op))
         /\ PutIdempotency(call.key, CommandHash(call.cmd, call.run), id)
         /\ Return(c) /\ UNCHANGED <<jobState, jobRuns>>
      \/ RecordRunning(c, "admit", run, "admitting", "pending", stable)
      \/ Return(c) /\ UNCHANGED jobStore
      BY ZenonT(30) DEF PersistAdmit
<1>6. ASSUME ~fresh, ids = {} => Born <= MaxOps,
             jobOps' = (IF ids # {} THEN jobOps ELSE Put(jobOps, id, op)),
             PutIdempotency(call.key, CommandHash(call.cmd, call.run), id),
             Return(c), UNCHANGED <<jobState, jobRuns>>
      PROVE  StoreInv'
  <2> HIDE DEF run
  <2>1. id \in OpIds /\ id \in DOMAIN jobOps' /\ StoreGrown
    <3>1. CASE ids # {}
      <4>1. ids \subseteq DOMAIN jobOps
            BY ZenonT(30)
      <4>2. LatestOp(ids, jobOps) \in ids
        <5> HIDE DEF ids
        <5> QED BY <3>1, <4>1, StoreFacts, LatestOpExists, ZenonT(30)
      <4>3. id \in DOMAIN jobOps /\ id \in OpIds
            BY <3>1, <4>1, <4>2, StoreFacts, ZenonT(30)
      <4>4. jobOps' = jobOps /\ jobRuns' = jobRuns
            BY <1>6, <3>1, ZenonT(30)
      <4> QED BY <4>3, <4>4, StoreFacts, ZenonT(30) DEF StoreGrown
    <3>2. CASE ids = {}
      <4>1. id \in OpIds /\ id[2] = run
            BY <1>2, <1>3, <1>4, <1>6, <3>2, OpIdTyped, SMTT(30)
      <4>2. op \in OpRecords /\ ~op.accepted
        <5>1. op \in OpRecords
              BY <1>6, <3>2, StoreFacts, BornFacts, ZenonT(30)
        <5> QED BY <5>1, ZenonT(30) DEF NewOperation
      <4>3. jobOps' = Put(jobOps, id, op) /\ jobRuns' = jobRuns
            BY <1>6, <3>2, ZenonT(30)
      <4> HIDE DEF id, op, ids
      <4>4. /\ DOMAIN jobOps' = DOMAIN jobOps \cup {id} /\ jobOps'[id] = op
            /\ \A j \in DOMAIN jobOps \ {id} : jobOps'[j] = jobOps[j]
            BY <4>3, ZenonT(30) DEF Put
      <4>5. jobOps' \in Tables(OpIds, OpRecords)
            BY <4>1, <4>2, <4>3, StoreFacts, PutFacts, ZenonT(30)
      <4>6. RunsLinked(jobRuns', jobOps')
        <5>1. \A j \in DOMAIN jobOps' : j[2] \in DOMAIN jobRuns
              BY <1>3, <1>6, <4>1, <4>4, StoreFacts, ZenonT(30)
        <5>2. \A q \in DOMAIN jobRuns : DOMAIN jobRuns[q].ops \subseteq DOMAIN jobOps'
              BY <4>4, StoreFacts, ZenonT(30)
        <5> QED BY <4>3, <5>1, <5>2, ZenonT(30) DEF RunsLinked
      <4>7. AcceptedOK(jobOps')
            BY <4>2, <4>4, StoreFacts, ZenonT(30) DEF AcceptedOK
      <4> QED BY <4>1, <4>3, <4>4, <4>5, <4>6, <4>7, StoreFacts, ZenonT(30) DEF StoreGrown
    <3> QED BY <3>1, <3>2, ZenonT(30)
  <2> HIDE DEF id
  <2> QED BY <1>1, <1>6, <2>1, AnswerKeeps, ZenonT(30)
<1>7. ASSUME RecordRunning(c, "admit", run, "admitting", "pending", stable) PROVE StoreInv'
  <2>1. stable \in RunRecords /\ DOMAIN stable.ops \subseteq DOMAIN jobOps
    <3>1. CASE fresh
          BY <1>4, <3>1, NewRunTyped, ZenonT(30)
    <3>2. CASE ~fresh
      <4> HIDE DEF run, fresh
      <4> QED BY <1>3, <3>2, StoreFacts, ZenonT(30) DEF stable
    <3> QED BY <3>1, <3>2, ZenonT(30)
  <2> HIDE DEF run, stable
  <2> QED BY <1>1, <1>3, <1>4, <1>7, <2>1, RecordRunningKeeps, ZenonT(30)
<1>8. ASSUME Return(c), UNCHANGED jobStore PROVE StoreInv'
      BY <1>1, <1>8, ReturnKeeps, ZenonT(30)
<1> QED BY <1>5, <1>6, <1>7, <1>8, ZenonT(30)


(* Finalizing rewrites the call's own operation and no other. *)
LEMMA FinalizeFacts ==
  ASSUME StoreInv, NEW c \in Callers \cup {Recovery}, FinalizePhase(c)
  PROVE  /\ StoreGrown /\ jobState' \in JobStates /\ DOMAIN jobOps' = DOMAIN jobOps
         /\ jobCalls[c].op \in DOMAIN jobOps
         /\ \A j \in DOMAIN jobOps \ {jobCalls[c].op} : jobOps'[j] = jobOps[j]
<1> DEFINE call == jobCalls[c]
           id == call.op
           op == jobOps[id]
           run == jobRuns[id[2]]
<1>1. /\ call.pc = "finalize"
      /\ \/ IF call.cmd \in {"admit", "retry"} THEN FinalizePrepare(c) ELSE FinalizeCommand(c)
         \/ UNCHANGED <<jobState, jobRuns, jobOps>>
      BY ZenonT(30) DEF FinalizePhase
<1>2. call \in FinalizeCalls /\ JobCallOK(call, DOMAIN jobOps, DOMAIN jobRuns)
      BY <1>1, CallTyped, CallKind, ZenonT(30)
<1>3. /\ id \in DOMAIN jobOps /\ call.cmd = id[1] /\ call.cmd \in JobKinds
      /\ call.outcome \in {"accepted", "refused", "ambiguous"} /\ call.stableJob \in JobStates
      /\ call.stableRun \in RunRecords /\ DOMAIN call.stableRun.ops \subseteq DOMAIN jobOps
      BY <1>1, <1>2, ZenonT(30) DEF JobCallOK, HasOp, HasPlan, FinalizeCalls
<1>4. /\ op \in OpRecords /\ run \in RunRecords /\ DOMAIN run.ops \subseteq DOMAIN jobOps
      /\ jobState \in JobStates /\ (op.accepted => id[1] \in Lifecycle)
      BY <1>3, StoreFacts, ZenonT(30) DEF AcceptedOK
<1>5. CASE UNCHANGED <<jobState, jobRuns, jobOps>>
      BY <1>3, <1>5, StoreFacts, ZenonT(30) DEF StoreGrown
<1>6. ASSUME NEW state \in {"succeeded", "failed"}, NEW to \in RunRecords, DOMAIN to.ops \subseteq DOMAIN jobOps,
             PutBoth(id, [op EXCEPT !.state = state], to)
      PROVE  /\ StoreGrown /\ DOMAIN jobOps' = DOMAIN jobOps
             /\ \A j \in DOMAIN jobOps \ {id} : jobOps'[j] = jobOps[j]
  <2> DEFINE new == [op EXCEPT !.state = state]
  <2> HIDE DEF op, run
  <2>1. new \in OpRecords /\ (new.accepted => id[1] \in Lifecycle)
        BY <1>4, ZenonT(30) DEF OpRecords
  <2>2. PutBoth(id, new, to)
        BY <1>6, ZenonT(30)
  <2> HIDE DEF new, id
  <2> QED BY <1>3, <1>6, <2>1, <2>2, PutBothFacts, ZenonT(30)
<1>7. CASE FinalizePrepare(c)
  <2>1. CASE call.outcome = "accepted"
    <3> DEFINE to == [run EXCEPT !.st = "waiting"]
    <3>1. jobState' = "pending" /\ PutBoth(id, [op EXCEPT !.state = "succeeded"], to)
          BY <1>7, <2>1, ZenonT(30) DEF FinalizePrepare
    <3>2. to \in RunRecords /\ to.ops = run.ops
      <4> HIDE DEF run
      <4> QED BY <1>4, ZenonT(30) DEF RunRecords, RunStates
    <3> HIDE DEF to
    <3> QED BY <1>3, <1>4, <1>6, <3>1, <3>2, ZenonT(30) DEF JobStates
  <2>2. CASE call.outcome # "accepted"
    <3> DEFINE to == [run EXCEPT !.obs = NoObs]
    <3>1. jobState' = jobState /\ PutBoth(id, [op EXCEPT !.state = "failed"], to)
          BY <1>7, <2>2, ZenonT(30) DEF FinalizePrepare
    <3>2. to \in RunRecords /\ to.ops = run.ops
      <4> HIDE DEF run
      <4> QED BY <1>4, ZenonT(30) DEF RunRecords
    <3> HIDE DEF to
    <3> QED BY <1>3, <1>4, <1>6, <3>1, <3>2, ZenonT(30)
  <2> QED BY <2>1, <2>2, ZenonT(30)
<1>8. CASE call.cmd \notin {"admit", "retry"} /\ FinalizeCommand(c)
  <2>1. CASE call.outcome = "ambiguous"
    <3>1. UNCHANGED <<jobState, jobRuns, jobOps>>
          BY <1>8, <2>1, ZenonT(30) DEF FinalizeCommand
    <3> QED BY <1>5, <3>1, ZenonT(30)
  <2>2. CASE call.outcome = "refused"
    <3>1. jobState' = call.stableJob /\ PutBoth(id, [op EXCEPT !.state = "failed"], call.stableRun)
          BY <1>8, <2>2, ZenonT(30) DEF FinalizeCommand
    <3> QED BY <1>3, <1>6, <3>1, ZenonT(30)
  <2>3. CASE call.outcome = "accepted"
    <3> DEFINE new == [op EXCEPT !.accepted = TRUE]
    <3>1. jobState' = jobState /\ PutBoth(id, new, run)
          BY <1>8, <2>3, ZenonT(30) DEF FinalizeCommand
    <3>2. id[1] \in Lifecycle
          BY <1>3, <1>8, ZenonT(30) DEF JobKinds
    <3>3. new \in OpRecords
      <4> HIDE DEF op
      <4> QED BY <1>4, ZenonT(30) DEF OpRecords
    <3> HIDE DEF new, run, id, op
    <3>4. /\ StoreGrown /\ DOMAIN jobOps' = DOMAIN jobOps
          /\ \A j \in DOMAIN jobOps \ {id} : jobOps'[j] = jobOps[j]
          BY <1>3, <1>4, <3>1, <3>2, <3>3, PutBothFacts, ZenonT(30)
    <3> QED BY <1>3, <1>4, <3>1, <3>4, ZenonT(30) DEF id
  <2> QED BY <1>3, <2>1, <2>2, <2>3, ZenonT(30)
<1> QED BY <1>1, <1>5, <1>7, <1>8, ZenonT(30)

LEMMA StartupCallOK ==
  ASSUME NEW ids, NEW runs, NEW pc \in {"status", "decide", "confirm"}, NEW id \in OpIds, id \in ids
  PROVE  [pc |-> pc, op |-> id] \in JobCallRecords /\ JobCallOK([pc |-> pc, op |-> id], ids, runs)
<1>1. [pc |-> pc, op |-> id] \in StartupCalls
      BY ZenonT(30) DEF StartupCalls
<1>2. JobCallOK([pc |-> pc, op |-> id], ids, runs)
      BY ZenonT(30) DEF JobCallOK, HasOp, HasPlan
<1> QED BY <1>1, <1>2, ZenonT(30) DEF JobCallRecords

LEMMA FinalizePhaseKeeps ==
  ASSUME StoreInv, NEW c \in Callers \cup {Recovery}, FinalizePhase(c) PROVE StoreInv'
<1> DEFINE id == jobCalls[c].op
           next == IF c = Recovery THEN [pc |-> "confirm", op |-> id] ELSE [pc |-> "idle"]
<1>1. SetCall(c, next) /\ jobIdem' = jobIdem /\ jobTodo' = jobTodo
      BY ZenonT(30) DEF FinalizePhase, JobIdle
<1>2. StoreGrown /\ jobState' \in JobStates /\ id \in DOMAIN jobOps' /\ id \in OpIds
      BY FinalizeFacts, StoreFacts, ZenonT(30)
<1>3. next \in JobCallRecords /\ JobCallOK(next, DOMAIN jobOps', DOMAIN jobRuns')
  <2> HIDE DEF id
  <2>1. CASE c = Recovery
        BY <1>2, <2>1, StartupCallOK, ZenonT(30)
  <2>2. CASE c # Recovery
        BY <2>2, IdleCallOK, ZenonT(30)
  <2> QED BY <2>1, <2>2, ZenonT(30)
<1> HIDE DEF next
<1> QED BY <1>1, <1>2, <1>3, RewriteStep, ZenonT(30)

LEMMA ReportStatusKeeps ==
  ASSUME StoreInv, NEW run \in DOMAIN jobRuns, NEW obs \in Observed, ReportComponentStatus(run, obs)
  PROVE  StoreInv'
<1>1. ObserveRun(run, obs) /\ jobIdem' = jobIdem /\ jobCalls' = jobCalls /\ jobTodo' = jobTodo
      BY ZenonT(30) DEF ReportComponentStatus
<1>2. StoreGrown /\ jobState' \in JobStates
      BY <1>1, ObserveFacts, ZenonT(30)
<1>3. /\ jobCalls[Recovery] \in JobCallRecords
      /\ JobCallOK(jobCalls[Recovery], DOMAIN jobOps, DOMAIN jobRuns)
      BY CallTyped, ZenonT(30)
<1>4. JobCallOK(jobCalls[Recovery], DOMAIN jobOps', DOMAIN jobRuns')
      BY <1>2, <1>3, ZenonT(30) DEF StoreGrown, JobCallOK
<1> QED BY <1>1, <1>2, <1>3, <1>4, RewriteStep, ZenonT(30)

LEMMA RestartKeeps ==
  ASSUME StoreInv, JobRestart PROVE StoreInv'
<1>1. /\ jobCalls' = [c \in DOMAIN jobCalls |-> IF c = Recovery THEN [pc |-> "next"] ELSE [pc |-> "idle"]]
      /\ jobTodo' \subseteq DOMAIN jobOps
      /\ jobState' = jobState /\ jobRuns' = jobRuns /\ jobOps' = jobOps /\ jobIdem' = jobIdem
      BY ZenonT(30) DEF JobRestart, JobIdle, jobStore
<1>2. DOMAIN jobCalls = Callers \cup {Recovery}
      BY ZenonT(30) DEF StoreInv, JobTypeOK
<1>3. \A pc \in {"idle", "next"} : /\ [pc |-> pc] \in JobCallRecords
                                   /\ JobCallOK([pc |-> pc], DOMAIN jobOps, DOMAIN jobRuns)
      BY IdleCallOK, ZenonT(30)
<1>4. \A c \in Callers \cup {Recovery} : /\ jobCalls'[c] \in JobCallRecords
                                         /\ JobCallOK(jobCalls'[c], DOMAIN jobOps, DOMAIN jobRuns)
      BY <1>1, <1>2, <1>3, ZenonT(30)
<1>5. jobCalls' \in [Callers \cup {Recovery} -> JobCallRecords]
      BY <1>1, <1>2, <1>4, ZenonT(30)
<1> QED BY <1>1, <1>4, <1>5, ZenonT(30) DEF StoreInv, JobTypeOK, LinkInv


(* The steps of the startup reconciliation itself: what each leaves in doubt. *)
LEMMA ReconcileNextFacts ==
  ASSUME StoreInv, ReconcileNext
  PROVE  /\ StoreInv' /\ UNCHANGED jobStore /\ UNCHANGED jobInflight /\ jobCalls[Recovery].pc = "next"
         /\ \/ jobTodo = {} /\ SetCall(Recovery, [pc |-> "idle"])
            \/ \E id \in jobTodo, pc \in {"decide", "status"} :
                  jobTodo' = jobTodo \ {id} /\ SetCall(Recovery, [pc |-> pc, op |-> id])
<1> DEFINE id == CHOOSE i \in jobTodo : \A j \in jobTodo : jobOps[i].born <= jobOps[j].born
           pc == IF id[1] \in {"admit", "retry"} THEN "decide" ELSE "status"
<1>1. /\ jobCalls[Recovery].pc = "next" /\ UNCHANGED jobStore /\ UNCHANGED jobInflight
      /\ IF jobTodo = {} THEN Return(Recovery) /\ UNCHANGED jobTodo
         ELSE jobTodo' = jobTodo \ {id} /\ SetCall(Recovery, [pc |-> pc, op |-> id])
      BY ZenonT(30) DEF ReconcileNext
<1>2. jobTodo \subseteq DOMAIN jobOps
      BY ZenonT(30) DEF StoreInv, LinkInv
<1>3. jobTodo # {} => id \in jobTodo
      BY <1>2, StoreFacts, OldestExists, ZenonT(30)
<1>4. pc \in {"decide", "status"}
      BY ZenonT(30)
<1> HIDE DEF id, pc
<1>5. CASE jobTodo = {}
  <2>1. Return(Recovery) /\ jobTodo' = jobTodo
        BY <1>1, <1>5, ZenonT(30)
  <2>2. StoreInv'
        BY <1>1, <2>1, ReturnKeeps, ZenonT(30)
  <2>3. SetCall(Recovery, [pc |-> "idle"])
        BY <2>1, ZenonT(30) DEF Return, JobIdle
  <2> QED BY <1>1, <1>5, <2>2, <2>3, ZenonT(30)
<1>6. CASE jobTodo # {}
  <2>1. jobTodo' = jobTodo \ {id} /\ SetCall(Recovery, [pc |-> pc, op |-> id])
        BY <1>1, <1>6, ZenonT(30)
  <2>2. id \in jobTodo /\ id \in DOMAIN jobOps /\ id \in OpIds
        BY <1>2, <1>3, <1>6, StoreFacts, ZenonT(30)
  <2>3. /\ [pc |-> pc, op |-> id] \in JobCallRecords
        /\ JobCallOK([pc |-> pc, op |-> id], DOMAIN jobOps, DOMAIN jobRuns)
        BY <1>4, <2>2, StartupCallOK, ZenonT(30)
  <2>4. StoreInv'
        BY <1>1, <2>1, <2>3, QuietStep, ZenonT(30)
  <2> QED BY <1>1, <1>4, <2>1, <2>2, <2>4, ZenonT(30)
<1> QED BY <1>5, <1>6, ZenonT(30)

LEMMA ReconcileStatusFacts ==
  ASSUME StoreInv, NEW obs \in Observed, ReconcileStatus(obs)
  PROVE  /\ StoreInv' /\ jobTodo' = jobTodo /\ jobInflight' = jobInflight
         /\ jobCalls[Recovery].pc = "status" /\ jobCalls[Recovery].op \in DOMAIN jobOps
         /\ SetCall(Recovery, [pc |-> "decide", op |-> jobCalls[Recovery].op])
         /\ DOMAIN jobOps' = DOMAIN jobOps
         /\ \A j \in DOMAIN jobOps : jobOps'[j] = jobOps[j] \/ jobOps'[j].state # "running"
<1> DEFINE call == jobCalls[Recovery]
<1>1. /\ call.pc = "status" /\ jobIdem' = jobIdem /\ jobTodo' = jobTodo /\ jobInflight' = jobInflight
      /\ SetCall(Recovery, [call EXCEPT !.pc = "decide"])
      /\ ObserveRun(call.op[2], obs) \/ UNCHANGED <<jobState, jobRuns, jobOps>>
      BY Zenon DEF ReconcileStatus
<1>2. call \in StartupCalls /\ call.op \in DOMAIN jobOps
      BY <1>1, CallTyped, CallKind, ZenonT(30) DEF JobCallOK, HasOp
<1>3. SetCall(Recovery, [pc |-> "decide", op |-> call.op])
  <2> HIDE DEF call
  <2>1. [call EXCEPT !.pc = "decide"] = [pc |-> "decide", op |-> call.op]
        BY <1>2 DEF StartupCalls
  <2> QED BY <1>1, <2>1, ZenonT(30)
<1>4. /\ StoreGrown /\ jobState' \in JobStates /\ DOMAIN jobOps' = DOMAIN jobOps
      /\ \A j \in DOMAIN jobOps : jobOps'[j] = jobOps[j] \/ jobOps'[j].state # "running"
  <2>1. CASE ObserveRun(call.op[2], obs)
    <3>1. call.op[2] \in DOMAIN jobRuns
          BY <1>2, StoreFacts, ZenonT(30)
    <3> QED BY <2>1, <3>1, ObserveFacts, ZenonT(30)
  <2>2. CASE UNCHANGED <<jobState, jobRuns, jobOps>>
        BY <2>2, StoreFacts, ZenonT(30) DEF StoreGrown
  <2> QED BY <1>1, <2>1, <2>2, ZenonT(30)
<1>5. /\ [pc |-> "decide", op |-> call.op] \in JobCallRecords
      /\ JobCallOK([pc |-> "decide", op |-> call.op], DOMAIN jobOps', DOMAIN jobRuns')
      BY <1>2, <1>4, StoreFacts, StartupCallOK, ZenonT(30)
<1>6. StoreInv'
      BY <1>1, <1>3, <1>4, <1>5, RewriteStep, ZenonT(30)
<1> QED BY <1>1, <1>2, <1>3, <1>4, <1>6, ZenonT(30)

LEMMA ReconcileDecideFacts ==
  ASSUME StoreInv, ReconcileDecide
  PROVE  /\ StoreInv' /\ jobTodo' = jobTodo /\ jobInflight' = jobInflight
         /\ jobCalls[Recovery].pc = "decide" /\ jobCalls[Recovery].op \in DOMAIN jobOps
         /\ \/ /\ jobOps' = jobOps /\ jobOps[jobCalls[Recovery].op].state = "running"
               /\ \E key : SetCall(Recovery, [pc |-> "resume", op |-> jobCalls[Recovery].op, key |-> key])
            \/ /\ DOMAIN jobOps' = DOMAIN jobOps /\ jobOps'[jobCalls[Recovery].op].state # "running"
               /\ \A j \in DOMAIN jobOps \ {jobCalls[Recovery].op} : jobOps'[j] = jobOps[j]
               /\ SetCall(Recovery, [pc |-> "next"])
<1> DEFINE id == jobCalls[Recovery].op
           next == [pc |-> "resume", op |-> id, key |-> id[3]]
<1>1. /\ jobCalls[Recovery].pc = "decide" /\ jobTodo' = jobTodo /\ jobInflight' = jobInflight
      /\ jobState' = jobState /\ jobIdem' = jobIdem
      /\ \/ jobOps[id].state = "running" /\ SetCall(Recovery, next) /\ UNCHANGED <<jobRuns, jobOps>>
         \/ MarkReconciliationRequired(id) /\ SetCall(Recovery, [pc |-> "next"])
      BY Zenon DEF ReconcileDecide
<1>2. id \in DOMAIN jobOps /\ id \in OpIds /\ id[3] \in Keys \cup {NoKey}
  <2>1. id \in DOMAIN jobOps
        BY <1>1, CallTyped, ZenonT(30) DEF JobCallOK, HasOp
  <2> QED BY <2>1, StoreFacts, OpIdParts, ZenonT(30)
<1> HIDE DEF id
<1>3. CASE jobOps[id].state = "running" /\ SetCall(Recovery, next) /\ UNCHANGED <<jobRuns, jobOps>>
  <2>1. next \in ReplayCalls
        BY <1>2, ZenonT(30) DEF ReplayCalls
  <2>2. JobCallOK(next, DOMAIN jobOps, DOMAIN jobRuns)
        BY <1>2, ZenonT(30) DEF JobCallOK, HasOp, HasPlan
  <2>3. next \in JobCallRecords
        BY <2>1, ZenonT(30) DEF JobCallRecords
  <2>4. StoreInv'
    <3> HIDE DEF next
    <3>1. UNCHANGED jobStore
          BY <1>1, <1>3, ZenonT(30) DEF jobStore
    <3> QED BY <1>1, <1>3, <2>2, <2>3, <3>1, QuietStep, ZenonT(30)
  <2> QED BY <1>1, <1>2, <1>3, <2>4, ZenonT(30) DEF id
<1>4. CASE MarkReconciliationRequired(id) /\ SetCall(Recovery, [pc |-> "next"])
  <2>1. /\ StoreGrown /\ DOMAIN jobOps' = DOMAIN jobOps /\ jobOps'[id].state # "running"
        /\ \A j \in DOMAIN jobOps \ {id} : jobOps'[j] = jobOps[j]
        BY <1>2, <1>4, MarkFacts, ZenonT(30)
  <2>2. [pc |-> "next"] \in JobCallRecords /\ JobCallOK([pc |-> "next"], DOMAIN jobOps', DOMAIN jobRuns')
        BY IdleCallOK, ZenonT(30)
  <2>3. jobState' \in JobStates
        BY <1>1, StoreFacts, ZenonT(30)
  <2>4. StoreInv'
        BY <1>1, <1>4, <2>1, <2>2, <2>3, RewriteStep, ZenonT(30)
  <2> QED BY <1>1, <1>2, <1>4, <2>1, <2>4, ZenonT(30) DEF id
<1> QED BY <1>1, <1>3, <1>4, ZenonT(30)

LEMMA ReconcileConfirmFacts ==
  ASSUME StoreInv, ReconcileConfirm
  PROVE  /\ StoreInv' /\ jobTodo' = jobTodo /\ jobInflight' = jobInflight
         /\ jobCalls[Recovery].pc = "confirm" /\ jobCalls[Recovery].op \in DOMAIN jobOps
         /\ DOMAIN jobOps' = DOMAIN jobOps /\ jobCalls[Recovery].op \notin InDoubt(jobOps')
         /\ \A j \in DOMAIN jobOps \ {jobCalls[Recovery].op} : jobOps'[j] = jobOps[j]
         /\ SetCall(Recovery, [pc |-> "next"])
<1> DEFINE id == jobCalls[Recovery].op
<1>1. /\ jobCalls[Recovery].pc = "confirm" /\ jobTodo' = jobTodo /\ jobInflight' = jobInflight
      /\ jobState' = jobState /\ jobIdem' = jobIdem /\ SetCall(Recovery, [pc |-> "next"])
      /\ \/ jobOps[id].accepted /\ UNCHANGED <<jobRuns, jobOps>>
         \/ MarkReconciliationRequired(id)
      BY ZenonT(30) DEF ReconcileConfirm
<1>2. id \in DOMAIN jobOps
      BY <1>1, CallTyped, ZenonT(30) DEF JobCallOK, HasOp
<1> HIDE DEF id
<1>3. /\ StoreGrown /\ DOMAIN jobOps' = DOMAIN jobOps /\ id \notin InDoubt(jobOps')
      /\ \A j \in DOMAIN jobOps \ {id} : jobOps'[j] = jobOps[j]
  <2>1. CASE jobOps[id].accepted /\ UNCHANGED <<jobRuns, jobOps>>
    <3>1. id[1] \in Lifecycle
          BY <1>2, <2>1, StoreFacts, ZenonT(30) DEF AcceptedOK
    <3>2. id \notin InDoubt(jobOps')
          BY <2>1, <3>1, ZenonT(30) DEF InDoubt
    <3> QED BY <2>1, <3>2, StoreFacts, ZenonT(30) DEF StoreGrown
  <2>2. CASE MarkReconciliationRequired(id)
        BY <1>2, <2>2, MarkFacts, ZenonT(30) DEF InDoubt
  <2> QED BY <1>1, <2>1, <2>2, ZenonT(30)
<1>4. [pc |-> "next"] \in JobCallRecords /\ JobCallOK([pc |-> "next"], DOMAIN jobOps', DOMAIN jobRuns')
      BY IdleCallOK, ZenonT(30)
<1>5. jobState' \in JobStates
      BY <1>1, StoreFacts, ZenonT(30)
<1>6. StoreInv'
      BY <1>1, <1>3, <1>4, <1>5, RewriteStep, ZenonT(30)
<1> QED BY <1>1, <1>2, <1>3, <1>6, ZenonT(30) DEF id


(* What a step must give: the recovery invariant, and nothing in doubt when   *)
(* it ends the recovery.                                                      *)
RecStep == RecInv' /\ (~JobServing /\ JobServing' => InDoubt(jobOps') = {})

(* The calls of API clients run only once recovery is over. *)
LEMMA ServedStep ==
  ASSUME JobInv, JobServing, NEW c \in Callers, NEW call, UNCHANGED jobCalls \/ SetCall(c, call)
  PROVE  RecStep
<1>1. jobCalls \in [Callers \cup {Recovery} -> JobCallRecords]
      BY ZenonT(30) DEF JobInv, StoreInv, JobTypeOK
<1>2. jobCalls'[Recovery] = jobCalls[Recovery]
      BY <1>1, JobAssumption, ZenonT(30) DEF SetCall
<1> QED BY <1>2, ZenonT(30) DEF RecStep, RecInv, RecOK, JobServing

LEMMA QuietServedStep ==
  ASSUME JobInv, JobServing, UNCHANGED jobCalls PROVE RecStep
BY ZenonT(30) DEF RecStep, RecInv, RecOK, JobServing

CallStep(c) ==
  \/ WaitInflight(c) \/ ResumePlan(c) \/ PersistCommand(c) \/ PersistAdmit(c) \/ RunInflight(c)
  \/ \E outcome \in {"accepted", "refused", "ambiguous"} : InvokeRuntime(c, outcome)
  \/ FinalizePhase(c)

LEMMA CallStepShape ==
  ASSUME NEW c, CallStep(c) PROVE jobCalls[c].pc # "idle" /\ \E call : SetCall(c, call)
<1>1. CASE WaitInflight(c)
      BY <1>1, ZenonT(30) DEF WaitInflight, Return
<1>2. CASE ResumePlan(c)
      BY <1>2, ZenonT(30) DEF ResumePlan, Return
<1>3. CASE PersistCommand(c)
  <2>1. jobCalls[c].pc = "persist"
        BY <1>3, Zenon DEF PersistCommand
  <2>2. \E call : SetCall(c, call)
        BY <1>3, ZenonT(30) DEF PersistCommand, RecordRunning, Return
  <2> QED BY <2>1, <2>2, ZenonT(30)
<1>4. CASE PersistAdmit(c)
  <2>1. jobCalls[c].pc = "persist"
        BY <1>4, Zenon DEF PersistAdmit
  <2>2. \E call : SetCall(c, call)
        BY <1>4, Zenon DEF PersistAdmit, RecordRunning, Return
  <2> QED BY <2>1, <2>2, ZenonT(30)
<1>5. CASE RunInflight(c)
      BY <1>5, ZenonT(30) DEF RunInflight, Return
<1>6. CASE \E outcome \in {"accepted", "refused", "ambiguous"} : InvokeRuntime(c, outcome)
      BY <1>6, ZenonT(30) DEF InvokeRuntime
<1>7. CASE FinalizePhase(c)
  <2>1. jobCalls[c].pc = "finalize"
        BY <1>7, Zenon DEF FinalizePhase
  <2>2. \E call : SetCall(c, call)
        BY <1>7, Zenon DEF FinalizePhase
  <2> QED BY <2>1, <2>2, ZenonT(30)
<1> QED BY <1>1, <1>2, <1>3, <1>4, <1>5, <1>6, <1>7, ZenonT(30) DEF CallStep

LEMMA ClientCallStep ==
  ASSUME JobInv, NEW c \in Callers, CallStep(c) PROVE RecStep
<1>1. jobCalls[c].pc # "idle"
      BY CallStepShape, ZenonT(30)
<1>2. PICK call : SetCall(c, call)
      BY CallStepShape, ZenonT(30)
<1>3. JobServing
      BY <1>1, ZenonT(30) DEF JobInv, RecInv, RecOK, JobServing
<1> QED BY <1>2, <1>3, ServedStep, ZenonT(30)

(* A step of the recovery, which keeps the clients idle. *)
LEMMA RecoveryCall ==
  ASSUME JobInv, ~JobServing, NEW call, SetCall(Recovery, call)
  PROVE  /\ jobCalls'[Recovery] = call /\ \A c \in Callers : jobCalls'[c].pc = "idle"
<1>1. jobCalls \in [Callers \cup {Recovery} -> JobCallRecords]
      BY ZenonT(30) DEF JobInv, StoreInv, JobTypeOK
<1>2. \A c \in Callers : jobCalls[c].pc = "idle"
      BY ZenonT(30) DEF JobInv, RecInv, RecOK, JobServing
<1> QED BY <1>1, <1>2, JobAssumption, ZenonT(30) DEF SetCall

LEMMA RecFacts ==
  ASSUME JobInv, ~JobServing
  PROVE  /\ jobCalls[Recovery].pc \in RecoverySteps
         /\ jobCalls[Recovery].pc \in {"dispatch", "finalize"} => jobInflight \subseteq {jobCalls[Recovery].op}
         /\ jobCalls[Recovery].pc \notin {"dispatch", "finalize"} => jobInflight = {}
         /\ jobCalls[Recovery].pc = "next" => InDoubt(jobOps) \subseteq jobTodo
         /\ jobCalls[Recovery].pc # "next" => InDoubt(jobOps) \subseteq jobTodo \cup {jobCalls[Recovery].op}
         /\ jobCalls[Recovery].pc \in {"resume", "enter"} => jobOps[jobCalls[Recovery].op].state = "running"
BY ZenonT(30) DEF JobInv, RecInv, RecOK, JobServing

LEMMA ReplayStep ==
  ASSUME JobInv, CallStep(Recovery) PROVE RecStep
<1> DEFINE call == jobCalls[Recovery]
           id == call.op
<1>0. ~JobServing
      BY CallStepShape, ZenonT(30) DEF JobServing
<1>1. CASE WaitInflight(Recovery) \/ PersistCommand(Recovery) \/ PersistAdmit(Recovery)
  <2>1. call.pc \in {"wait", "persist"}
        BY <1>1, ZenonT(30) DEF WaitInflight, PersistCommand, PersistAdmit
  <2> QED BY <1>0, <2>1, RecFacts, ZenonT(30) DEF RecoverySteps
<1>2. CASE ResumePlan(Recovery)
  <2> DEFINE plan == [pc |-> "enter", cmd |-> id[1], key |-> call.key, op |-> id,
                      stableJob |-> jobState, stableRun |-> jobRuns[id[2]]]
  <2>1. call.pc = "resume" /\ jobOps[id].state = "running"
        BY <1>0, <1>2, RecFacts, ZenonT(30) DEF ResumePlan
  <2>2. SetCall(Recovery, plan) /\ jobOps' = jobOps /\ jobTodo' = jobTodo /\ jobInflight' = jobInflight
        BY <1>2, <2>1, ZenonT(30) DEF ResumePlan, jobStore
  <2>3. jobCalls'[Recovery] = plan /\ \A c \in Callers : jobCalls'[c].pc = "idle"
        BY <1>0, <2>2, RecoveryCall, ZenonT(30)
  <2>4. plan.pc = "enter" /\ plan.op = id
        BY ZenonT(30)
  <2> HIDE DEF plan, id
  <2> QED BY <1>0, <2>1, <2>2, <2>3, <2>4, RecFacts, ZenonT(30) DEF RecStep, RecInv, RecOK, RecoverySteps, JobServing, id
<1>3. CASE RunInflight(Recovery)
  <2> DEFINE next == [call EXCEPT !.pc = "dispatch"]
  <2>1. call.pc = "enter" /\ jobInflight = {}
        BY <1>0, <1>3, RecFacts, ZenonT(30) DEF RunInflight
  <2>2. SetCall(Recovery, next) /\ jobOps' = jobOps /\ jobTodo' = jobTodo /\ jobInflight' = {id}
        BY <1>3, <2>1, ZenonT(30) DEF RunInflight, jobStore
  <2>3. jobCalls'[Recovery] = next /\ \A c \in Callers : jobCalls'[c].pc = "idle"
        BY <1>0, <2>2, RecoveryCall, ZenonT(30)
  <2>4. next.pc = "dispatch" /\ next.op = id
    <3>1. call \in PlanCalls
          BY <2>1, CallTyped, CallKind, ZenonT(30) DEF JobInv
    <3> HIDE DEF call
    <3> QED BY <3>1, ZenonT(30) DEF PlanCalls
  <2> HIDE DEF next, id
  <2> QED BY <1>0, <2>1, <2>2, <2>3, <2>4, RecFacts, ZenonT(30) DEF RecStep, RecInv, RecOK, RecoverySteps, JobServing, id
<1>4. CASE \E outcome \in {"accepted", "refused", "ambiguous"} : InvokeRuntime(Recovery, outcome)
  <2>1. PICK outcome \in {"accepted", "refused", "ambiguous"} : InvokeRuntime(Recovery, outcome)
        BY <1>4, ZenonT(30)
  <2> DEFINE next == [pc |-> "finalize", outcome |-> outcome, cmd |-> call.cmd, key |-> call.key, op |-> id,
                      stableJob |-> call.stableJob, stableRun |-> call.stableRun]
  <2>2. /\ call.pc = "dispatch" /\ SetCall(Recovery, next)
        /\ jobOps' = jobOps /\ jobTodo' = jobTodo /\ jobInflight' = jobInflight
        BY <2>1, ZenonT(30) DEF InvokeRuntime, jobStore
  <2>3. jobCalls'[Recovery] = next /\ \A c \in Callers : jobCalls'[c].pc = "idle"
        BY <1>0, <2>2, RecoveryCall, ZenonT(30)
  <2>4. next.pc = "finalize" /\ next.op = id
        BY ZenonT(30)
  <2> HIDE DEF next, id
  <2> QED BY <1>0, <2>2, <2>3, <2>4, RecFacts, ZenonT(30) DEF RecStep, RecInv, RecOK, RecoverySteps, JobServing, id
<1>5. CASE FinalizePhase(Recovery)
  <2> DEFINE next == [pc |-> "confirm", op |-> id]
  <2>1. /\ call.pc = "finalize" /\ SetCall(Recovery, next)
        /\ jobTodo' = jobTodo /\ jobInflight' = jobInflight \ {id}
        BY <1>5, ZenonT(30) DEF FinalizePhase
  <2>2. DOMAIN jobOps' = DOMAIN jobOps /\ \A j \in DOMAIN jobOps \ {id} : jobOps'[j] = jobOps[j]
        BY <1>5, FinalizeFacts, ZenonT(30) DEF JobInv
  <2>3. jobCalls'[Recovery] = next /\ \A c \in Callers : jobCalls'[c].pc = "idle"
        BY <1>0, <2>1, RecoveryCall, ZenonT(30)
  <2>4. next.pc = "confirm" /\ next.op = id
        BY ZenonT(30)
  <2>5. InDoubt(jobOps') \subseteq InDoubt(jobOps) \cup {id}
        BY <2>2, ZenonT(30) DEF InDoubt
  <2>6. jobInflight' = {} /\ InDoubt(jobOps') \subseteq jobTodo' \cup {id}
        BY <1>0, <2>1, <2>5, RecFacts, ZenonT(30)
  <2> HIDE DEF next, id
  <2> QED BY <2>3, <2>4, <2>6, ZenonT(30) DEF RecStep, RecInv, RecOK, RecoverySteps, JobServing
<1> QED BY <1>1, <1>2, <1>3, <1>4, <1>5, ZenonT(30) DEF CallStep


LEMMA RestartStep ==
  ASSUME JobInv, JobRestart PROVE RecStep
<1>1. /\ jobCalls' = [c \in DOMAIN jobCalls |-> IF c = Recovery THEN [pc |-> "next"] ELSE [pc |-> "idle"]]
      /\ jobTodo' = {i \in DOMAIN jobOps : jobOps[i].state = "running"} /\ jobInflight' = {} /\ jobOps' = jobOps
      BY ZenonT(30) DEF JobRestart, JobIdle, jobStore
<1>2. DOMAIN jobCalls = Callers \cup {Recovery}
      BY ZenonT(30) DEF JobInv, StoreInv, JobTypeOK
<1>3. jobCalls'[Recovery].pc = "next" /\ \A c \in Callers : jobCalls'[c].pc = "idle"
      BY <1>1, <1>2, JobAssumption, ZenonT(30)
<1>4. InDoubt(jobOps') \subseteq jobTodo'
      BY <1>1, ZenonT(30) DEF InDoubt
<1> QED BY <1>1, <1>3, <1>4, ZenonT(30) DEF RecStep, RecInv, RecOK, RecoverySteps, JobServing

LEMMA ReconcileStep ==
  ASSUME JobInv, \/ ReconcileNext \/ ReconcileDecide \/ ReconcileConfirm
                 \/ \E obs \in Observed : ReconcileStatus(obs)
  PROVE  RecStep
<1> DEFINE id == jobCalls[Recovery].op
<1>0. StoreInv
      BY ZenonT(30) DEF JobInv
<1>1. CASE ReconcileNext
  <2>1. /\ jobOps' = jobOps /\ jobInflight' = jobInflight /\ jobCalls[Recovery].pc = "next"
        /\ \/ jobTodo = {} /\ SetCall(Recovery, [pc |-> "idle"])
           \/ \E i \in jobTodo, pc \in {"decide", "status"} :
                 jobTodo' = jobTodo \ {i} /\ SetCall(Recovery, [pc |-> pc, op |-> i])
        BY <1>0, <1>1, ReconcileNextFacts, ZenonT(30) DEF jobStore
  <2>2. ~JobServing
        BY <2>1, ZenonT(30) DEF JobServing
  <2>3. jobInflight' = {} /\ InDoubt(jobOps') \subseteq jobTodo
        BY <2>1, <2>2, RecFacts, ZenonT(30)
  <2>4. CASE jobTodo = {} /\ SetCall(Recovery, [pc |-> "idle"])
    <3>1. jobCalls'[Recovery].pc = "idle"
          BY <2>2, <2>4, RecoveryCall, SMTT(30)
    <3> QED BY <2>3, <2>4, <3>1, ZenonT(30) DEF RecStep, RecInv, RecOK
  <2>5. ASSUME NEW i \in jobTodo, NEW pc \in {"decide", "status"},
               jobTodo' = jobTodo \ {i}, SetCall(Recovery, [pc |-> pc, op |-> i])
        PROVE  RecStep
    <3>1. /\ jobCalls'[Recovery] = [pc |-> pc, op |-> i]
          /\ \A c \in Callers : jobCalls'[c].pc = "idle"
          BY <2>2, <2>5, RecoveryCall, ZenonT(30)
    <3>2. jobCalls'[Recovery].pc = pc /\ jobCalls'[Recovery].op = i
          BY <3>1, SMTT(30)
    <3>3. InDoubt(jobOps') \subseteq jobTodo' \cup {i}
          BY <2>3, <2>5, ZenonT(30)
    <3> QED BY <2>3, <3>1, <3>2, <3>3, ZenonT(30) DEF RecStep, RecInv, RecOK, RecoverySteps, JobServing
  <2> QED BY <2>1, <2>4, <2>5, ZenonT(30)
<1>2. CASE \E obs \in Observed : ReconcileStatus(obs)
  <2>1. /\ jobTodo' = jobTodo /\ jobInflight' = jobInflight /\ jobCalls[Recovery].pc = "status"
        /\ SetCall(Recovery, [pc |-> "decide", op |-> id]) /\ DOMAIN jobOps' = DOMAIN jobOps
        /\ \A j \in DOMAIN jobOps : jobOps'[j] = jobOps[j] \/ jobOps'[j].state # "running"
        BY <1>0, <1>2, ReconcileStatusFacts, ZenonT(30)
  <2>2. ~JobServing
        BY <2>1, ZenonT(30) DEF JobServing
  <2>3. InDoubt(jobOps') \subseteq InDoubt(jobOps)
        BY <2>1, ZenonT(30) DEF InDoubt
  <2>4. jobInflight' = {} /\ InDoubt(jobOps') \subseteq jobTodo' \cup {id}
        BY <2>1, <2>2, <2>3, RecFacts, ZenonT(30)
  <2>5. /\ jobCalls'[Recovery] = [pc |-> "decide", op |-> id]
        /\ \A c \in Callers : jobCalls'[c].pc = "idle"
        BY <2>1, <2>2, RecoveryCall, ZenonT(30)
  <2>6. jobCalls'[Recovery].pc = "decide" /\ jobCalls'[Recovery].op = id
        BY <2>5, SMTT(30)
  <2> QED BY <2>4, <2>5, <2>6, ZenonT(30) DEF RecStep, RecInv, RecOK, RecoverySteps, JobServing
<1>3. CASE ReconcileDecide
  <2>1. /\ jobTodo' = jobTodo /\ jobInflight' = jobInflight /\ jobCalls[Recovery].pc = "decide"
        /\ \/ /\ jobOps' = jobOps /\ jobOps[id].state = "running"
              /\ \E key : SetCall(Recovery, [pc |-> "resume", op |-> id, key |-> key])
           \/ /\ DOMAIN jobOps' = DOMAIN jobOps /\ jobOps'[id].state # "running"
              /\ \A j \in DOMAIN jobOps \ {id} : jobOps'[j] = jobOps[j]
              /\ SetCall(Recovery, [pc |-> "next"])
        BY <1>0, <1>3, ReconcileDecideFacts, ZenonT(30)
  <2>2. ~JobServing
        BY <2>1, ZenonT(30) DEF JobServing
  <2>3. jobInflight' = {} /\ InDoubt(jobOps) \subseteq jobTodo' \cup {id}
        BY <2>1, <2>2, RecFacts, ZenonT(30)
  <2>4. CASE /\ jobOps' = jobOps /\ jobOps[id].state = "running"
             /\ \E key : SetCall(Recovery, [pc |-> "resume", op |-> id, key |-> key])
    <3>1. PICK key : SetCall(Recovery, [pc |-> "resume", op |-> id, key |-> key])
          BY <2>4, ZenonT(30)
    <3>2. /\ jobCalls'[Recovery] = [pc |-> "resume", op |-> id, key |-> key]
          /\ \A c \in Callers : jobCalls'[c].pc = "idle"
          BY <2>2, <3>1, RecoveryCall, ZenonT(30)
    <3>3. jobCalls'[Recovery].pc = "resume" /\ jobCalls'[Recovery].op = id
          BY <3>2, SMTT(30)
    <3> QED BY <2>3, <2>4, <3>2, <3>3, ZenonT(30) DEF RecStep, RecInv, RecOK, RecoverySteps, JobServing
  <2>5. CASE /\ DOMAIN jobOps' = DOMAIN jobOps /\ jobOps'[id].state # "running"
             /\ \A j \in DOMAIN jobOps \ {id} : jobOps'[j] = jobOps[j]
             /\ SetCall(Recovery, [pc |-> "next"])
    <3>1. InDoubt(jobOps') \subseteq InDoubt(jobOps) \ {id}
          BY <2>5, ZenonT(30) DEF InDoubt
    <3>2. jobCalls'[Recovery] = [pc |-> "next"] /\ \A c \in Callers : jobCalls'[c].pc = "idle"
          BY <2>2, <2>5, RecoveryCall, ZenonT(30)
    <3>3. jobCalls'[Recovery].pc = "next"
          BY <3>2, SMTT(30)
    <3> QED BY <2>3, <3>1, <3>2, <3>3, ZenonT(30) DEF RecStep, RecInv, RecOK, RecoverySteps, JobServing
  <2> QED BY <2>1, <2>4, <2>5, ZenonT(30)
<1>4. CASE ReconcileConfirm
  <2>1. /\ jobTodo' = jobTodo /\ jobInflight' = jobInflight /\ jobCalls[Recovery].pc = "confirm"
        /\ DOMAIN jobOps' = DOMAIN jobOps /\ id \notin InDoubt(jobOps')
        /\ \A j \in DOMAIN jobOps \ {id} : jobOps'[j] = jobOps[j]
        /\ SetCall(Recovery, [pc |-> "next"])
        BY <1>0, <1>4, ReconcileConfirmFacts, ZenonT(30)
  <2>2. ~JobServing
        BY <2>1, ZenonT(30) DEF JobServing
  <2>3. jobInflight' = {} /\ InDoubt(jobOps) \subseteq jobTodo' \cup {id}
        BY <2>1, <2>2, RecFacts, ZenonT(30)
  <2>4. InDoubt(jobOps') \subseteq InDoubt(jobOps) \ {id}
        BY <2>1, ZenonT(30) DEF InDoubt
  <2>5. jobCalls'[Recovery] = [pc |-> "next"] /\ \A c \in Callers : jobCalls'[c].pc = "idle"
        BY <2>1, <2>2, RecoveryCall, ZenonT(30)
  <2>6. jobCalls'[Recovery].pc = "next"
        BY <2>5
  <2> QED BY <2>3, <2>4, <2>5, <2>6, ZenonT(30) DEF RecStep, RecInv, RecOK, RecoverySteps, JobServing
<1> QED BY <1>1, <1>2, <1>3, <1>4, ZenonT(30)

LEMMA JobInitially == JobInit => JobInv
<1> SUFFICES ASSUME JobInit PROVE JobInv
    BY ZenonT(30)
<1>1. /\ jobState = "none" /\ jobRuns = <<>> /\ jobOps = <<>> /\ jobIdem = <<>> /\ jobTodo = {}
      /\ jobCalls = [c \in Callers \cup {Recovery} |-> [pc |-> "idle"]]
      BY ZenonT(30) DEF JobInit, JobIdle
<1>2. /\ DOMAIN <<>> = {} /\ <<>> \in Tables(OpIds, OpRecords) /\ <<>> \in Tables(RunIds, RunRecords)
      /\ <<>> \in Tables(Keys, IdemRecords)
      BY EmptyTable, ZenonT(30)
<1>3. /\ [pc |-> "idle"] \in JobCallRecords
      /\ JobCallOK([pc |-> "idle"], DOMAIN jobOps, DOMAIN jobRuns)
      BY IdleCallOK, ZenonT(30)
<1>4. JobTypeOK
      BY <1>1, <1>2, <1>3, ZenonT(30) DEF JobTypeOK, JobStates
<1>5. \A c \in Callers \cup {Recovery} : jobCalls[c] = [pc |-> "idle"]
      BY <1>1, ZenonT(30)
<1>6. LinkInv /\ AcceptedOK(jobOps)
      BY <1>1, <1>2, <1>3, <1>5, ZenonT(30) DEF LinkInv, RunsLinked, AcceptedOK
<1>7. RecInv
      BY <1>5 DEF RecInv, RecOK
<1> QED BY <1>4, <1>6, <1>7, ZenonT(30) DEF JobInv, StoreInv

LEMMA JobStep ==
  ASSUME JobInv, [JobNext]_jobVars
  PROVE  StoreInv' /\ RecStep
<1>0. StoreInv
      BY ZenonT(30) DEF JobInv
<1>1. CASE CreateJob
  <2>1. JobServing /\ UNCHANGED jobCalls
        BY <1>1, ZenonT(30) DEF CreateJob
  <2> QED BY <1>0, <1>1, <2>1, CreateJobKeeps, QuietServedStep, ZenonT(30)
<1>2. CASE CreateJobRun
  <2>1. JobServing /\ UNCHANGED jobCalls
        BY <1>2, ZenonT(30) DEF CreateJobRun
  <2> QED BY <1>0, <1>2, <2>1, CreateJobRunKeeps, QuietServedStep, ZenonT(30)
<1>3. ASSUME NEW run \in DOMAIN jobRuns, NEW type \in Commands \cap {"start"}, RecordOperation(run, type)
      PROVE  StoreInv' /\ RecStep
  <2>1. JobServing /\ UNCHANGED jobCalls
        BY <1>3, ZenonT(30) DEF RecordOperation
  <2>2. type \in JobKinds
        BY LifecycleIs, ZenonT(30) DEF JobKinds
  <2> QED BY <1>0, <1>3, <2>1, <2>2, RecordOperationKeeps, QuietServedStep, ZenonT(30)
<1>4. ASSUME NEW c \in Callers, NEW cmd \in {"admit"} \cup Commands, NEW run \in DOMAIN jobRuns \cup {LatestOne},
             NEW key \in Keys \cup {NoKey}, LoadIdempotency(c, cmd, run, key)
      PROVE  StoreInv' /\ RecStep
  <2>1. JobServing
        BY <1>4, Zenon DEF LoadIdempotency
  <2>2. PICK call : SetCall(c, call)
        BY <1>4, Zenon DEF LoadIdempotency
  <2>3. cmd \in JobKinds
        BY LifecycleIs, JobAssumption, ZenonT(30) DEF JobKinds
  <2>4. StoreInv'
        BY <1>0, <1>4, <2>3, LoadIdempotencyKeeps, ZenonT(30)
  <2> QED BY <2>1, <2>2, <2>4, ServedStep, ZenonT(30)
<1>5. ASSUME NEW c \in Callers \cup {Recovery}, CallStep(c) PROVE StoreInv' /\ RecStep
  <2>1. StoreInv'
        BY <1>0, <1>5, WaitInflightKeeps, ResumePlanKeeps, PersistCommandKeeps, PersistAdmitKeeps,
           RunInflightKeeps, InvokeRuntimeKeeps, FinalizePhaseKeeps, ZenonT(30) DEF CallStep
  <2>2. RecStep
        BY <1>5, ClientCallStep, ReplayStep, ZenonT(30)
  <2> QED BY <2>1, <2>2, ZenonT(30)
<1>6. ASSUME NEW run \in DOMAIN jobRuns, NEW obs \in Observed, ReportComponentStatus(run, obs)
      PROVE  StoreInv' /\ RecStep
  <2>1. JobServing /\ UNCHANGED jobCalls
        BY <1>6, ZenonT(30) DEF ReportComponentStatus
  <2> QED BY <1>0, <1>6, <2>1, ReportStatusKeeps, QuietServedStep, ZenonT(30)
<1>7. CASE JobRestart
      BY <1>0, <1>7, RestartKeeps, RestartStep, ZenonT(30)
<1>8. CASE \/ ReconcileNext \/ ReconcileDecide \/ ReconcileConfirm
           \/ \E obs \in Observed : ReconcileStatus(obs)
  <2>1. StoreInv'
        BY <1>0, <1>8, ReconcileNextFacts, ReconcileStatusFacts, ReconcileDecideFacts, ReconcileConfirmFacts, ZenonT(30)
  <2> QED BY <1>8, <2>1, ReconcileStep, ZenonT(30)
<1>9. CASE UNCHANGED jobVars
  <2>1. UNCHANGED <<jobState, jobRuns, jobOps, jobIdem, jobCalls, jobInflight, jobTodo>>
        BY <1>9, ZenonT(30) DEF jobVars
  <2>2. StoreInv'
        BY <1>0, <2>1, ZenonT(30) DEF StoreInv, JobTypeOK, LinkInv
  <2> QED BY <2>1, <2>2, ZenonT(30) DEF JobInv, RecStep, RecInv, JobServing
<1>10. CASE JobNext
  <2>1. \/ CreateJob \/ CreateJobRun
        \/ \E run \in DOMAIN jobRuns : \E type \in Commands \cap {"start"} : RecordOperation(run, type)
        \/ \E c \in Callers, key \in Keys \cup {NoKey} :
             \/ LoadIdempotency(c, "admit", LatestOne, key)
             \/ \E cmd \in Commands, run \in DOMAIN jobRuns \cup {LatestOne} : LoadIdempotency(c, cmd, run, key)
        \/ \E c \in Callers \cup {Recovery} : CallStep(c)
        \/ \E run \in DOMAIN jobRuns, obs \in Observed : ReportComponentStatus(run, obs)
        \/ JobRestart \/ ReconcileNext
        \/ \E obs \in Observed : ReconcileStatus(obs)
        \/ ReconcileDecide \/ ReconcileConfirm
        BY <1>10, ZenonT(30) DEF JobNext, CallStep
  <2> QED BY <2>1, <1>1, <1>2, <1>3, <1>4, <1>5, <1>6, <1>7, <1>8, ZenonT(30)
<1> QED BY <1>9, <1>10, ZenonT(30)

(* The invariant the startup reconciliation rests on, for any number of       *)
(* callers, keys, operations, attempts and restarts: the repository's tables  *)
(* are well formed and name each other's entries, only lifecycle commands are *)
(* marked accepted, and while ReconcileIncompleteOperations runs no API call  *)
(* does, and an operation still running is on its list, in its hands, or was  *)
(* accepted by the runtime.                                                   *)
THEOREM JobInvariant == JobSpec => []JobInv
<1>1. JobInv /\ [JobNext]_jobVars => JobInv'
      BY JobStep, ZenonT(30) DEF JobInv, RecStep
<1> QED BY <1>1, JobInitially, PTL DEF JobSpec

(* When the startup reconciliation ends and the server begins to listen, no   *)
(* operation is left in doubt: every one still running is a lifecycle command *)
(* whose dispatch the runtime accepted (ReconcileIncompleteOperations).       *)
THEOREM RecoveryAlwaysResolves == JobSpec => RecoveredIsResolved
<1>1. JobInv /\ [JobNext]_jobVars =>
        [~JobServing /\ JobServing' =>
           \A id \in DOMAIN jobOps' : jobOps'[id].state = "running" =>
              jobOps'[id].accepted /\ id[1] \in Lifecycle]_jobVars
  <2>1. SUFFICES ASSUME JobInv, [JobNext]_jobVars, ~JobServing, JobServing', NEW id \in DOMAIN jobOps',
                        jobOps'[id].state = "running"
                 PROVE  jobOps'[id].accepted /\ id[1] \in Lifecycle
        BY ZenonT(30)
  <2>2. InDoubt(jobOps') = {}
        BY <2>1, JobStep, ZenonT(30) DEF RecStep
  <2> QED BY <2>1, <2>2, ZenonT(30) DEF InDoubt
<1> QED BY <1>1, JobInvariant, PTL DEF JobSpec, RecoveredIsResolved
=============================================================================

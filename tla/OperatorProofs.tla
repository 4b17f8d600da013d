-------------------------- MODULE OperatorProofs --------------------------
(***************************************************************************)
(* What is proved of the Operator, for every number of devices, keys,      *)
(* bundles and requests, and every bound: of its compilation and           *)
(* observation of a binding (BundlePipeline), and of its Kubernetes        *)
(* backend (OperatorBackend).                                              *)
(***************************************************************************)
EXTENDS BundlePipeline, OperatorBackend, WellFoundedInduction, TLAPS

-----------------------------------------------------------------------------
(* From a binding to an observed state *)

(* The cluster's objects.  An allocation is made once and never changed. *)
Clusters == [admitted : BOOLEAN, job : {"suspended", "active", "over"}, ready : BOOLEAN,
             alloc : SUBSET (Names \cup HamiDevices), share : Nat]

(* What a compiled bundle says of the binding it was compiled from. *)
Faithful(b, in) ==
  /\ b.st = "compiled" /\ b.profile \in {"none", "dra", "hami"}
  /\ b.targets = Range(in.ids) /\ b.percent \in Nat
  /\ b.profile = "hami" => b.percent = HamiPercent(in.units) /\ in.units <= 1000
  /\ b.profile = "dra" => Distinct(in.ids) /\ Len(in.ids) * 1000 = in.units
  /\ (in.units = 0) <=> (b.profile = "none")
CompiledInv == bpBundle \in {NotCompiled, Refused} \/ Faithful(bpBundle, bpInput)

(* The allocation a poll has read is the one the cluster made. *)
PollInv ==
  /\ bpPoll.at \in {"idle", "job", "pods", "claim"}
  /\ bpPoll.at # "idle" => bpBundle.st = "compiled"
  /\ bpPoll.at = "claim" /\ bpPoll.alloc # {} => bpPoll.alloc = bpCluster.alloc /\ bpPoll.share = bpCluster.share

(* A binding shown as bound or running has its devices and its share. *)
ShownInv ==
  bpShown.state \in {"bound", "running"} =>
    /\ bpBundle.st = "compiled"
    /\ bpBundle.profile # "none" => bpShown.devices = bpBundle.targets
    /\ bpBundle.profile = "hami" => bpCluster.alloc # {} /\ bpCluster.share = bpBundle.percent

BpInv == bpInput.units \in Nat /\ bpCluster \in Clusters /\ CompiledInv /\ PollInv /\ ShownInv

(* A non-empty set of naturals has a least element. *)
LEMMA LeastExists ==
  ASSUME NEW S \in SUBSET Nat, S # {} PROVE \E i \in S : \A j \in S : i <= j
<1> DEFINE R == {ss \in Nat \X Nat : ss[1] < ss[2]}
<1>1. IsWellFoundedOn(R, Nat)
      BY NatLessThanWellFounded DEF OpToRel
<1>2. ASSUME NEW x \in Nat, NEW y \in Nat, <<y, x>> \notin R PROVE x <= y
      BY <1>2
<1> HIDE DEF R
<1>3. PICK x \in S : \A y \in S : ~(<<y, x>> \in R)
      BY <1>1, WFMin, Zenon
<1>4. ASSUME NEW y \in S PROVE x <= y
      BY <1>2, <1>3, Zenon
<1> QED BY <1>4

(* selectCapabilityProfile: the selected profile supports the request, unless *)
(* no preferred one does.                                                     *)
LEMMA SelectedSupports ==
  ASSUME NEW prefer, Len(prefer) \in Nat, NEW in, NEW found
  PROVE  \/ SelectProfile(prefer, in, found) = "none"
         \/ Supports(SelectProfile(prefer, in, found), in, found)
<1> DEFINE fits == {i \in 1..Len(prefer) : prefer[i] \in found /\ Supports(prefer[i], in, found)}
           first == CHOOSE i \in fits : \A j \in fits : i <= j
<1>1. CASE fits = {}
      BY <1>1 DEF SelectProfile
<1>2. CASE fits # {}
  <2>1. fits \in SUBSET Nat
        OBVIOUS
  <2>2. first \in fits
    <3> HIDE DEF fits
    <3> QED BY <1>2, <2>1, LeastExists, Zenon
  <2>3. Supports(prefer[first], in, found)
    <3> HIDE DEF first
    <3> QED BY <2>2
  <2> QED BY <1>2, <2>3, ZenonT(30) DEF SelectProfile
<1> QED BY <1>1, <1>2

(* normalize, buildBundle, validateBundle: what is not refused is faithful. *)
LEMMA CompilesFaithfully ==
  ASSUME NEW prefer, Len(prefer) \in Nat, NEW in, in.units \in Nat, NEW found
  PROVE  CompileBinding(prefer, in, found) \in {NotCompiled, Refused} \/ Faithful(CompileBinding(prefer, in, found), in)
<1> DEFINE profile == SelectProfile(prefer, in, found)
<1>1. profile = "none" \/ Supports(profile, in, found)
      BY SelectedSupports
<1>2. CASE CompileRefuses(in, profile, found)
      BY <1>2 DEF CompileBinding
<1>3. CASE ~CompileRefuses(in, profile, found)
  <2> DEFINE b == [st |-> "compiled", profile |-> profile, targets |-> Range(in.ids),
           class |-> IF profile = "dra" THEN DraClass(Range(in.ids)) ELSE "none",
           percent |-> IF profile = "hami" THEN HamiPercent(in.units) ELSE 0,
           bootstrap |-> in.bootstrap]
  <2>1. CompileBinding(prefer, in, found) = b
        BY <1>3 DEF CompileBinding
  <2> HIDE DEF profile
  <2>2. /\ profile \in {"none", "dra", "hami"} /\ ((in.units = 0) <=> (profile = "none"))
        /\ profile = "dra" => Distinct(in.ids) /\ Len(in.ids) * 1000 = in.units
        BY <1>3 DEF CompileRefuses, ExactPlacement
  <2>3. profile = "hami" => in.units <= 1000
        BY <1>1 DEF Supports
  <2>4. HamiPercent(in.units) \in Nat
        BY DEF HamiPercent
  <2>5. Faithful(b, in)
        BY <2>2, <2>3, <2>4 DEF Faithful
  <2> QED BY <2>1, <2>5
<1> QED BY <1>2, <1>3

(* The cluster's moves: an allocation that has been made stays as it is. *)
LEMMA AllocatesOnce ==
  ASSUME BpInv, ClusterStep
  PROVE  /\ bpCluster' \in Clusters
         /\ bpCluster.alloc # {} => bpCluster'.alloc = bpCluster.alloc /\ bpCluster'.share = bpCluster.share
<1>1. bpCluster \in Clusters /\ bpBundle.st = "compiled" /\ bpBundle.percent \in Nat
  <2>1. bpBundle.st = "compiled"
        BY Zenon DEF ClusterStep
  <2> QED BY <2>1 DEF BpInv, CompiledInv, Faithful, NotCompiled, Refused
<1>2. CASE bpCluster' = [bpCluster EXCEPT !.admitted = ~bpCluster.admitted]
      BY <1>1, <1>2, Zenon DEF Clusters
<1>3. CASE bpCluster.alloc = {} /\ bpCluster' = [bpCluster EXCEPT !.alloc = {n \in Names : LatestPool[n] \in bpBundle.targets}]
  <2> DEFINE got == {n \in Names : LatestPool[n] \in bpBundle.targets}
  <2>1. got \in SUBSET (Names \cup HamiDevices)
        OBVIOUS
  <2>2. bpCluster' = [bpCluster EXCEPT !.alloc = got]
        BY <1>3
  <2> HIDE DEF got
  <2> QED BY <1>1, <1>3, <2>1, <2>2 DEF Clusters
<1>4. ASSUME NEW d \in HamiDevices, NEW share \in {bpBundle.percent, 100},
             bpCluster.alloc = {}, bpCluster' = [bpCluster EXCEPT !.alloc = {d}, !.share = share]
      PROVE  /\ bpCluster' \in Clusters
             /\ bpCluster.alloc # {} => bpCluster'.alloc = bpCluster.alloc /\ bpCluster'.share = bpCluster.share
  <2>1. share \in Nat /\ {d} \in SUBSET (Names \cup HamiDevices)
        BY <1>1
  <2> QED BY <1>1, <1>4, <2>1, Zenon DEF Clusters
<1>5. CASE bpCluster' = [bpCluster EXCEPT !.job = "active"] \/ bpCluster' = [bpCluster EXCEPT !.job = "over"]
      BY <1>1, <1>5 DEF Clusters
<1>6. CASE bpCluster' = [bpCluster EXCEPT !.ready = TRUE]
      BY <1>1, <1>6, Zenon DEF Clusters
<1>7. CASE UNCHANGED bpCluster
      BY <1>1, <1>7
<1> QED BY <1>2, <1>3, <1>4, <1>5, <1>6, <1>7, ZenonT(30) DEF ClusterStep

(* observeDRAAllocation, observeHAMIAllocation: an accepted observation of an *)
(* allocation names the devices of the bundle, with HAMi also its share.      *)
LEMMA AcceptedAllocation ==
  ASSUME NEW b, b.profile \in {"none", "dra", "hami"}, NEW poll, ObserveAllocation(b, poll).ok,
         ObserveAllocation(b, poll).claimed, b.profile # "none"
  PROVE  /\ ObserveAllocation(b, poll).devices = b.targets /\ poll.alloc # {}
         /\ b.profile = "hami" => poll.share = b.percent
<1>1. CASE poll.alloc = {}
      BY <1>1 DEF ObserveAllocation
<1>2. CASE poll.alloc # {} /\ b.profile = "dra"
      BY <1>2, Zenon DEF ObserveAllocation, ObserveDRA
<1>3. CASE poll.alloc # {} /\ b.profile = "hami"
      BY <1>3, Zenon DEF ObserveAllocation, ObserveHAMI
<1> QED BY <1>1, <1>2, <1>3

(* Every step of the pipeline keeps the invariant. *)
LEMMA BundleStep == BpInv /\ [BpNext]_bpVars => BpInv'
<1> SUFFICES ASSUME BpInv, [BpNext]_bpVars PROVE BpInv'
    OBVIOUS
<1>1. ASSUME NEW n \in 0..MaxPreferred, NEW found \in SUBSET {"dra", "hami"}, NEW prefer \in [1..n -> Profiles],
             Compile(prefer, found)
      PROVE  BpInv'
  <2>1. Len(prefer) \in Nat
    <3>1. prefer \in Seq(Profiles)
          OBVIOUS
    <3> QED BY <3>1
  <2>2. CompiledInv'
        BY <1>1, <2>1, CompilesFaithfully DEF Compile, CompiledInv, BpInv
  <2>3. bpBundle.st = "none" /\ UNCHANGED <<bpInput, bpCluster, bpPoll, bpShown>>
        BY <1>1 DEF Compile, NotCompiled
  <2>4. bpPoll.at = "idle" /\ bpShown.state \notin {"bound", "running"}
        BY <2>3 DEF BpInv, PollInv, ShownInv
  <2> QED BY <2>2, <2>3, <2>4 DEF BpInv, PollInv, ShownInv
<1>2. CASE ClusterStep
  <2>1. UNCHANGED <<bpInput, bpBundle, bpPoll, bpShown>>
        BY <1>2, Zenon DEF ClusterStep
  <2>2. /\ bpCluster' \in Clusters
        /\ bpCluster.alloc # {} => bpCluster'.alloc = bpCluster.alloc /\ bpCluster'.share = bpCluster.share
        BY <1>2, AllocatesOnce
  <2> QED BY <2>1, <2>2 DEF BpInv, CompiledInv, PollInv, ShownInv
<1>3. CASE PollWorkload \/ PollJob
      BY <1>3 DEF PollWorkload, PollJob, BpInv, CompiledInv, PollInv, ShownInv, NoPoll
<1>4. CASE PollPods
      BY <1>4 DEF PollPods, BpInv, CompiledInv, PollInv, ShownInv
<1>5. CASE PollAllocation
  <2> DEFINE seen == ObserveAllocation(bpBundle, bpPoll)
  <2>1. /\ bpPoll.at = "claim" /\ bpPoll' = NoPoll /\ UNCHANGED <<bpInput, bpBundle, bpCluster>>
        /\ bpShown' = IF seen.ok THEN [state |-> ProjectState(bpBundle, bpPoll, seen.claimed), devices |-> seen.devices]
                      ELSE bpShown
        BY <1>5 DEF PollAllocation
  <2>2. bpBundle.st = "compiled" /\ bpBundle.profile \in {"none", "dra", "hami"}
        BY <2>1 DEF BpInv, PollInv, CompiledInv, Faithful, NotCompiled, Refused
  <2>3. CASE seen.ok /\ bpShown'.state \in {"bound", "running"}
    <3>1. seen.claimed /\ bpShown'.devices = seen.devices
      <4> HIDE DEF seen
      <4> QED BY <2>1, <2>3 DEF ProjectState
    <3>2. bpBundle.profile # "none" => /\ seen.devices = bpBundle.targets /\ bpPoll.alloc # {}
                                       /\ bpBundle.profile = "hami" => bpPoll.share = bpBundle.percent
          BY <2>2, <2>3, <3>1, AcceptedAllocation
    <3> HIDE DEF seen
    <3>3. ShownInv'
          BY <2>1, <2>2, <3>1, <3>2, ZenonT(30) DEF ShownInv, BpInv, PollInv
    <3> QED BY <2>1, <3>3 DEF BpInv, CompiledInv, PollInv, NoPoll
  <2>4. CASE bpShown'.state \notin {"bound", "running"}
        BY <2>1, <2>4 DEF BpInv, CompiledInv, PollInv, ShownInv, NoPoll
  <2>5. CASE ~seen.ok
    <3> HIDE DEF seen
    <3> QED BY <2>1, <2>5 DEF BpInv, CompiledInv, PollInv, ShownInv, NoPoll
  <2> QED BY <2>3, <2>4, <2>5
<1>6. CASE UNCHANGED bpVars
      BY <1>6 DEF bpVars, BpInv, CompiledInv, PollInv, ShownInv
<1> QED BY <1>1, <1>2, <1>3, <1>4, <1>5, <1>6 DEF BpNext

(* The pipeline's inductive invariant: a compiled bundle says what the        *)
(* binding said, a poll in progress has read the allocation the cluster made, *)
(* and what is shown was checked against it.                                  *)
THEOREM BundleInvariant == BpSpec => []BpInv
<1>1. BpInit => BpInv
  <2> SUFFICES ASSUME BpInit PROVE BpInv
      OBVIOUS
  <2>1. bpInput.units \in Nat
        BY BpAssumption, Zenon DEF BpInit, BpInputs
  <2>2. bpCluster \in Clusters
        BY DEF BpInit, Clusters
  <2> QED BY <2>1, <2>2 DEF BpInit, BpInv, CompiledInv, PollInv, ShownInv, NoPoll, NotShown
<1> QED BY <1>1, BundleStep, PTL DEF BpSpec

(* A binding is reported bound or running only on exactly the devices the     *)
(* scheduler bound and for the share it bound, through whichever profile      *)
(* selectCapabilityProfile chose and whatever the cluster's schedulers        *)
(* allocated: observeDRAAllocation and observeHAMIAllocation compare what     *)
(* they read with the bundle, and the bundle says what the binding said.      *)
THEOREM AlwaysRunsWhereBound == BpSpec => []RunsWhereBound
<1>1. ASSUME BpInv PROVE RunsWhereBound
  <2> SUFFICES ASSUME bpShown.state \in {"bound", "running"}
               PROVE  /\ bpBundle.profile # "none" => bpShown.devices = Range(bpInput.ids)
                      /\ bpBundle.profile = "hami" => bpCluster.share >= HamiPercent(bpInput.units) /\ bpInput.units <= 1000
                      /\ bpBundle.profile = "dra" => 1000 * Cardinality(bpShown.devices) = bpInput.units
                      /\ bpInput.units = 0 <=> bpBundle.profile = "none"
      BY DEF RunsWhereBound
  <2>1. Faithful(bpBundle, bpInput)
        BY <1>1 DEF BpInv, ShownInv, CompiledInv, NotCompiled, Refused
  <2>2. /\ bpBundle.profile # "none" => bpShown.devices = Range(bpInput.ids)
        /\ bpBundle.profile = "hami" => bpCluster.share = HamiPercent(bpInput.units) /\ bpCluster.share \in Nat
        BY <1>1, <2>1 DEF BpInv, ShownInv, Faithful, Clusters
  <2>3. bpBundle.profile = "dra" => 1000 * Cardinality(bpShown.devices) = bpInput.units
    <3> SUFFICES ASSUME bpBundle.profile = "dra" PROVE 1000 * Cardinality(bpShown.devices) = bpInput.units
        OBVIOUS
    <3>1. bpShown.devices = Range(bpInput.ids) /\ Distinct(bpInput.ids) /\ Len(bpInput.ids) * 1000 = bpInput.units
          BY <2>1, <2>2 DEF Faithful
    <3>2. Cardinality(bpShown.devices) = Len(bpInput.ids)
          BY <3>1 DEF Distinct
    <3> QED BY <3>1, <3>2
  <2> QED BY <2>1, <2>2, <2>3 DEF Faithful
<1> QED BY <1>1, BundleInvariant, PTL

-----------------------------------------------------------------------------
(* The Kubernetes backend *)

Metas == [rev : Nat, req : BkRequests \cup {"none"}, action : BkActions \cup {"none"}, committed : BOOLEAN]
Markers == [gen : 0..MaxBkGen, meta : Metas]
Jobs == [st : {"suspended", "active", "over"}, ver : Nat]
Records == [st : {"none", "pending", "accepted"}, rev : Nat, action : BkActions \cup {"none"},
            prog : [BkBundles -> {"none", "pending", "in_flight", "ambiguous", "completed"}],
            gen : [BkBundles -> 0..MaxBkGen], ver : [BkBundles -> Nat]]
ControlSteps == {"mark", "exec", "send", "sent", "unsure", "show"}
Operations == [pc : ControlSteps \cup {"idle", "create", "orphans", "cleanup", "restore"},
               req : BkRequests \cup {"none"}, bundle : BkBundles \cup {0}, gen : 0..MaxBkGen]

(* The backend's types; a bundle without a generation has no metadata. *)
BkTypeOK ==
  /\ bkMarker \in [BkBundles -> Markers]
  /\ \A b \in BkBundles : bkMarker[b].gen = 0 => bkMarker[b] = NoMarker
  /\ bkParts \in [BkBundles -> SUBSET (Gens \X ObjectKinds)]
  /\ bkJob \in [BkBundles -> [Gens -> Jobs]]
  /\ bkMem \in [BkRequests -> Records] /\ bkDisk \in [BkRequests -> Records]
  /\ bkRevision \in Nat /\ bkDiskRevision \in Nat
  /\ bkOp \in Operations

(* An accepted record has no target left, and the file has it as memory does. *)
Finished(rec) == rec.st = "accepted" => Unfinished(rec) = {}
LedgerInv ==
  \A r \in BkRequests :
    /\ Finished(bkMem[r]) /\ Finished(bkDisk[r])
    /\ bkMem[r].st = "accepted" => bkDisk[r] = bkMem[r]

(* Committed metadata names an accepted record. *)
Backed(meta, mem) ==
  meta.committed => meta.req \in BkRequests /\ mem[meta.req].st = "accepted" /\ mem[meta.req].rev = meta.rev
MetaInv == \A b \in BkBundles : Backed(bkMarker[b].meta, bkMem)

(* The control that holds the lock: its record, and the target it mutates. *)
ControlInv ==
  /\ bkOp.pc \in ControlSteps =>
       /\ bkOp.req \in BkRequests
       /\ bkMem[bkOp.req].st = IF bkOp.pc = "show" THEN "accepted" ELSE "pending"
  /\ bkOp.pc = "mark" => \A b \in TargetsOf(bkMem[bkOp.req]) : bkMarker[b].gen # 0
  /\ bkOp.pc \in {"send", "sent", "unsure"} => bkOp.bundle \in Unfinished(bkMem[bkOp.req])

(* An Apply creates the marker's successor and removes nothing before both of *)
(* its objects exist; a Cleanup runs only once the marker's Job has ended.    *)
Full(b, g) == <<g, "workload">> \in bkParts[b] /\ <<g, "job">> \in bkParts[b]
ApplyInv ==
  /\ bkOp.pc \in {"create", "orphans", "cleanup"} => bkOp.bundle \in BkBundles /\ bkOp.gen \in Gens
  /\ bkOp.pc \in {"create", "orphans"} => bkOp.gen = bkMarker[bkOp.bundle].gen + 1
  /\ bkOp.pc = "orphans" => Full(bkOp.bundle, bkOp.gen)
  /\ bkOp.pc = "cleanup" =>
       /\ bkOp.gen = bkMarker[bkOp.bundle].gen
       /\ JobExists(bkOp.bundle, bkOp.gen) => bkJob[bkOp.bundle][bkOp.gen].st = "over"

(* A record whose prepared version is still that of an existing Job is about  *)
(* the generation the marker commits: a marker moves on only when the Jobs of *)
(* its generation are gone, and a Job that comes back has a new version.      *)
Known(rec, b, gen, parts, job) ==
  b \in Unfinished(rec) =>
    /\ rec.gen[b] \in Gens /\ rec.ver[b] <= job[rec.gen[b]].ver
    /\ <<rec.gen[b], "job">> \in parts /\ rec.ver[b] = job[rec.gen[b]].ver => gen = rec.gen[b]
VersionInv ==
  \A r \in BkRequests, b \in BkBundles :
    /\ Known(bkMem[r], b, bkMarker[b].gen, bkParts[b], bkJob[b])
    /\ Known(bkDisk[r], b, bkMarker[b].gen, bkParts[b], bkJob[b])

ReadyInv ==
  \A b \in BkBundles :
    bkMarker[b].gen # 0 /\ JobExists(b, bkMarker[b].gen) /\ bkJob[b][bkMarker[b].gen].st # "over"
      /\ <<bkMarker[b].gen, "workload">> \notin bkParts[b] => Full(b, bkMarker[b].gen + 1)

BkInv == BkTypeOK /\ LedgerInv /\ MetaInv /\ ControlInv /\ ApplyInv /\ VersionInv /\ ReadyInv

LEMMA Blanks ==
  /\ NoMarker \in Markers /\ NoMarker.meta.committed = FALSE /\ NoMarker.gen = 0
  /\ NoRecord \in Records /\ NoRecord.st = "none" /\ Unfinished(NoRecord) = {}
  /\ NoBkOp \in Operations /\ NoBkOp.pc = "idle"
<1> USE BkAssumption
<1>1. NoMarker \in Markers /\ NoMarker.meta.committed = FALSE /\ NoMarker.gen = 0
      BY DEF NoMarker, NoMeta, Markers, Metas
<1>2. NoRecord \in Records /\ NoRecord.st = "none" /\ Unfinished(NoRecord) = {}
      BY DEF NoRecord, Records, Unfinished, TargetsOf
<1>3. NoBkOp \in Operations /\ NoBkOp.pc = "idle"
      BY DEF NoBkOp, Operations
<1> QED BY <1>1, <1>2, <1>3

(* The marker of a new generation carries no control. *)
LEMMA NewMarker ==
  ASSUME NEW g \in Gens
  PROVE  LET new == [gen |-> g, meta |-> NoMeta]
         IN  new \in Markers /\ ~new.meta.committed /\ new.gen = g /\ new.gen # 0
BY BkAssumption DEF Markers, Metas, NoMeta, Gens

LEMMA Predecessor ==
  ASSUME NEW n \in Nat, NEW m, m = n + 1
  PROVE  m - 1 = n
OBVIOUS

LEMMA BackendInit == BkInit => BkInv
<1> SUFFICES ASSUME BkInit PROVE BkInv
    OBVIOUS
<1> USE BkAssumption, Blanks DEF BkInit
<1>1. BkTypeOK
      BY DEF BkTypeOK, Jobs
<1>2. LedgerInv /\ VersionInv
      BY DEF LedgerInv, Finished, VersionInv, Known
<1>3. MetaInv /\ ReadyInv
      BY DEF MetaInv, Backed, ReadyInv
<1>4. ControlInv /\ ApplyInv
      BY DEF ControlInv, ApplyInv, ControlSteps
<1> QED BY <1>1, <1>2, <1>3, <1>4, ZenonT(30) DEF BkInv

(* The least element of a non-empty set of naturals is one of them. *)
LEMMA LeastOf == ASSUME NEW S \in SUBSET Nat, S # {} PROVE Min(S) \in S
<1> DEFINE R == {ss \in Nat \X Nat : ss[1] < ss[2]}
<1>1. IsWellFoundedOn(R, Nat)
      BY NatLessThanWellFounded DEF OpToRel
<1>2. ASSUME NEW x \in Nat, NEW y \in Nat, <<y, x>> \notin R PROVE x <= y
      BY <1>2
<1> HIDE DEF R
<1>3. PICK x \in S : \A y \in S : ~(<<y, x>> \in R)
      BY <1>1, WFMin, Zenon
<1>4. ASSUME NEW y \in S PROVE x <= y
  <2>1. <<y, x>> \notin R
        BY <1>3
  <2> QED BY <1>2, <2>1
<1> QED BY <1>4, Zenon DEF Min

(* persistControlStateLocked: a record of the file stays or becomes that of   *)
(* memory; after a write without error it is that of memory.                  *)
LEMMA PersistFacts ==
  ASSUME BkTypeOK, NEW o, NEW mem \in [BkRequests -> Records], NEW rev \in Nat, Persist(o, mem, rev)
  PROVE  /\ bkDisk' \in [BkRequests -> Records] /\ bkDiskRevision' \in Nat
         /\ \A q \in BkRequests : \/ bkDisk'[q] = bkDisk[q]
                                  \/ bkDisk'[q] = mem[q] /\ mem[q].st # "none"
         /\ \A q \in BkRequests : mem[q].st # "none" /\ bkDisk[q] = mem[q] => bkDisk'[q] = mem[q]
         /\ o = "ok" => \A q \in BkRequests : mem[q].st # "none" => bkDisk'[q] = mem[q]
BY DEF Persist, Merged, BkTypeOK

(* A control step that writes the ledger keeps the records of other requests  *)
(* and makes its own accepted only when the write had no error.               *)
LEMMA LedgerStep ==
  ASSUME BkInv, UNCHANGED bkCluster, bkOp' \in Operations, bkOp'.pc \in ControlSteps \cup {"idle"},
         NEW r \in BkRequests, bkMem[r].st # "accepted", bkRevision' \in Nat,
         NEW o, NEW rev \in Nat, NEW mem \in [BkRequests -> Records], Persist(o, mem, rev),
         \A q \in BkRequests \ {r} : mem[q] = bkMem[q],
         bkMem' \in {mem, bkMem}, mem[r].st = "accepted" /\ bkMem' = mem => o = "ok",
         Finished(mem[r]),
         \A b \in BkBundles : Known(mem[r], b, bkMarker[b].gen, bkParts[b], bkJob[b])
  PROVE  /\ BkTypeOK' /\ LedgerInv' /\ MetaInv' /\ ApplyInv' /\ VersionInv' /\ ReadyInv'
<1>1. /\ bkDisk' \in [BkRequests -> Records] /\ bkDiskRevision' \in Nat
      /\ \A q \in BkRequests : \/ bkDisk'[q] = bkDisk[q]
                               \/ bkDisk'[q] = mem[q] /\ mem[q].st # "none"
      /\ \A q \in BkRequests : mem[q].st # "none" /\ bkDisk[q] = mem[q] => bkDisk'[q] = mem[q]
      /\ o = "ok" => \A q \in BkRequests : mem[q].st # "none" => bkDisk'[q] = mem[q]
      BY PersistFacts DEF BkInv
<1>2. BkTypeOK'
      BY <1>1, ZenonT(30) DEF BkInv, BkTypeOK, bkCluster
<1>3. LedgerInv'
  <2> SUFFICES ASSUME NEW q \in BkRequests
               PROVE  /\ Finished(bkMem'[q]) /\ Finished(bkDisk'[q])
                      /\ bkMem'[q].st = "accepted" => bkDisk'[q] = bkMem'[q]
      BY ZenonT(30) DEF LedgerInv, Finished
  <2>1. Finished(bkMem[q]) /\ Finished(bkDisk[q]) /\ (bkMem[q].st = "accepted" => bkDisk[q] = bkMem[q])
        BY ZenonT(30) DEF BkInv, LedgerInv
  <2>2. Finished(mem[q])
        BY <2>1, ZenonT(30)
  <2>3. Finished(bkMem'[q]) /\ Finished(bkDisk'[q])
        BY <1>1, <2>1, <2>2
  <2>4. CASE q = r
        BY <1>1, <2>3, <2>4, ZenonT(30)
  <2>5. CASE q # r
        BY <1>1, <2>1, <2>3, <2>5, ZenonT(30)
  <2> QED BY <2>3, <2>4, <2>5, ZenonT(30)
<1>4. MetaInv'
  <2>1. \A q \in BkRequests : bkMem[q].st = "accepted" => bkMem'[q] = bkMem[q]
        BY ZenonT(30)
  <2> QED BY <2>1 DEF BkInv, MetaInv, Backed, bkCluster
<1>5. ApplyInv' /\ ReadyInv'
      BY ZenonT(30) DEF BkInv, ApplyInv, ReadyInv, bkCluster, JobExists, Full, ControlSteps
<1>6. VersionInv'
  <2> SUFFICES ASSUME NEW q \in BkRequests, NEW b \in BkBundles
               PROVE  /\ Known(bkMem'[q], b, bkMarker[b].gen, bkParts[b], bkJob[b])
                      /\ Known(bkDisk'[q], b, bkMarker[b].gen, bkParts[b], bkJob[b])
      BY DEF VersionInv, bkCluster
  <2>1. /\ Known(bkMem[q], b, bkMarker[b].gen, bkParts[b], bkJob[b])
        /\ Known(bkDisk[q], b, bkMarker[b].gen, bkParts[b], bkJob[b])
        BY ZenonT(30) DEF BkInv, VersionInv
  <2>2. Known(mem[q], b, bkMarker[b].gen, bkParts[b], bkJob[b])
        BY <2>1
  <2> QED BY <1>1, <2>1, <2>2, ZenonT(30)
<1> QED BY <1>2, <1>3, <1>4, <1>5, <1>6, ZenonT(30)

LEMMA ControlBeginPreserves ==
  ASSUME BkInv, NEW r \in BkRequests, NEW a \in BkActions, NEW bs \in SUBSET BkBundles, NEW o \in Outcomes,
         ControlBegin(r, a, bs, o)
  PROVE  BkInv'
<1> DEFINE rec == Prepared(a, bs)
           mem == [bkMem EXCEPT ![r] = rec]
<1> USE BkAssumption
<1>1. /\ bkMem[r].st = "none" /\ Persist(o, mem, bkRevision + 1)
      /\ UNCHANGED bkCluster /\ bkMem' \in {mem, bkMem}
      /\ o = "ok" => bkMem' = mem /\ bkRevision' = bkRevision + 1 /\ bkOp' = [NoBkOp EXCEPT !.pc = "mark", !.req = r]
      /\ o # "ok" => UNCHANGED <<bkMem, bkRevision, bkOp>> /\ bkOp.pc = "idle"
      /\ \A b \in bs : bkMarker[b] # NoMarker
      BY DEF ControlBegin
<1>2. \A b \in bs : bkMarker[b].gen \in Gens
      BY <1>1, SMTT(30) DEF BkInv, BkTypeOK, Markers, Gens
<1>3. /\ rec \in Records /\ rec.st = "pending" /\ TargetsOf(rec) = bs
      /\ \A b \in Unfinished(rec) : /\ b \in bs /\ rec.gen[b] = bkMarker[b].gen
                                    /\ rec.ver[b] = bkJob[b][bkMarker[b].gen].ver
  <2>1. \A b \in bs : bkJob[b][bkMarker[b].gen].ver \in Nat
        BY <1>2 DEF BkInv, BkTypeOK, Jobs
  <2>2. \A b \in bs : bkMarker[b].gen \in 0..MaxBkGen
        BY DEF BkInv, BkTypeOK, Markers
  <2>3. bkRevision + 1 \in Nat
        BY SMTT(30) DEF BkInv, BkTypeOK
  <2>4. /\ [b \in BkBundles |-> IF b \in bs THEN bkMarker[b].gen ELSE 0] \in [BkBundles -> 0..MaxBkGen]
        /\ [b \in BkBundles |-> IF b \in bs THEN bkJob[b][bkMarker[b].gen].ver ELSE 0] \in [BkBundles -> Nat]
        BY <2>1, <2>2
  <2>5. rec \in Records
        BY <2>3, <2>4, Blanks, Zenon DEF Prepared, Records
  <2>6. /\ rec.st = "pending"
        /\ rec.prog = [b \in BkBundles |-> IF b \notin bs THEN "none"
                                           ELSE IF JobExists(b, bkMarker[b].gen) THEN "pending" ELSE "completed"]
        /\ rec.gen = [b \in BkBundles |-> IF b \in bs THEN bkMarker[b].gen ELSE 0]
        /\ rec.ver = [b \in BkBundles |-> IF b \in bs THEN bkJob[b][bkMarker[b].gen].ver ELSE 0]
        BY Blanks DEF Prepared, Records
  <2> HIDE DEF rec
  <2>7. TargetsOf(rec) = bs
        BY <2>6, Zenon DEF TargetsOf
  <2>8. \A b \in Unfinished(rec) : /\ b \in bs /\ rec.gen[b] = bkMarker[b].gen
                                   /\ rec.ver[b] = bkJob[b][bkMarker[b].gen].ver
        BY <2>6, <2>7, ZenonT(30) DEF Unfinished
  <2> QED BY <2>5, <2>6, <2>7, <2>8, ZenonT(30)
<1>5. \A b \in BkBundles : Known(rec, b, bkMarker[b].gen, bkParts[b], bkJob[b])
  <2>1. \A b \in bs : bkJob[b][bkMarker[b].gen].ver \in Nat
        BY <1>2 DEF BkInv, BkTypeOK, Jobs
  <2> HIDE DEF rec
  <2> QED BY <1>2, <1>3, <2>1, SMTT(30) DEF Known
<1>6. mem \in [BkRequests -> Records] /\ mem[r] = rec /\ \A q \in BkRequests \ {r} : mem[q] = bkMem[q]
      BY <1>3 DEF BkInv, BkTypeOK
<1>7. /\ bkOp' \in Operations /\ bkOp'.pc \in ControlSteps \cup {"idle"}
      /\ bkRevision' \in Nat /\ bkRevision + 1 \in Nat
  <2> DEFINE next == [NoBkOp EXCEPT !.pc = "mark", !.req = r]
  <2>1. next \in Operations /\ next.pc = "mark"
        BY Blanks, Zenon DEF Operations, ControlSteps
  <2>2. bkOp \in Operations /\ bkRevision \in Nat
        BY DEF BkInv, BkTypeOK
  <2>3. \/ bkRevision' = bkRevision + 1 /\ bkOp' = next
        \/ bkRevision' = bkRevision /\ bkOp' = bkOp /\ bkOp.pc = "idle"
        BY ZenonT(30) DEF ControlBegin
  <2> HIDE DEF next
  <2> QED BY <2>1, <2>2, <2>3 DEF ControlSteps
<1>8. Finished(rec)
      BY <1>3 DEF Finished
<1>9. BkTypeOK' /\ LedgerInv' /\ MetaInv' /\ ApplyInv' /\ VersionInv' /\ ReadyInv'
  <2> HIDE DEF rec, mem
  <2> QED BY <1>1, <1>3, <1>5, <1>6, <1>7, <1>8, LedgerStep, ZenonT(30)
<1>10. ControlInv'
  <2>1. CASE o = "ok"
    <3>1. bkOp'.pc = "mark" /\ bkOp'.req = r /\ bkMem'[r] = rec /\ bkMarker' = bkMarker
          BY <1>1, <1>6, <2>1, Blanks, ZenonT(30) DEF Operations, bkCluster
    <3>2. \A b \in bs : bkMarker[b].gen # 0
          BY <1>2 DEF Gens
    <3> HIDE DEF rec
    <3> QED BY <1>3, <3>1, <3>2, Zenon DEF ControlInv, ControlSteps
  <2>2. CASE o # "ok"
        BY <1>1, <2>2 DEF ControlInv, ControlSteps
  <2> QED BY <2>1, <2>2
<1> QED BY <1>9, <1>10 DEF BkInv

(* A record whose target b moves to st, the only field that changes *)
LEMMA ProgressFacts ==
  ASSUME BkInv, NEW r \in BkRequests, bkMem[r].st = "pending", NEW b \in Unfinished(bkMem[r]),
         NEW st \in {"in_flight", "ambiguous", "completed"}
  PROVE  LET mem == Progress(r, b, st)
         IN /\ mem \in [BkRequests -> Records] /\ mem[r].st = "pending"
            /\ \A q \in BkRequests \ {r} : mem[q] = bkMem[q]
            /\ \A c \in BkBundles : Known(mem[r], c, bkMarker[c].gen, bkParts[c], bkJob[c])
            /\ b \in BkBundles /\ (st # "completed" => b \in Unfinished(mem[r]))
<1> DEFINE mem == Progress(r, b, st)
           rec == [bkMem[r] EXCEPT !.prog = [@ EXCEPT ![b] = st]]
<1>1. b \in BkBundles /\ bkMem[r] \in Records
      BY DEF BkInv, BkTypeOK, Unfinished, TargetsOf
<1>2. mem = [bkMem EXCEPT ![r] = rec]
      BY <1>1 DEF Progress
<1>3. rec \in Records /\ rec.st = "pending" /\ rec.gen = bkMem[r].gen /\ rec.ver = bkMem[r].ver
      BY <1>1 DEF Records
<1>4. mem \in [BkRequests -> Records] /\ mem[r] = rec /\ \A q \in BkRequests \ {r} : mem[q] = bkMem[q]
      BY <1>2, <1>3 DEF BkInv, BkTypeOK
<1>5. rec.prog = [bkMem[r].prog EXCEPT ![b] = st] /\ bkMem[r].prog \in [BkBundles -> {"none", "pending", "in_flight", "ambiguous", "completed"}]
      BY <1>1 DEF Records
<1>6. Unfinished(rec) \subseteq Unfinished(bkMem[r]) /\ (st # "completed" => b \in Unfinished(rec))
      BY <1>1, <1>5, ZenonT(30) DEF Unfinished, TargetsOf
<1>7. \A c \in BkBundles : Known(bkMem[r], c, bkMarker[c].gen, bkParts[c], bkJob[c])
      BY ZenonT(30) DEF BkInv, VersionInv
<1>8. \A c \in BkBundles : Known(rec, c, bkMarker[c].gen, bkParts[c], bkJob[c])
      BY <1>3, <1>6, <1>7 DEF Known
<1> QED BY <1>1, <1>3, <1>4, <1>6, <1>8, ZenonT(30)

LEMMA ControlPreparePreserves == ASSUME BkInv, NEW o \in Outcomes, ControlPrepare(o) PROVE BkInv'
<1> DEFINE r == bkOp.req
           rec == bkMem[r]
           b == Min(Unfinished(rec))
           st == IF rec.prog[b] = "pending" THEN "in_flight" ELSE Resolution(rec, b)
           mem == Progress(r, b, st)
<1>1. r \in BkRequests /\ rec.st = "pending" /\ bkOp.pc = "exec" /\ Unfinished(rec) # {}
      BY ZenonT(30) DEF ControlPrepare, BkInv, ControlInv, ControlSteps
<1>2. Unfinished(rec) \subseteq Nat
      BY BkAssumption, Zenon DEF Unfinished, TargetsOf
<1>3. b \in Unfinished(rec)
      BY <1>1, <1>2, LeastOf, ZenonT(30)
<1>4. st \in {"in_flight", "ambiguous", "completed"}
      BY ZenonT(30) DEF Resolution
<1>5. /\ Persist(o, mem, bkRevision) /\ bkMem' = mem /\ UNCHANGED bkCluster /\ bkRevision' = bkRevision
      /\ \/ bkOp' = NoBkOp
         \/ bkOp' = bkOp
         \/ bkOp' = [bkOp EXCEPT !.pc = "send", !.bundle = b] /\ st # "completed"
      BY ZenonT(30) DEF ControlPrepare
<1> HIDE DEF st, b, mem
<1>6. /\ mem \in [BkRequests -> Records] /\ mem[r].st = "pending"
      /\ \A q \in BkRequests \ {r} : mem[q] = bkMem[q]
      /\ \A c \in BkBundles : Known(mem[r], c, bkMarker[c].gen, bkParts[c], bkJob[c])
      /\ b \in BkBundles /\ (st # "completed" => b \in Unfinished(mem[r]))
      BY <1>1, <1>3, <1>4, ProgressFacts, ZenonT(30) DEF mem
<1>7. bkOp' \in Operations /\ bkOp'.pc \in ControlSteps \cup {"idle"} /\ bkRevision \in Nat
  <2>1. bkOp \in Operations /\ bkRevision \in Nat
        BY ZenonT(30) DEF BkInv, BkTypeOK
  <2>2. [bkOp EXCEPT !.pc = "send", !.bundle = b] \in Operations
        BY <1>6, <2>1, Zenon DEF Operations, ControlSteps
  <2>3. [bkOp EXCEPT !.pc = "send", !.bundle = b].pc = "send"
        BY <2>1, ZenonT(30) DEF Operations
  <2> QED BY <1>1, <1>5, <2>1, <2>2, <2>3, Blanks, ZenonT(30) DEF ControlSteps
<1>8. Finished(mem[r])
      BY <1>6, ZenonT(30) DEF Finished
<1>9. BkTypeOK' /\ LedgerInv' /\ MetaInv' /\ ApplyInv' /\ VersionInv' /\ ReadyInv'
      BY <1>1, <1>5, <1>6, <1>7, <1>8, LedgerStep, ZenonT(30)
<1>10. ControlInv'
  <2>1. bkOp \in Operations
        BY ZenonT(30) DEF BkInv, BkTypeOK
  <2>2. /\ [bkOp EXCEPT !.pc = "send", !.bundle = b].pc = "send"
        /\ [bkOp EXCEPT !.pc = "send", !.bundle = b].req = r
        /\ [bkOp EXCEPT !.pc = "send", !.bundle = b].bundle = b
        BY <2>1, ZenonT(30) DEF Operations
  <2>3. \/ bkOp'.pc = "idle"
        \/ bkOp'.pc = "exec" /\ bkOp'.req = r
        \/ bkOp'.pc = "send" /\ bkOp'.req = r /\ bkOp'.bundle = b /\ st # "completed"
        BY <1>1, <1>5, <2>2, Blanks, ZenonT(30)
  <2> QED BY <1>1, <1>5, <1>6, <2>3, ZenonT(30) DEF ControlInv, ControlSteps
<1> QED BY <1>9, <1>10, ZenonT(30) DEF BkInv

LEMMA ControlSentPreserves == ASSUME BkInv, NEW o \in Outcomes, ControlSent(o) PROVE BkInv'
<1> DEFINE r == bkOp.req
           b == bkOp.bundle
           sure == bkOp.pc = "sent" /\ ReadbackMatches(bkMem[r].action, b, bkMem[r].gen[b])
           st == IF sure THEN "completed" ELSE "ambiguous"
           mem == Progress(r, b, st)
           next == [NoBkOp EXCEPT !.pc = "exec", !.req = r]
<1>1. r \in BkRequests /\ bkMem[r].st = "pending" /\ b \in Unfinished(bkMem[r])
      BY ZenonT(30) DEF ControlSent, BkInv, ControlInv, ControlSteps
<1>2. /\ Persist(o, mem, bkRevision) /\ bkMem' = mem /\ UNCHANGED bkCluster /\ bkRevision' = bkRevision
      /\ bkOp' = NoBkOp \/ bkOp' = next
      BY ZenonT(30) DEF ControlSent
<1>3. st \in {"in_flight", "ambiguous", "completed"}
      BY ZenonT(30)
<1>4. next \in Operations /\ next.pc = "exec" /\ next.req = r
      BY <1>1, Blanks, ZenonT(30) DEF Operations, ControlSteps
<1> HIDE DEF st, mem, next
<1>5. /\ mem \in [BkRequests -> Records] /\ mem[r].st = "pending"
      /\ \A q \in BkRequests \ {r} : mem[q] = bkMem[q]
      /\ \A c \in BkBundles : Known(mem[r], c, bkMarker[c].gen, bkParts[c], bkJob[c])
      BY <1>1, <1>3, ProgressFacts, ZenonT(30) DEF mem
<1>6. bkOp' \in Operations /\ bkOp'.pc \in ControlSteps \cup {"idle"} /\ bkRevision \in Nat
      BY <1>2, <1>4, Blanks, ZenonT(30) DEF BkInv, BkTypeOK, ControlSteps
<1>7. Finished(mem[r])
      BY <1>5, ZenonT(30) DEF Finished
<1>8. BkTypeOK' /\ LedgerInv' /\ MetaInv' /\ ApplyInv' /\ VersionInv' /\ ReadyInv'
      BY <1>1, <1>2, <1>5, <1>6, <1>7, LedgerStep, ZenonT(30)
<1>9. ControlInv'
      BY <1>1, <1>2, <1>4, <1>5, Blanks, ZenonT(30) DEF ControlInv, ControlSteps
<1> QED BY <1>8, <1>9, ZenonT(30) DEF BkInv

LEMMA ControlCommitPreserves == ASSUME BkInv, NEW o \in Outcomes, ControlCommit(o) PROVE BkInv'
<1> DEFINE r == bkOp.req
           rec == [bkMem[r] EXCEPT !.st = "accepted"]
           mem == [bkMem EXCEPT ![r] = rec]
           next == [bkOp EXCEPT !.pc = "show"]
<1>1. r \in BkRequests /\ bkMem[r].st = "pending" /\ Unfinished(bkMem[r]) = {} /\ bkMem[r] \in Records /\ bkOp \in Operations
      BY ZenonT(30) DEF ControlCommit, BkInv, BkTypeOK, ControlInv, ControlSteps
<1>2. /\ Persist(o, mem, bkRevision) /\ UNCHANGED bkCluster /\ bkRevision' = bkRevision
      /\ o = "ok" => bkMem' = mem /\ bkOp' = next
      /\ o # "ok" => bkMem' = bkMem /\ bkOp' = NoBkOp
      BY ZenonT(30) DEF ControlCommit
<1>3. next \in Operations /\ next.pc = "show" /\ next.req = r
      BY <1>1, ZenonT(30) DEF Operations, ControlSteps
<1>4. rec \in Records /\ rec.st = "accepted" /\ rec.prog = bkMem[r].prog
      BY <1>1, ZenonT(30) DEF Records
<1> HIDE DEF rec
<1>5. mem \in [BkRequests -> Records] /\ mem[r] = rec /\ \A q \in BkRequests \ {r} : mem[q] = bkMem[q]
      BY <1>1, <1>4, ZenonT(30) DEF BkInv, BkTypeOK
<1> HIDE DEF mem, next
<1>6. Unfinished(rec) = {}
      BY <1>1, <1>4, ZenonT(30) DEF Unfinished, TargetsOf
<1>7. /\ \A c \in BkBundles : Known(mem[r], c, bkMarker[c].gen, bkParts[c], bkJob[c])
      /\ Finished(mem[r])
      BY <1>5, <1>6, ZenonT(30) DEF Known, Finished
<1>8. bkOp' \in Operations /\ bkOp'.pc \in ControlSteps \cup {"idle"} /\ bkRevision \in Nat /\ bkMem' \in {mem, bkMem}
      BY <1>2, <1>3, Blanks, ZenonT(30) DEF BkInv, BkTypeOK, ControlSteps
<1>9. mem[r].st = "accepted" /\ bkMem' = mem => o = "ok"
      BY <1>1, <1>2, <1>4, <1>5, ZenonT(30)
<1>10. BkTypeOK' /\ LedgerInv' /\ MetaInv' /\ ApplyInv' /\ VersionInv' /\ ReadyInv'
      BY <1>1, <1>2, <1>5, <1>7, <1>8, <1>9, LedgerStep, ZenonT(30)
<1>11. ControlInv'
      BY <1>1, <1>2, <1>3, <1>4, <1>5, Blanks, ZenonT(30) DEF ControlInv, ControlSteps
<1> QED BY <1>10, <1>11, ZenonT(30) DEF BkInv

(* Steps that leave everything but the operation alone. *)
LEMMA OperationOnly ==
  ASSUME BkInv, UNCHANGED <<bkCluster, bkLedger>>, bkOp' \in Operations, ControlInv', ApplyInv'
  PROVE  BkInv'
<1>1. BkTypeOK' /\ LedgerInv' /\ MetaInv'
      BY ZenonT(30) DEF BkInv, BkTypeOK, LedgerInv, MetaInv, bkCluster, bkLedger
<1>2. VersionInv' /\ ReadyInv'
      BY ZenonT(30) DEF BkInv, VersionInv, ReadyInv, JobExists, Full, bkCluster, bkLedger
<1> QED BY <1>1, <1>2, ZenonT(30) DEF BkInv

LEMMA ControlResumePreserves == ASSUME BkInv, NEW r \in BkRequests, ControlResume(r) PROVE BkInv'
<1> DEFINE next == [NoBkOp EXCEPT !.pc = "exec", !.req = r]
<1>1. next \in Operations /\ next.pc = "exec" /\ next.req = r
      BY Blanks, Zenon DEF Operations, ControlSteps
<1>2. bkOp' = next /\ bkMem[r].st = "pending" /\ UNCHANGED <<bkCluster, bkLedger>>
      BY ZenonT(30) DEF ControlResume
<1> HIDE DEF next
<1>3. ControlInv' /\ ApplyInv'
      BY <1>1, <1>2, ZenonT(30) DEF ControlInv, ControlSteps, ApplyInv, bkLedger
<1> QED BY <1>1, <1>2, <1>3, OperationOnly, ZenonT(30)

(* Memory comes back from the file, which has every accepted record. *)
LEMMA BackendCrashPreserves == ASSUME BkInv, BackendCrash PROVE BkInv'
<1> DEFINE next == [NoBkOp EXCEPT !.pc = "restore"]
<1>1. next \in Operations /\ next.pc = "restore"
      BY Blanks, ZenonT(30) DEF Operations
<1>2. /\ bkOp' = next /\ bkMem' = bkDisk /\ bkRevision' = bkDiskRevision
      /\ UNCHANGED <<bkCluster, bkDisk, bkDiskRevision>>
      BY ZenonT(30) DEF BackendCrash
<1> HIDE DEF next
<1>3. BkTypeOK'
      BY <1>1, <1>2, ZenonT(30) DEF BkInv, BkTypeOK, bkCluster
<1>4. LedgerInv' /\ MetaInv'
      BY <1>2, ZenonT(30) DEF BkInv, LedgerInv, MetaInv, Backed, bkCluster
<1>5. ControlInv' /\ ApplyInv'
      BY <1>1, <1>2, ZenonT(30) DEF ControlInv, ControlSteps, ApplyInv
<1>6. VersionInv' /\ ReadyInv'
      BY <1>2, ZenonT(30) DEF BkInv, VersionInv, ReadyInv, JobExists, Full, bkCluster
<1> QED BY <1>3, <1>4, <1>5, <1>6, ZenonT(30) DEF BkInv

(* Steps that write control metadata keep every generation. *)
LEMMA MetadataOnly ==
  ASSUME BkInv, UNCHANGED <<bkParts, bkJob, bkLedger>>, bkOp' \in Operations,
         bkOp'.pc \in ControlSteps \cup {"idle"}, ControlInv',
         bkMarker' \in [BkBundles -> Markers],
         \A b \in BkBundles : /\ bkMarker'[b].gen = bkMarker[b].gen
                              /\ bkMarker[b].gen = 0 => bkMarker'[b] = bkMarker[b]
                              /\ Backed(bkMarker'[b].meta, bkMem)
  PROVE  BkInv'
<1>1. BkTypeOK' /\ LedgerInv' /\ MetaInv'
      BY ZenonT(30) DEF BkInv, BkTypeOK, LedgerInv, MetaInv, bkLedger
<1>2. ApplyInv'
      BY ZenonT(30) DEF ApplyInv, ControlSteps
<1>3. VersionInv' /\ ReadyInv'
      BY ZenonT(30) DEF BkInv, VersionInv, ReadyInv, JobExists, Full, bkLedger
<1> QED BY <1>1, <1>2, <1>3, ZenonT(30) DEF BkInv

LEMMA MetadataFacts ==
  ASSUME BkInv, NEW r \in BkRequests, NEW committed \in BOOLEAN, committed => bkMem[r].st = "accepted"
  PROVE  /\ MetadataForControl(bkMem, r, committed) \in Metas
         /\ Backed(MetadataForControl(bkMem, r, committed), bkMem)
<1>1. bkMem[r] \in Records
      BY ZenonT(30) DEF BkInv, BkTypeOK
<1>2. bkMem[r].rev \in Nat /\ bkMem[r].action \in BkActions \cup {"none"}
      BY <1>1, ZenonT(30) DEF Records
<1> QED BY <1>2, ZenonT(30) DEF MetadataForControl, Metas, Backed

LEMMA Remarked ==
  ASSUME BkTypeOK, NEW b \in BkBundles, NEW new \in Metas
  PROVE  /\ [bkMarker[b] EXCEPT !.meta = new] \in Markers
         /\ [bkMarker[b] EXCEPT !.meta = new].gen = bkMarker[b].gen
         /\ [bkMarker[b] EXCEPT !.meta = new].meta = new
BY ZenonT(30) DEF BkTypeOK, Markers

LEMMA WriteFacts ==
  ASSUME BkInv, NEW bs \in SUBSET BkBundles, NEW new \in Metas, Backed(new, bkMem),
         \A b \in bs : bkMarker[b].gen # 0, WriteControlMetadata(bs, new)
  PROVE  /\ bkMarker' \in [BkBundles -> Markers]
         /\ \A b \in BkBundles : /\ bkMarker'[b].gen = bkMarker[b].gen
                                 /\ bkMarker[b].gen = 0 => bkMarker'[b] = bkMarker[b]
                                 /\ Backed(bkMarker'[b].meta, bkMem)
<1> DEFINE with(b) == [bkMarker[b] EXCEPT !.meta = new]
<1>1. \A b \in BkBundles : with(b) \in Markers /\ with(b).gen = bkMarker[b].gen /\ with(b).meta = new
      BY Remarked, ZenonT(30) DEF BkInv
<1>2. bkMarker' = [b \in BkBundles |->
         IF b \notin bs \/ KeepsExisting(bkMarker[b].meta, new) THEN bkMarker[b] ELSE with(b)]
      BY ZenonT(30) DEF WriteControlMetadata
<1> HIDE DEF with
<1>3. \A b \in BkBundles : bkMarker'[b] = bkMarker[b] \/ (b \in bs /\ bkMarker'[b] = with(b))
      BY <1>2, ZenonT(30)
<1>4. bkMarker \in [BkBundles -> Markers] /\ \A b \in BkBundles : Backed(bkMarker[b].meta, bkMem)
      BY ZenonT(30) DEF BkInv, BkTypeOK, MetaInv
<1> QED BY <1>1, <1>2, <1>3, <1>4, ZenonT(30)

LEMMA ControlReplayPreserves == ASSUME BkInv, NEW r \in BkRequests, ControlReplay(r) PROVE BkInv'
<1> DEFINE new == MetadataForControl(bkMem, r, TRUE)
<1>1. PICK bs \in SUBSET BkBundles : (\A b \in bs : bkMarker[b] # NoMarker) /\ WriteControlMetadata(bs, new)
      BY Zenon DEF ControlReplay, TargetsOf
<1>2. \A b \in bs : bkMarker[b].gen # 0
      BY <1>1, ZenonT(30) DEF BkInv, BkTypeOK
<1>3. bkMem[r].st = "accepted" /\ bkOp.pc = "idle" /\ UNCHANGED <<bkParts, bkJob, bkLedger, bkOp>>
      BY ZenonT(30) DEF ControlReplay
<1>4. new \in Metas /\ Backed(new, bkMem)
      BY <1>3, MetadataFacts, ZenonT(30)
<1> HIDE DEF new
<1>5. /\ bkMarker' \in [BkBundles -> Markers]
      /\ \A b \in BkBundles : /\ bkMarker'[b].gen = bkMarker[b].gen
                              /\ bkMarker[b].gen = 0 => bkMarker'[b] = bkMarker[b]
                              /\ Backed(bkMarker'[b].meta, bkMem)
      BY <1>1, <1>2, <1>4, WriteFacts, ZenonT(30)
<1>6. ControlInv' /\ bkOp' \in Operations
      BY <1>3, ZenonT(30) DEF BkInv, BkTypeOK, ControlInv, ControlSteps
<1> QED BY <1>3, <1>5, <1>6, MetadataOnly, ZenonT(30)

LEMMA ControlMarkPreserves == ASSUME BkInv, NEW o \in Outcomes, ControlMark(o) PROVE BkInv'
<1> DEFINE r == bkOp.req
           new == MetadataForControl(bkMem, r, FALSE)
           bs == TargetsOf(bkMem[r])
           next == [bkOp EXCEPT !.pc = "exec"]
<1>1. /\ bkOp.pc = "mark" /\ r \in BkRequests /\ bkMem[r].st = "pending" /\ bkOp \in Operations
      /\ \A b \in bs : bkMarker[b].gen # 0
      BY ZenonT(30) DEF ControlMark, BkInv, BkTypeOK, ControlInv, ControlSteps
<1>2. /\ UNCHANGED <<bkParts, bkJob, bkLedger>>
      /\ \/ WriteControlMetadata(bs, new) /\ bkOp' = next
         \/ bkOp' = NoBkOp /\ UNCHANGED bkMarker
      BY Zenon DEF ControlMark
<1>3. next \in Operations /\ next.pc = "exec" /\ next.req = r
      BY <1>1, ZenonT(30) DEF Operations, ControlSteps
<1>4. new \in Metas /\ Backed(new, bkMem) /\ bs \subseteq BkBundles
      BY <1>1, MetadataFacts, ZenonT(30) DEF TargetsOf
<1> HIDE DEF new, next, bs
<1>5. CASE bkOp' = next /\ WriteControlMetadata(bs, new)
  <2>1. /\ bkMarker' \in [BkBundles -> Markers]
        /\ \A b \in BkBundles : /\ bkMarker'[b].gen = bkMarker[b].gen
                                /\ bkMarker[b].gen = 0 => bkMarker'[b] = bkMarker[b]
                                /\ Backed(bkMarker'[b].meta, bkMem)
        BY <1>1, <1>4, <1>5, WriteFacts, ZenonT(30)
  <2>2. ControlInv'
        BY <1>1, <1>2, <1>3, <1>5, ZenonT(30) DEF ControlInv, ControlSteps, bkLedger
  <2> QED BY <1>2, <1>3, <1>5, <2>1, <2>2, MetadataOnly, ZenonT(30) DEF ControlSteps
<1>6. CASE bkOp' = NoBkOp /\ UNCHANGED bkMarker
  <2>1. ControlInv' /\ ApplyInv' /\ bkOp' \in Operations
        BY <1>6, Blanks, ZenonT(30) DEF ControlInv, ControlSteps, ApplyInv
  <2> QED BY <1>2, <1>6, <2>1, OperationOnly, ZenonT(30) DEF bkCluster
<1> QED BY <1>2, <1>5, <1>6, ZenonT(30)

LEMMA ControlShowPreserves == ASSUME BkInv, NEW o \in Outcomes, ControlShow(o) PROVE BkInv'
<1> DEFINE r == bkOp.req
           new == MetadataForControl(bkMem, r, TRUE)
           bs == TargetsOf(bkMem[r])
<1>1. r \in BkRequests /\ bkMem[r].st = "accepted"
      BY ZenonT(30) DEF ControlShow, BkInv, ControlInv, ControlSteps
<1>2. /\ bkOp' = NoBkOp /\ UNCHANGED <<bkParts, bkJob, bkLedger>>
      /\ \/ WriteControlMetadata(bs, new) /\ \A b \in bs : bkMarker[b] # NoMarker
         \/ UNCHANGED bkMarker
      BY Zenon DEF ControlShow
<1>3. new \in Metas /\ Backed(new, bkMem) /\ bs \subseteq BkBundles
      BY <1>1, MetadataFacts, ZenonT(30) DEF TargetsOf
<1>4. ControlInv' /\ ApplyInv' /\ bkOp' \in Operations /\ bkOp'.pc = "idle"
      BY <1>2, Blanks, ZenonT(30) DEF ControlInv, ControlSteps, ApplyInv
<1> HIDE DEF new, bs
<1>5. CASE WriteControlMetadata(bs, new) /\ \A b \in bs : bkMarker[b] # NoMarker
  <2>1. \A b \in bs : bkMarker[b].gen # 0
        BY <1>3, <1>5, ZenonT(30) DEF BkInv, BkTypeOK
  <2>2. /\ bkMarker' \in [BkBundles -> Markers]
        /\ \A b \in BkBundles : /\ bkMarker'[b].gen = bkMarker[b].gen
                                /\ bkMarker[b].gen = 0 => bkMarker'[b] = bkMarker[b]
                                /\ Backed(bkMarker'[b].meta, bkMem)
        BY <1>3, <1>5, <2>1, WriteFacts, ZenonT(30)
  <2> QED BY <1>2, <1>4, <2>2, MetadataOnly, ZenonT(30)
<1>6. CASE UNCHANGED bkMarker
      BY <1>2, <1>4, <1>6, OperationOnly, ZenonT(30) DEF bkCluster
<1> QED BY <1>2, <1>5, <1>6, ZenonT(30)

LEMMA RestorePreserves == ASSUME BkInv, RestoreControlMetadata PROVE BkInv'
<1>1. PICK pick \in [BkBundles -> BkRequests] :
        /\ \A b \in BkBundles : AcceptedFor(bkMem, b) # {} => IsLatest(bkMem, pick[b], b)
        /\ bkMarker' = [b \in BkBundles |->
             LET new == MetadataForControl(bkMem, pick[b], TRUE)
             IN IF bkMarker[b] = NoMarker \/ AcceptedFor(bkMem, b) = {} \/ KeepsExisting(bkMarker[b].meta, new)
                THEN bkMarker[b] ELSE [bkMarker[b] EXCEPT !.meta = new]]
      BY Zenon DEF RestoreControlMetadata
<1> DEFINE new(b) == MetadataForControl(bkMem, pick[b], TRUE)
           with(b) == [bkMarker[b] EXCEPT !.meta = new(b)]
<1>2. bkOp' = NoBkOp /\ UNCHANGED <<bkParts, bkJob, bkLedger>>
      BY ZenonT(30) DEF RestoreControlMetadata
<1>3. ASSUME NEW b \in BkBundles, AcceptedFor(bkMem, b) # {} PROVE new(b) \in Metas /\ Backed(new(b), bkMem)
  <2>1. pick[b] \in BkRequests /\ bkMem[pick[b]].st = "accepted"
        BY <1>1, <1>3, ZenonT(30) DEF IsLatest, AcceptedFor
  <2> QED BY <2>1, MetadataFacts, ZenonT(30)
<1>4. ASSUME NEW b \in BkBundles, AcceptedFor(bkMem, b) # {}
      PROVE with(b) \in Markers /\ with(b).gen = bkMarker[b].gen /\ Backed(with(b).meta, bkMem)
  <2>1. new(b) \in Metas /\ Backed(new(b), bkMem) /\ BkTypeOK
        BY <1>3, <1>4, Zenon DEF BkInv
  <2> HIDE DEF new
  <2> QED BY <2>1, Remarked, ZenonT(30)
<1>5. bkMarker' = [b \in BkBundles |->
         IF bkMarker[b] = NoMarker \/ AcceptedFor(bkMem, b) = {} \/ KeepsExisting(bkMarker[b].meta, new(b))
         THEN bkMarker[b] ELSE with(b)]
      BY <1>1, ZenonT(30)
<1> HIDE DEF new, with
<1>6. \A b \in BkBundles : \/ bkMarker'[b] = bkMarker[b]
                           \/ /\ AcceptedFor(bkMem, b) # {} /\ bkMarker'[b] = with(b)
                              /\ bkMarker[b] # NoMarker
      BY <1>5, ZenonT(30)
<1>7. bkMarker \in [BkBundles -> Markers] /\ \A b \in BkBundles : Backed(bkMarker[b].meta, bkMem)
      BY ZenonT(30) DEF BkInv, BkTypeOK, MetaInv
<1>8. bkMarker' \in [BkBundles -> Markers]
      BY <1>4, <1>5, <1>7, ZenonT(30)
<1>9. \A b \in BkBundles : /\ bkMarker'[b].gen = bkMarker[b].gen
                           /\ bkMarker[b].gen = 0 => bkMarker'[b] = bkMarker[b]
                           /\ Backed(bkMarker'[b].meta, bkMem)
      BY <1>4, <1>6, <1>7, ZenonT(30) DEF BkInv, BkTypeOK
<1>10. ControlInv' /\ bkOp' \in Operations /\ bkOp'.pc = "idle"
      BY <1>2, Blanks, ZenonT(30) DEF ControlInv, ControlSteps
<1> QED BY <1>2, <1>8, <1>9, <1>10, MetadataOnly, ZenonT(30)

(* The cluster's side: versions of Jobs only grow, a Job that appears has a   *)
(* new version, and a marker leaves a generation without its Job.             *)
Grew(gen, gen1, parts, parts1, job, job1) ==
  /\ \A g \in Gens : /\ job1[g].ver >= job[g].ver
                     /\ <<g, "job">> \in parts1 => <<g, "job">> \in parts \/ job1[g].ver > job[g].ver
  /\ gen1 # gen => <<gen, "job">> \notin parts1
ClusterMonotone ==
  \A b \in BkBundles :
    /\ Grew(bkMarker[b].gen, bkMarker'[b].gen, bkParts[b], bkParts'[b], bkJob[b], bkJob'[b])
    /\ bkMarker'[b].meta = bkMarker[b].meta \/ bkMarker'[b].meta.committed = FALSE

LEMMA KnownKept ==
  ASSUME NEW rec, NEW b, NEW gen, NEW gen1, NEW parts, NEW parts1, NEW job \in [Gens -> Jobs], NEW job1 \in [Gens -> Jobs],
         rec \in Records, b \in BkBundles, Known(rec, b, gen, parts, job), Grew(gen, gen1, parts, parts1, job, job1)
  PROVE  Known(rec, b, gen1, parts1, job1)
<1> SUFFICES ASSUME b \in Unfinished(rec)
             PROVE  /\ rec.gen[b] \in Gens /\ rec.ver[b] <= job1[rec.gen[b]].ver
                    /\ <<rec.gen[b], "job">> \in parts1 /\ rec.ver[b] = job1[rec.gen[b]].ver => gen1 = rec.gen[b]
    BY ZenonT(30) DEF Known
<1> DEFINE g == rec.gen[b]
           v == rec.ver[b]
<1>1. g \in Gens /\ v <= job[g].ver /\ (<<g, "job">> \in parts /\ v = job[g].ver => gen = g)
      BY ZenonT(30) DEF Known
<1>2. job[g].ver \in Nat /\ job1[g].ver \in Nat /\ v \in Nat
      BY <1>1, ZenonT(30) DEF Jobs, Records
<1> HIDE DEF g, v
<1>3. job1[g].ver >= job[g].ver /\ (<<g, "job">> \in parts1 => <<g, "job">> \in parts \/ job1[g].ver > job[g].ver)
      BY <1>1, ZenonT(30) DEF Grew
<1>4. v <= job1[g].ver
      BY <1>1, <1>2, <1>3
<1>5. ASSUME <<g, "job">> \in parts1, v = job1[g].ver PROVE gen1 = g
  <2>1. <<g, "job">> \in parts /\ v = job[g].ver
        BY <1>1, <1>2, <1>3, <1>5, SMTT(30)
  <2>2. gen = g
        BY <1>1, <2>1, ZenonT(30)
  <2> QED BY <1>5, <2>2, ZenonT(30) DEF Grew
<1> QED BY <1>1, <1>4, <1>5, ZenonT(30) DEF g, v

LEMMA BkClusterStep ==
  ASSUME BkInv, UNCHANGED bkLedger, bkOp' \in Operations,
         bkMarker' \in [BkBundles -> Markers], \A b \in BkBundles : bkMarker'[b].gen = 0 => bkMarker'[b] = NoMarker,
         bkParts' \in [BkBundles -> SUBSET (Gens \X ObjectKinds)], bkJob' \in [BkBundles -> [Gens -> Jobs]],
         ClusterMonotone
  PROVE  BkTypeOK' /\ LedgerInv' /\ MetaInv' /\ VersionInv'
<1>1. BkTypeOK' /\ LedgerInv'
      BY ZenonT(30) DEF BkInv, BkTypeOK, LedgerInv, bkLedger
<1>2. MetaInv'
      BY ZenonT(30) DEF BkInv, MetaInv, Backed, bkLedger, ClusterMonotone
<1>3. VersionInv'
  <2> SUFFICES ASSUME NEW r \in BkRequests, NEW b \in BkBundles, NEW rec \in {bkMem[r], bkDisk[r]}
               PROVE  Known(rec, b, bkMarker'[b].gen, bkParts'[b], bkJob'[b])
      BY ZenonT(30) DEF VersionInv, bkLedger
  <2>1. rec \in Records /\ Known(rec, b, bkMarker[b].gen, bkParts[b], bkJob[b])
        BY ZenonT(30) DEF BkInv, BkTypeOK, VersionInv
  <2>2. bkJob[b] \in [Gens -> Jobs] /\ bkJob'[b] \in [Gens -> Jobs]
        BY ZenonT(30) DEF BkInv, BkTypeOK
  <2>3. Grew(bkMarker[b].gen, bkMarker'[b].gen, bkParts[b], bkParts'[b], bkJob[b], bkJob'[b])
        BY ZenonT(30) DEF ClusterMonotone
  <2> QED BY <2>1, <2>2, <2>3, KnownKept, ZenonT(30)
<1> QED BY <1>1, <1>2, <1>3, ZenonT(30)

(* A generation is complete when both of its objects exist. *)
LEMMA FullIsAll ==
  ASSUME BkTypeOK, NEW b \in BkBundles, NEW g
  PROVE  OfGen(b, g) = {g} \X ObjectKinds <=> Full(b, g)
<1>1. OfGen(b, g) \subseteq {g} \X ObjectKinds
  <2> SUFFICES ASSUME NEW p \in bkParts[b], p[1] = g PROVE p \in {g} \X ObjectKinds
      BY ZenonT(30) DEF OfGen
  <2>1. p \in Gens \X ObjectKinds
        BY ZenonT(30) DEF BkTypeOK
  <2> QED BY <2>1, ZenonT(30)
<1>2. OfGen(b, g) = {g} \X ObjectKinds <=> \A kind \in ObjectKinds : <<g, kind>> \in OfGen(b, g)
      BY <1>1
<1>3. \A kind : <<g, kind>> \in OfGen(b, g) <=> <<g, kind>> \in bkParts[b]
      BY ZenonT(30) DEF OfGen
<1> QED BY <1>2, <1>3, ZenonT(30) DEF Full, ObjectKinds

(* The objects of one generation are created, or removed, one at a time. *)
LEMMA UpsertedFacts ==
  ASSUME BkInv, NEW b \in BkBundles, NEW g \in Gens, NEW kind \in ObjectKinds, UNCHANGED bkMarker,
         Upserted(b, g, kind), <<g, kind>> \notin bkParts[b]
  PROVE  /\ bkParts' \in [BkBundles -> SUBSET (Gens \X ObjectKinds)] /\ bkJob' \in [BkBundles -> [Gens -> Jobs]]
         /\ ClusterMonotone
         /\ \A c \in BkBundles : c # b => bkParts'[c] = bkParts[c] /\ bkJob'[c] = bkJob[c]
         /\ \A h \in Gens : h # g => bkJob'[b][h] = bkJob[b][h]
         /\ bkParts'[b] = bkParts[b] \cup {<<g, kind>>}
<1>1. bkParts \in [BkBundles -> SUBSET (Gens \X ObjectKinds)] /\ bkJob \in [BkBundles -> [Gens -> Jobs]]
      BY ZenonT(30) DEF BkInv, BkTypeOK
<1>2. bkParts' = [bkParts EXCEPT ![b] = bkParts[b] \cup {<<g, kind>>}] /\ <<g, kind>> \in Gens \X ObjectKinds
      BY ZenonT(30) DEF Upserted
<1>3. /\ bkParts' \in [BkBundles -> SUBSET (Gens \X ObjectKinds)] /\ bkParts'[b] = bkParts[b] \cup {<<g, kind>>}
      /\ \A c \in BkBundles : c # b => bkParts'[c] = bkParts[c]
      BY <1>1, <1>2, ZenonT(30)
<1> DEFINE new == [st |-> "suspended", ver |-> bkJob[b][g].ver + 1]
<1>4. new \in Jobs /\ new.ver = bkJob[b][g].ver + 1
      BY <1>1, SMTT(30) DEF Jobs
<1>5. bkJob' = IF kind = "job" THEN [bkJob EXCEPT ![b] = [bkJob[b] EXCEPT ![g] = new]] ELSE bkJob
      BY <1>1, ZenonT(30) DEF Upserted
<1> HIDE DEF new
<1>6. /\ bkJob' \in [BkBundles -> [Gens -> Jobs]]
      /\ \A c \in BkBundles : c # b => bkJob'[c] = bkJob[c]
      /\ \A h \in Gens : h # g => bkJob'[b][h] = bkJob[b][h]
      /\ bkJob'[b][g] = IF kind = "job" THEN new ELSE bkJob[b][g]
      BY <1>1, <1>4, <1>5, ZenonT(30)
<1>7. \A c \in BkBundles, h \in Gens : bkJob[c][h].ver \in Nat
      BY <1>1, ZenonT(30) DEF Jobs
<1>8. ASSUME NEW c \in BkBundles
      PROVE Grew(bkMarker[c].gen, bkMarker'[c].gen, bkParts[c], bkParts'[c], bkJob[c], bkJob'[c])
      BY <1>3, <1>4, <1>6, <1>7, SMTT(30) DEF Grew
<1>9. ClusterMonotone
      BY <1>8, ZenonT(30) DEF ClusterMonotone
<1> QED BY <1>3, <1>6, <1>9, ZenonT(30)

LEMMA RemovedFacts ==
  ASSUME BkInv, NEW b \in BkBundles, NEW part, UNCHANGED <<bkMarker, bkJob>>,
         bkParts' = [bkParts EXCEPT ![b] = @ \ {part}]
  PROVE  /\ bkParts' \in [BkBundles -> SUBSET (Gens \X ObjectKinds)] /\ bkJob' \in [BkBundles -> [Gens -> Jobs]]
         /\ ClusterMonotone
         /\ \A c \in BkBundles : c # b => bkParts'[c] = bkParts[c]
         /\ bkParts'[b] = bkParts[b] \ {part}
<1>1. bkParts \in [BkBundles -> SUBSET (Gens \X ObjectKinds)] /\ bkJob \in [BkBundles -> [Gens -> Jobs]]
      BY ZenonT(30) DEF BkInv, BkTypeOK
<1>2. /\ bkParts' \in [BkBundles -> SUBSET (Gens \X ObjectKinds)] /\ bkParts'[b] = bkParts[b] \ {part}
      /\ \A c \in BkBundles : c # b => bkParts'[c] = bkParts[c]
      BY <1>1, ZenonT(30)
<1>3. \A c \in BkBundles, h \in Gens : bkJob[c][h].ver \in Nat
      BY <1>1, ZenonT(30) DEF Jobs
<1>4. ASSUME NEW c \in BkBundles
      PROVE Grew(bkMarker[c].gen, bkMarker'[c].gen, bkParts[c], bkParts'[c], bkJob[c], bkJob'[c])
      BY <1>2, <1>3, SMTT(30) DEF Grew
<1>5. ClusterMonotone
      BY <1>4, ZenonT(30) DEF ClusterMonotone
<1> QED BY <1>1, <1>2, <1>5, ZenonT(30)

LEMMA ApplyCreatePreserves == ASSUME BkInv, NEW kind \in ObjectKinds, ApplyCreate(kind) PROVE BkInv'
<1> DEFINE b == bkOp.bundle
           g == bkOp.gen
<1>1. /\ b \in BkBundles /\ g \in Gens /\ g = bkMarker[b].gen + 1 /\ bkOp.pc = "create"
      BY ZenonT(30) DEF ApplyCreate, BkInv, ApplyInv
<1>2. Upserted(b, g, kind) /\ <<g, kind>> \notin bkParts[b] /\ UNCHANGED <<bkMarker, bkLedger, bkOp>>
      BY ZenonT(30) DEF ApplyCreate, CreatesNext
<1>3. /\ bkParts' \in [BkBundles -> SUBSET (Gens \X ObjectKinds)] /\ bkJob' \in [BkBundles -> [Gens -> Jobs]]
      /\ ClusterMonotone
      /\ \A c \in BkBundles : c # b => bkParts'[c] = bkParts[c] /\ bkJob'[c] = bkJob[c]
      /\ \A h \in Gens : h # g => bkJob'[b][h] = bkJob[b][h]
      /\ bkParts'[b] = bkParts[b] \cup {<<g, kind>>}
      BY <1>1, <1>2, UpsertedFacts, ZenonT(30)
<1>4. BkTypeOK' /\ LedgerInv' /\ MetaInv' /\ VersionInv'
      BY <1>2, <1>3, BkClusterStep, ZenonT(30) DEF BkInv, BkTypeOK
<1>5. ControlInv' /\ ApplyInv'
      BY <1>1, <1>2, ZenonT(30) DEF BkInv, ControlInv, ControlSteps, ApplyInv
<1>6. ReadyInv'
  <2>1. \A c \in BkBundles : bkMarker[c].gen \in Nat /\ (bkMarker[c].gen # 0 => bkMarker[c].gen \in Gens)
        BY BkAssumption, SMTT(30) DEF BkInv, BkTypeOK, Markers, Gens
  <2> SUFFICES ASSUME NEW c \in BkBundles, bkMarker[c].gen # 0, <<bkMarker[c].gen, "job">> \in bkParts'[c],
                      bkJob'[c][bkMarker[c].gen].st # "over", <<bkMarker[c].gen, "workload">> \notin bkParts'[c]
               PROVE  \A k \in {"workload", "job"} : <<bkMarker[c].gen + 1, k>> \in bkParts'[c]
      BY <1>2, ZenonT(30) DEF ReadyInv, JobExists, Full
  <2>2. bkParts[c] \subseteq bkParts'[c] /\ <<bkMarker[c].gen, "job">> \in bkParts[c]
        BY <1>1, <1>3, <2>1, SMTT(30)
  <2>3. bkJob[c][bkMarker[c].gen].st # "over"
        BY <1>1, <1>3, <2>1, SMTT(30)
  <2> QED BY <2>2, <2>3, ZenonT(30) DEF BkInv, ReadyInv, JobExists, Full
<1> QED BY <1>4, <1>5, <1>6, ZenonT(30) DEF BkInv

LEMMA ApplyRepairPreserves ==
  ASSUME BkInv, NEW b \in BkBundles, NEW kind \in ObjectKinds, ApplyRepair(b, kind) PROVE BkInv'
<1> DEFINE g == bkMarker[b].gen
<1>1. /\ bkOp.pc = "idle" /\ bkMarker[b] # NoMarker /\ CreatesNext(b, g, kind)
      /\ Upserted(b, g, kind) /\ UNCHANGED <<bkMarker, bkLedger, bkOp>>
      BY ZenonT(30) DEF ApplyRepair
<1>2. g \in Gens
      BY <1>1, BkAssumption, SMTT(30) DEF BkInv, BkTypeOK, Markers, Gens
<1>3. <<g, kind>> \notin bkParts[b] /\ (kind = "job" => <<g, "workload">> \in bkParts[b])
      BY <1>1, ZenonT(30) DEF CreatesNext
<1>4. /\ bkParts' \in [BkBundles -> SUBSET (Gens \X ObjectKinds)] /\ bkJob' \in [BkBundles -> [Gens -> Jobs]]
      /\ ClusterMonotone
      /\ \A c \in BkBundles : c # b => bkParts'[c] = bkParts[c] /\ bkJob'[c] = bkJob[c]
      /\ bkParts'[b] = bkParts[b] \cup {<<g, kind>>}
      BY <1>1, <1>2, <1>3, UpsertedFacts, ZenonT(30)
<1>5. BkTypeOK' /\ LedgerInv' /\ MetaInv' /\ VersionInv'
      BY <1>1, <1>4, BkClusterStep, ZenonT(30) DEF BkInv, BkTypeOK
<1>6. ControlInv' /\ ApplyInv'
      BY <1>1, ZenonT(30) DEF BkInv, ControlInv, ControlSteps, ApplyInv
<1>7. <<g, "workload">> \in bkParts'[b]
      BY <1>3, <1>4, ZenonT(30) DEF ObjectKinds
<1>8. ReadyInv'
      BY <1>1, <1>4, <1>7, ZenonT(30) DEF BkInv, ReadyInv, JobExists, Full
<1> QED BY <1>5, <1>6, <1>8, ZenonT(30) DEF BkInv

LEMMA ApplyDeletePreserves == ASSUME BkInv, NEW kind \in ObjectKinds, ApplyDelete(kind) PROVE BkInv'
<1> DEFINE b == bkOp.bundle
           g == bkOp.gen
<1>1. /\ b \in BkBundles /\ g \in Gens /\ g = bkMarker[b].gen + 1 /\ bkOp.pc = "orphans" /\ Full(b, g)
      BY ZenonT(30) DEF ApplyDelete, BkInv, ApplyInv
<1>2. bkParts' = [bkParts EXCEPT ![b] = @ \ {<<g - 1, kind>>}] /\ UNCHANGED <<bkMarker, bkJob, bkLedger, bkOp>>
      BY ZenonT(30) DEF ApplyDelete
<1>3. /\ bkParts' \in [BkBundles -> SUBSET (Gens \X ObjectKinds)] /\ bkJob' \in [BkBundles -> [Gens -> Jobs]]
      /\ ClusterMonotone
      /\ \A c \in BkBundles : c # b => bkParts'[c] = bkParts[c]
      /\ bkParts'[b] = bkParts[b] \ {<<g - 1, kind>>}
      BY <1>1, <1>2, RemovedFacts, ZenonT(30)
<1>4. BkTypeOK' /\ LedgerInv' /\ MetaInv' /\ VersionInv'
      BY <1>2, <1>3, BkClusterStep, ZenonT(30) DEF BkInv, BkTypeOK
<1>5. \A k \in ObjectKinds : <<g, k>> \in bkParts[b] => <<g, k>> \in bkParts'[b]
      BY <1>1, <1>3, BkAssumption, SMTT(30) DEF Gens
<1>6. Full(b, g)'
      BY <1>1, <1>2, <1>5, ZenonT(30) DEF Full, ObjectKinds
<1>7. ControlInv' /\ ApplyInv'
      BY <1>1, <1>2, <1>6, ZenonT(30) DEF BkInv, ControlInv, ControlSteps, ApplyInv
<1>8. ReadyInv'
      BY <1>1, <1>2, <1>3, <1>6, ZenonT(30) DEF BkInv, ReadyInv, JobExists, Full
<1> QED BY <1>4, <1>7, <1>8, ZenonT(30) DEF BkInv

LEMMA CleanupDeletePreserves == ASSUME BkInv, NEW kind \in ObjectKinds, CleanupDelete(kind) PROVE BkInv'
<1> DEFINE b == bkOp.bundle
           g == bkOp.gen
<1>1. /\ b \in BkBundles /\ g = bkMarker[b].gen /\ bkOp.pc = "cleanup"
      /\ JobExists(b, g) => bkJob[b][g].st = "over"
      BY ZenonT(30) DEF CleanupDelete, BkInv, ApplyInv
<1>2. bkParts' = [bkParts EXCEPT ![b] = @ \ {<<g, kind>>}] /\ UNCHANGED <<bkMarker, bkJob, bkLedger, bkOp>>
      BY ZenonT(30) DEF CleanupDelete
<1>3. /\ bkParts' \in [BkBundles -> SUBSET (Gens \X ObjectKinds)] /\ bkJob' \in [BkBundles -> [Gens -> Jobs]]
      /\ ClusterMonotone
      /\ \A c \in BkBundles : c # b => bkParts'[c] = bkParts[c]
      /\ bkParts'[b] = bkParts[b] \ {<<g, kind>>}
      BY <1>1, <1>2, RemovedFacts, ZenonT(30)
<1>4. BkTypeOK' /\ LedgerInv' /\ MetaInv' /\ VersionInv'
      BY <1>2, <1>3, BkClusterStep, ZenonT(30) DEF BkInv, BkTypeOK
<1>5. ControlInv' /\ ApplyInv'
      BY <1>1, <1>2, <1>3, ZenonT(30) DEF BkInv, ControlInv, ControlSteps, ApplyInv, JobExists
<1>6. ReadyInv'
      BY <1>1, <1>2, <1>3, ZenonT(30) DEF BkInv, ReadyInv, JobExists, Full
<1> QED BY <1>4, <1>5, <1>6, ZenonT(30) DEF BkInv

(* A Job whose version moves: the cluster's moves, and the pause or resume of *)
(* a control.                                                                 *)
LEMMA MovedFacts ==
  ASSUME BkInv, NEW b \in BkBundles, NEW g \in Gens, NEW new \in Jobs, UNCHANGED <<bkMarker, bkParts>>,
         bkJob' = [bkJob EXCEPT ![b][g] = new], bkJob[b][g].st # "over",
         new = bkJob[b][g] \/ new.ver = bkJob[b][g].ver + 1
  PROVE  /\ bkJob' \in [BkBundles -> [Gens -> Jobs]] /\ ClusterMonotone
         /\ \A c \in BkBundles, h \in Gens : bkJob[c][h].st = "over" => bkJob'[c][h] = bkJob[c][h]
<1>1. bkParts \in [BkBundles -> SUBSET (Gens \X ObjectKinds)] /\ bkJob \in [BkBundles -> [Gens -> Jobs]]
      BY ZenonT(30) DEF BkInv, BkTypeOK
<1>2. /\ bkJob' \in [BkBundles -> [Gens -> Jobs]]
      /\ \A c \in BkBundles, h \in Gens : bkJob'[c][h] = IF c = b /\ h = g THEN new ELSE bkJob[c][h]
      BY <1>1, ZenonT(30)
<1>3. \A c \in BkBundles, h \in Gens : bkJob[c][h].ver \in Nat
      BY <1>1, ZenonT(30) DEF Jobs
<1>4. ASSUME NEW c \in BkBundles
      PROVE Grew(bkMarker[c].gen, bkMarker'[c].gen, bkParts[c], bkParts'[c], bkJob[c], bkJob'[c])
      BY <1>2, <1>3 DEF Grew
<1>5. ClusterMonotone
      BY <1>4, ZenonT(30) DEF ClusterMonotone
<1> QED BY <1>2, <1>5, ZenonT(30)

LEMMA JobMoved ==
  ASSUME BkInv, UNCHANGED <<bkMarker, bkParts, bkLedger>>, bkOp' \in Operations, ControlInv',
         bkJob' \in [BkBundles -> [Gens -> Jobs]], ClusterMonotone,
         \A c \in BkBundles, h \in Gens : bkJob[c][h].st = "over" => bkJob'[c][h] = bkJob[c][h],
         bkOp' = bkOp \/ bkOp'.pc \in ControlSteps
  PROVE  BkInv'
<1>1. BkTypeOK' /\ LedgerInv' /\ MetaInv' /\ VersionInv'
      BY BkClusterStep, ZenonT(30) DEF BkInv, BkTypeOK
<1>2. ApplyInv'
  <2>1. CASE bkOp' = bkOp
        BY <2>1, ZenonT(30) DEF BkInv, ApplyInv, JobExists, Full
  <2>2. CASE bkOp'.pc \in ControlSteps
        BY <2>2, ZenonT(30) DEF ApplyInv, ControlSteps
  <2> QED BY <2>1, <2>2, ZenonT(30)
<1>3. \A c \in BkBundles : bkMarker[c].gen # 0 => bkMarker[c].gen \in Gens
      BY BkAssumption DEF BkInv, BkTypeOK, Markers, Gens
<1>4. ReadyInv'
      BY <1>3, Zenon DEF BkInv, ReadyInv, JobExists, Full
<1> QED BY <1>1, <1>2, <1>4, ZenonT(30) DEF BkInv

LEMMA ClusterMovesPreserves ==
  ASSUME BkInv, NEW b \in BkBundles, NEW g \in Gens, NEW st \in {"suspended", "active", "over"},
         ClusterMoves(b, g, st)
  PROVE  BkInv'
<1> DEFINE new == [st |-> st, ver |-> bkJob[b][g].ver + 1]
<1>1. bkJob \in [BkBundles -> [Gens -> Jobs]] /\ bkOp \in Operations
      BY ZenonT(30) DEF BkInv, BkTypeOK
<1>2. new \in Jobs /\ new.ver = bkJob[b][g].ver + 1
      BY <1>1, SMTT(30) DEF Jobs
<1>3. /\ bkJob' = [bkJob EXCEPT ![b][g] = new] /\ bkJob[b][g].st # "over"
      /\ UNCHANGED <<bkMarker, bkParts, bkLedger, bkOp>>
      BY <1>1, ZenonT(30) DEF ClusterMoves
<1> HIDE DEF new
<1>4. /\ bkJob' \in [BkBundles -> [Gens -> Jobs]] /\ ClusterMonotone
      /\ \A c \in BkBundles, h \in Gens : bkJob[c][h].st = "over" => bkJob'[c][h] = bkJob[c][h]
      BY <1>2, <1>3, MovedFacts, ZenonT(30)
<1>5. ControlInv'
      BY <1>3, ZenonT(30) DEF BkInv, ControlInv, bkLedger, TargetsOf, Unfinished
<1> QED BY <1>1, <1>3, <1>4, <1>5, JobMoved, ZenonT(30)

LEMMA ControlSendPreserves == ASSUME BkInv, NEW o \in Outcomes, ControlSend(o) PROVE BkInv'
<1> DEFINE rec == bkMem[bkOp.req]
           b == bkOp.bundle
           g == rec.gen[b]
           to == IF rec.action = "pause" THEN "suspended" ELSE "active"
<1>1. /\ bkOp.pc = "send" /\ bkOp.req \in BkRequests /\ rec \in Records /\ rec.st = "pending" /\ b \in Unfinished(rec)
      /\ bkOp \in Operations
      BY ZenonT(30) DEF ControlSend, BkInv, BkTypeOK, ControlInv, ControlSteps
<1>2. b \in BkBundles
      BY <1>1, ZenonT(30) DEF Unfinished, TargetsOf
<1>3. Known(rec, b, bkMarker[b].gen, bkParts[b], bkJob[b])
      BY <1>1, <1>2, ZenonT(30) DEF BkInv, VersionInv
<1>4. g \in Gens /\ (JobExists(b, g) /\ rec.ver[b] = bkJob[b][g].ver => bkMarker[b].gen = g)
      BY <1>1, <1>3, Zenon DEF Known, JobExists
<1>5. /\ bkOp' \in Operations /\ bkOp'.pc \in {"sent", "unsure"} /\ bkOp'.req = bkOp.req /\ bkOp'.bundle = bkOp.bundle
      /\ UNCHANGED <<bkMarker, bkLedger>>
      BY <1>1, ZenonT(30) DEF ControlSend, Operations, ControlSteps
<1>6. ControlInv'
      BY <1>1, <1>5, ZenonT(30) DEF ControlInv, ControlSteps, bkLedger, Unfinished, TargetsOf
<1>7. CASE UNCHANGED <<bkParts, bkJob>>
  <2>1. ApplyInv'
        BY <1>5, ZenonT(30) DEF ApplyInv
  <2> QED BY <1>5, <1>6, <1>7, <2>1, OperationOnly, ZenonT(30) DEF bkCluster
<1>8. CASE VersionHolds(rec, b) /\ Mutate(rec, b) /\ Deletes(rec.action)
  <2>1. bkParts' = [bkParts EXCEPT ![b] = @ \ {<<g, "job">>}] /\ UNCHANGED bkJob
        BY <1>8, ZenonT(30) DEF Mutate
  <2>2. /\ bkParts' \in [BkBundles -> SUBSET (Gens \X ObjectKinds)] /\ bkJob' \in [BkBundles -> [Gens -> Jobs]]
        /\ ClusterMonotone
        /\ \A c \in BkBundles : c # b => bkParts'[c] = bkParts[c]
        /\ bkParts'[b] = bkParts[b] \ {<<g, "job">>}
        BY <1>2, <1>5, <2>1, RemovedFacts, ZenonT(30)
  <2>3. BkTypeOK' /\ LedgerInv' /\ MetaInv' /\ VersionInv'
        BY <1>5, <2>2, BkClusterStep, ZenonT(30) DEF BkInv, BkTypeOK
  <2>4. ApplyInv'
        BY <1>5, ZenonT(30) DEF ApplyInv
  <2>5. CASE ~JobExists(b, g)
    <3>1. bkParts' = bkParts
          BY <1>2, <2>1, <2>5, ZenonT(30) DEF BkInv, BkTypeOK, JobExists
    <3> QED BY <1>5, <1>6, <2>1, <2>4, <3>1, OperationOnly, ZenonT(30) DEF bkCluster
  <2>6. CASE JobExists(b, g)
    <3>1. bkMarker[b].gen = g
          BY <1>4, <1>8, <2>6, Zenon DEF VersionHolds
    <3>2. ReadyInv'
          BY <1>5, <2>1, <2>2, <3>1, ZenonT(30) DEF BkInv, ReadyInv, JobExists, Full
    <3> QED BY <1>6, <2>3, <2>4, <3>2, ZenonT(30) DEF BkInv
  <2> QED BY <2>5, <2>6, ZenonT(30)
<1>9. CASE VersionHolds(rec, b) /\ Mutate(rec, b) /\ ~Deletes(rec.action)
  <2> DEFINE old == bkJob[b][g]
             new == IF old.st \in {to, "over"} THEN old ELSE [st |-> to, ver |-> old.ver + 1]
  <2>1. bkJob \in [BkBundles -> [Gens -> Jobs]] /\ old \in Jobs
        BY <1>2, <1>4, ZenonT(30) DEF BkInv, BkTypeOK
  <2>2. new \in Jobs /\ (new = old \/ new.ver = old.ver + 1) /\ (old.st = "over" => new = old)
    <3>1. to \in {"suspended", "active"} /\ old.ver \in Nat
          BY <2>1, Zenon DEF Jobs
    <3> HIDE DEF to, old
    <3>2. CASE old.st \in {to, "over"}
          BY <2>1, <3>2, ZenonT(30)
    <3>3. CASE old.st \notin {to, "over"}
          BY <2>1, <3>1, <3>3, SMTT(30) DEF Jobs
    <3> QED BY <3>2, <3>3, ZenonT(30)
  <2>3. bkJob' = [bkJob EXCEPT ![b][g] = new] /\ UNCHANGED bkParts
        BY <1>2, <1>4, <1>9, <2>1, ZenonT(30) DEF Mutate
  <2> HIDE DEF new
  <2>4. CASE old.st = "over"
    <3>1. bkJob' = bkJob
          BY <1>2, <1>4, <2>1, <2>2, <2>3, <2>4, ZenonT(30)
    <3> QED BY <1>7, <2>3, <3>1, ZenonT(30)
  <2>5. CASE old.st # "over"
    <3>1. /\ bkJob' \in [BkBundles -> [Gens -> Jobs]] /\ ClusterMonotone
          /\ \A c \in BkBundles, h \in Gens : bkJob[c][h].st = "over" => bkJob'[c][h] = bkJob[c][h]
          BY <1>2, <1>4, <1>5, <2>2, <2>3, <2>5, MovedFacts, ZenonT(30)
    <3> QED BY <1>5, <1>6, <2>3, <3>1, JobMoved, ZenonT(30) DEF ControlSteps
  <2> QED BY <2>4, <2>5, ZenonT(30)
<1> QED BY <1>7, <1>8, <1>9, ZenonT(30) DEF ControlSend

LEMMA ApplyBeginPreserves == ASSUME BkInv, NEW b \in BkBundles, ApplyBegin(b) PROVE BkInv'
<1> DEFINE g == bkMarker[b].gen + 1
           next == [NoBkOp EXCEPT !.pc = "create", !.bundle = b, !.gen = g]
<1>1. g \in Gens
      BY BkAssumption DEF ApplyBegin, BkInv, BkTypeOK, Markers, Gens
<1> HIDE DEF g
<1>2. next \in Operations /\ next.pc = "create" /\ next.bundle = b /\ next.gen = g
  <2>1. g \in 0..MaxBkGen
        BY <1>1, BkAssumption DEF Gens
  <2> QED BY <2>1, Blanks, Zenon DEF Operations
<1>3. bkOp' = next /\ UNCHANGED <<bkCluster, bkLedger>>
      BY ZenonT(30) DEF ApplyBegin, g
<1> HIDE DEF next
<1>4. ControlInv' /\ ApplyInv'
      BY <1>1, <1>2, <1>3, ZenonT(30) DEF ControlInv, ControlSteps, ApplyInv, bkCluster, g
<1> QED BY <1>2, <1>3, <1>4, OperationOnly, ZenonT(30)

LEMMA ApplyCreatedPreserves == ASSUME BkInv, ApplyCreated PROVE BkInv'
<1>1. /\ bkOp \in Operations /\ bkOp.bundle \in BkBundles /\ bkOp.gen \in Gens
      /\ bkOp.gen = bkMarker[bkOp.bundle].gen + 1 /\ UNCHANGED <<bkCluster, bkLedger>>
      BY ZenonT(30) DEF ApplyCreated, BkInv, BkTypeOK, ApplyInv
<1>2. Full(bkOp.bundle, bkOp.gen)
      BY <1>1, FullIsAll, ZenonT(30) DEF ApplyCreated, BkInv
<1>3. bkOp' \in Operations /\ bkOp'.pc = "orphans" /\ bkOp'.bundle = bkOp.bundle /\ bkOp'.gen = bkOp.gen
      BY <1>1, ZenonT(30) DEF ApplyCreated, Operations
<1>4. ControlInv' /\ ApplyInv'
      BY <1>1, <1>2, <1>3, ZenonT(30) DEF ControlInv, ControlSteps, ApplyInv, bkCluster, Full
<1> QED BY <1>1, <1>3, <1>4, OperationOnly, ZenonT(30)

LEMMA CleanupBeginPreserves == ASSUME BkInv, NEW b \in BkBundles, CleanupBegin(b) PROVE BkInv'
<1> DEFINE g == bkMarker[b].gen
           next == [NoBkOp EXCEPT !.pc = "cleanup", !.bundle = b, !.gen = g]
<1>1. g \in Gens /\ (JobExists(b, g) => bkJob[b][g].st = "over")
      BY BkAssumption DEF CleanupBegin, BkInv, BkTypeOK, Markers, Gens
<1>2. next \in Operations /\ next.pc = "cleanup" /\ next.bundle = b /\ next.gen = g
  <2> HIDE DEF g
  <2>1. g \in 0..MaxBkGen
        BY <1>1, BkAssumption DEF Gens
  <2> QED BY <2>1, Blanks, ZenonT(30) DEF Operations
<1>3. bkOp' = next /\ UNCHANGED <<bkCluster, bkLedger>>
      BY ZenonT(30) DEF CleanupBegin
<1> HIDE DEF next
<1>4. ControlInv' /\ ApplyInv'
      BY <1>1, <1>2, <1>3, ZenonT(30) DEF ControlInv, ControlSteps, ApplyInv, bkCluster, JobExists
<1> QED BY <1>2, <1>3, <1>4, OperationOnly, ZenonT(30)

LEMMA CallFailsPreserves == ASSUME BkInv, CallFails PROVE BkInv'
<1>1. bkOp' = NoBkOp /\ UNCHANGED <<bkCluster, bkLedger>>
      BY ZenonT(30) DEF CallFails
<1>2. ControlInv' /\ ApplyInv'
      BY <1>1, Blanks, ZenonT(30) DEF ControlInv, ControlSteps, ApplyInv
<1> QED BY <1>1, <1>2, Blanks, OperationOnly, ZenonT(30)

(* The marker moves only when no object of its generation is left. *)
LEMMA MarkerMoved ==
  ASSUME BkInv, NEW b \in BkBundles, OfGen(b, bkMarker[b].gen) = {}, bkOp' = NoBkOp,
         UNCHANGED <<bkParts, bkJob, bkLedger>>,
         NEW new \in Markers, new.gen = 0 => new = NoMarker, ~new.meta.committed,
         new.gen # 0 => Full(b, new.gen),
         bkMarker' = [bkMarker EXCEPT ![b] = new]
  PROVE  BkInv'
<1>1. /\ bkMarker' \in [BkBundles -> Markers] /\ bkMarker'[b] = new
      /\ \A c \in BkBundles : c # b => bkMarker'[c] = bkMarker[c]
      BY ZenonT(30) DEF BkInv, BkTypeOK
<1>2. <<bkMarker[b].gen, "job">> \notin bkParts[b]
      BY SMTT(30) DEF OfGen
<1>3. BkTypeOK' /\ LedgerInv'
      BY <1>1, Blanks, ZenonT(30) DEF BkInv, BkTypeOK, LedgerInv, bkLedger
<1>4. MetaInv'
      BY <1>1, ZenonT(30) DEF BkInv, MetaInv, Backed, bkLedger
<1>5. VersionInv'
  <2> SUFFICES ASSUME NEW r \in BkRequests, NEW c \in BkBundles
               PROVE  /\ Known(bkMem[r], c, bkMarker'[c].gen, bkParts[c], bkJob[c])
                      /\ Known(bkDisk[r], c, bkMarker'[c].gen, bkParts[c], bkJob[c])
      BY ZenonT(30) DEF VersionInv, bkLedger
  <2>1. Known(bkMem[r], c, bkMarker[c].gen, bkParts[c], bkJob[c]) /\ Known(bkDisk[r], c, bkMarker[c].gen, bkParts[c], bkJob[c])
        BY ZenonT(30) DEF BkInv, VersionInv
  <2>2. CASE c # b
        BY <1>1, <2>1, <2>2, ZenonT(30)
  <2>3. CASE c = b
        BY <1>2, <2>1, <2>3, ZenonT(30) DEF Known
  <2> QED BY <2>2, <2>3, ZenonT(30)
<1>6. ReadyInv'
      BY <1>1, ZenonT(30) DEF BkInv, ReadyInv, JobExists, Full
<1>7. ControlInv' /\ ApplyInv'
      BY Blanks, ZenonT(30) DEF ControlInv, ControlSteps, ApplyInv
<1> QED BY <1>3, <1>4, <1>5, <1>6, <1>7, ZenonT(30) DEF BkInv

LEMMA ApplyMarkerPreserves == ASSUME BkInv, ApplyMarker PROVE BkInv'
<1> DEFINE b == bkOp.bundle
           new == [gen |-> bkOp.gen, meta |-> NoMeta]
<1>1. /\ b \in BkBundles /\ bkOp.gen \in Gens /\ bkOp.gen = bkMarker[b].gen + 1 /\ Full(b, bkOp.gen)
      /\ bkMarker[b].gen \in Nat
  <2>1. bkOp.pc = "orphans"
        BY ZenonT(30) DEF ApplyMarker
  <2>2. /\ b \in BkBundles /\ bkOp.gen \in Gens /\ bkOp.gen = bkMarker[b].gen + 1 /\ Full(b, bkOp.gen)
        /\ bkMarker \in [BkBundles -> Markers]
        BY <2>1, ZenonT(30) DEF BkInv, BkTypeOK, ApplyInv
  <2>3. bkMarker[b].gen \in Nat
    <3>1. bkMarker[b] \in Markers
          BY <2>2, Zenon
    <3>2. bkMarker[b].gen \in 0..MaxBkGen
          BY <3>1, ZenonT(30) DEF Markers
    <3> QED BY <3>2, BkAssumption
  <2> QED BY <2>2, <2>3, ZenonT(30)
<1>2. OfGen(b, bkMarker[b].gen) = {}
  <2>1. bkOp.gen - 1 = bkMarker[b].gen
        BY <1>1, Predecessor, ZenonT(30)
  <2> QED BY <2>1, ZenonT(30) DEF ApplyMarker
<1>3. new \in Markers /\ ~new.meta.committed /\ new.gen = bkOp.gen /\ new.gen # 0
      BY <1>1, NewMarker, ZenonT(30)
<1>4. bkOp' = NoBkOp /\ bkMarker' = [bkMarker EXCEPT ![b] = new] /\ UNCHANGED <<bkParts, bkJob, bkLedger>>
      BY ZenonT(30) DEF ApplyMarker
<1> HIDE DEF new
<1> QED BY <1>1, <1>2, <1>3, <1>4, MarkerMoved, ZenonT(30)

LEMMA CleanupMarkerPreserves == ASSUME BkInv, CleanupMarker PROVE BkInv'
<1>1. bkOp.bundle \in BkBundles /\ bkOp.gen = bkMarker[bkOp.bundle].gen
      BY ZenonT(30) DEF CleanupMarker, BkInv, ApplyInv
<1>2. /\ OfGen(bkOp.bundle, bkMarker[bkOp.bundle].gen) = {} /\ bkOp' = NoBkOp
      /\ bkMarker' = [bkMarker EXCEPT ![bkOp.bundle] = NoMarker] /\ UNCHANGED <<bkParts, bkJob, bkLedger>>
      BY <1>1, ZenonT(30) DEF CleanupMarker
<1> QED BY <1>1, <1>2, Blanks, MarkerMoved, ZenonT(30)

LEMMA BackendStep == ASSUME BkInv, [BkNext]_bkVars PROVE BkInv'
<1>1. CASE UNCHANGED bkVars
      BY <1>1, ZenonT(30) DEF bkVars, bkLedger, BkInv, BkTypeOK, LedgerInv, MetaInv, ControlInv, ApplyInv, VersionInv, ReadyInv,
                  JobExists, Full, TargetsOf, Unfinished
<1>2. ASSUME NEW r \in BkRequests, ControlReplay(r) \/ ControlResume(r) PROVE BkInv'
      BY <1>2, ControlReplayPreserves, ControlResumePreserves, ZenonT(30)
<1>3. ASSUME NEW r \in BkRequests, NEW a \in BkActions, NEW bs \in SUBSET BkBundles \ {{}}, NEW o \in Outcomes,
             ControlBegin(r, a, bs, o)
      PROVE  BkInv'
      BY <1>3, ControlBeginPreserves, ZenonT(30)
<1>4. ASSUME NEW o \in Outcomes, \/ ControlMark(o) \/ ControlPrepare(o) \/ ControlSend(o) \/ ControlSent(o)
                                 \/ ControlCommit(o) \/ ControlShow(o)
      PROVE  BkInv'
      BY <1>4, ControlMarkPreserves, ControlPreparePreserves, ControlSendPreserves, ControlSentPreserves,
         ControlCommitPreserves, ControlShowPreserves, ZenonT(30)
<1>5. ASSUME NEW b \in BkBundles, ApplyBegin(b) \/ CleanupBegin(b) PROVE BkInv'
      BY <1>5, ApplyBeginPreserves, CleanupBeginPreserves, ZenonT(30)
<1>6. ASSUME NEW kind \in ObjectKinds, ApplyCreate(kind) \/ ApplyDelete(kind) \/ CleanupDelete(kind) PROVE BkInv'
      BY <1>6, ApplyCreatePreserves, ApplyDeletePreserves, CleanupDeletePreserves, ZenonT(30)
<1>7. ASSUME NEW b \in BkBundles, NEW kind \in ObjectKinds, ApplyRepair(b, kind) PROVE BkInv'
      BY <1>7, ApplyRepairPreserves, ZenonT(30)
<1>8. CASE ApplyCreated \/ ApplyMarker \/ CleanupMarker \/ CallFails
      BY <1>8, ApplyCreatedPreserves, ApplyMarkerPreserves, CleanupMarkerPreserves, CallFailsPreserves, ZenonT(30)
<1>9. ASSUME NEW b \in BkBundles, NEW g \in Gens, NEW st \in {"suspended", "active", "over"}, ClusterMoves(b, g, st)
      PROVE  BkInv'
      BY <1>9, ClusterMovesPreserves, ZenonT(30)
<1>10. CASE BackendCrash \/ RestoreControlMetadata
      BY <1>10, BackendCrashPreserves, RestorePreserves, ZenonT(30)
<1> QED BY <1>1, <1>2, <1>3, <1>4, <1>5, <1>6, <1>7, <1>8, <1>9, <1>10, ZenonT(30) DEF BkNext

(* The backend's variables keep their types: a marker without a generation has *)
(* no metadata, and records, Jobs and the operation in progress are well formed *)
(* through every write, fault and restart (KubernetesBackend).                  *)
THEOREM BackendTypeCorrect == BkSpec => []BkTypeOK
<1>1. BkInit => BkInv
      BY BackendInit, ZenonT(30)
<1>2. BkInv /\ [BkNext]_bkVars => BkInv'
      BY BackendStep, ZenonT(30)
<1>3. BkInv => BkTypeOK
      BY ZenonT(30) DEF BkInv
<1> QED BY <1>1, <1>2, <1>3, PTL DEF BkSpec

(* Metadata shown as committed is accepted in the ledger file, under its       *)
(* revision and with no mutation left, whatever writes fail, late or not, and  *)
(* wherever the Operator restarts (Control, repairReplayedControlMetadataLocked, *)
(* RestoreControlMetadata).                                                     *)
THEOREM CommittedMetadataIsDurable == BkSpec => []CommittedIsDurable
<1>1. BkInit => BkInv
      BY BackendInit, ZenonT(30)
<1>2. BkInv /\ [BkNext]_bkVars => BkInv'
      BY BackendStep, ZenonT(30)
<1>3. BkInv => CommittedIsDurable
  <2> SUFFICES ASSUME BkInv, NEW b \in BkBundles, bkMarker[b].meta.committed
               PROVE  /\ bkDisk[bkMarker[b].meta.req].st = "accepted"
                      /\ bkDisk[bkMarker[b].meta.req].rev = bkMarker[b].meta.rev
                      /\ Unfinished(bkDisk[bkMarker[b].meta.req]) = {}
      BY ZenonT(30) DEF CommittedIsDurable
  <2>1. /\ bkMarker[b].meta.req \in BkRequests /\ bkMem[bkMarker[b].meta.req].st = "accepted"
        /\ bkMem[bkMarker[b].meta.req].rev = bkMarker[b].meta.rev
        BY ZenonT(30) DEF BkInv, MetaInv, Backed
  <2> QED BY <2>1, ZenonT(30) DEF BkInv, LedgerInv, Finished
<1> QED BY <1>1, <1>2, <1>3, PTL DEF BkSpec

(* However an Apply, a Cleanup or a control fails or crashes, a committed     *)
(* generation whose Job still runs loses its Workload only when its successor *)
(* is complete (Apply, cleanupOrphansLocked, Cleanup, ControlJob).            *)
THEOREM ReplacementAlwaysReady == BkSpec => []ReplacementIsReady
<1>1. BkInit => BkInv
      BY BackendInit, ZenonT(30)
<1>2. BkInv /\ [BkNext]_bkVars => BkInv'
      BY BackendStep, ZenonT(30)
<1>3. BkInv => ReplacementIsReady
  <2> SUFFICES ASSUME BkInv, NEW b \in BkBundles,
                      bkMarker[b].gen # 0, JobExists(b, bkMarker[b].gen), bkJob[b][bkMarker[b].gen].st # "over",
                      <<bkMarker[b].gen, "workload">> \notin bkParts[b]
               PROVE  OfGen(b, bkMarker[b].gen + 1) = {bkMarker[b].gen + 1} \X ObjectKinds
      BY ZenonT(30) DEF ReplacementIsReady
  <2>1. Full(b, bkMarker[b].gen + 1)
        BY ZenonT(30) DEF BkInv, ReadyInv
  <2>2. bkMarker[b].gen + 1 \in Gens
        BY <2>1, SMTT(30) DEF Full, BkInv, BkTypeOK
  <2> QED BY <2>1, <2>2, FullIsAll, ZenonT(30) DEF BkInv
<1> QED BY <1>1, <1>2, <1>3, PTL DEF BkSpec

(* Metadata that gives way to other metadata is not newer and committed. *)
LEMMA NewerIsKept ==
  ASSUME NEW old \in Metas, NEW new \in Metas, old.committed, ~KeepsExisting(old, new)
  PROVE  new.rev >= old.rev
<1>1. old.rev \in Nat /\ new.rev \in Nat
      BY ZenonT(30) DEF Metas
<1>2. ASSUME old.rev > new.rev PROVE FALSE
      BY <1>1, <1>2, SMTT(30) DEF KeepsExisting
<1> QED BY <1>1, <1>2, SMTT(30)

LEMMA WriteMovesForward ==
  ASSUME BkInv, NEW bs, NEW new \in Metas, WriteControlMetadata(bs, new), NEW b \in BkBundles,
         bkMarker[b].meta.committed
  PROVE  bkMarker'[b].meta.rev >= bkMarker[b].meta.rev
<1>1. bkMarker[b].meta \in Metas /\ bkMarker[b].meta.rev \in Nat
      BY ZenonT(30) DEF BkInv, BkTypeOK, Markers, Metas
<1>2. [bkMarker[b] EXCEPT !.meta = new].meta = new
      BY Remarked, ZenonT(30) DEF BkInv
<1>3. CASE b \notin bs \/ KeepsExisting(bkMarker[b].meta, new)
  <2>1. bkMarker'[b] = bkMarker[b]
        BY <1>3, ZenonT(30) DEF WriteControlMetadata
  <2> QED BY <1>1, <2>1, SMTT(30)
<1>4. CASE b \in bs /\ ~KeepsExisting(bkMarker[b].meta, new)
  <2>1. bkMarker'[b] = [bkMarker[b] EXCEPT !.meta = new]
        BY <1>4, ZenonT(30) DEF WriteControlMetadata
  <2> QED BY <1>1, <1>2, <1>4, <2>1, NewerIsKept, ZenonT(30)
<1> QED BY <1>3, <1>4, ZenonT(30)

(* While a generation lasts, no retry, resume, replay or restart replaces a   *)
(* committed control of its marker by one of an older revision                *)
(* (shouldKeepExistingControlMetadata).                                       *)
THEOREM MetadataNeverRegresses == BkSpec => MetadataMovesForward
<1> DEFINE Forward == \A b \in BkBundles :
                        bkMarker[b].meta.committed /\ bkMarker'[b].gen = bkMarker[b].gen =>
                          bkMarker'[b].meta.rev >= bkMarker[b].meta.rev
<1>1. BkInit => BkInv
      BY BackendInit, ZenonT(30)
<1>2. BkInv /\ [BkNext]_bkVars => BkInv'
      BY BackendStep, ZenonT(30)
<1>3. BkInv /\ [BkNext]_bkVars => [Forward]_bkVars
  <2> SUFFICES ASSUME BkInv, BkNext, NEW b \in BkBundles,
                      bkMarker[b].meta.committed, bkMarker'[b].gen = bkMarker[b].gen
               PROVE  bkMarker'[b].meta.rev >= bkMarker[b].meta.rev
      BY ZenonT(30)
  <2>0. bkMarker[b].meta.rev \in Nat /\ bkMarker[b].gen \in Nat /\ bkMarker \in [BkBundles -> Markers]
        BY SMTT(30) DEF BkInv, BkTypeOK, Markers, Metas
  <2>1. CASE bkMarker'[b] = bkMarker[b]
        BY <2>0, <2>1, SMTT(30)
  <2>2. ASSUME NEW r \in BkRequests, ControlReplay(r) PROVE bkMarker'[b].meta.rev >= bkMarker[b].meta.rev
    <3>1. MetadataForControl(bkMem, r, TRUE) \in Metas
          BY <2>2, MetadataFacts, ZenonT(30) DEF ControlReplay
    <3>2. PICK bs \in SUBSET BkBundles : WriteControlMetadata(bs, MetadataForControl(bkMem, r, TRUE))
          BY <2>2, ZenonT(30) DEF ControlReplay, TargetsOf
    <3> QED BY <3>1, <3>2, WriteMovesForward, ZenonT(30)
  <2>3. ASSUME NEW o \in Outcomes, ControlMark(o), ~UNCHANGED bkMarker
        PROVE  bkMarker'[b].meta.rev >= bkMarker[b].meta.rev
    <3>1. bkOp.req \in BkRequests
          BY <2>3, ZenonT(30) DEF ControlMark, BkInv, ControlInv, ControlSteps
    <3>2. MetadataForControl(bkMem, bkOp.req, FALSE) \in Metas
          BY <3>1, MetadataFacts, ZenonT(30)
    <3>3. WriteControlMetadata(TargetsOf(bkMem[bkOp.req]), MetadataForControl(bkMem, bkOp.req, FALSE))
          BY <2>3, Zenon DEF ControlMark
    <3> QED BY <3>2, <3>3, WriteMovesForward, ZenonT(30)
  <2>4. ASSUME NEW o \in Outcomes, ControlShow(o), ~UNCHANGED bkMarker
        PROVE  bkMarker'[b].meta.rev >= bkMarker[b].meta.rev
    <3>1. bkOp.req \in BkRequests /\ bkMem[bkOp.req].st = "accepted"
          BY <2>4, ZenonT(30) DEF ControlShow, BkInv, ControlInv, ControlSteps
    <3>2. MetadataForControl(bkMem, bkOp.req, TRUE) \in Metas
          BY <3>1, MetadataFacts, ZenonT(30)
    <3>3. WriteControlMetadata(TargetsOf(bkMem[bkOp.req]), MetadataForControl(bkMem, bkOp.req, TRUE))
          BY <2>4, Zenon DEF ControlShow
    <3> QED BY <3>2, <3>3, WriteMovesForward, ZenonT(30)
  <2>5. CASE ApplyMarker
    <3>1. bkOp.bundle \in BkBundles /\ bkOp.gen = bkMarker[bkOp.bundle].gen + 1
          BY <2>5, ZenonT(30) DEF ApplyMarker, BkInv, ApplyInv
    <3>2. bkMarker'[bkOp.bundle].gen = bkOp.gen /\ (b # bkOp.bundle => bkMarker'[b] = bkMarker[b])
          BY <2>0, <2>5, <3>1, ZenonT(30) DEF ApplyMarker
    <3>3. ASSUME b = bkOp.bundle PROVE FALSE
      <4>1. bkMarker'[b].gen = bkMarker[b].gen + 1
            BY <3>1, <3>2, <3>3, ZenonT(30)
      <4> QED BY <2>0, <4>1, SMTT(30)
    <3> QED BY <2>1, <3>2, <3>3, ZenonT(30)
  <2>6. CASE CleanupMarker
    <3>1. bkOp.bundle \in BkBundles /\ bkOp.gen \in Gens /\ bkOp.gen = bkMarker[bkOp.bundle].gen
          BY <2>6, ZenonT(30) DEF CleanupMarker, BkInv, ApplyInv
    <3>2. bkMarker'[bkOp.bundle] = NoMarker /\ (b # bkOp.bundle => bkMarker'[b] = bkMarker[b])
          BY <2>0, <2>6, <3>1, ZenonT(30) DEF CleanupMarker
    <3> QED BY <2>0, <3>1, <3>2, Blanks, SMTT(30) DEF Gens
  <2>7. CASE RestoreControlMetadata
    <3>1. PICK pick \in [BkBundles -> BkRequests] :
            /\ \A c \in BkBundles : AcceptedFor(bkMem, c) # {} => IsLatest(bkMem, pick[c], c)
            /\ bkMarker' = [c \in BkBundles |->
                 LET new == MetadataForControl(bkMem, pick[c], TRUE)
                 IN IF bkMarker[c] = NoMarker \/ AcceptedFor(bkMem, c) = {} \/ KeepsExisting(bkMarker[c].meta, new)
                    THEN bkMarker[c] ELSE [bkMarker[c] EXCEPT !.meta = new]]
          BY <2>7, Zenon DEF RestoreControlMetadata
    <3> DEFINE new == MetadataForControl(bkMem, pick[b], TRUE)
    <3>3. CASE bkMarker'[b] # bkMarker[b]
      <4>1. /\ AcceptedFor(bkMem, b) # {} /\ ~KeepsExisting(bkMarker[b].meta, new)
            /\ bkMarker'[b] = [bkMarker[b] EXCEPT !.meta = new]
            BY <3>1, <3>3, ZenonT(30)
      <4>2. pick[b] \in BkRequests /\ bkMem[pick[b]].st = "accepted"
            BY <3>1, <4>1, ZenonT(30) DEF IsLatest, AcceptedFor
      <4>3. new \in Metas
            BY <4>2, MetadataFacts, ZenonT(30)
      <4> HIDE DEF new
      <4>4. bkMarker'[b].meta = new
            BY <4>1, <4>3, Remarked, ZenonT(30) DEF BkInv
      <4>5. bkMarker[b].meta \in Metas
            BY <2>0, ZenonT(30) DEF Markers
      <4> QED BY <4>1, <4>3, <4>4, <4>5, NewerIsKept, ZenonT(30)
    <3> QED BY <2>1, <3>3, Zenon
  <2> QED BY <2>1, <2>2, <2>3, <2>4, <2>5, <2>6, <2>7, ZenonT(30) DEF BkNext, ControlResume, ControlBegin, ControlPrepare, ControlSend,
             ControlSent, ControlCommit, ApplyBegin, CleanupBegin, ApplyCreate, ApplyDelete, CleanupDelete, ApplyRepair,
             ApplyCreated, CallFails, ClusterMoves, BackendCrash, bkCluster
<1> QED BY <1>1, <1>2, <1>3, PTL DEF BkSpec, MetadataMovesForward
=============================================================================

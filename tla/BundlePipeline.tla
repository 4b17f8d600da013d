--------------------------- MODULE BundlePipeline ---------------------------
(***************************************************************************)
(* From a scheduler binding to an observed state (operator-go/compiler,    *)
(* kube discovery, bundleadapter observation, statuswatch projection): the *)
(* compiler picks a GPU profile that can enforce the bound devices, the    *)
(* bundle asks the cluster for exactly them, and a poll of several objects *)
(* at several moments decides which state the binding is reported in.      *)
(*                                                                         *)
(* Accelerator units are counted in thousandths.  Object naming, labels,   *)
(* environment, images and the other manifest checks are left out.         *)
(***************************************************************************)
EXTENDS Integers, Sequences, FiniteSets, Functions

CONSTANTS GpuDevices, MigDevices,   \* devices published through DRA
          HamiDevices,              \* devices registered by HAMi
          BpUnits,                  \* accelerator units a binding may ask for
          MaxPreferred, MaxIds,     \* bounds: preferred profiles, device ids
          MaxBpMoves                \* bound: moves of the cluster

ASSUME BpAssumption == BpUnits \subseteq Nat

VARIABLES bpInput,    \* the binding: device ids and accelerator units; bootstrap or not
          bpBundle,   \* the compiled bundle
          bpCluster,  \* admission, Job, Pod and allocation
          bpSlices,   \* ResourceSlices: device name -> uuid, per pool generation
          bpPoll,     \* the poll in progress: what it has read so far
          bpShown,    \* the last projected state and devices
          bpMoves
bpVars == <<bpInput, bpBundle, bpCluster, bpSlices, bpPoll, bpShown, bpMoves>>

Profiles == {"none", "dra", "hami", "plugin"}
DraDevices == GpuDevices \cup MigDevices
AllDevices == DraDevices \cup HamiDevices
NotCompiled == [st |-> "none"]
Refused == [st |-> "refused"]
NoPoll == [at |-> "idle"]
NotShown == [state |-> "unknown", devices |-> {}]

BpInputs ==
  [ids : UNION {[1..n -> AllDevices] : n \in 0..MaxIds}, units : BpUnits, bootstrap : BOOLEAN]
(* Pools publish devices under names; an older generation may linger. *)
Names == 1..Cardinality(DraDevices)
BpInit ==
  /\ bpInput \in BpInputs /\ bpBundle = NotCompiled
  /\ bpCluster = [admitted |-> FALSE, job |-> "suspended", ready |-> FALSE, alloc |-> {}, share |-> 0]
  /\ bpSlices = <<CHOOSE f \in Bijection(Names, DraDevices) : TRUE>>
  /\ bpPoll = NoPoll /\ bpShown = NotShown /\ bpMoves = 0

-----------------------------------------------------------------------------
(* Discovery and profile selection *)

(* discoverCapabilitiesByProbe: of the discovered profiles, DRA and HAMi      *)
(* enforce device identities; the device plugin cannot.                       *)
ExactPlacement(found) == found \cap {"dra", "hami"}
WholeUnits(units) == units % 1000 = 0

(* profileSupportsRequest *)
Supports(profile, in, found) ==
  LET ids == Range(in.ids)
  IN CASE profile = "none" -> in.ids = <<>> /\ in.units = 0
       [] profile = "dra" -> /\ profile \in ExactPlacement(found) /\ in.ids # <<>>
                             /\ in.units > 0 /\ WholeUnits(in.units) /\ ids \subseteq DraDevices
       [] profile = "hami" -> /\ profile \in ExactPlacement(found) /\ Len(in.ids) = 1
                              /\ in.units > 0 /\ in.units <= 1000 /\ ids \subseteq HamiDevices
       [] OTHER -> in.units > 0 /\ (in.ids # <<>> => profile \in ExactPlacement(found))

(* selectCapabilityProfile: the first preferred profile that is discovered    *)
(* and supports the request.                                                  *)
SelectProfile(prefer, in, found) ==
  LET fits == {i \in 1..Len(prefer) : prefer[i] \in found /\ Supports(prefer[i], in, found)}
  IN IF fits = {} THEN "none" ELSE prefer[CHOOSE i \in fits : \A j \in fits : i <= j]

(* selectedDRADevices: one device class per bundle *)
DraClass(ids) == IF ids \subseteq GpuDevices THEN "gpu" ELSE IF ids \subseteq MigDevices THEN "mig" ELSE "mixed"
Distinct(ids) == Cardinality(Range(ids)) = Len(ids)

(* formatHAMIPercentage, and the expected core percentage of buildAnnotations *)
HamiPercent(units) == (units + 9) \div 10

(* normalize, selectedDRADevices, buildBundle and validateBundle *)
CompileRefuses(in, profile, found) ==
  \/ profile = "none" /\ in.units > 0
  \/ profile # "none" /\ profile \notin ExactPlacement(found)
  \/ profile # "none" /\ in.units = 0
  \/ profile = "dra" /\ (~Distinct(in.ids) \/ Len(in.ids) * 1000 # in.units \/ DraClass(Range(in.ids)) = "mixed")
  \/ profile = "hami" /\ ~Distinct(in.ids)
CompileBinding(prefer, in, found) ==
  LET profile == SelectProfile(prefer, in, found)
  IN IF CompileRefuses(in, profile, found) THEN Refused
     ELSE [st |-> "compiled", profile |-> profile, targets |-> Range(in.ids),
           class |-> IF profile = "dra" THEN DraClass(Range(in.ids)) ELSE "none",
           percent |-> IF profile = "hami" THEN HamiPercent(in.units) ELSE 0,
           bootstrap |-> in.bootstrap]
Compile(prefer, found) ==
  /\ bpBundle = NotCompiled /\ bpBundle' = CompileBinding(prefer, bpInput, found \cup {"none", "plugin"})
  /\ UNCHANGED <<bpInput, bpCluster, bpSlices, bpPoll, bpShown, bpMoves>>

-----------------------------------------------------------------------------
(* The cluster (external): Kueue, the DRA and HAMi schedulers, the Job       *)
(* controller.  HAMi may place a Pod that ignored its annotations; a driver  *)
(* may republish its pool with other device names.                           *)
LatestPool == bpSlices[Len(bpSlices)]
ClusterStep ==
  LET c == bpCluster
      b == bpBundle
      set(new) == bpCluster' = new /\ UNCHANGED bpSlices
  IN /\ b.st = "compiled" /\ bpMoves < MaxBpMoves /\ bpMoves' = bpMoves + 1
     /\ \/ c.job # "over" /\ set([c EXCEPT !.admitted = ~c.admitted])
        \/ /\ c.admitted /\ c.alloc = {} /\ b.profile = "dra"
           /\ set([c EXCEPT !.alloc = {n \in Names : LatestPool[n] \in b.targets}])
        \/ /\ c.admitted /\ c.alloc = {} /\ b.profile = "hami"
           /\ \E d \in HamiDevices, share \in {b.percent, 100} : set([c EXCEPT !.alloc = {d}, !.share = share])
        \/ c.admitted /\ c.job = "suspended" /\ (b.profile # "none" => c.alloc # {}) /\ set([c EXCEPT !.job = "active"])
        \/ c.job = "active" /\ ~c.ready /\ set([c EXCEPT !.ready = TRUE])
        \/ c.job = "active" /\ set([c EXCEPT !.job = "over"])
        \/ /\ Len(bpSlices) = 1 /\ UNCHANGED bpCluster
           /\ \E f \in Bijection(Names, DraDevices) : bpSlices' = bpSlices \o <<f>>
     /\ UNCHANGED <<bpInput, bpBundle, bpPoll, bpShown>>

-----------------------------------------------------------------------------
(* observeOnce: the Workload, the Job, the Pods, the claim and the slices are *)
(* read one after the other.                                                  *)
PollWorkload ==
  /\ bpBundle.st = "compiled" /\ bpPoll = NoPoll
  /\ bpPoll' = [at |-> "job", admitted |-> bpCluster.admitted]
  /\ UNCHANGED <<bpInput, bpBundle, bpCluster, bpSlices, bpShown, bpMoves>>
PollJob ==
  /\ bpPoll.at = "job"
  /\ bpPoll' = [at |-> "pods", admitted |-> bpPoll.admitted, job |-> bpCluster.job]
  /\ UNCHANGED <<bpInput, bpBundle, bpCluster, bpSlices, bpShown, bpMoves>>
(* The Pod list carries readiness, the HAMi annotation and the claim name. *)
PollPods ==
  /\ bpPoll.at = "pods"
  /\ bpPoll' = [at |-> "claim", admitted |-> bpPoll.admitted, job |-> bpPoll.job,
                ready |-> bpPoll.job = "active" /\ bpBundle.bootstrap /\ bpCluster.ready,
                alloc |-> bpCluster.alloc, share |-> bpCluster.share]
  /\ UNCHANGED <<bpInput, bpBundle, bpCluster, bpSlices, bpShown, bpMoves>>

(* draDeviceUUIDIndex and ResolveDRAAllocationDevices: names resolved in the  *)
(* pool's latest generation.                                                  *)
ResolveDRA(names) == {LatestPool[n] : n \in names}

(* Nothing allocated yet, the devices of the binding, or an error that ends   *)
(* the poll.                                                                  *)
ObserveDRA(b, poll) ==
  LET got == ResolveDRA(poll.alloc)
  IN [ok |-> got = b.targets /\ DraClass(got) = b.class, claimed |-> TRUE, devices |-> got]
ObserveHAMI(b, poll) ==
  [ok |-> poll.alloc = b.targets /\ poll.share = b.percent, claimed |-> TRUE, devices |-> poll.alloc]
ObserveAllocation(b, poll) ==
  CASE b.profile = "none" -> [ok |-> TRUE, claimed |-> TRUE, devices |-> {}]
    [] b.profile # "none" /\ poll.alloc = {} -> [ok |-> TRUE, claimed |-> FALSE, devices |-> {}]
    [] b.profile = "dra" /\ poll.alloc # {} -> ObserveDRA(b, poll)
    [] b.profile = "hami" /\ poll.alloc # {} -> ObserveHAMI(b, poll)

(* Project: terminal states first, then admission, allocation and activity   *)
(* (a committed PAUSE, which shows as PAUSED, is in OperatorBackend).         *)
ProjectState(b, poll, claimed) ==
  LET bound == poll.admitted /\ claimed
  IN IF poll.job = "over" THEN "terminated"
     ELSE IF ~bound THEN "unknown"
     ELSE IF poll.job = "active" /\ (b.bootstrap => poll.ready) THEN "running" ELSE "bound"
(* Mutant: the allocation is trusted whatever devices it names. *)
PollAllocationUnchecked ==
  LET seen == ObserveAllocation(bpBundle, bpPoll)
  IN /\ bpPoll.at = "claim" /\ bpPoll' = NoPoll
     /\ bpShown' = [state |-> ProjectState(bpBundle, bpPoll, seen.claimed), devices |-> seen.devices]
     /\ UNCHANGED <<bpInput, bpBundle, bpCluster, bpSlices, bpMoves>>
PollAllocation ==
  LET seen == ObserveAllocation(bpBundle, bpPoll)
  IN /\ bpPoll.at = "claim" /\ bpPoll' = NoPoll
     /\ bpShown' = IF seen.ok THEN [state |-> ProjectState(bpBundle, bpPoll, seen.claimed), devices |-> seen.devices]
                   ELSE bpShown
     /\ UNCHANGED <<bpInput, bpBundle, bpCluster, bpSlices, bpMoves>>

BpNext ==
  \/ \E n \in 0..MaxPreferred, found \in SUBSET {"dra", "hami"} : \E prefer \in [1..n -> Profiles] : Compile(prefer, found)
  \/ ClusterStep \/ PollWorkload \/ PollJob \/ PollPods \/ PollAllocation
BpSpec == BpInit /\ [][BpNext]_bpVars

-----------------------------------------------------------------------------
(* A binding is reported bound or running only on exactly the devices that    *)
(* the scheduler bound and for the share it bound, through whichever profile  *)
(* was selected and whatever the cluster's schedulers did                     *)
(* (selectCapabilityProfile, observeDRAAllocation, observeHAMIAllocation).    *)
RunsWhereBound ==
  bpShown.state \in {"bound", "running"} =>
    /\ bpBundle.profile # "none" => bpShown.devices = Range(bpInput.ids)
    /\ bpBundle.profile = "hami" => bpCluster.share >= HamiPercent(bpInput.units) /\ bpInput.units <= 1000
    /\ bpBundle.profile = "dra" => 1000 * Cardinality(bpShown.devices) = bpInput.units
    /\ bpInput.units = 0 <=> bpBundle.profile = "none"
=============================================================================

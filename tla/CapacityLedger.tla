--------------------------- MODULE CapacityLedger ---------------------------
(***************************************************************************)
(* The Store's capacity accounting (scheduler-go/state: reservation.go,    *)
(* mutation_reservation.go, preemption_reservation.go, intent.go): what a  *)
(* plan takes from a device's allocatable vector when it is reserved, and  *)
(* what its finalization, an intent publication, a terminal sandbox or a   *)
(* provider snapshot gives back, in every order planMu allows.             *)
(*                                                                         *)
(* planMu is free while the provider executes a plan; the gate of the      *)
(* plan's own execution and stage is not.  A run stands for its execution, *)
(* stage and run id.  A plan name is free again once its reservation is    *)
(* finalized: a finalized one is only compared with its own replay.        *)
(***************************************************************************)
EXTENDS Integers, FiniteSets, FiniteSetsExt

CONSTANTS ClDevices, ClRuns, ClPlans,
          Dims,          \* dimensions of a ResourceVector
          ClCapacity,    \* the capacity of every device
          ClSizes,       \* resources_per_unit an intent may ask for, or a resize set
          ClUnits,       \* unit_count of every intent
          MaxClVersion,  \* bound: versions of an intent
          MaxClAllocs,   \* bound: allocations ever made
          MaxRefreshes   \* bound: provider events about a device

VARIABLES clFree,      \* Device.allocatable, per device
          clReady,     \* devices in health READY
          clAlloc,     \* the snapshot's allocations
          clPending,   \* the snapshot's pending units
          clIntent,    \* per run, the version of the accepted intent; 0: none
          clHeld,      \* per plan, its planReservation
          clNext,      \* the next allocation id
          clRefreshes,
          clExact      \* history: devices whose ledger nothing overwrote
clVars == <<clFree, clReady, clAlloc, clPending, clIntent, clHeld, clNext, clRefreshes, clExact>>

(* positiveResourceDelta, resourcesFit, addResources, subtractResources, addResourcesCapped *)
ZeroResources == [i \in Dims |-> 0]
positiveResourceDelta(u, v) == [i \in Dims |-> IF u[i] <= v[i] THEN 0 ELSE u[i] - v[i]]
resourcesFit(u, v) == \A i \in Dims : u[i] <= v[i]
addResources(u, v) == [i \in Dims |-> u[i] + v[i]]
subtractResources(u, v) == [i \in Dims |-> u[i] - v[i]]
addResourcesCapped(u, v) == [i \in Dims |-> Min({ClCapacity[i], u[i] + v[i]})]
Held(as) == [i \in Dims |-> MapThenSumSet(LAMBDA a : a.res[i], as)]

NoReservation == [kind |-> "none", run |-> "none", dev |-> "none", res |-> ZeroResources,
                  before |-> {}, made |-> {}, units |-> {}]

On(as, d) == {a \in as : a.dev = d}
AllocationIds(as) == {a.id : a \in as}
Named(as, ids) == {a \in as : a.id \in ids}
Live(as, r) == {a \in as : a.run = r /\ a.st \in {"pending", "active"}}
Put(as, ids, st) == {IF a.id \in ids THEN [a EXCEPT !.st = st] ELSE a : a \in as}
GiveBack(free, as) == [d \in ClDevices |-> addResourcesCapped(free[d], Held(On(as, d)))]

ClInit ==
  /\ clFree = [d \in ClDevices |-> ClCapacity]
  /\ clReady = ClDevices
  /\ clAlloc = {} /\ clPending = {}
  /\ clIntent = [r \in ClRuns |-> 0]
  /\ clHeld = [p \in ClPlans |-> NoReservation]
  /\ clNext = 1 /\ clRefreshes = 0
  /\ clExact = ClDevices

-----------------------------------------------------------------------------
(* reservation.allocationIDs, and ensureMutationTargetsUnlocked *)
allocationIDs(h) == AllocationIds(h.before) \cup h.made
Locked == UNION {allocationIDs(clHeld[p]) : p \in ClPlans}
Unreserved(r) == \A p \in ClPlans : clHeld[p].kind # "none" => clHeld[p].run # r
Reservable(p, r) == clHeld[p].kind = "none" /\ Unreserved(r) /\ clIntent[r] > 0

(* buildDeviceStates: the evaluator counts what pending and active allocations *)
(* use, and the victims a preemption would reclaim it does not.               *)
Chosen(d, res, reclaimed) ==
  LET used == Held({a \in On(clAlloc, d) : a.st \in {"pending", "active"} /\ a.id \notin reclaimed})
  IN d \in clReady /\ resourcesFit(addResources(used, res), ClCapacity)

NewAllocation(id, d, res, r, ver, unit) ==
  [id |-> id, dev |-> d, res |-> res, st |-> "pending", run |-> r, ver |-> ver, unit |-> unit]

(* reservePlanLocked, an admission: its bindings give pending units of the    *)
(* intent's version a device each.                                            *)
ReserveAdmission(p, r, units, place) ==
  LET number == CHOOSE f \in [units -> 0..(Cardinality(units) - 1)] : \A u, v \in units : u # v => f[u] # f[v]
      made == {NewAllocation(clNext + number[u], place[u], u.res, r, u.ver, u.unit) : u \in units}
  IN /\ Reservable(p, r) /\ units # {} /\ clNext + Cardinality(units) <= MaxClAllocs + 1
     /\ \A u \in units : u.run = r /\ u.ver = clIntent[r]
     /\ \A d \in ClDevices : On(made, d) # {} => /\ Chosen(d, Held(On(made, d)), {})
                                                 /\ resourcesFit(Held(On(made, d)), clFree[d])
     /\ clFree' = [d \in ClDevices |-> subtractResources(clFree[d], Held(On(made, d)))]
     /\ clAlloc' = clAlloc \cup made
     /\ clPending' = clPending \ units
     /\ clNext' = clNext + Cardinality(units)
     /\ clHeld' = [clHeld EXCEPT ![p] = [NoReservation EXCEPT !.kind = "admission", !.run = r,
                                                              !.made = AllocationIds(made), !.units = units]]
     /\ UNCHANGED <<clReady, clIntent, clRefreshes, clExact>>

(* affectedAllocationsByID and the checks of the single-action reservations *)
Target(p, r, a) == Reservable(p, r) /\ a.run = r /\ a.st = "active" /\ a.id \notin Locked
Reservation(kind, r, before) == [NoReservation EXCEPT !.kind = kind, !.run = r, !.before = before]

(* reserveReleaseAction: the capacity stays taken until the release is final *)
ReserveRelease(p, r, a) ==
  /\ Target(p, r, a)
  /\ clAlloc' = Put(clAlloc, {a.id}, "releasing")
  /\ clHeld' = [clHeld EXCEPT ![p] = Reservation("release", r, {a})]
  /\ UNCHANGED <<clFree, clReady, clPending, clIntent, clNext, clRefreshes, clExact>>

(* reserveLifecycleOnlyAction, reserveLifecyclePlanLocked: only the locks *)
ReserveLifecycle(p, r, as) ==
  /\ as # {} /\ \A a \in as : Target(p, r, a)
  /\ clHeld' = [clHeld EXCEPT ![p] = Reservation("lifecycle", r, as)]
  /\ UNCHANGED <<clFree, clReady, clAlloc, clPending, clIntent, clNext, clRefreshes, clExact>>

(* reserveResizeAction: a dimension that shrinks is returned at once *)
ReserveResize(p, r, a, res) ==
  LET consumed == positiveResourceDelta(res, a.res)
      returned == positiveResourceDelta(a.res, res)
      resized == [a EXCEPT !.res = res, !.ver = clIntent[r]]
  IN /\ Target(p, r, a) /\ res # a.res
     /\ resourcesFit(consumed, clFree[a.dev])
     /\ clFree' = [clFree EXCEPT ![a.dev] = addResourcesCapped(subtractResources(@, consumed), returned)]
     /\ clAlloc' = (clAlloc \ {a}) \cup {resized}
     /\ clHeld' = [clHeld EXCEPT ![p] = [Reservation("resize", r, {a}) EXCEPT !.res = res]]
     /\ UNCHANGED <<clReady, clPending, clIntent, clNext, clRefreshes, clExact>>

(* reserveReplacementAction: a rebind takes the target device's capacity beside *)
(* the source's, a recreate takes none.                                        *)
ReserveReplacement(p, r, a, kind, d) ==
  LET made == NewAllocation(clNext, d, a.res, r, clIntent[r], a.unit)
  IN /\ Target(p, r, a) /\ clNext <= MaxClAllocs
     /\ IF kind = "recreate" THEN d = a.dev /\ UNCHANGED clFree
        ELSE /\ d # a.dev /\ Chosen(d, a.res, {}) /\ resourcesFit(a.res, clFree[d])
             /\ clFree' = [clFree EXCEPT ![d] = subtractResources(@, a.res)]
     /\ clAlloc' = clAlloc \cup {made}
     /\ clNext' = clNext + 1
     /\ clHeld' = [clHeld EXCEPT ![p] = [Reservation(kind, r, {a}) EXCEPT !.dev = d, !.res = a.res,
                                                                         !.made = {made.id}]]
     /\ UNCHANGED <<clReady, clPending, clIntent, clRefreshes, clExact>>

(* preemptionPlanParts: one replacement of a pending unit, and its victims *)
Preempts(r, u, victims) ==
  /\ victims # {} /\ \A a \in victims : a.run # r /\ a.st = "active" /\ a.id \notin Locked
  /\ u.run = r /\ u.ver = clIntent[r]

(* reservePreemptionReplacement: only what the victims on the target device do *)
(* not cover is taken from it.                                                *)
ReservePreemption(p, r, u, d, victims) ==
  LET extra == positiveResourceDelta(u.res, Held(On(victims, d)))
      made == NewAllocation(clNext, d, u.res, r, u.ver, u.unit)
  IN /\ Reservable(p, r) /\ Preempts(r, u, victims) /\ clNext <= MaxClAllocs
     /\ Chosen(d, u.res, AllocationIds(victims)) /\ resourcesFit(extra, clFree[d])
     /\ clFree' = [clFree EXCEPT ![d] = subtractResources(@, extra)]
     /\ clAlloc' = Put(clAlloc, AllocationIds(victims), "releasing") \cup {made}
     /\ clPending' = clPending \ {u}
     /\ clNext' = clNext + 1
     /\ clHeld' = [clHeld EXCEPT ![p] = [Reservation("preemption", r, victims) EXCEPT
                                          !.dev = d, !.res = u.res, !.made = {made.id}, !.units = {u}]]
     /\ UNCHANGED <<clReady, clIntent, clRefreshes, clExact>>

-----------------------------------------------------------------------------
(* restorePendingUnitsFromReservation *)
Restored(units) == clPending \cup units

(* retainedAllocations: what may have an effect, and of that what is degraded *)
Evidence(made) == {e \in [retained : SUBSET made, degraded : SUBSET made] : e.degraded \subseteq e.retained}

(* finalizePlanResultsLocked, an admission: the retained allocations stay, the *)
(* degraded as FAILED, and the rest goes back.                                *)
FinalizeAdmission(p, succeeded, retained, degraded) ==
  LET h == clHeld[p]
      dropped == Named(clAlloc, h.made \ retained)
      kept == {a.unit : a \in Named(clAlloc, retained)}
  IN /\ h.kind = "admission"
     /\ succeeded => retained = h.made /\ degraded = {}
     /\ clFree' = GiveBack(clFree, dropped)
     /\ clAlloc' = Put(Put(clAlloc \ dropped, retained, "active"), degraded, "failed")
     /\ clPending' = IF succeeded THEN clPending ELSE Restored({u \in h.units : u.unit \notin kept})
     /\ clHeld' = [clHeld EXCEPT ![p] = NoReservation]
     /\ UNCHANGED <<clReady, clIntent, clNext, clRefreshes, clExact>>

(* finalizeMutationPlanResultsLocked, succeeded *)
CommitMutation(h) ==
  LET source == Named(clAlloc, AllocationIds(h.before))
  IN CASE h.kind = "release" -> clFree' = GiveBack(clFree, source) /\ clAlloc' = clAlloc \ source
       [] h.kind = "rebind" -> clFree' = GiveBack(clFree, source) /\ clAlloc' = Put(clAlloc \ source, h.made, "active")
       [] h.kind = "recreate" -> UNCHANGED clFree /\ clAlloc' = Put(clAlloc \ source, h.made, "active")
       [] OTHER -> UNCHANGED clFree /\ clAlloc' = Put(clAlloc, AllocationIds(h.before), "active")

(* reverseDeviceResourceDelta: the inverse of the prepared change, on today's value *)
Reverses(d, returned) == resourcesFit(returned, clFree[d])
Reversed(d, consumption, returned) ==
  [clFree EXCEPT ![d] = addResourcesCapped(subtractResources(@, returned), consumption)]

(* restoreMutationStateFromBeforeImage; a target that is gone, or capacity that *)
(* another plan took meanwhile, refuses the rollback and the reservation stays.  *)
RestoreMutation(h) ==
  LET b == CHOOSE a \in h.before : TRUE
      found == b.id \in AllocationIds(clAlloc)
      now == CHOOSE a \in clAlloc : a.id = b.id
  IN CASE h.kind = "release" -> found /\ UNCHANGED clFree /\ clAlloc' = Put(clAlloc, {b.id}, b.st)
       [] h.kind = "resize" ->
            /\ found /\ Reverses(b.dev, positiveResourceDelta(b.res, h.res))
            /\ clFree' = Reversed(b.dev, positiveResourceDelta(h.res, b.res), positiveResourceDelta(b.res, h.res))
            /\ clAlloc' = (clAlloc \ {now}) \cup {[now EXCEPT !.res = b.res, !.ver = b.ver]}
       [] h.kind = "rebind" -> clFree' = Reversed(h.dev, h.res, ZeroResources) /\ clAlloc' = clAlloc \ Named(clAlloc, h.made)
       [] h.kind = "recreate" -> UNCHANGED clFree /\ clAlloc' = clAlloc \ Named(clAlloc, h.made)
       [] OTHER -> UNCHANGED <<clFree, clAlloc>>

(* failedMutationRetainedIDs *)
RetainedIDs(h, incomplete) ==
  IF ~incomplete /\ h.kind \in {"rebind", "recreate"} THEN h.made ELSE allocationIDs(h)

(* mutationOutcome: success; compensation confirmed for every action; or an     *)
(* effect that may remain, by an incomplete rollback or uncompensated.           *)
MutationOutcomes == {"succeeded", "restore", "incomplete", "uncompensated"}
MutationKinds == {"release", "lifecycle", "resize", "rebind", "recreate"}

(* finalizeMutationPlanResultsLocked *)
FinalizeMutation(p, outcome) ==
  LET h == clHeld[p]
  IN /\ h.kind \in MutationKinds
     /\ CASE outcome = "succeeded" -> CommitMutation(h)
          [] outcome = "restore" -> RestoreMutation(h)
          [] OTHER -> UNCHANGED clFree /\ clAlloc' = Put(clAlloc, RetainedIDs(h, outcome = "incomplete"), "failed")
     /\ clExact' = IF outcome \in {"incomplete", "uncompensated"} /\ h.kind = "recreate" THEN clExact \ {h.dev} ELSE clExact
     /\ clHeld' = [clHeld EXCEPT ![p] = NoReservation]
     /\ UNCHANGED <<clReady, clPending, clIntent, clNext, clRefreshes>>

(* mutated: the target device gets back all the victims held, the replacement's part too *)
CommitPreemptionWhole(h) ==
  LET victims == Named(clAlloc, AllocationIds(h.before))
  IN /\ allocationIDs(h) \subseteq AllocationIds(clAlloc)
     /\ clFree' = GiveBack(clFree, victims)
     /\ clAlloc' = Put(clAlloc \ victims, h.made, "active")
     /\ UNCHANGED clPending

(* commitPreemptionReplacement: the target device gets back only what the       *)
(* victims held beyond the replacement.                                         *)
CommitPreemption(h) ==
  LET victims == Named(clAlloc, AllocationIds(h.before))
      surplus == positiveResourceDelta(Held(On(victims, h.dev)), h.res)
  IN /\ allocationIDs(h) \subseteq AllocationIds(clAlloc)
     /\ clFree' = [GiveBack(clFree, victims) EXCEPT ![h.dev] = addResourcesCapped(clFree[h.dev], surplus)]
     /\ clAlloc' = Put(clAlloc \ victims, h.made, "active")
     /\ UNCHANGED clPending

(* abortPreemptionReplacement *)
AbortPreemption(h) ==
  LET extra == positiveResourceDelta(h.res, Held(On(h.before, h.dev)))
      was(a) == CHOOSE b \in h.before : b.id = a.id
  IN /\ AllocationIds(h.before) \subseteq AllocationIds(clAlloc)
     /\ clFree' = Reversed(h.dev, extra, ZeroResources)
     /\ clAlloc' = {IF a.id \in AllocationIds(h.before) THEN [a EXCEPT !.st = was(a).st, !.ver = was(a).ver] ELSE a :
                      a \in clAlloc \ Named(clAlloc, h.made)}
     /\ clPending' = Restored(h.units)

(* preemptionOutcome *)
PreemptionOutcomes == {"succeeded", "restore", "incomplete"}

(* finalizePreemptionPlanResultsLocked; retained, victims and replacement both *)
(* stay, while the capacity they share was taken once.                         *)
FinalizePreemption(p, outcome) ==
  LET h == clHeld[p]
  IN /\ h.kind = "preemption"
     /\ CASE outcome = "succeeded" -> CommitPreemption(h) /\ UNCHANGED clExact
          [] outcome = "restore" -> AbortPreemption(h) /\ UNCHANGED clExact
          [] OTHER -> /\ clAlloc' = Put(clAlloc, allocationIDs(h), "failed")
                      /\ clExact' = clExact \ {h.dev} /\ UNCHANGED <<clFree, clPending>>
     /\ clHeld' = [clHeld EXCEPT ![p] = NoReservation]
     /\ UNCHANGED <<clReady, clIntent, clNext, clRefreshes>>

-----------------------------------------------------------------------------
(* replacePendingUnits, pendingUnitID *)
replacePendingUnits(r, ver, res, missing) ==
  {u \in clPending : u.run # r}
    \cup {[run |-> r, unit |-> <<ver, i>>, ver |-> ver, res |-> res] : i \in 1..missing}

(* PreparePublishIntent and Commit, in one holding of planMu: live allocations *)
(* are carried to the new version, and the units they do not cover are queued. *)
AcceptIntent(r, res) ==
  LET ver == clIntent[r] + 1
      missing == ClUnits - Cardinality(Live(clAlloc, r))
  IN /\ Unreserved(r) /\ ver <= MaxClVersion
     /\ clIntent' = [clIntent EXCEPT ![r] = ver]
     /\ clAlloc' = {IF a \in Live(clAlloc, r) THEN [a EXCEPT !.ver = ver] ELSE a : a \in clAlloc}
     /\ clPending' = replacePendingUnits(r, ver, res, missing)
     /\ UNCHANGED <<clFree, clReady, clHeld, clNext, clRefreshes, clExact>>

(* RetireExpiredIntent, under the gate *)
RetireExpiredIntent(r) ==
  /\ Unreserved(r) /\ clIntent[r] > 0 /\ Live(clAlloc, r) = {}
  /\ clIntent' = [clIntent EXCEPT ![r] = 0]
  /\ clPending' = {u \in clPending : u.run # r}
  /\ UNCHANGED <<clFree, clReady, clAlloc, clHeld, clNext, clRefreshes, clExact>>

(* Devices of the reservations that moved capacity for an allocation in ids and *)
(* will move it back without looking for the allocation again.                  *)
Disturbed(ids) ==
  UNION {{clHeld[p].dev} \cup {a.dev : a \in clHeld[p].before} :
           p \in {q \in ClPlans : /\ clHeld[q].kind \in {"rebind", "recreate", "preemption"}
                                  /\ allocationIDs(clHeld[q]) \cap ids # {}}}

(* retireRunFromTerminalEventLocked: every sandbox of the run ended, whatever  *)
(* plan names its allocations.                                                 *)
RetireRun(r) ==
  LET gone == {a \in clAlloc : a.run = r}
  IN /\ gone # {}
     /\ clFree' = GiveBack(clFree, gone)
     /\ clAlloc' = clAlloc \ gone
     /\ clIntent' = [clIntent EXCEPT ![r] = 0]
     /\ clPending' = {u \in clPending : u.run # r}
     /\ clExact' = clExact \ Disturbed(AllocationIds(gone))
     /\ UNCHANGED <<clReady, clHeld, clNext, clRefreshes>>

(* requeueAllocation: the unit goes back to the queue of its own intent version *)
Requeues(a) ==
  LET queued == {u \in clPending : u.run = a.run /\ u.ver = clIntent[a.run]}
  IN /\ clIntent[a.run] = a.ver /\ a.ver > 0
     /\ \A u \in clPending : u.run = a.run => u.unit # a.unit
     /\ Cardinality(Live(clAlloc \ {a}, a.run)) + Cardinality(queued) < ClUnits

(* ReconcileProviderSandboxes, for an allocation whose sandbox ended or is      *)
(* missing after its expiry.                                                   *)
ReleaseEnded(a, explicit) ==
  LET unit == [run |-> a.run, unit |-> a.unit, ver |-> a.ver, res |-> a.res]
  IN /\ clFree' = GiveBack(clFree, {a})
     /\ clAlloc' = clAlloc \ {a}
     /\ clPending' = IF ~explicit /\ Requeues(a) THEN clPending \cup {unit} ELSE clPending
     /\ clExact' = clExact \ Disturbed({a.id})
     /\ UNCHANGED <<clReady, clIntent, clHeld, clNext, clRefreshes>>

(* ApplyProviderResourceEvent, BootstrapProviderSnapshot: the provider's device *)
(* replaces the Store's, and a provider reports all of it allocatable.          *)
ReplaceDevice(d, ready) ==
  /\ clRefreshes < MaxRefreshes /\ clRefreshes' = clRefreshes + 1
  /\ clFree' = [clFree EXCEPT ![d] = ClCapacity]
  /\ clReady' = IF ready THEN clReady \cup {d} ELSE clReady \ {d}
  /\ clExact' = clExact \ {d}
  /\ UNCHANGED <<clAlloc, clPending, clIntent, clHeld, clNext>>

ClNext ==
  \/ \E r \in ClRuns, res \in ClSizes : AcceptIntent(r, res)
  \/ \E r \in ClRuns : RetireExpiredIntent(r) \/ RetireRun(r)
  \/ \E a \in clAlloc, explicit \in BOOLEAN : ReleaseEnded(a, explicit)
  \/ \E d \in ClDevices, ready \in BOOLEAN : ReplaceDevice(d, ready)
  \/ \E p \in ClPlans :
       \/ \E r \in ClRuns : \E units \in SUBSET {u \in clPending : u.run = r} :
            \E place \in [units -> ClDevices] : ReserveAdmission(p, r, units, place)
       \/ \E a \in clAlloc :
            \/ ReserveRelease(p, a.run, a)
            \/ \E res \in ClSizes : ReserveResize(p, a.run, a, res)
            \/ \E d \in ClDevices, kind \in {"rebind", "recreate"} : ReserveReplacement(p, a.run, a, kind, d)
       \/ \E r \in ClRuns : \E as \in SUBSET {a \in clAlloc : a.run = r} : ReserveLifecycle(p, r, as)
       \/ \E u \in clPending, d \in ClDevices, vs \in SUBSET clAlloc : ReservePreemption(p, u.run, u, d, vs)
       \/ \E ok \in BOOLEAN, e \in Evidence(clHeld[p].made) : FinalizeAdmission(p, ok, e.retained, e.degraded)
       \/ \E o \in MutationOutcomes : FinalizeMutation(p, o)
       \/ \E o \in PreemptionOutcomes : FinalizePreemption(p, o)

-----------------------------------------------------------------------------
(* What a held preemption or recreate shares: the part of the replacement that *)
(* the allocations it replaces cover.                                          *)
Shared(d) ==
  LET overlap(p, i) == Min({clHeld[p].res[i], Held(On(clHeld[p].before, d))[i]})
  IN [i \in Dims |-> MapThenSumSet(LAMBDA p : overlap(p, i),
                                   {p \in ClPlans : clHeld[p].kind \in {"preemption", "recreate"} /\ clHeld[p].dev = d})]

(* On a device whose ledger no provider event replaced, no retained preemption  *)
(* or recreate and no end of a sandbox under a held replacement disturbed, what *)
(* is allocatable and what the allocations hold, the overlap of a held one      *)
(* counted once, make up the capacity: no order of reservations, finalizations, *)
(* rollbacks and run ends loses capacity or gives it out twice (reservation.go, *)
(* mutation_reservation.go, preemption_reservation.go).                         *)
LedgerBalances ==
  \A d \in clExact : addResources(clFree[d], Held(On(clAlloc, d))) = addResources(ClCapacity, Shared(d))

(* Capacity that may still be occupied is not given out again: what the units   *)
(* on a device hold, the retained and FAILED ones too, fits it                  *)
(* (retainedAllocations: "Unknown provider evidence must never release capacity *)
(* that may still be occupied").  The code does not keep it: a device event     *)
(* brings back the full capacity.                                               *)
OccupiedIsHeld ==
  \A d \in ClDevices :
    LET held == {a \in On(clAlloc, d) : a.st # "releasing"}
        once == {a \in held : \A b \in held : a.run = b.run /\ a.unit = b.unit => a.id <= b.id}
    IN (\A p \in ClPlans : clHeld[p].kind \notin {"preemption", "recreate"})
         => resourcesFit(Held(once), ClCapacity)
=============================================================================

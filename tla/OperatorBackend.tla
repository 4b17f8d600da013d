--------------------------- MODULE OperatorBackend ---------------------------
(***************************************************************************)
(* The Operator's Kubernetes backend (operator-go/backend): bundles whose  *)
(* marker object is written last, lifecycle controls recorded in a durable *)
(* idempotency ledger before, during and after each Job mutation, and the  *)
(* control metadata that the ledger leaves on the bundle markers.          *)
(*                                                                         *)
(* mutationMu admits one operation at a time; between two of its API calls *)
(* and file writes the cluster may act and the process may crash.  Bundles *)
(* are numbered in the order of their keys.                                *)
(***************************************************************************)
EXTENDS Integers, FiniteSets, FiniteSetsExt

CONSTANTS BkBundles,      \* bundles, as numbers
          BkRequests,     \* idempotency keys of lifecycle controls
          BkActions,      \* actions the requests may ask for
          MaxBkGen,       \* bound: generations of a bundle
          MaxBkMoves,     \* bound: moves of a Job by the cluster
          MaxBkFaults,    \* bound: failed writes and calls
          MaxBkCrashes    \* bound: crashes of the Operator
ASSUME BkAssumption ==
  BkBundles \subseteq Nat /\ MaxBkGen \in Nat /\ "none" \notin BkRequests

VARIABLES bkMarker,       \* bundle markers: generation and control metadata
          bkParts,        \* generation-scoped objects that exist
          bkJob,          \* Jobs by bundle and generation: state and resourceVersion
          bkMem,          \* controls: the records in memory
          bkDisk,         \* the ledger file: the records
          bkRevision,     \* revision in memory
          bkDiskRevision, \* revision of the ledger file
          bkOp,           \* the operation that holds mutationMu
          bkMoves, bkFaults, bkCrashes
bkVars == <<bkMarker, bkParts, bkJob, bkMem, bkDisk, bkRevision, bkDiskRevision, bkOp,
            bkMoves, bkFaults, bkCrashes>>
bkLedger == <<bkMem, bkDisk, bkRevision, bkDiskRevision>>
bkCluster == <<bkMarker, bkParts, bkJob>>
bkBounds == <<bkMoves, bkFaults, bkCrashes>>

Gens == 1..MaxBkGen
ObjectKinds == {"workload", "job"}
NoMeta == [rev |-> 0, req |-> "none", action |-> "none", committed |-> FALSE]
NoMarker == [gen |-> 0, meta |-> NoMeta]
NoRecord == [st |-> "none", rev |-> 0, action |-> "none", prog |-> [b \in BkBundles |-> "none"],
             gen |-> [b \in BkBundles |-> 0], ver |-> [b \in BkBundles |-> 0]]
NoBkOp == [pc |-> "idle", req |-> "none", bundle |-> 0, gen |-> 0]
Deletes(action) == action \in {"stop", "terminate"}

BkInit ==
  /\ bkMarker = [b \in BkBundles |-> NoMarker] /\ bkParts = [b \in BkBundles |-> {}]
  /\ bkJob = [b \in BkBundles |-> [g \in Gens |-> [st |-> "suspended", ver |-> 0]]]
  /\ bkMem = [r \in BkRequests |-> NoRecord] /\ bkDisk = bkMem
  /\ bkRevision = 0 /\ bkDiskRevision = 0 /\ bkOp = NoBkOp
  /\ bkMoves = 0 /\ bkFaults = 0 /\ bkCrashes = 0

JobExists(b, g) == <<g, "job">> \in bkParts[b]
TargetsOf(rec) == {b \in BkBundles : rec.prog[b] # "none"}

-----------------------------------------------------------------------------
(* The ledger file *)

(* persistControlStateLocked merges the records in memory into the file.  An *)
(* error may come after the rename ("late"): the directory sync failed.      *)
Outcomes == {"ok", "lost", "late"}
Faulty(o) == o # "ok" => bkFaults < MaxBkFaults
CountFault(o) == bkFaults' = IF o = "ok" THEN bkFaults ELSE bkFaults + 1
Merged(mem) == [r \in BkRequests |-> IF mem[r].st = "none" THEN bkDisk[r] ELSE mem[r]]
Persist(o, mem, rev) ==
  /\ Faulty(o) /\ CountFault(o)
  /\ bkDisk' = IF o = "lost" THEN bkDisk ELSE Merged(mem)
  /\ bkDiskRevision' = IF o = "lost" \/ rev <= bkDiskRevision THEN bkDiskRevision ELSE rev

(* controlMetadataFromLedgerLocked: the accepted record of the highest        *)
(* revision that names the bundle; 0 when there is none.                      *)
AcceptedFor(mem, b) == {r \in BkRequests : mem[r].st = "accepted" /\ b \in TargetsOf(mem[r])}
IsLatest(mem, r, b) ==
  r \in AcceptedFor(mem, b) /\ \A q \in AcceptedFor(mem, b) : mem[q].rev <= mem[r].rev

MetadataForControl(mem, r, committed) ==
  [rev |-> mem[r].rev, req |-> r, action |-> mem[r].action, committed |-> committed]

(* shouldKeepExistingControlMetadata *)
KeepsExisting(old, new) ==
  IF old.rev # new.rev THEN old.rev > new.rev /\ (old.committed \/ ~new.committed)
  ELSE IF old.req = new.req \/ old.committed # new.committed THEN old.committed /\ ~new.committed
  ELSE ~new.committed
(* writeControlMetadata on every bundle of bs, through encodeControlMetadata *)
WriteControlMetadata(bs, new) ==
  bkMarker' = [b \in BkBundles |->
    IF b \notin bs \/ KeepsExisting(bkMarker[b].meta, new) THEN bkMarker[b]
    ELSE [bkMarker[b] EXCEPT !.meta = new]]

-----------------------------------------------------------------------------
(* Control *)

(* A completed key replays its result after repairing the metadata of the     *)
(* bundles it still owns (repairReplayedControlMetadataLocked).               *)
ControlReplay(r) ==
  LET rec == bkMem[r]
      owned == {b \in TargetsOf(rec) : /\ IsLatest(bkMem, r, b) /\ bkMarker[b] # NoMarker
                                       /\ bkMarker[b].meta.rev <= rec.rev}
  IN /\ bkOp.pc = "idle" /\ rec.st = "accepted"
     /\ WriteControlMetadata(owned, MetadataForControl(bkMem, r, TRUE))
     /\ UNCHANGED <<bkParts, bkJob, bkLedger, bkOp, bkBounds>>

ControlResume(r) ==
  /\ bkOp.pc = "idle" /\ bkMem[r].st = "pending"
  /\ bkOp' = [NoBkOp EXCEPT !.pc = "exec", !.req = r]
  /\ UNCHANGED <<bkCluster, bkLedger, bkBounds>>

(* A new key: findBundlesForControl and prepareControlProgress, then the      *)
(* pending record is made durable.  When that fails the record and the        *)
(* revision are taken back in memory.                                         *)
Prepared(action, bs) ==
  [NoRecord EXCEPT !.st = "pending", !.rev = bkRevision + 1, !.action = action,
     !.gen = [b \in BkBundles |-> IF b \in bs THEN bkMarker[b].gen ELSE 0],
     !.ver = [b \in BkBundles |-> IF b \in bs THEN bkJob[b][bkMarker[b].gen].ver ELSE 0],
     !.prog = [b \in BkBundles |-> IF b \notin bs THEN "none"
                                   ELSE IF JobExists(b, bkMarker[b].gen) THEN "pending" ELSE "completed"]]
ControlBegin(r, action, bs, o) ==
  LET mem == [bkMem EXCEPT ![r] = Prepared(action, bs)]
  IN /\ bkOp.pc = "idle" /\ bkMem[r].st = "none"
     /\ \A b \in bs : bkMarker[b] # NoMarker /\ (JobExists(b, bkMarker[b].gen) \/ Deletes(action))
     /\ Persist(o, mem, bkRevision + 1)
     /\ IF o = "ok"
        THEN /\ bkMem' = mem /\ bkRevision' = bkRevision + 1
             /\ bkOp' = [NoBkOp EXCEPT !.pc = "mark", !.req = r]
        ELSE UNCHANGED <<bkMem, bkRevision, bkOp>>
     /\ UNCHANGED <<bkCluster, bkMoves, bkCrashes>>

ControlMark(o) ==
  LET r == bkOp.req
  IN /\ bkOp.pc = "mark" /\ o # "late" /\ Faulty(o) /\ CountFault(o)
     /\ IF o = "ok"
        THEN /\ WriteControlMetadata(TargetsOf(bkMem[r]), MetadataForControl(bkMem, r, FALSE))
             /\ bkOp' = [bkOp EXCEPT !.pc = "exec"]
        ELSE bkOp' = NoBkOp /\ UNCHANGED bkMarker
     /\ UNCHANGED <<bkParts, bkJob, bkLedger, bkMoves, bkCrashes>>

Unfinished(rec) == {b \in TargetsOf(rec) : rec.prog[b] # "completed"}
Progress(r, b, st) == [bkMem EXCEPT ![r].prog[b] = st]

(* observedStateForReadback: does the Job show what the action asks for? *)
ReadbackMatches(action, b, g) ==
  CASE action = "pause" -> JobExists(b, g) /\ bkJob[b][g].st = "suspended"
    [] action = "resume" -> JobExists(b, g) /\ bkJob[b][g].st # "suspended"
    [] OTHER -> ~JobExists(b, g) \/ bkJob[b][g].st = "over"

(* reconcileControlProgress of a mutation whose outcome is not known *)
Resolution(rec, b) ==
  LET g == rec.gen[b]
  IN IF ReadbackMatches(rec.action, b, g) THEN "completed"
     ELSE IF JobExists(b, g) /\ bkJob[b][g].ver = rec.ver[b] THEN "in_flight"
     ELSE "ambiguous"

(* executeControlProgress up to the mutation: the first unfinished target is  *)
(* reconciled if it may have happened, else marked in flight; a failed write  *)
(* leaves the mark in memory.                                                 *)
ControlPrepare(o) ==
  LET r == bkOp.req
      rec == bkMem[r]
      b == Min(Unfinished(rec))
      st == IF rec.prog[b] = "pending" THEN "in_flight" ELSE Resolution(rec, b)
      mem == Progress(r, b, st)
  IN /\ bkOp.pc = "exec" /\ Unfinished(rec) # {}
     /\ Persist(o, mem, bkRevision) /\ bkMem' = mem
     /\ bkOp' = IF o # "ok" \/ st = "ambiguous" THEN NoBkOp
                ELSE IF st = "completed" THEN bkOp
                ELSE [bkOp EXCEPT !.pc = "send", !.bundle = b]
     /\ UNCHANGED <<bkCluster, bkRevision, bkMoves, bkCrashes>>

(* ControlJob of the Kubernetes client, fenced by the prepared version (the   *)
(* delete of an absent Job succeeds).                                         *)
VersionHolds(rec, b) ==
  IF JobExists(b, rec.gen[b]) THEN bkJob[b][rec.gen[b]].ver = rec.ver[b] ELSE Deletes(rec.action)
Mutate(rec, b) ==
  LET g == rec.gen[b]
      to == IF rec.action = "pause" THEN "suspended" ELSE "active"
  IN IF Deletes(rec.action)
     THEN bkParts' = [bkParts EXCEPT ![b] = @ \ {<<g, "job">>}] /\ UNCHANGED bkJob
     ELSE /\ bkJob' = [bkJob EXCEPT ![b][g] = IF @.st \in {to, "over"} THEN @ ELSE [st |-> to, ver |-> @.ver + 1]]
          /\ UNCHANGED bkParts
ControlSend(o) ==
  LET rec == bkMem[bkOp.req]
  IN /\ bkOp.pc = "send" /\ Faulty(o) /\ CountFault(o)
     /\ IF o = "lost" \/ ~VersionHolds(rec, bkOp.bundle) THEN UNCHANGED <<bkParts, bkJob>>
        ELSE Mutate(rec, bkOp.bundle)
     /\ bkOp' = [bkOp EXCEPT !.pc = IF o = "ok" /\ VersionHolds(rec, bkOp.bundle) THEN "sent" ELSE "unsure"]
     /\ UNCHANGED <<bkMarker, bkLedger, bkMoves, bkCrashes>>
ControlSent(o) ==
  LET r == bkOp.req
      b == bkOp.bundle
      sure == bkOp.pc = "sent" /\ ReadbackMatches(bkMem[r].action, b, bkMem[r].gen[b])
      mem == Progress(r, b, IF sure THEN "completed" ELSE "ambiguous")
  IN /\ bkOp.pc \in {"sent", "unsure"}
     /\ Persist(o, mem, bkRevision) /\ bkMem' = mem
     /\ bkOp' = IF o = "ok" /\ sure THEN [NoBkOp EXCEPT !.pc = "exec", !.req = r] ELSE NoBkOp
     /\ UNCHANGED <<bkCluster, bkRevision, bkMoves, bkCrashes>>

(* Mutant: a failed write of the result still counts as accepted. *)
ControlCommitUnwritten(o) ==
  LET r == bkOp.req
      mem == [bkMem EXCEPT ![r].st = "accepted"]
  IN /\ bkOp.pc = "exec" /\ Unfinished(bkMem[r]) = {}
     /\ Persist(o, mem, bkRevision) /\ bkMem' = mem /\ bkOp' = [bkOp EXCEPT !.pc = "show"]
     /\ UNCHANGED <<bkCluster, bkRevision, bkMoves, bkCrashes>>
(* Every target done: the result is made durable, then shown on the markers. *)
ControlCommit(o) ==
  LET r == bkOp.req
      mem == [bkMem EXCEPT ![r].st = "accepted"]
  IN /\ bkOp.pc = "exec" /\ Unfinished(bkMem[r]) = {}
     /\ Persist(o, mem, bkRevision)
     /\ bkMem' = IF o = "ok" THEN mem ELSE bkMem
     /\ bkOp' = IF o = "ok" THEN [bkOp EXCEPT !.pc = "show"] ELSE NoBkOp
     /\ UNCHANGED <<bkCluster, bkRevision, bkMoves, bkCrashes>>
ControlShow(o) ==
  LET r == bkOp.req
  IN /\ bkOp.pc = "show" /\ o # "late" /\ Faulty(o) /\ CountFault(o) /\ bkOp' = NoBkOp
     /\ IF o = "ok" /\ \A b \in TargetsOf(bkMem[r]) : bkMarker[b] # NoMarker
        THEN WriteControlMetadata(TargetsOf(bkMem[r]), MetadataForControl(bkMem, r, TRUE))
        ELSE UNCHANGED bkMarker
     /\ UNCHANGED <<bkParts, bkJob, bkLedger, bkMoves, bkCrashes>>

-----------------------------------------------------------------------------
(* Apply and Cleanup *)

(* A higher generation: create its objects, delete the previous ones, write   *)
(* the marker (with fresh annotations).  Any call may fail and end the Apply. *)
ApplyBegin(b) ==
  /\ bkOp.pc = "idle" /\ bkMarker[b].gen < MaxBkGen
  /\ bkOp' = [NoBkOp EXCEPT !.pc = "create", !.bundle = b, !.gen = bkMarker[b].gen + 1]
  /\ UNCHANGED <<bkCluster, bkLedger, bkBounds>>
Upserted(b, g, kind) ==
  /\ bkParts' = [bkParts EXCEPT ![b] = @ \cup {<<g, kind>>}]
  /\ bkJob' = IF kind = "job" THEN [bkJob EXCEPT ![b][g] = [st |-> "suspended", ver |-> @.ver + 1]] ELSE bkJob
(* Materialize lists the Workload before the Job: objects come and go in that order. *)
CreatesNext(b, g, kind) == <<g, kind>> \notin bkParts[b] /\ (kind = "job" => <<g, "workload">> \in bkParts[b])
DeletesNext(b, g, kind) == <<g, kind>> \in bkParts[b] /\ (kind = "job" => <<g, "workload">> \notin bkParts[b])
OfGen(b, g) == {p \in bkParts[b] : p[1] = g}
ApplyCreate(kind) ==
  LET b == bkOp.bundle
  IN /\ bkOp.pc = "create" /\ CreatesNext(b, bkOp.gen, kind)
     /\ Upserted(b, bkOp.gen, kind)
     /\ UNCHANGED <<bkMarker, bkLedger, bkOp, bkBounds>>
(* Mutant: the previous generation is cleaned up before the new one is complete. *)
ApplyCreatedEarly ==
  /\ bkOp.pc = "create" /\ bkOp' = [bkOp EXCEPT !.pc = "orphans"]
  /\ UNCHANGED <<bkCluster, bkLedger, bkBounds>>
ApplyCreated ==
  /\ bkOp.pc = "create" /\ OfGen(bkOp.bundle, bkOp.gen) = {bkOp.gen} \X ObjectKinds
  /\ bkOp' = [bkOp EXCEPT !.pc = "orphans"]
  /\ UNCHANGED <<bkCluster, bkLedger, bkBounds>>
ApplyDelete(kind) ==
  LET b == bkOp.bundle
  IN /\ bkOp.pc = "orphans" /\ DeletesNext(b, bkOp.gen - 1, kind)
     /\ bkParts' = [bkParts EXCEPT ![b] = @ \ {<<bkOp.gen - 1, kind>>}]
     /\ UNCHANGED <<bkMarker, bkJob, bkLedger, bkOp, bkBounds>>
ApplyMarker ==
  /\ bkOp.pc = "orphans" /\ OfGen(bkOp.bundle, bkOp.gen - 1) = {}
  /\ bkMarker' = [bkMarker EXCEPT ![bkOp.bundle] = [gen |-> bkOp.gen, meta |-> NoMeta]]
  /\ bkOp' = NoBkOp
  /\ UNCHANGED <<bkParts, bkJob, bkLedger, bkBounds>>

(* The same generation again (repairApplyLocked) recreates what is missing. *)
ApplyRepair(b, kind) ==
  /\ bkOp.pc = "idle" /\ bkMarker[b] # NoMarker /\ CreatesNext(b, bkMarker[b].gen, kind)
  /\ bkFaults < MaxBkFaults /\ bkFaults' = bkFaults + 1
  /\ Upserted(b, bkMarker[b].gen, kind)
  /\ UNCHANGED <<bkMarker, bkLedger, bkOp, bkMoves, bkCrashes>>

(* Cleanup(key, generation), called once the Job of the generation has ended *)
CleanupBegin(b) ==
  LET g == bkMarker[b].gen
  IN /\ bkOp.pc = "idle" /\ g # 0 /\ (JobExists(b, g) => bkJob[b][g].st = "over")
     /\ bkOp' = [NoBkOp EXCEPT !.pc = "cleanup", !.bundle = b, !.gen = g]
     /\ UNCHANGED <<bkCluster, bkLedger, bkBounds>>
CleanupDelete(kind) ==
  LET b == bkOp.bundle
  IN /\ bkOp.pc = "cleanup" /\ DeletesNext(b, bkOp.gen, kind)
     /\ bkParts' = [bkParts EXCEPT ![b] = @ \ {<<bkOp.gen, kind>>}]
     /\ UNCHANGED <<bkMarker, bkJob, bkLedger, bkOp, bkBounds>>
CleanupMarker ==
  /\ bkOp.pc = "cleanup" /\ OfGen(bkOp.bundle, bkOp.gen) = {}
  /\ bkMarker' = [bkMarker EXCEPT ![bkOp.bundle] = NoMarker] /\ bkOp' = NoBkOp
  /\ UNCHANGED <<bkParts, bkJob, bkLedger, bkBounds>>

(* An API call of Apply or Cleanup fails: the operation returns its error. *)
CallFails ==
  /\ bkOp.pc \in {"create", "orphans", "cleanup"} /\ bkFaults < MaxBkFaults
  /\ bkFaults' = bkFaults + 1 /\ bkOp' = NoBkOp
  /\ UNCHANGED <<bkCluster, bkLedger, bkMoves, bkCrashes>>

-----------------------------------------------------------------------------
(* The cluster: Kueue admits or evicts a Job, a Job ends. *)
ClusterMoves(b, g, st) ==
  /\ JobExists(b, g) /\ bkMoves < MaxBkMoves /\ bkMoves' = bkMoves + 1
  /\ bkJob[b][g].st \notin {st, "over"} /\ (st = "over" => bkJob[b][g].st = "active")
  /\ bkJob' = [bkJob EXCEPT ![b][g] = [st |-> st, ver |-> @.ver + 1]]
  /\ UNCHANGED <<bkMarker, bkParts, bkLedger, bkOp, bkFaults, bkCrashes>>

(* A restart reloads the ledger (SetControlStatePath) and rewrites metadata   *)
(* from it before anything else (RestoreControlMetadata).                     *)
BackendCrash ==
  /\ bkCrashes < MaxBkCrashes /\ bkCrashes' = bkCrashes + 1
  /\ bkMem' = bkDisk /\ bkRevision' = bkDiskRevision
  /\ bkOp' = [NoBkOp EXCEPT !.pc = "restore"]
  /\ UNCHANGED <<bkCluster, bkDisk, bkDiskRevision, bkMoves, bkFaults>>
RestoreControlMetadata ==
  /\ bkOp.pc = "restore" /\ bkOp' = NoBkOp
  /\ \E pick \in [BkBundles -> BkRequests] :
       /\ \A b \in BkBundles : AcceptedFor(bkMem, b) # {} => IsLatest(bkMem, pick[b], b)
       /\ bkMarker' = [b \in BkBundles |->
            LET new == MetadataForControl(bkMem, pick[b], TRUE)
            IN IF bkMarker[b] = NoMarker \/ AcceptedFor(bkMem, b) = {} \/ KeepsExisting(bkMarker[b].meta, new)
               THEN bkMarker[b] ELSE [bkMarker[b] EXCEPT !.meta = new]]
  /\ UNCHANGED <<bkParts, bkJob, bkLedger, bkBounds>>

BkNext ==
  \/ \E r \in BkRequests : ControlReplay(r) \/ ControlResume(r)
  \/ \E r \in BkRequests, a \in BkActions, bs \in SUBSET BkBundles \ {{}}, o \in Outcomes : ControlBegin(r, a, bs, o)
  \/ \E o \in Outcomes : \/ ControlMark(o) \/ ControlPrepare(o) \/ ControlSend(o) \/ ControlSent(o)
                         \/ ControlCommit(o) \/ ControlShow(o)
  \/ \E b \in BkBundles : ApplyBegin(b) \/ CleanupBegin(b)
  \/ \E kind \in ObjectKinds : ApplyCreate(kind) \/ ApplyDelete(kind) \/ CleanupDelete(kind)
  \/ \E b \in BkBundles, kind \in ObjectKinds : ApplyRepair(b, kind)
  \/ ApplyCreated \/ ApplyMarker \/ CleanupMarker \/ CallFails
  \/ \E b \in BkBundles, g \in Gens, st \in {"suspended", "active", "over"} : ClusterMoves(b, g, st)
  \/ BackendCrash \/ RestoreControlMetadata
BkSpec == BkInit /\ [][BkNext]_bkVars

-----------------------------------------------------------------------------
(* While a generation is committed and its Job has not ended, its objects go *)
(* only once every object of its successor exists: however an Apply fails or *)
(* crashes, something runnable remains (Apply, cleanupOrphansLocked,         *)
(* Cleanup).                                                                 *)
ReplacementIsReady ==
  \A b \in BkBundles :
    LET g == bkMarker[b].gen
    IN (g # 0 /\ JobExists(b, g) /\ bkJob[b][g].st # "over" /\ <<g, "workload">> \notin bkParts[b]) =>
         OfGen(b, g + 1) = {g + 1} \X ObjectKinds

(* Metadata that a marker shows as committed was accepted by the durable     *)
(* ledger, under its revision, with every mutation of the request completed: *)
(* an observer never reports a control that a restart would forget (Control, *)
(* repairReplayedControlMetadataLocked, RestoreControlMetadata).             *)
CommittedIsDurable ==
  \A b \in BkBundles :
    LET meta == bkMarker[b].meta
    IN meta.committed => /\ bkDisk[meta.req].st = "accepted" /\ bkDisk[meta.req].rev = meta.rev
                         /\ Unfinished(bkDisk[meta.req]) = {}

(* The committed control of a bundle's generation never moves back to an     *)
(* older revision, whichever key is retried, resumed or replayed             *)
(* (shouldKeepExistingControlMetadata).                                      *)
MetadataMovesForward ==
  [][\A b \in BkBundles :
       bkMarker[b].meta.committed /\ bkMarker'[b].gen = bkMarker[b].gen =>
         bkMarker'[b].meta.rev >= bkMarker[b].meta.rev]_bkVars

(* PAUSED is projected only for a generation whose pause was asked for       *)
(* (statuswatch.Project over the marker's metadata).  The code does not keep *)
(* it: the metadata outlives the generation.                                 *)
ProjectsPaused(b) ==
  LET g == bkMarker[b].gen
  IN /\ g # 0 /\ JobExists(b, g) /\ bkJob[b][g].st = "suspended"
     /\ bkMarker[b].meta.committed /\ bkMarker[b].meta.action = "pause"
PausedWasAsked ==
  \A b \in BkBundles : ProjectsPaused(b) => bkDisk[bkMarker[b].meta.req].gen[b] = bkMarker[b].gen
=============================================================================

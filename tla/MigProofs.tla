------------------------------ MODULE MigProofs ------------------------------
(***************************************************************************)
(* What is proved of the two files of a MIG rebind (MigReplacement), for   *)
(* any number of rebinds and devices.                                      *)
(*                                                                         *)
(* A binding file may be behind the runtime file while helpers that hold   *)
(* copies of both come and go.  The inductive invariant of the rebind says *)
(* where the worker is at each phase of the unfinished receipt, that a     *)
(* helper's copy of the worker is the file's or one of an older generation,*)
(* that a request never starts ahead of the binding it was read from, and  *)
(* that the sandbox's lock keeps both files still during a rediscovery.    *)
(***************************************************************************)
EXTENDS MigReplacement, WellFoundedInduction, TLAPS

-----------------------------------------------------------------------------
(* Devices are whatever the constants name, and 0. *)
EarlyPhases == {"pending", "prepared", "checkpointed", "stopped"}
LatePhases == {"reconfigured", "reloaded"}
Walking == {"verify", "resume", "call", "advance", "complete", "fail"}
Probers == {"poll", "refresh"}
MgDevices == {0, MigHome} \cup {MigTarget[r] : r \in Rebinds}
MgPlaces == [gen : Nat, dev : MgDevices]
MgWorkers == [gen : Nat, dev : MgDevices, st : {"none", "running", "sleeping", "terminated", "failed"}]
MgHelpers == [pc : {"idle", "begin", "replace", "mark"} \cup Walking, r : Rebinds \cup {0}, w : MgWorkers,
              phase : {"none", "ok"} \cup EarlyPhases \cup LatePhases]
MgProbes == [pc : {"idle", "snapshot", "status", "refresh", "settle", "again", "pending", "replace", "mark", "read",
                   "receipts"},
             w : MgWorkers, pend : Rebinds \cup {0}, todo : SUBSET Rebinds, known : MgPlaces, for : Rebinds \cup {0}]
MgBindings == [gen : Nat, dev : MgDevices, by : Rebinds \cup {0}]
MgRequests == [src : MgPlaces, dst : MgPlaces]
MgProcs == [st : {"running", "safe", "saved", "stopped", "loaded", "dead"}, gen : Nat, dev : MgDevices]
MgDrivers == [known : MgPlaces, avail : BOOLEAN, done : SUBSET Rebinds, recovered : [Rebinds -> {"none", "ok", "failed"}]]
MgPhases == {"none", "ok", "failed"} \cup EarlyPhases \cup LatePhases

MgTypes ==
  /\ mgWorker \in MgWorkers /\ mgPhase \in [Rebinds -> MgPhases] /\ mgHead \in Rebinds \cup {0}
  /\ mgSynced \subseteq Rebinds /\ mgBinding \in MgBindings /\ mgReplaced \subseteq Rebinds
  /\ mgReq \in [Rebinds -> MgRequests] /\ mgProc \in MgProcs /\ mgRb \in MgHelpers
  /\ mgProbe \in [Probers -> MgProbes] /\ mgDriver \in MgDrivers

SamePlace(x, y) == x.gen = y.gen /\ x.dev = y.dev
(* x is a copy of the worker's record, or of the place it had in an earlier generation. *)
Behind(x, worker) == x.gen < worker.gen \/ SamePlace(x, worker)
Asked(req, binding) ==
  /\ req.src.gen > 0 /\ req.dst.gen = req.src.gen + 1
  /\ binding.gen > 0 => req.src.gen <= binding.gen
(* What was read of the binding file is not ahead of it, unless the sandbox was released. *)
ReadFrom(place, binding) ==
  (place.gen = 0 => place.dev = 0) /\ (binding.gen > 0 => place.gen <= binding.gen)

RequestInv ==
  /\ mgBinding.gen = 0 => mgBinding.dev = 0
  /\ ReadFrom(mgDriver.known, mgBinding)
  /\ \A r \in Rebinds : mgReq[r] # NoRequest \/ mgPhase[r] # "none" => Asked(mgReq[r], mgBinding)

(* The unfinished receipt is the newest one; its phase tells where the worker is. *)
ReceiptOK(r, phase, req, worker, head) ==
  /\ phase \in EarlyPhases \cup LatePhases => r = head
  /\ phase \in EarlyPhases => SamePlace(worker, req.src)
  /\ phase \in LatePhases => SamePlace(worker, req.dst)
  /\ phase = "ok" => Behind(req.dst, worker)
ReceiptInv ==
  /\ mgWorker.gen > 0 /\ Behind(mgProc, mgWorker) /\ (mgWorker.st = "failed" => mgProc.st = "dead")
  /\ mgHead # 0 => mgPhase[mgHead] # "none"
  /\ \A r \in Rebinds : ReceiptOK(r, mgPhase[r], mgReq[r], mgWorker, mgHead)
  /\ \A r \in mgSynced : mgPhase[r] = "ok"
  /\ \A r \in mgReplaced : mgPhase[r] # "none" /\ (mgBinding.gen > 0 => mgReq[r].dst.gen <= mgBinding.gen)

(* The rebind helper: its copy of the worker is the file's, except between the *)
(* lookup of the target and its record.                                        *)
Moving(rb) == rb.pc = "advance" /\ rb.phase = "stopped"
HelperOK(rb, worker, phase, head, req, binding, proc) ==
  /\ rb.pc # "idle" => rb.r # 0 /\ req[rb.r] # NoRequest
  /\ rb.w.st = "failed" => proc.st = "dead"
  /\ rb.pc \in Walking =>
       /\ head = rb.r /\ phase[rb.r] \in {rb.phase, "failed"} /\ rb.phase \in EarlyPhases \cup LatePhases
       /\ rb.phase \in EarlyPhases => SamePlace(worker, req[rb.r].src)
       /\ rb.phase \in LatePhases => SamePlace(worker, req[rb.r].dst)
       /\ IF Moving(rb) THEN SamePlace(rb.w, req[rb.r].dst) ELSE SamePlace(rb.w, worker)
  /\ rb.pc = "complete" => rb.phase = "reloaded"
  /\ rb.pc = "advance" => rb.phase # "reloaded"
  /\ rb.pc \in {"replace", "mark"} => phase[rb.r] = "ok" /\ SamePlace(rb.w, worker)
  /\ rb.pc = "mark" => SamePlace(binding, worker) /\ SamePlace(worker, req[rb.r].dst)
HelperInv == HelperOK(mgRb, mgWorker, mgPhase, mgHead, mgReq, mgBinding, mgProc)

(* A probing helper: its copies are old, but never ahead of the files. *)
ProbeOK(q, worker, phase, binding, replaced, proc) ==
  /\ Behind(q.w, worker) /\ (q.w.st = "failed" => proc.st = "dead")
  /\ \A r \in q.todo : phase[r] = "ok"
  /\ q.pend # 0 => phase[q.pend] # "none"
  /\ q.pc = "mark" => q.todo # {} /\ First(q.todo) \in replaced
  /\ ReadFrom(q.known, binding)
ProbeInv == \A p \in Probers : ProbeOK(mgProbe[p], mgWorker, mgPhase, mgBinding, mgReplaced, mgProc)

(* A probe that is about to fail a receipt never meets a finished rebind. *)
Settles(q, req) == q.pc = "settle" /\ q.pend # 0 /\ q.w.st = "failed" /\ q.w.gen = req[q.pend].src.gen
SettleInv ==
  \A p \in Probers :
    LET q == mgProbe[p]
    IN Settles(q, mgReq) => mgPhase[q.pend] # "ok" /\ ~(mgRb.pc = "complete" /\ mgRb.r = q.pend)

(* The rediscovery runs under the sandbox's lock: both files stay where its rebind left them. *)
RediscoveryOK(q, rb, worker, phase, synced, binding, req) ==
  q.pc # "idle" =>
    /\ rb.pc = "idle" /\ q.for # 0 /\ phase[q.for] = "ok" /\ q.for \in synced
    /\ SamePlace(binding, worker) /\ SamePlace(worker, req[q.for].dst)
RediscoveryInv == RediscoveryOK(mgProbe["refresh"], mgRb, mgWorker, mgPhase, mgSynced, mgBinding, mgReq)

Accounts(r, phase, synced) == phase[r] \in LatePhases \/ (phase[r] = "ok" /\ r \notin synced)
LagInv ==
  mgProc.st # "dead" /\ mgBinding.gen > 0 /\ ~SamePlace(mgBinding, mgWorker)
  => \E r \in Rebinds : /\ SamePlace(mgBinding, mgReq[r].src) /\ SamePlace(mgWorker, mgReq[r].dst)
                        /\ Accounts(r, mgPhase, mgSynced)

MgInv ==
  MgTypes /\ RequestInv /\ ReceiptInv /\ HelperInv /\ ProbeInv /\ SettleInv /\ RediscoveryInv /\ LagInv

(* A generation between two others that is not the later one is before it. *)
LEMMA StrictlyBehind ==
  ASSUME NEW b \in Nat, NEW w \in Nat, NEW m \in Nat, b <= w, w <= m, w # m
  PROVE  w < m /\ b < m
BY SMT

(* The first of a helper's plans is one of them. *)
LEMMA FirstIsOne ==
  ASSUME NEW todo \in SUBSET Rebinds, todo # {}
  PROVE  First(todo) \in todo
<1> DEFINE R == {ss \in Nat \X Nat : ss[1] < ss[2]}
<1>1. IsWellFoundedOn(R, Nat)
      BY NatLessThanWellFounded DEF OpToRel
<1>2. todo \subseteq Nat
      BY MigAssumption
<1>3. ASSUME NEW r \in Nat, NEW q \in Nat, <<q, r>> \notin R PROVE r <= q
      BY <1>3
<1> HIDE DEF R
<1>4. PICK r \in todo : \A q \in todo : ~(<<q, r>> \in R)
      BY <1>1, <1>2, WFMin, Zenon
<1>5. ASSUME NEW q \in todo PROVE r <= q
      BY <1>2, <1>3, <1>4, Zenon
<1> QED BY <1>5 DEF First

LEMMA PlaceIs ==
  ASSUME NEW x, NEW s \in MgPlaces
  PROVE  Place(x) = s <=> SamePlace(x, s)
BY DEF Place, SamePlace, MgPlaces

LEMMA SamePlaces ==
  ASSUME NEW x, NEW y
  PROVE  Place(x) = Place(y) <=> SamePlace(x, y)
BY DEF Place, SamePlace

LEMMA EmptyHelpers ==
  /\ NoRebind \in MgHelpers /\ NoRebind.pc = "idle" /\ NoRebind.w.st = "none"
  /\ NoProbe \in MgProbes /\ NoProbe.pc = "idle" /\ NoProbe.w.st = "none" /\ NoProbe.w.gen = 0
  /\ NoProbe.todo = {} /\ NoProbe.pend = 0 /\ NoProbe.known = Nowhere
  /\ Nowhere \in MgPlaces /\ Nowhere.gen = 0 /\ Nowhere.dev = 0
<1>1. 0 \in MgDevices
      BY DEF MgDevices
<1>2. NoRebind \in MgHelpers /\ NoRebind.pc = "idle" /\ NoRebind.w.st = "none"
      BY <1>1 DEF NoRebind, MgHelpers, MgWorkers
<1>3. Nowhere \in MgPlaces /\ Nowhere.gen = 0 /\ Nowhere.dev = 0
      BY <1>1 DEF Nowhere, MgPlaces
<1>4. NoRebind.w \in MgWorkers /\ NoRebind.w.gen = 0 /\ NoRebind.w.st = "none"
      BY <1>1 DEF NoRebind, MgWorkers
<1>5. /\ NoProbe \in MgProbes /\ NoProbe.pc = "idle" /\ NoProbe.w = NoRebind.w
      /\ NoProbe.todo = {} /\ NoProbe.pend = 0 /\ NoProbe.known = Nowhere
      BY <1>3, <1>4 DEF NoProbe, MgProbes
<1> QED BY <1>2, <1>3, <1>4, <1>5

(* A helper that does not run has nothing to keep. *)
LEMMA IdleOK ==
  ASSUME NEW worker \in MgWorkers, worker.gen > 0, NEW binding \in MgBindings,
         NEW phase, NEW replaced, NEW proc, NEW head, NEW req
  PROVE  /\ ProbeOK(NoProbe, worker, phase, binding, replaced, proc)
         /\ HelperOK(NoRebind, worker, phase, head, req, binding, proc)
<1>1. HelperOK(NoRebind, worker, phase, head, req, binding, proc)
      BY EmptyHelpers DEF HelperOK, Walking
<1>2. Behind(NoProbe.w, worker)
      BY EmptyHelpers DEF Behind, MgWorkers
<1>3. ReadFrom(NoProbe.known, binding)
      BY EmptyHelpers DEF ReadFrom, MgBindings
<1> QED BY <1>1, <1>2, <1>3, EmptyHelpers DEF ProbeOK

LEMMA MgInitial == MgInit => MgInv
<1> SUFFICES ASSUME MgInit PROVE MgInv
    OBVIOUS
<1>1. MigHome \in MgDevices /\ 0 \in MgDevices
      BY DEF MgDevices
<1>2. /\ mgDriver.known = [gen |-> 1, dev |-> MigHome]
      /\ mgDriver \in MgDrivers
      BY <1>1, ZenonT(30) DEF MgInit, NewDriver, Place, MgDrivers, MgPlaces, Nowhere
<1>3. NoRequest \in MgRequests /\ Nowhere \in MgPlaces
      BY <1>1 DEF NoRequest, Nowhere, MgRequests, MgPlaces
<1>4. /\ mgWorker \in MgWorkers /\ mgWorker.gen = 1 /\ mgWorker.dev = MigHome /\ mgWorker.st = "running"
      /\ mgBinding \in MgBindings /\ mgBinding.gen = 1 /\ mgBinding.dev = MigHome
      /\ mgProc \in MgProcs /\ mgProc.gen = 1 /\ mgProc.dev = MigHome
      BY <1>1 DEF MgInit, MgWorkers, MgBindings, MgProcs
<1>5. /\ mgPhase \in [Rebinds -> MgPhases] /\ mgReq \in [Rebinds -> MgRequests]
      /\ \A r \in Rebinds : mgPhase[r] = "none" /\ mgReq[r] = NoRequest
      BY <1>3 DEF MgInit, MgPhases
<1>6. /\ mgRb = NoRebind /\ mgProbe \in [Probers -> MgProbes] /\ \A p \in Probers : mgProbe[p] = NoProbe
      BY EmptyHelpers DEF MgInit, Probers
<1>7. MgTypes
      BY <1>2, <1>4, <1>5, <1>6, EmptyHelpers DEF MgTypes, MgInit
<1>8. RequestInv
      BY <1>2, <1>4, <1>5 DEF RequestInv, ReadFrom
<1>9. ReceiptInv
      BY <1>4, <1>5 DEF ReceiptInv, ReceiptOK, Behind, SamePlace, MgInit, EarlyPhases, LatePhases
<1>10. HelperInv /\ ProbeInv
      BY <1>4, <1>6, IdleOK DEF HelperInv, ProbeInv
<1>11. SettleInv
      BY <1>6, EmptyHelpers DEF SettleInv, Settles
<1>12. RediscoveryInv
      BY <1>6, EmptyHelpers DEF RediscoveryInv, RediscoveryOK, Probers
<1>13. LagInv
      BY <1>4 DEF LagInv, SamePlace
<1> QED BY <1>7, <1>8, <1>9, <1>10, <1>11, <1>12, <1>13 DEF MgInv

-----------------------------------------------------------------------------
(* The files only move on: the worker and the binding to later generations, *)
(* receipts never out of "ok".  What a helper read stays behind them.       *)
BindsOn(b, c) == c.gen = 0 \/ (b.gen > 0 /\ b.gen <= c.gen)
PhasesKept(f, g) == \A r \in Rebinds : (f[r] = "ok" => g[r] = "ok") /\ (f[r] # "none" => g[r] # "none")
FilesMoveOn ==
  /\ Behind(mgWorker, mgWorker') /\ BindsOn(mgBinding, mgBinding') /\ PhasesKept(mgPhase, mgPhase')
  /\ mgReplaced \subseteq mgReplaced' /\ (mgProc.st = "dead" => mgProc'.st = "dead")

LEMMA FilesStay ==
  ASSUME MgTypes, UNCHANGED <<runtimeFile, bindingFile, mgProc>>
  PROVE  FilesMoveOn
BY DEF MgTypes, FilesMoveOn, runtimeFile, bindingFile, Behind, SamePlace, BindsOn, PhasesKept, MgBindings

LEMMA BindingStands ==
  ASSUME NEW b \in MgBindings
  PROVE  BindsOn(b, b)
BY DEF BindsOn, MgBindings

(* A copy that is not of an older generation is the record itself, and none is of a later one. *)
LEMMA BehindByGeneration ==
  ASSUME NEW x, NEW w, x.gen \in Nat, w.gen \in Nat, Behind(x, w)
  PROVE  x.gen <= w.gen /\ x.gen # w.gen + 1 /\ (x.gen = w.gen => SamePlace(x, w))
BY DEF Behind, SamePlace

(* A worker at the source of a request has not got through it. *)
LEMMA NotThroughAtSource ==
  ASSUME NEW r, NEW phase, NEW req \in MgRequests, NEW w, NEW head, NEW b,
         ReceiptOK(r, phase, req, w, head), Asked(req, b), w.gen = req.src.gen
  PROVE  phase # "ok"
BY DEF ReceiptOK, Asked, Behind, SamePlace, MgRequests, MgPlaces

LEMMA BehindStill ==
  ASSUME NEW x, x.gen \in Nat, NEW w \in MgWorkers, NEW v \in MgWorkers, Behind(x, w), Behind(w, v)
  PROVE  Behind(x, v)
BY DEF Behind, SamePlace, MgWorkers

LEMMA ReadFromStill ==
  ASSUME NEW s \in MgPlaces, NEW b \in MgBindings, NEW c \in MgBindings, ReadFrom(s, b), BindsOn(b, c)
  PROVE  ReadFrom(s, c)
BY DEF ReadFrom, BindsOn, MgBindings, MgPlaces

LEMMA ProbeStays ==
  ASSUME MgInv, MgTypes', FilesMoveOn, NEW p \in Probers
  PROVE  ProbeOK(mgProbe[p], mgWorker', mgPhase', mgBinding', mgReplaced', mgProc')
<1> DEFINE q == mgProbe[p]
<1>1. q \in MgProbes /\ ProbeOK(q, mgWorker, mgPhase, mgBinding, mgReplaced, mgProc)
      BY DEF MgInv, MgTypes, ProbeInv
<1>2. q.w \in MgWorkers /\ q.todo \subseteq Rebinds /\ q.known \in MgPlaces /\ q.pend \in Rebinds \cup {0}
      BY <1>1 DEF MgProbes
<1> HIDE DEF q
<1>3. Behind(q.w, mgWorker')
      BY <1>1, <1>2, BehindStill DEF MgWorkers, MgInv, MgTypes, FilesMoveOn, ProbeOK
<1>4. ReadFrom(q.known, mgBinding')
      BY <1>1, <1>2, ReadFromStill DEF MgInv, MgTypes, FilesMoveOn, ProbeOK
<1>5. (\A r \in q.todo : mgPhase'[r] = "ok") /\ (q.pend # 0 => mgPhase'[q.pend] # "none")
      BY <1>1, <1>2 DEF FilesMoveOn, PhasesKept, ProbeOK
<1>6. ProbeOK(q, mgWorker', mgPhase', mgBinding', mgReplaced', mgProc')
      BY <1>1, <1>3, <1>4, <1>5 DEF ProbeOK, FilesMoveOn
<1> QED BY <1>6 DEF q

(* One probing helper takes a step, and the other stays where it is. *)
LEMMA ProbeTurns ==
  ASSUME MgInv, MgTypes', FilesMoveOn, NEW p \in Probers, NEW n \in MgProbes, mgProbe' = [mgProbe EXCEPT ![p] = n],
         ProbeOK(n, mgWorker', mgPhase', mgBinding', mgReplaced', mgProc')
  PROVE  ProbeInv'
<1>1. mgProbe'[p] = n /\ \A o \in Probers : o # p => mgProbe'[o] = mgProbe[o]
      BY DEF MgInv, MgTypes
<1>2. \A o \in Probers : ProbeOK(mgProbe'[o], mgWorker', mgPhase', mgBinding', mgReplaced', mgProc')
      BY <1>1, ProbeStays, ZenonT(30)
<1> QED BY <1>2 DEF ProbeInv

-----------------------------------------------------------------------------
(* What a running rebind helper knows of its rebind. *)
LEMMA HelperFacts ==
  ASSUME MgInv, mgRb.pc # "idle"
  PROVE  /\ mgRb.r \in Rebinds /\ mgReq[mgRb.r] \in MgRequests /\ mgReq[mgRb.r] # NoRequest
         /\ Asked(mgReq[mgRb.r], mgBinding) /\ mgRb.w \in MgWorkers
<1>1. mgRb.r \in Rebinds /\ mgRb.w \in MgWorkers
      BY DEF MgInv, MgTypes, MgHelpers, HelperInv, HelperOK
<1> QED BY <1>1 DEF MgInv, MgTypes, HelperInv, HelperOK, RequestInv

LEMMA CompleteIsMoved ==
  ASSUME MgInv, mgRb.pc = "complete"
  PROVE  /\ mgWorker.gen = mgReq[mgRb.r].src.gen + 1 /\ mgReq[mgRb.r].src.gen \in Nat
         /\ mgWorker.gen # mgReq[mgRb.r].src.gen
<1>1. SamePlace(mgWorker, mgReq[mgRb.r].dst)
      BY DEF MgInv, HelperInv, HelperOK, Walking, LatePhases
<1>2. Asked(mgReq[mgRb.r], mgBinding) /\ mgReq[mgRb.r] \in MgRequests
      BY HelperFacts
<1> QED BY <1>1, <1>2 DEF SamePlace, Asked, MgRequests, MgPlaces


-----------------------------------------------------------------------------
(* A step of a probing helper that reads: the files, the worker and the rebind *)
(* stay, and what the helper now holds was read from them.                     *)
LEMMA QuietProbe ==
  ASSUME MgInv, UNCHANGED <<runtimeFile, bindingFile, mgReq, mgProc, mgRb>>,
         NEW p \in Probers, NEW n \in MgProbes, mgProbe' = [mgProbe EXCEPT ![p] = n],
         ProbeOK(n, mgWorker, mgPhase, mgBinding, mgReplaced, mgProc),
         Settles(n, mgReq) => mgPhase[n.pend] # "ok" /\ ~(mgRb.pc = "complete" /\ mgRb.r = n.pend),
         p = "refresh" /\ n.pc # "idle" => mgProbe[p].pc # "idle" /\ n.for = mgProbe[p].for,
         mgDriver' \in MgDrivers, ReadFrom(mgDriver'.known, mgBinding)
  PROVE  MgInv'
<1>1. /\ mgWorker' = mgWorker /\ mgPhase' = mgPhase /\ mgHead' = mgHead /\ mgSynced' = mgSynced
      /\ mgBinding' = mgBinding /\ mgReplaced' = mgReplaced /\ mgReq' = mgReq /\ mgProc' = mgProc /\ mgRb' = mgRb
      BY DEF runtimeFile, bindingFile
<1>2. MgTypes'
      BY <1>1, ZenonT(30) DEF MgInv, MgTypes
<1>3. RequestInv' /\ ReceiptInv' /\ HelperInv' /\ LagInv'
      BY <1>1, ZenonT(30) DEF MgInv, RequestInv, ReceiptInv, HelperInv, LagInv
<1>4. FilesMoveOn
      BY FilesStay DEF MgInv
<1>5. ProbeInv'
      BY <1>1, <1>2, <1>4, ProbeTurns, ZenonT(30)
<1>6. mgProbe'[p] = n /\ \A o \in Probers : o # p => mgProbe'[o] = mgProbe[o]
      BY ZenonT(30) DEF MgInv, MgTypes
<1>7. SettleInv'
      BY <1>1, <1>6, ZenonT(30) DEF MgInv, SettleInv
<1>8. RediscoveryInv'
  <2>1. CASE p = "refresh"
        BY <1>1, <1>6, <2>1, SMTT(30) DEF MgInv, RediscoveryInv, RediscoveryOK, Probers
  <2>2. CASE p # "refresh"
        BY <1>1, <1>6, <2>2 DEF MgInv, RediscoveryInv, Probers
  <2> QED BY <2>1, <2>2, ZenonT(30)
<1> QED BY <1>2, <1>3, <1>5, <1>7, <1>8, ZenonT(30) DEF MgInv

(* A probe gives up. *)
LEMMA ProbeFailsKeeps ==
  ASSUME MgInv, NEW p \in Probers, ProbeFails(p), UNCHANGED <<runtimeFile, bindingFile, mgReq, mgProc, mgRb>>
  PROVE  MgInv'
<1>1. mgProbe' = [mgProbe EXCEPT ![p] = NoProbe]
      BY DEF ProbeFails
<1>2. mgDriver' \in MgDrivers /\ mgDriver'.known = mgDriver.known
  <2>1. mgDriver' = mgDriver \/ mgDriver' = [mgDriver EXCEPT !.avail = FALSE]
        BY Zenon DEF ProbeFails
  <2>2. mgDriver \in MgDrivers
        BY DEF MgInv, MgTypes
  <2> QED BY <2>1, <2>2, ZenonT(30) DEF MgDrivers
<1>3. ProbeOK(NoProbe, mgWorker, mgPhase, mgBinding, mgReplaced, mgProc)
      BY IdleOK DEF MgInv, MgTypes, ReceiptInv
<1>4. ReadFrom(mgDriver'.known, mgBinding)
      BY <1>2 DEF MgInv, RequestInv
<1> QED BY <1>1, <1>2, <1>3, <1>4, EmptyHelpers, QuietProbe, ZenonT(30) DEF Settles

(* A probe moves on without reading anything. *)
LEMMA ProbeAtKeeps ==
  ASSUME MgInv, NEW p \in Probers, NEW pc, ProbeAt(p, pc), mgProbe[p].pc # "idle" \/ p = "poll",
         pc \in {"snapshot", "again", "read"},
         UNCHANGED <<runtimeFile, bindingFile, mgReq, mgProc, mgRb, mgDriver>>
  PROVE  MgInv'
<1> DEFINE n == [mgProbe[p] EXCEPT !.pc = pc]
<1>1. mgProbe' = [mgProbe EXCEPT ![p] = n]
      BY DEF ProbeAt
<1>2. mgProbe[p] \in MgProbes /\ ProbeOK(mgProbe[p], mgWorker, mgPhase, mgBinding, mgReplaced, mgProc)
      BY DEF MgInv, MgTypes, ProbeInv
<1>3. /\ n \in MgProbes /\ n.pc = pc /\ n.w = mgProbe[p].w /\ n.todo = mgProbe[p].todo /\ n.pend = mgProbe[p].pend
      /\ n.known = mgProbe[p].known /\ n.for = mgProbe[p].for
      BY <1>2, ZenonT(30) DEF MgProbes
<1> HIDE DEF n
<1>4. ProbeOK(n, mgWorker, mgPhase, mgBinding, mgReplaced, mgProc) /\ ~Settles(n, mgReq)
      BY <1>2, <1>3 DEF ProbeOK, Settles
<1>5. mgDriver' \in MgDrivers /\ ReadFrom(mgDriver'.known, mgBinding)
      BY DEF MgInv, MgTypes, RequestInv
<1>6. p = "refresh" /\ n.pc # "idle" => mgProbe[p].pc # "idle" /\ n.for = mgProbe[p].for
      BY <1>3
<1> QED BY <1>1, <1>3, <1>4, <1>5, <1>6, QuietProbe, ZenonT(30)

LEMMA PollKeeps == ASSUME MgInv, Poll PROVE MgInv'
<1>1. "poll" \in Probers
      BY DEF Probers
<1> QED BY <1>1, ProbeAtKeeps DEF Poll, probeFrame

LEMMA SnapshotKeeps == ASSUME MgInv, NEW p \in Probers, ProbeSnapshot(p) PROVE MgInv'
<1> DEFINE pend == IF Unresolved THEN mgHead ELSE 0
           pc == IF mgWorker.st \in {"failed", "terminated"} THEN "settle" ELSE "status"
           n == [mgProbe[p] EXCEPT !.w = mgWorker, !.pend = pend, !.pc = pc]
<1>1. /\ mgProbe[p].pc = "snapshot" /\ mgProbe' = [mgProbe EXCEPT ![p] = n]
      /\ UNCHANGED <<runtimeFile, bindingFile, mgReq, mgProc, mgRb, mgDriver>>
      BY ZenonT(30) DEF ProbeSnapshot, probeFrame, MgInv, MgTypes
<1>2. mgProbe[p] \in MgProbes /\ ProbeOK(mgProbe[p], mgWorker, mgPhase, mgBinding, mgReplaced, mgProc)
      BY DEF MgInv, MgTypes, ProbeInv
<1>3. pend \in Rebinds \cup {0} /\ (pend # 0 => mgPhase[pend] \notin {"ok", "failed"} /\ pend = mgHead)
      BY DEF Unresolved, Completed, MgInv, MgTypes
<1>4. mgWorker \in MgWorkers /\ pc \in {"settle", "status"}
      BY DEF MgInv, MgTypes
<1>5. /\ n \in MgProbes /\ n.pc = pc /\ n.w = mgWorker /\ n.todo = mgProbe[p].todo /\ n.pend = pend
      /\ n.known = mgProbe[p].known /\ n.for = mgProbe[p].for
      BY <1>2, <1>3, <1>4, ZenonT(30) DEF MgProbes
<1> HIDE DEF n, pc
<1>6. pend # 0 => mgPhase[pend] # "none"
      BY <1>3 DEF MgInv, ReceiptInv
<1>7. mgRb.pc = "complete" /\ mgRb.r = pend /\ pend # 0 => mgWorker.gen # mgReq[pend].src.gen
      BY <1>3, <1>6, CompleteIsMoved, ZenonT(30)
<1>8. ProbeOK(n, mgWorker, mgPhase, mgBinding, mgReplaced, mgProc)
  <2>1. Behind(mgWorker, mgWorker) /\ (mgWorker.st = "failed" => mgProc.st = "dead")
        BY DEF Behind, SamePlace, MgInv, ReceiptInv
  <2> QED BY <1>2, <1>4, <1>5, <1>6, <2>1 DEF ProbeOK
<1>9. Settles(n, mgReq) => mgPhase[n.pend] # "ok" /\ ~(mgRb.pc = "complete" /\ mgRb.r = n.pend)
      BY <1>3, <1>5, <1>7 DEF Settles
<1>10. mgDriver' \in MgDrivers /\ ReadFrom(mgDriver'.known, mgBinding)
      BY <1>1 DEF MgInv, MgTypes, RequestInv
<1>11. mgProbe[p].pc # "idle" /\ n.for = mgProbe[p].for
      BY <1>1, <1>5
<1> QED BY <1>1, <1>5, <1>8, <1>9, <1>10, <1>11, QuietProbe, ZenonT(30)

LEMMA StatusKeeps == ASSUME MgInv, NEW p \in Probers, ProbeStatus(p) PROVE MgInv'
<1>1. /\ mgProbe[p].pc = "status" /\ UNCHANGED <<runtimeFile, bindingFile, mgReq, mgProc, mgRb>>
      BY DEF ProbeStatus, probeFrame
<1>2. CASE ProbeFails(p)
      BY <1>1, <1>2, ProbeFailsKeeps
<1>3. CASE \E st, dev : /\ mgProbe' = [mgProbe EXCEPT ![p].pc = "refresh",
                                                      ![p].w = [mgProbe[p].w EXCEPT !.st = st, !.dev = dev]]
                        /\ \/ mgProc.st = "dead" /\ st = "failed" /\ dev = mgProbe[p].w.dev
                           \/ mgProc.gen = mgProbe[p].w.gen /\ st = Reported(mgProc.st) /\ dev = mgProc.dev
                        /\ UNCHANGED mgDriver
  <2>1. PICK st, dev : /\ mgProbe' = [mgProbe EXCEPT ![p].pc = "refresh",
                                                     ![p].w = [mgProbe[p].w EXCEPT !.st = st, !.dev = dev]]
                       /\ \/ mgProc.st = "dead" /\ st = "failed" /\ dev = mgProbe[p].w.dev
                          \/ mgProc.gen = mgProbe[p].w.gen /\ st = Reported(mgProc.st) /\ dev = mgProc.dev
                       /\ UNCHANGED mgDriver
        BY <1>3, ZenonT(30)
  <2> DEFINE w == [mgProbe[p].w EXCEPT !.st = st, !.dev = dev]
             n == [mgProbe[p] EXCEPT !.pc = "refresh", !.w = w]
  <2>2. mgProbe[p] \in MgProbes /\ ProbeOK(mgProbe[p], mgWorker, mgPhase, mgBinding, mgReplaced, mgProc)
        BY DEF MgInv, MgTypes, ProbeInv
  <2>3. mgProbe[p].w \in MgWorkers /\ mgProc \in MgProcs /\ mgWorker \in MgWorkers
        BY <2>2 DEF MgProbes, MgInv, MgTypes
  <2>4. st \in {"failed", "running", "sleeping", "terminated"} /\ dev \in MgDevices /\ (st = "failed" => mgProc.st = "dead")
        BY <2>1, <2>3 DEF Reported, MgWorkers, MgProcs
  <2>5. w \in MgWorkers /\ w.st = st /\ w.dev = dev /\ w.gen = mgProbe[p].w.gen
        BY <2>3, <2>4, ZenonT(30) DEF MgWorkers
  <2>6. Behind(w, mgWorker)
    <3>1. Behind(mgProc, mgWorker) /\ Behind(mgProbe[p].w, mgWorker)
          BY <2>2 DEF ProbeOK, MgInv, ReceiptInv
    <3> QED BY <2>1, <2>5, <3>1, ZenonT(30) DEF Behind, SamePlace
  <2>7. mgProbe' = [mgProbe EXCEPT ![p] = n]
        BY <2>1, ZenonT(30) DEF MgInv, MgTypes
  <2> HIDE DEF w
  <2>8. /\ n \in MgProbes /\ n.pc = "refresh" /\ n.w = w /\ n.todo = mgProbe[p].todo /\ n.pend = mgProbe[p].pend
        /\ n.known = mgProbe[p].known /\ n.for = mgProbe[p].for
        BY <2>2, <2>5, ZenonT(30) DEF MgProbes
  <2> HIDE DEF n
  <2>9. ProbeOK(n, mgWorker, mgPhase, mgBinding, mgReplaced, mgProc) /\ ~Settles(n, mgReq)
        BY <2>2, <2>4, <2>5, <2>6, <2>8 DEF ProbeOK, Settles
  <2>10. mgDriver' \in MgDrivers /\ ReadFrom(mgDriver'.known, mgBinding)
        BY <2>1 DEF MgInv, MgTypes, RequestInv
  <2> QED BY <1>1, <2>7, <2>8, <2>9, <2>10, QuietProbe, ZenonT(30)
<1> QED BY <1>2, <1>3, ZenonT(30) DEF ProbeStatus

(* The second snapshot, and the receipts that wait for their binding. *)
LEMMA AgainKeeps == ASSUME MgInv, NEW p \in Probers, ProbeAgain(p) PROVE MgInv'
<1> DEFINE n == [mgProbe[p] EXCEPT !.pc = "pending", !.w = mgWorker]
<1>1. /\ mgProbe[p].pc = "again" /\ mgProbe' = [mgProbe EXCEPT ![p] = n]
      /\ UNCHANGED <<runtimeFile, bindingFile, mgReq, mgProc, mgRb, mgDriver>>
      BY ZenonT(30) DEF ProbeAgain, probeFrame, MgInv, MgTypes
<1>2. /\ mgProbe[p] \in MgProbes /\ ProbeOK(mgProbe[p], mgWorker, mgPhase, mgBinding, mgReplaced, mgProc)
      /\ mgWorker \in MgWorkers
      BY DEF MgInv, MgTypes, ProbeInv
<1>3. /\ n \in MgProbes /\ n.pc = "pending" /\ n.w = mgWorker /\ n.todo = mgProbe[p].todo /\ n.pend = mgProbe[p].pend
      /\ n.known = mgProbe[p].known /\ n.for = mgProbe[p].for
      BY <1>2, ZenonT(30) DEF MgProbes
<1> HIDE DEF n
<1>4. ProbeOK(n, mgWorker, mgPhase, mgBinding, mgReplaced, mgProc) /\ ~Settles(n, mgReq)
  <2>1. Behind(mgWorker, mgWorker) /\ (mgWorker.st = "failed" => mgProc.st = "dead")
        BY DEF Behind, SamePlace, MgInv, ReceiptInv
  <2> QED BY <1>2, <1>3, <2>1 DEF ProbeOK, Settles
<1>5. mgDriver' \in MgDrivers /\ ReadFrom(mgDriver'.known, mgBinding)
      BY <1>1 DEF MgInv, MgTypes, RequestInv
<1> QED BY <1>1, <1>3, <1>4, <1>5, QuietProbe, ZenonT(30)

LEMMA PendingKeeps == ASSUME MgInv, NEW p \in Probers, ProbePending(p) PROVE MgInv'
<1> DEFINE n == [mgProbe[p] EXCEPT !.pc = "replace", !.todo = BindingSyncPending]
<1>1. /\ mgProbe[p].pc = "pending" /\ mgProbe' = [mgProbe EXCEPT ![p] = n]
      /\ UNCHANGED <<runtimeFile, bindingFile, mgReq, mgProc, mgRb, mgDriver>>
      BY ZenonT(30) DEF ProbePending, probeFrame, MgInv, MgTypes
<1>2. mgProbe[p] \in MgProbes /\ ProbeOK(mgProbe[p], mgWorker, mgPhase, mgBinding, mgReplaced, mgProc)
      BY DEF MgInv, MgTypes, ProbeInv
<1>3. BindingSyncPending \subseteq Rebinds /\ \A r \in BindingSyncPending : mgPhase[r] = "ok"
      BY DEF BindingSyncPending
<1>4. /\ n \in MgProbes /\ n.pc = "replace" /\ n.w = mgProbe[p].w /\ n.todo = BindingSyncPending
      /\ n.pend = mgProbe[p].pend /\ n.known = mgProbe[p].known /\ n.for = mgProbe[p].for
      BY <1>2, <1>3, ZenonT(30) DEF MgProbes
<1> HIDE DEF n
<1>5. ProbeOK(n, mgWorker, mgPhase, mgBinding, mgReplaced, mgProc) /\ ~Settles(n, mgReq)
      BY <1>2, <1>3, <1>4 DEF ProbeOK, Settles
<1>6. mgDriver' \in MgDrivers /\ ReadFrom(mgDriver'.known, mgBinding)
      BY <1>1 DEF MgInv, MgTypes, RequestInv
<1> QED BY <1>1, <1>4, <1>5, <1>6, QuietProbe, ZenonT(30)

LEMMA DiscoveredKeeps == ASSUME MgInv, RuntimeDiscovered PROVE MgInv'
<1>1. "poll" \in Probers
      BY DEF Probers
<1>2. ProbeFails("poll") /\ UNCHANGED <<runtimeFile, bindingFile, mgReq, mgProc, mgRb>>
      BY DEF RuntimeDiscovered, ProbeFails, probeFrame
<1> QED BY <1>1, <1>2, ProbeFailsKeeps

(* The driver reads the bindings, and keeps what it read with the receipts. *)
LEMMA ReadKeeps == ASSUME MgInv, ProbeRead PROVE MgInv'
<1>1. "poll" \in Probers /\ mgProbe["poll"].pc = "read" /\ UNCHANGED <<runtimeFile, bindingFile, mgReq, mgProc, mgRb>>
      BY DEF Probers, ProbeRead, probeFrame
<1>2. CASE ProbeFails("poll")
      BY <1>1, <1>2, ProbeFailsKeeps
<1>3. CASE \E known \in {Place(mgBinding), Nowhere} :
             /\ mgProbe' = [mgProbe EXCEPT !["poll"].pc = "receipts", !["poll"].known = known] /\ UNCHANGED mgDriver
  <2>1. PICK known \in {Place(mgBinding), Nowhere} :
             /\ mgProbe' = [mgProbe EXCEPT !["poll"].pc = "receipts", !["poll"].known = known] /\ UNCHANGED mgDriver
        BY <1>3, ZenonT(30)
  <2> DEFINE n == [mgProbe["poll"] EXCEPT !.pc = "receipts", !.known = known]
  <2>2. /\ mgProbe["poll"] \in MgProbes
        /\ ProbeOK(mgProbe["poll"], mgWorker, mgPhase, mgBinding, mgReplaced, mgProc)
        BY <1>1 DEF MgInv, MgTypes, ProbeInv
  <2>3. known \in MgPlaces /\ ReadFrom(known, mgBinding)
    <3>1. CASE known = Place(mgBinding)
          BY <3>1, SMTT(30) DEF Place, ReadFrom, MgPlaces, MgInv, MgTypes, MgBindings, RequestInv
    <3>2. CASE known = Nowhere
          BY <3>2, EmptyHelpers DEF ReadFrom, MgInv, MgTypes, MgBindings
    <3> QED BY <3>1, <3>2, ZenonT(30)
  <2>4. mgProbe' = [mgProbe EXCEPT !["poll"] = n]
        BY <1>1, <2>1, ZenonT(30) DEF MgInv, MgTypes
  <2>5. /\ n \in MgProbes /\ n.pc = "receipts" /\ n.w = mgProbe["poll"].w /\ n.todo = mgProbe["poll"].todo
        /\ n.pend = mgProbe["poll"].pend /\ n.known = known
        BY <2>2, <2>3, ZenonT(30) DEF MgProbes
  <2> HIDE DEF n
  <2>6. ProbeOK(n, mgWorker, mgPhase, mgBinding, mgReplaced, mgProc) /\ ~Settles(n, mgReq)
        BY <2>2, <2>3, <2>5 DEF ProbeOK, Settles
  <2>7. mgDriver' \in MgDrivers /\ ReadFrom(mgDriver'.known, mgBinding)
        BY <2>1 DEF MgInv, MgTypes, RequestInv
  <2> QED BY <1>1, <2>4, <2>5, <2>6, <2>7, QuietProbe, ZenonT(30)
<1> QED BY <1>2, <1>3 DEF ProbeRead

LEMMA ReceiptsKeeps == ASSUME MgInv, ProbeReceipts PROVE MgInv'
<1>1. /\ "poll" \in Probers /\ UNCHANGED <<runtimeFile, bindingFile, mgReq, mgProc, mgRb>>
      /\ mgProbe' = [mgProbe EXCEPT !["poll"] = NoProbe]
      BY DEF Probers, ProbeReceipts, probeFrame
<1>2. PICK readable \in BOOLEAN :
        mgDriver' = [mgDriver EXCEPT !.known = mgProbe["poll"].known, !.avail = TRUE,
                                     !.recovered = [r \in Rebinds |-> IF readable THEN Published(r) ELSE "none"]]
      BY ZenonT(30) DEF ProbeReceipts
<1>3. mgProbe["poll"].known \in MgPlaces /\ ReadFrom(mgProbe["poll"].known, mgBinding)
      BY <1>1 DEF MgInv, MgTypes, MgProbes, ProbeInv, ProbeOK
<1>4. \A r \in Rebinds : Published(r) \in {"none", "ok", "failed"}
      BY ZenonT(30) DEF Published
<1>5. mgDriver' \in MgDrivers /\ mgDriver'.known = mgProbe["poll"].known
      BY <1>2, <1>3, <1>4, ZenonT(30) DEF MgInv, MgTypes, MgDrivers
<1>6. ProbeOK(NoProbe, mgWorker, mgPhase, mgBinding, mgReplaced, mgProc)
      BY IdleOK, ZenonT(30) DEF MgInv, MgTypes, ReceiptInv
<1> QED BY <1>1, <1>3, <1>5, <1>6, EmptyHelpers, QuietProbe, ZenonT(30) DEF Settles

(* The rediscovery ends: the driver knows the rebind's target, where the binding is. *)
LEMMA RediscoveredKeeps == ASSUME MgInv, Rediscovered PROVE MgInv'
<1> DEFINE r == mgProbe["refresh"].for
<1>1. /\ "refresh" \in Probers /\ UNCHANGED <<runtimeFile, bindingFile, mgReq, mgProc, mgRb>>
      /\ mgProbe["refresh"].pc = "read"
      BY ZenonT(30) DEF Probers, Rediscovered, probeFrame
<1>2. CASE ProbeFails("refresh")
      BY <1>1, <1>2, ProbeFailsKeeps
<1>3. CASE /\ mgProbe' = [mgProbe EXCEPT !["refresh"] = NoProbe]
           /\ mgDriver' = [mgDriver EXCEPT !.known = mgReq[r].dst, !.avail = TRUE, !.done = @ \cup {r}]
  <2>1. r \in Rebinds /\ SamePlace(mgBinding, mgReq[r].dst) /\ mgReq[r].dst \in MgPlaces
    <3>1. mgProbe["refresh"] \in MgProbes
          BY <1>1, ZenonT(30) DEF MgInv, MgTypes
    <3>2. r \in Rebinds \cup {0}
          BY <3>1 DEF MgProbes
    <3>3. r # 0 /\ SamePlace(mgBinding, mgReq[r].dst)
          BY <1>1 DEF MgInv, RediscoveryInv, RediscoveryOK, SamePlace
    <3> QED BY <3>2, <3>3 DEF MgInv, MgTypes, MgRequests
  <2> HIDE DEF r
  <2>2. mgDriver' \in MgDrivers /\ mgDriver'.known = mgReq[r].dst
        BY <1>3, <2>1, ZenonT(30) DEF MgInv, MgTypes, MgDrivers
  <2>3. ReadFrom(mgReq[r].dst, mgBinding)
        BY <2>1, SMTT(30) DEF ReadFrom, SamePlace, MgInv, MgTypes, MgBindings, RequestInv
  <2>4. ProbeOK(NoProbe, mgWorker, mgPhase, mgBinding, mgReplaced, mgProc)
        BY IdleOK DEF MgInv, MgTypes, ReceiptInv
  <2> QED BY <1>1, <1>3, <2>2, <2>3, <2>4, EmptyHelpers, QuietProbe, ZenonT(30) DEF Settles
<1> QED BY <1>2, <1>3 DEF Rediscovered

-----------------------------------------------------------------------------
(* A step of the rebind helper that leaves the files alone. *)
LEMMA HelperTurns ==
  ASSUME MgInv, UNCHANGED <<runtimeFile, bindingFile, mgReq, mgProbe, mgDriver>>,
         mgProc' \in MgProcs, Behind(mgProc', mgWorker), mgProc'.st = "dead" <=> mgProc.st = "dead",
         mgRb' \in MgHelpers, HelperOK(mgRb', mgWorker, mgPhase, mgHead, mgReq, mgBinding, mgProc'),
         mgRb'.pc = "complete" => mgRb = mgRb' \/ mgProc.st # "dead",
         mgRb'.pc # "idle" => mgRb.pc # "idle"
  PROVE  MgInv'
<1>1. /\ mgWorker' = mgWorker /\ mgPhase' = mgPhase /\ mgHead' = mgHead /\ mgSynced' = mgSynced
      /\ mgBinding' = mgBinding /\ mgReplaced' = mgReplaced /\ mgReq' = mgReq /\ mgProbe' = mgProbe
      /\ mgDriver' = mgDriver
      BY DEF runtimeFile, bindingFile
<1>2. MgTypes'
      BY <1>1, ZenonT(30) DEF MgInv, MgTypes
<1>3. RequestInv' /\ ReceiptInv' /\ HelperInv' /\ LagInv'
      BY <1>1, ZenonT(30) DEF MgInv, RequestInv, ReceiptInv, HelperInv, LagInv
<1>4. ProbeInv'
      BY <1>1, SMTT(30) DEF MgInv, ProbeInv, ProbeOK
<1>5. SettleInv'
  <2> SUFFICES ASSUME NEW p \in Probers, Settles(mgProbe[p], mgReq)
               PROVE  mgPhase[mgProbe[p].pend] # "ok" /\ ~(mgRb'.pc = "complete" /\ mgRb'.r = mgProbe[p].pend)
      BY <1>1, ZenonT(30) DEF SettleInv
  <2>1. mgProc.st = "dead"
        BY ZenonT(30) DEF Settles, MgInv, ProbeInv, ProbeOK
  <2> QED BY <2>1 DEF MgInv, SettleInv
<1>6. RediscoveryInv'
      BY <1>1 DEF MgInv, RediscoveryInv, RediscoveryOK
<1> QED BY <1>2, <1>3, <1>4, <1>5, <1>6 DEF MgInv

LEMMA HelperFailsKeeps ==
  ASSUME MgInv, HelperFails, UNCHANGED <<runtimeFile, bindingFile, mgReq, mgProbe, mgDriver>>,
         mgProc' \in MgProcs, Behind(mgProc', mgWorker), mgProc'.st = "dead" <=> mgProc.st = "dead"
  PROVE  MgInv'
<1>1. HelperOK(NoRebind, mgWorker, mgPhase, mgHead, mgReq, mgBinding, mgProc')
      BY IdleOK, ZenonT(30) DEF MgInv, MgTypes, ReceiptInv
<1> QED BY <1>1, EmptyHelpers, HelperTurns, ZenonT(30) DEF HelperFails

LEMMA ProcFacts == MgInv => mgProc \in MgProcs /\ Behind(mgProc, mgWorker)
BY DEF MgInv, MgTypes, ReceiptInv

LEMMA VerifyKeeps == ASSUME MgInv, VerifyRebind PROVE MgInv'
<1>1. /\ mgRb.pc \in {"verify", "resume"} /\ UNCHANGED <<runtimeFile, bindingFile, mgReq, mgProbe, mgDriver, mgProc>>
      BY DEF VerifyRebind
<1>2. CASE HelperFails
      BY <1>1, <1>2, ProcFacts, HelperFailsKeeps, ZenonT(30)
<1>3. CASE \E pc \in {"resume", "call", "fail"} : mgRb' = [mgRb EXCEPT !.pc = pc]
  <2>1. PICK pc \in {"resume", "call", "fail"} : mgRb' = [mgRb EXCEPT !.pc = pc]
        BY <1>3
  <2>2. mgRb \in MgHelpers
        BY DEF MgInv, MgTypes
  <2>3. mgRb' \in MgHelpers /\ mgRb'.pc = pc /\ mgRb'.r = mgRb.r /\ mgRb'.w = mgRb.w /\ mgRb'.phase = mgRb.phase
        BY <2>1, <2>2, ZenonT(30) DEF MgHelpers, Walking
  <2>4. HelperOK(mgRb', mgWorker, mgPhase, mgHead, mgReq, mgBinding, mgProc')
        BY <1>1, <2>3, ZenonT(30) DEF MgInv, HelperInv, HelperOK, Moving, Walking
  <2> QED BY <1>1, <2>3, <2>4, ProcFacts, HelperTurns
<1> QED BY <1>2, <1>3 DEF VerifyRebind

(* A call to the worker, or the lookup of the target. *)
LEMMA ServedFacts ==
  ASSUME MgInv, mgRb.pc = "call", mgRb.phase # "stopped", Serves(mgRb.w, mgRb.phase), Served(mgRb.w, mgRb.phase)
  PROVE  mgProc.st # "dead" /\ mgProc' \in MgProcs /\ mgProc'.st # "dead" /\ Behind(mgProc', mgWorker)
<1>1. mgRb.w \in MgWorkers /\ SamePlace(mgRb.w, mgWorker) /\ mgRb.phase \in EarlyPhases \cup LatePhases
      BY HelperFacts DEF MgInv, HelperInv, HelperOK, Moving, Walking
<1>2. mgRb.phase \in {"pending", "prepared", "checkpointed", "reconfigured", "reloaded"}
      BY <1>1, ZenonT(30) DEF EarlyPhases, LatePhases
<1>3. Reached[mgRb.phase] \in {"safe", "saved", "stopped", "loaded", "running"} /\ "dead" \notin ServedFrom[mgRb.phase]
      BY <1>2, SMTT(30) DEF Reached, ServedFrom
<1>4. mgProc.st # "dead"
      BY <1>3 DEF Serves
<1>5. mgProc' = [st |-> Reached[mgRb.phase], gen |-> mgRb.w.gen, dev |-> mgRb.w.dev]
      BY ZenonT(30) DEF Served
<1>6. mgProc' \in MgProcs /\ mgProc'.st # "dead" /\ mgProc'.gen = mgRb.w.gen /\ mgProc'.dev = mgRb.w.dev
      BY <1>1, <1>3, <1>5 DEF MgProcs, MgWorkers
<1> QED BY <1>1, <1>4, <1>6, ZenonT(30) DEF Behind, SamePlace

LEMMA AnsweredKeeps ==
  ASSUME MgInv, mgRb.pc = "call", UNCHANGED <<runtimeFile, bindingFile, mgReq, mgProbe, mgDriver>>,
         mgProc' \in MgProcs, Behind(mgProc', mgWorker), mgProc'.st = "dead" <=> mgProc.st = "dead",
         mgRb.phase # "stopped" => mgProc.st # "dead",
         mgRb' = [mgRb EXCEPT !.pc = IF mgRb.phase = "reloaded" THEN "complete" ELSE "advance",
                              !.w = AfterCall(mgRb.w, mgRb.phase, mgReq[mgRb.r].dst)]
  PROVE  MgInv'
<1> DEFINE pc == IF mgRb.phase = "reloaded" THEN "complete" ELSE "advance"
           w == AfterCall(mgRb.w, mgRb.phase, mgReq[mgRb.r].dst)
<1>1. /\ mgRb.r \in Rebinds /\ mgReq[mgRb.r] \in MgRequests /\ mgReq[mgRb.r] # NoRequest /\ mgRb.w \in MgWorkers
      BY HelperFacts
<1>2. mgReq[mgRb.r].dst \in MgPlaces
      BY <1>1, ZenonT(30) DEF MgRequests
<1>3. /\ w \in MgWorkers /\ (w.st = "failed" => mgRb.w.st = "failed")
      /\ IF mgRb.phase = "stopped" THEN SamePlace(w, mgReq[mgRb.r].dst) ELSE SamePlace(w, mgRb.w)
  <2>1. CASE mgRb.phase = "checkpointed"
        BY <1>1, <2>1 DEF AfterCall, MgWorkers, SamePlace
  <2>2. CASE mgRb.phase = "stopped"
        BY <1>2, <2>2 DEF AfterCall, MgWorkers, MgPlaces, SamePlace
  <2>3. CASE mgRb.phase = "reloaded"
        BY <1>1, <2>3, ZenonT(30) DEF AfterCall, MgWorkers, SamePlace
  <2>4. CASE mgRb.phase \notin {"checkpointed", "stopped", "reloaded"}
        BY <1>1, <2>4 DEF AfterCall, MgWorkers, SamePlace
  <2> QED BY <2>1, <2>2, <2>3, <2>4
<1>4. mgRb \in MgHelpers
      BY DEF MgInv, MgTypes
<1> HIDE DEF w
<1>5. mgRb' \in MgHelpers /\ mgRb'.pc = pc /\ mgRb'.r = mgRb.r /\ mgRb'.w = w /\ mgRb'.phase = mgRb.phase
      BY <1>3, <1>4, ZenonT(30) DEF MgHelpers, Walking, w
<1>6. /\ mgHead = mgRb.r /\ mgPhase[mgRb.r] \in {mgRb.phase, "failed"} /\ mgRb.phase \in EarlyPhases \cup LatePhases
      /\ mgRb.phase \in EarlyPhases => SamePlace(mgWorker, mgReq[mgRb.r].src)
      /\ mgRb.phase \in LatePhases => SamePlace(mgWorker, mgReq[mgRb.r].dst)
      /\ SamePlace(mgRb.w, mgWorker) /\ (mgRb.w.st = "failed" => mgProc.st = "dead")
      BY DEF MgInv, HelperInv, HelperOK, Moving, Walking
<1>7. IF Moving(mgRb') THEN SamePlace(w, mgReq[mgRb.r].dst) ELSE SamePlace(w, mgWorker)
      BY <1>3, <1>5, <1>6, ZenonT(30) DEF Moving, SamePlace
<1>8. HelperOK(mgRb', mgWorker, mgPhase, mgHead, mgReq, mgBinding, mgProc')
  <2>1. mgRb'.pc \in {"complete", "advance"} /\ (mgRb'.pc = "complete" <=> mgRb.phase = "reloaded")
        BY <1>5
  <2>2. mgRb'.r # 0 /\ mgReq[mgRb'.r] # NoRequest /\ (mgRb'.w.st = "failed" => mgProc'.st = "dead")
        BY <1>1, <1>3, <1>5, <1>6, MigAssumption
  <2> QED BY <1>5, <1>6, <1>7, <2>1, <2>2 DEF HelperOK
<1>9. mgRb'.pc = "complete" => mgProc.st # "dead"
      BY <1>5
<1> QED BY <1>5, <1>8, <1>9, HelperTurns, ZenonT(30)

LEMMA RefusedKeeps ==
  ASSUME MgInv, mgRb.pc = "call", UNCHANGED <<runtimeFile, bindingFile, mgReq, mgProbe, mgDriver, mgProc>>,
         mgRb' = [mgRb EXCEPT !.pc = "fail"]
  PROVE  MgInv'
<1>1. mgRb \in MgHelpers
      BY DEF MgInv, MgTypes
<1>2. mgRb' \in MgHelpers /\ mgRb'.pc = "fail" /\ mgRb'.r = mgRb.r /\ mgRb'.w = mgRb.w /\ mgRb'.phase = mgRb.phase
      BY <1>1 DEF MgHelpers, Walking
<1>3. HelperOK(mgRb', mgWorker, mgPhase, mgHead, mgReq, mgBinding, mgProc')
      BY <1>2 DEF MgInv, HelperInv, HelperOK, Moving, Walking
<1> QED BY <1>2, <1>3, ProcFacts, HelperTurns, ZenonT(30)

LEMMA CallKeeps == ASSUME MgInv, CallOrMutate PROVE MgInv'
<1>1. mgRb.pc = "call" /\ UNCHANGED <<runtimeFile, bindingFile, mgReq, mgProbe, mgDriver>>
      BY ZenonT(30) DEF CallOrMutate
<1>2. CASE UNCHANGED mgProc /\ HelperFails
      BY <1>1, <1>2, ProcFacts, HelperFailsKeeps, ZenonT(30)
<1>3. CASE UNCHANGED mgProc /\ mgRb' = [mgRb EXCEPT !.pc = "fail"]
      BY <1>1, <1>3, RefusedKeeps, ZenonT(30)
<1>4. CASE /\ UNCHANGED mgProc /\ mgRb.phase = "stopped"
           /\ mgRb' = [mgRb EXCEPT !.pc = IF mgRb.phase = "reloaded" THEN "complete" ELSE "advance",
                                   !.w = AfterCall(mgRb.w, mgRb.phase, mgReq[mgRb.r].dst)]
      BY <1>1, <1>4, ProcFacts, AnsweredKeeps, ZenonT(30)
<1>5. CASE mgRb.phase # "stopped" /\ Serves(mgRb.w, mgRb.phase) /\ Served(mgRb.w, mgRb.phase) /\ HelperFails
      BY <1>1, <1>5, ServedFacts, HelperFailsKeeps, ZenonT(30)
<1>6. CASE /\ mgRb.phase # "stopped" /\ Serves(mgRb.w, mgRb.phase) /\ Served(mgRb.w, mgRb.phase)
           /\ mgRb' = [mgRb EXCEPT !.pc = IF mgRb.phase = "reloaded" THEN "complete" ELSE "advance",
                                   !.w = AfterCall(mgRb.w, mgRb.phase, mgReq[mgRb.r].dst)]
      BY <1>1, <1>6, ServedFacts, AnsweredKeeps, ZenonT(30)
<1> QED BY <1>2, <1>3, <1>4, <1>5, <1>6, ZenonT(30) DEF CallOrMutate

-----------------------------------------------------------------------------
(* A rebind that was never asked for has no receipt. *)
LEMMA UnaskedHasNone ==
  ASSUME MgInv, NEW r \in Rebinds, mgReq[r] = NoRequest
  PROVE  mgPhase[r] = "none" /\ r \notin mgReplaced
<1>1. mgReq[r].src.gen = 0
      BY DEF NoRequest, Nowhere
<1>2. mgPhase[r] = "none"
      BY <1>1 DEF MgInv, RequestInv, Asked
<1> QED BY <1>2, ZenonT(30) DEF MgInv, ReceiptInv

LEMMA StartedHelper ==
  ASSUME MgInv, NEW r \in Rebinds, mgRb' = [NoRebind EXCEPT !.pc = "begin", !.r = r], NEW req, req[r] # NoRequest
  PROVE  /\ mgRb' \in MgHelpers /\ mgRb'.pc = "begin" /\ mgRb'.r = r
         /\ HelperOK(mgRb', mgWorker, mgPhase, mgHead, req, mgBinding, mgProc)
<1>1. mgRb' \in MgHelpers /\ mgRb'.pc = "begin" /\ mgRb'.r = r /\ mgRb'.w.st = "none"
      BY EmptyHelpers, ZenonT(30) DEF MgHelpers, Walking
<1>2. r # 0
      BY MigAssumption, ZenonT(30)
<1> QED BY <1>1, <1>2, ZenonT(30) DEF HelperOK, Walking

LEMMA StartKeeps == ASSUME MgInv, NEW r \in Rebinds, StartRebind(r) PROVE MgInv'
<1> DEFINE known == mgDriver.known
           asked == MgRequest(r, known)
<1>1. /\ mgRb.pc = "idle" /\ mgProbe["refresh"].pc = "idle" /\ known # Nowhere
      /\ mgRb' = [NoRebind EXCEPT !.pc = "begin", !.r = r]
      /\ UNCHANGED <<runtimeFile, bindingFile, mgProc, mgProbe, mgDriver>>
      BY ZenonT(30) DEF StartRebind, Unlocked
<1>2. /\ mgWorker' = mgWorker /\ mgPhase' = mgPhase /\ mgHead' = mgHead /\ mgSynced' = mgSynced
      /\ mgBinding' = mgBinding /\ mgReplaced' = mgReplaced /\ mgProc' = mgProc /\ mgProbe' = mgProbe
      /\ mgDriver' = mgDriver
      BY <1>1, ZenonT(30) DEF runtimeFile, bindingFile
<1>3. known \in MgPlaces /\ known.gen > 0 /\ (mgBinding.gen > 0 => known.gen <= mgBinding.gen)
  <2>1. known \in MgPlaces /\ ReadFrom(known, mgBinding)
        BY ZenonT(30) DEF MgInv, MgTypes, MgDrivers, RequestInv
  <2>2. known.gen # 0
        BY <1>1, <2>1, ZenonT(30) DEF ReadFrom, MgPlaces, Nowhere
  <2> QED BY <2>1, <2>2 DEF ReadFrom, MgPlaces
<1>4. /\ asked \in MgRequests /\ asked.src = known /\ asked.dst.gen = known.gen + 1 /\ asked # NoRequest
  <2>1. MigTarget[r] \in MgDevices
        BY ZenonT(30) DEF MgDevices
  <2>2. asked \in MgRequests /\ asked.src = known /\ asked.dst.gen = known.gen + 1
        BY <1>3, <2>1 DEF MgRequest, MgRequests, MgPlaces
  <2> QED BY <1>3, <2>2, SMTT(30) DEF NoRequest, Nowhere
<1> HIDE DEF asked, known
<1>5. CASE mgReq[r].src = known /\ UNCHANGED mgReq
  <2>1. mgReq[r] # NoRequest
        BY <1>1, <1>5, SMTT(30) DEF NoRequest
  <2>2. /\ mgRb' \in MgHelpers /\ mgRb'.pc = "begin"
        /\ HelperOK(mgRb', mgWorker, mgPhase, mgHead, mgReq, mgBinding, mgProc)
        BY <1>1, <2>1, StartedHelper, ZenonT(30)
  <2>3. MgTypes' /\ RequestInv' /\ ReceiptInv' /\ HelperInv' /\ LagInv' /\ ProbeInv'
        BY <1>2, <1>5, <2>2, ZenonT(30) DEF MgInv, MgTypes, RequestInv, ReceiptInv, HelperInv, LagInv, ProbeInv
  <2>4. SettleInv' /\ RediscoveryInv'
        BY <1>1, <1>2, <1>5, <2>2, ZenonT(30) DEF MgInv, SettleInv, RediscoveryInv, RediscoveryOK
  <2> QED BY <2>3, <2>4, ZenonT(30) DEF MgInv
<1>6. CASE mgReq[r] = NoRequest /\ mgReq' = [mgReq EXCEPT ![r] = asked]
  <2>1. mgPhase[r] = "none" /\ r \notin mgReplaced
        BY <1>6, UnaskedHasNone, ZenonT(30)
  <2>2. mgReq' \in [Rebinds -> MgRequests] /\ mgReq'[r] = asked /\ \A q \in Rebinds : q # r => mgReq'[q] = mgReq[q]
        BY <1>4, <1>6, ZenonT(30) DEF MgInv, MgTypes
  <2>3. /\ mgRb' \in MgHelpers /\ mgRb'.pc = "begin"
        /\ HelperOK(mgRb', mgWorker, mgPhase, mgHead, mgReq', mgBinding, mgProc)
        BY <1>1, <1>4, <2>2, StartedHelper, ZenonT(30)
  <2>4. MgTypes'
        BY <1>2, <2>2, <2>3, ZenonT(30) DEF MgInv, MgTypes
  <2>5. Asked(asked, mgBinding)
        BY <1>3, <1>4, ZenonT(30) DEF Asked
  <2>6. RequestInv'
        BY <1>2, <2>2, <2>5, ZenonT(30) DEF MgInv, RequestInv
  <2>7. ReceiptInv'
    <3>1. \A q \in Rebinds : ReceiptOK(q, mgPhase[q], mgReq'[q], mgWorker, mgHead)
      <4>1. ReceiptOK(r, mgPhase[r], mgReq'[r], mgWorker, mgHead)
            BY <2>1, ZenonT(30) DEF ReceiptOK, EarlyPhases, LatePhases
      <4> QED BY <2>2, <4>1, ZenonT(30) DEF MgInv, ReceiptInv
    <3>2. mgReplaced \subseteq Rebinds
          BY ZenonT(30) DEF MgInv, MgTypes
    <3> QED BY <1>2, <2>1, <2>2, <3>1, <3>2, ZenonT(30) DEF MgInv, ReceiptInv
  <2>8. HelperInv' /\ ProbeInv'
        BY <1>2, <2>3, ZenonT(30) DEF MgInv, HelperInv, ProbeInv
  <2>9. SettleInv'
    <3> SUFFICES ASSUME NEW p \in Probers, Settles(mgProbe[p], mgReq')
                 PROVE  mgPhase[mgProbe[p].pend] # "ok" /\ mgRb'.pc # "complete"
        BY <1>2, ZenonT(30) DEF SettleInv
    <3>1. mgProbe[p].pend \in Rebinds
          BY ZenonT(30) DEF Settles, MgInv, MgTypes, MgProbes
    <3>2. mgProbe[p].pend # r
          BY <2>1, ZenonT(30) DEF Settles, MgInv, ProbeInv, ProbeOK
    <3>3. Settles(mgProbe[p], mgReq)
          BY <2>2, <3>1, <3>2, ZenonT(30) DEF Settles
    <3> QED BY <2>3, <3>3, ZenonT(30) DEF MgInv, SettleInv
  <2>10. RediscoveryInv'
        BY <1>1, <1>2, ZenonT(30) DEF RediscoveryInv, RediscoveryOK
  <2>11. LagInv'
    <3> SUFFICES ASSUME mgProc.st # "dead", mgBinding.gen > 0, ~SamePlace(mgBinding, mgWorker)
                 PROVE  \E q \in Rebinds : /\ SamePlace(mgBinding, mgReq'[q].src) /\ SamePlace(mgWorker, mgReq'[q].dst)
                                           /\ Accounts(q, mgPhase, mgSynced)
        BY <1>2, ZenonT(30) DEF LagInv
    <3>1. PICK q \in Rebinds : /\ SamePlace(mgBinding, mgReq[q].src) /\ SamePlace(mgWorker, mgReq[q].dst)
                               /\ Accounts(q, mgPhase, mgSynced)
          BY ZenonT(30) DEF MgInv, LagInv
    <3>2. q # r
          BY <2>1, <3>1, ZenonT(30) DEF Accounts, LatePhases
    <3> QED BY <2>2, <3>1, <3>2, ZenonT(30)
  <2> QED BY <2>4, <2>6, <2>7, <2>8, <2>9, <2>10, <2>11, ZenonT(30) DEF MgInv
<1> QED BY <1>5, <1>6, ZenonT(30) DEF StartRebind, known, asked

(* The worker dies, a helper is killed, the Scheduler restarts. *)
LEMMA DiesKeeps == ASSUME MgInv, WorkerDies PROVE MgInv'
<1>1. /\ mgWorker' = mgWorker /\ mgPhase' = mgPhase /\ mgHead' = mgHead /\ mgSynced' = mgSynced
      /\ mgBinding' = mgBinding /\ mgReplaced' = mgReplaced /\ mgReq' = mgReq /\ mgRb' = mgRb /\ mgProbe' = mgProbe
      /\ mgDriver' = mgDriver /\ mgProc' = [mgProc EXCEPT !.st = "dead"]
      BY ZenonT(30) DEF WorkerDies, runtimeFile, bindingFile
<1>2. mgProc \in MgProcs
      BY ProcFacts, ZenonT(30)
<1>3. mgProc' \in MgProcs /\ mgProc'.st = "dead" /\ mgProc'.gen = mgProc.gen /\ mgProc'.dev = mgProc.dev
      BY <1>1, <1>2, ZenonT(30) DEF MgProcs
<1>4. MgTypes' /\ RequestInv' /\ SettleInv' /\ RediscoveryInv'
      BY <1>1, <1>3, ZenonT(30) DEF MgInv, MgTypes, RequestInv, SettleInv, RediscoveryInv
<1>5. ReceiptInv'
      BY <1>1, <1>3, ZenonT(30) DEF MgInv, ReceiptInv, Behind, SamePlace
<1>6. HelperInv' /\ ProbeInv'
      BY <1>1, <1>3, ZenonT(30) DEF MgInv, HelperInv, HelperOK, ProbeInv, ProbeOK
<1>7. LagInv'
      BY <1>3, ZenonT(30) DEF LagInv
<1> QED BY <1>4, <1>5, <1>6, <1>7, ZenonT(30) DEF MgInv

LEMMA KilledKeeps == ASSUME MgInv, HelperKilled PROVE MgInv'
<1>1. UNCHANGED <<runtimeFile, bindingFile, mgReq, mgProc>> /\ DOMAIN mgProbe = Probers
      BY ZenonT(30) DEF HelperKilled, MgInv, MgTypes
<1>2. CASE HelperFails /\ UNCHANGED <<mgProbe, mgDriver>>
      BY <1>1, <1>2, ProcFacts, HelperFailsKeeps, ZenonT(30)
<1>3. CASE \E p \in Probers : ProbeFails(p) /\ UNCHANGED mgRb
      BY <1>1, <1>3, ProbeFailsKeeps, ZenonT(30)
<1> QED BY <1>1, <1>2, <1>3, ZenonT(30) DEF HelperKilled

LEMMA RestartKeeps == ASSUME MgInv, MgRestart PROVE MgInv'
<1>1. /\ mgWorker' = mgWorker /\ mgPhase' = mgPhase /\ mgHead' = mgHead /\ mgSynced' = mgSynced
      /\ mgBinding' = mgBinding /\ mgReplaced' = mgReplaced /\ mgReq' = mgReq /\ mgProc' = mgProc
      /\ mgRb' = NoRebind /\ mgDriver' = NewDriver /\ mgProbe' = [p \in DOMAIN mgProbe |-> NoProbe]
      BY ZenonT(30) DEF MgRestart, runtimeFile, bindingFile
<1>2. mgProbe' \in [Probers -> MgProbes] /\ \A p \in Probers : mgProbe'[p] = NoProbe
      BY <1>1, EmptyHelpers, ZenonT(30) DEF MgInv, MgTypes
<1>3. NewDriver \in MgDrivers /\ NewDriver.known = Nowhere
      BY EmptyHelpers, ZenonT(30) DEF NewDriver, MgDrivers
<1>4. MgTypes'
      BY <1>1, <1>2, <1>3, EmptyHelpers, ZenonT(30) DEF MgInv, MgTypes
<1>5. ReadFrom(Nowhere, mgBinding)
      BY EmptyHelpers, SMTT(30) DEF ReadFrom, MgInv, MgTypes, MgBindings
<1>6. RequestInv' /\ ReceiptInv' /\ LagInv'
      BY <1>1, <1>3, <1>5, ZenonT(30) DEF MgInv, RequestInv, ReceiptInv, LagInv
<1>7. /\ ProbeOK(NoProbe, mgWorker, mgPhase, mgBinding, mgReplaced, mgProc)
      /\ HelperOK(NoRebind, mgWorker, mgPhase, mgHead, mgReq, mgBinding, mgProc)
      BY IdleOK, ZenonT(30) DEF MgInv, MgTypes, ReceiptInv
<1>8. HelperInv' /\ ProbeInv'
      BY <1>1, <1>2, <1>7, ZenonT(30) DEF HelperInv, ProbeInv
<1>9. SettleInv' /\ RediscoveryInv'
      BY <1>2, EmptyHelpers, ZenonT(30) DEF SettleInv, Settles, RediscoveryInv, RediscoveryOK, Probers
<1> QED BY <1>4, <1>6, <1>8, <1>9, ZenonT(30) DEF MgInv

(* A release takes the binding away for good, when no helper holds the lock. *)
LEMMA ReleaseKeeps == ASSUME MgInv, ReleaseSandbox PROVE MgInv'
<1>1. /\ mgWorker' = mgWorker /\ mgPhase' = mgPhase /\ mgHead' = mgHead /\ mgSynced' = mgSynced
      /\ mgReplaced' = mgReplaced /\ mgReq' = mgReq /\ mgProc' = mgProc /\ mgRb' = mgRb /\ mgProbe' = mgProbe
      /\ mgBinding' = [gen |-> 0, dev |-> 0, by |-> 0] /\ mgDriver' = [mgDriver EXCEPT !.known = Nowhere]
      /\ mgRb.pc = "idle" /\ mgProbe["refresh"].pc = "idle"
      BY ZenonT(30) DEF ReleaseSandbox, Unlocked, runtimeFile
<1>2. mgBinding' \in MgBindings /\ mgBinding'.gen = 0 /\ mgBinding'.dev = 0
      BY <1>1, ZenonT(30) DEF MgBindings, MgDevices
<1>3. mgDriver' \in MgDrivers /\ mgDriver'.known = Nowhere
      BY <1>1, EmptyHelpers, ZenonT(30) DEF MgInv, MgTypes, MgDrivers
<1>4. MgTypes'
      BY <1>1, <1>2, <1>3, ZenonT(30) DEF MgInv, MgTypes
<1>5. RequestInv'
      BY <1>1, <1>2, <1>3, EmptyHelpers, SMTT(30) DEF MgInv, RequestInv, Asked, ReadFrom
<1>6. ReceiptInv'
      BY <1>1, <1>2, SMTT(30) DEF MgInv, ReceiptInv
<1>7. HelperInv'
      BY <1>1, ZenonT(30) DEF MgInv, HelperInv, HelperOK, Walking
<1>8. FilesMoveOn
      BY <1>1, <1>2, ZenonT(30) DEF FilesMoveOn, Behind, SamePlace, BindsOn, PhasesKept
<1>9. ProbeInv'
      BY <1>1, <1>4, <1>8, ProbeStays, ZenonT(30) DEF ProbeInv
<1>10. SettleInv' /\ RediscoveryInv' /\ LagInv'
      BY <1>1, <1>2 DEF MgInv, SettleInv, RediscoveryInv, RediscoveryOK, LagInv
<1> QED BY <1>4, <1>5, <1>6, <1>7, <1>9, <1>10, ZenonT(30) DEF MgInv

-----------------------------------------------------------------------------
(* One receipt takes a new phase. *)
LEMMA NewPhase ==
  ASSUME MgInv, NEW r \in Rebinds, NEW x \in MgPhases, mgPhase' = [mgPhase EXCEPT ![r] = x]
  PROVE  /\ mgPhase' \in [Rebinds -> MgPhases] /\ mgPhase'[r] = x
         /\ \A q \in Rebinds : q # r => mgPhase'[q] = mgPhase[q]
BY ZenonT(30) DEF MgInv, MgTypes

LEMMA RequestsStay ==
  ASSUME MgInv, mgReq' = mgReq, mgDriver' = mgDriver, mgBinding' \in MgBindings, BindsOn(mgBinding, mgBinding'),
         mgBinding' = mgBinding \/ mgBinding'.gen > 0,
         \A r \in Rebinds : mgPhase'[r] # "none" => mgReq[r] # NoRequest \/ mgPhase[r] # "none"
  PROVE  RequestInv'
<1>1. mgBinding \in MgBindings /\ mgDriver.known \in MgPlaces /\ mgReq \in [Rebinds -> MgRequests]
      BY ZenonT(30) DEF MgInv, MgTypes, MgDrivers
<1>2. ReadFrom(mgDriver'.known, mgBinding')
      BY <1>1, ReadFromStill, ZenonT(30) DEF MgInv, RequestInv
<1>3. mgBinding'.gen = 0 => mgBinding'.dev = 0
      BY SMTT(30) DEF MgInv, RequestInv
<1>4. ASSUME NEW r \in Rebinds, mgReq[r] # NoRequest \/ mgPhase'[r] # "none"
      PROVE  Asked(mgReq[r], mgBinding')
  <2>1. Asked(mgReq[r], mgBinding)
        BY <1>4, ZenonT(30) DEF MgInv, RequestInv
  <2>2. mgReq[r].src.gen \in Nat
        BY <1>1, ZenonT(30) DEF MgRequests, MgPlaces
  <2> QED BY <1>1, <2>1, <2>2, SMTT(30) DEF Asked, BindsOn, MgBindings
<1> QED BY <1>2, <1>3, <1>4, ZenonT(30) DEF RequestInv

(* No other receipt is unfinished while the newest one is at work. *)
LEMMA OthersFinished ==
  ASSUME MgInv, NEW r \in Rebinds, mgHead = r \/ ~Unresolved, NEW q \in Rebinds, q # r
  PROVE  mgPhase[q] \in {"none", "ok", "failed"}
<1>1. mgPhase[q] \in MgPhases /\ ReceiptOK(q, mgPhase[q], mgReq[q], mgWorker, mgHead)
      BY ZenonT(30) DEF MgInv, MgTypes, ReceiptInv
<1>2. 0 \notin Rebinds
      BY MigAssumption, ZenonT(30)
<1> QED BY <1>1, <1>2, ZenonT(30) DEF MgPhases, ReceiptOK, Unresolved, Completed

LEMMA OthersStay ==
  ASSUME MgInv, MgTypes', NEW q \in Rebinds, mgPhase[q] \in {"none", "ok", "failed"}, Behind(mgWorker, mgWorker')
  PROVE  ReceiptOK(q, mgPhase[q], mgReq[q], mgWorker', mgHead')
<1>1. mgPhase[q] = "ok" => Behind(mgReq[q].dst, mgWorker')
  <2>1. mgReq[q].dst.gen \in Nat /\ mgWorker \in MgWorkers /\ mgWorker' \in MgWorkers
        BY ZenonT(30) DEF MgInv, MgTypes, MgRequests, MgPlaces
  <2> QED BY <2>1, BehindStill, ZenonT(30) DEF MgInv, ReceiptInv, ReceiptOK
<1> QED BY <1>1, ZenonT(30) DEF ReceiptOK, EarlyPhases, LatePhases

(* A step of the rebind helper that writes the files. *)
LEMMA HelperWrites ==
  ASSUME MgInv, MgTypes', FilesMoveOn, mgRb.pc # "idle", mgProbe' = mgProbe, mgReq' = mgReq, mgProc' = mgProc,
         mgRb'.pc # "complete",
         \A r \in Rebinds : mgPhase'[r] = "ok" => mgPhase[r] = "ok" \/ (mgRb.pc = "complete" /\ r = mgRb.r)
  PROVE  ProbeInv' /\ SettleInv' /\ RediscoveryInv'
<1>1. ProbeInv'
      BY ProbeStays, ZenonT(30) DEF ProbeInv
<1>2. SettleInv'
  <2> SUFFICES ASSUME NEW p \in Probers, Settles(mgProbe[p], mgReq)
               PROVE  mgPhase'[mgProbe[p].pend] # "ok"
      BY ZenonT(30) DEF SettleInv
  <2>1. mgProbe[p].pend \in Rebinds
        BY ZenonT(30) DEF Settles, MgInv, MgTypes, MgProbes
  <2>2. mgPhase[mgProbe[p].pend] # "ok" /\ ~(mgRb.pc = "complete" /\ mgRb.r = mgProbe[p].pend)
        BY ZenonT(30) DEF MgInv, SettleInv
  <2> QED BY <2>1, <2>2, ZenonT(30)
<1>3. RediscoveryInv'
      BY ZenonT(30) DEF MgInv, RediscoveryInv, RediscoveryOK
<1> QED BY <1>1, <1>2, <1>3, ZenonT(30)

(* Store.Begin *)
LEMMA BeginFreshKeeps ==
  ASSUME MgInv, mgRb.pc = "begin", mgPhase[mgRb.r] = "none", Place(mgWorker) = mgReq[mgRb.r].src, ~Unresolved,
         mgRb' = [mgRb EXCEPT !.pc = "verify", !.w = mgWorker, !.phase = "pending"], mgHead' = mgRb.r,
         mgPhase' = [mgPhase EXCEPT ![mgRb.r] = "pending"], UNCHANGED <<mgWorker, mgSynced>>,
         UNCHANGED <<bindingFile, mgReq, mgProc, mgProbe, mgDriver>>
  PROVE  MgInv'
<1> DEFINE r == mgRb.r
<1>1. r \in Rebinds /\ mgReq[r] \in MgRequests /\ mgReq[r] # NoRequest /\ r # 0
      BY HelperFacts, MigAssumption, ZenonT(30)
<1>2. SamePlace(mgWorker, mgReq[r].src)
      BY <1>1, PlaceIs, ZenonT(30) DEF MgRequests
<1> HIDE DEF r
<1>3. /\ mgPhase' \in [Rebinds -> MgPhases] /\ mgPhase'[r] = "pending"
      /\ \A q \in Rebinds : q # r => mgPhase'[q] = mgPhase[q]
      BY <1>1, NewPhase, ZenonT(30) DEF MgPhases, EarlyPhases, r
<1>4. mgBinding' = mgBinding /\ mgReplaced' = mgReplaced
      BY ZenonT(30) DEF bindingFile
<1>5. /\ mgRb' \in MgHelpers /\ mgRb'.pc = "verify" /\ mgRb'.r = r /\ mgRb'.w = mgWorker /\ mgRb'.phase = "pending"
      BY ZenonT(30) DEF MgInv, MgTypes, MgHelpers, Walking, EarlyPhases, r
<1>6. MgTypes'
      BY <1>1, <1>3, <1>4, <1>5, ZenonT(30) DEF MgInv, MgTypes, r
<1>7. FilesMoveOn
      BY <1>3, <1>4, SMTT(30) DEF FilesMoveOn, Behind, SamePlace, BindsOn, PhasesKept, MgInv, MgTypes, MgBindings, r
<1>8. RequestInv'
      BY <1>1, <1>3, <1>4, ZenonT(30) DEF MgInv, RequestInv
<1>9. ReceiptInv'
  <2>1. ASSUME NEW q \in Rebinds, q # r
        PROVE  ReceiptOK(q, mgPhase'[q], mgReq[q], mgWorker', mgHead')
    <3>1. Behind(mgWorker, mgWorker') /\ mgPhase[q] \in {"none", "ok", "failed"}
          BY <1>1, <1>7, <2>1, OthersFinished, ZenonT(30) DEF FilesMoveOn
    <3> QED BY <1>3, <1>6, <2>1, <3>1, OthersStay, ZenonT(30)
  <2>2. ReceiptOK(r, mgPhase'[r], mgReq[r], mgWorker, mgHead')
        BY <1>2, <1>3, ZenonT(30) DEF ReceiptOK, EarlyPhases, LatePhases, r
  <2>3. r \notin mgSynced /\ mgSynced \subseteq Rebinds /\ mgReplaced \subseteq Rebinds
        BY ZenonT(30) DEF MgInv, MgTypes, ReceiptInv, r
  <2> QED BY <1>1, <1>3, <1>4, <2>1, <2>2, <2>3, ZenonT(30) DEF MgInv, ReceiptInv, r
<1>10. HelperInv'
  <2>1. mgRb'.w.st = "failed" => mgProc.st = "dead"
        BY <1>5, ZenonT(30) DEF MgInv, ReceiptInv
  <2> QED BY <1>1, <1>2, <1>3, <1>5, <2>1, ZenonT(30)
          DEF HelperInv, HelperOK, Moving, SamePlace, EarlyPhases, LatePhases, r
<1>11. ProbeInv' /\ SettleInv' /\ RediscoveryInv'
      BY <1>3, <1>5, <1>6, <1>7, HelperWrites, ZenonT(30)
<1>12. LagInv'
      BY <1>3, <1>4, ZenonT(30) DEF MgInv, LagInv, Accounts, LatePhases, r
<1> QED BY <1>6, <1>8, <1>9, <1>10, <1>11, <1>12, ZenonT(30) DEF MgInv

LEMMA BeginKeeps == ASSUME MgInv, BeginRebind PROVE MgInv'
<1> DEFINE r == mgRb.r
<1>1. mgRb.pc = "begin" /\ UNCHANGED <<bindingFile, mgReq, mgProc, mgProbe, mgDriver>>
      BY ZenonT(30) DEF BeginRebind
<1>2. CASE UNCHANGED runtimeFile /\ HelperFails
      BY <1>1, <1>2, ProcFacts, HelperFailsKeeps, ZenonT(30)
<1>3. CASE /\ mgPhase[r] = "none" /\ Place(mgWorker) = mgReq[r].src /\ ~Unresolved
           /\ mgRb' = [mgRb EXCEPT !.pc = "verify", !.w = mgWorker, !.phase = "pending"] /\ mgHead' = r
           /\ mgPhase' = [mgPhase EXCEPT ![r] = "pending"] /\ UNCHANGED <<mgWorker, mgSynced>>
      BY <1>1, <1>3, BeginFreshKeeps, ZenonT(30)
<1>4. CASE /\ UNCHANGED runtimeFile
           /\ \/ mgPhase[r] = "ok" /\ mgRb' = [mgRb EXCEPT !.pc = "replace", !.w = mgWorker, !.phase = "ok"]
              \/ /\ mgPhase[r] \notin {"none", "failed", "ok"}
                 /\ mgRb' = [mgRb EXCEPT !.pc = "resume", !.w = mgWorker, !.phase = mgPhase[r]]
  <2>1. r \in Rebinds /\ mgReq[r] # NoRequest /\ r # 0
        BY <1>1, HelperFacts, MigAssumption, ZenonT(30)
  <2>2. mgRb \in MgHelpers /\ mgWorker \in MgWorkers /\ mgPhase[r] \in MgPhases
        BY <2>1, ZenonT(30) DEF MgInv, MgTypes
  <2>3. ReceiptOK(r, mgPhase[r], mgReq[r], mgWorker, mgHead) /\ (mgWorker.st = "failed" => mgProc.st = "dead")
        BY <2>1, ZenonT(30) DEF MgInv, ReceiptInv
  <2>4. CASE mgPhase[r] = "ok"
    <3>1. mgRb' \in MgHelpers /\ mgRb'.pc = "replace" /\ mgRb'.r = r /\ mgRb'.w = mgWorker
          BY <1>4, <2>2, <2>4, ZenonT(30) DEF MgHelpers
    <3>2. HelperOK(mgRb', mgWorker, mgPhase, mgHead, mgReq, mgBinding, mgProc)
          BY <2>1, <2>3, <2>4, <3>1, ZenonT(30) DEF HelperOK, Walking, SamePlace
    <3> QED BY <1>1, <1>4, <3>1, <3>2, ProcFacts, HelperTurns, ZenonT(30)
  <2>5. CASE mgPhase[r] # "ok"
    <3>1. mgPhase[r] \in EarlyPhases \cup LatePhases
          BY <1>4, <2>2, <2>5, ZenonT(30) DEF MgPhases
    <3>2. mgRb' \in MgHelpers /\ mgRb'.pc = "resume" /\ mgRb'.r = r /\ mgRb'.w = mgWorker /\ mgRb'.phase = mgPhase[r]
          BY <1>4, <2>2, <2>5, <3>1, ZenonT(30) DEF MgHelpers, Walking
    <3>3. HelperOK(mgRb', mgWorker, mgPhase, mgHead, mgReq, mgBinding, mgProc)
          BY <2>1, <2>3, <3>1, <3>2, ZenonT(30) DEF HelperOK, ReceiptOK, Moving, SamePlace
    <3> QED BY <1>1, <1>4, <3>2, <3>3, ProcFacts, HelperTurns, ZenonT(30)
  <2> QED BY <2>4, <2>5, ZenonT(30)
<1> QED BY <1>2, <1>3, <1>4, ZenonT(30) DEF BeginRebind

(* The binding is not behind the place a rebind asks to leave. *)
LEMMA NoLagBefore ==
  ASSUME MgInv, NEW r \in Rebinds, Asked(mgReq[r], mgBinding), SamePlace(mgWorker, mgReq[r].src),
         mgProc.st # "dead", mgBinding.gen > 0
  PROVE  SamePlace(mgBinding, mgWorker)
<1> SUFFICES ASSUME ~SamePlace(mgBinding, mgWorker) PROVE FALSE
    BY ZenonT(30)
<1>1. PICK q \in Rebinds : /\ SamePlace(mgBinding, mgReq[q].src) /\ SamePlace(mgWorker, mgReq[q].dst)
                           /\ Accounts(q, mgPhase, mgSynced)
      BY ZenonT(30) DEF MgInv, LagInv
<1>2. Asked(mgReq[q], mgBinding)
      BY <1>1, ZenonT(30) DEF MgInv, RequestInv, Accounts, LatePhases
<1>3. mgBinding \in MgBindings
      BY ZenonT(30) DEF MgInv, MgTypes
<1> QED BY <1>1, <1>2, <1>3, SMTT(30) DEF Asked, SamePlace, MgBindings

(* Advance *)
LEMMA AdvanceKeeps ==
  ASSUME MgInv, mgRb.pc = "advance", MgAdvance(mgRb.r, NextPhase[mgRb.phase], mgRb.w),
         mgRb' = [mgRb EXCEPT !.pc = "call", !.phase = NextPhase[mgRb.phase]],
         UNCHANGED <<bindingFile, mgReq, mgProc, mgProbe, mgDriver>>
  PROVE  MgInv'
<1> DEFINE r == mgRb.r
           x == NextPhase[mgRb.phase]
<1>1. /\ mgHead = r /\ ~Completed(r) /\ NextPhase[mgPhase[r]] = x
      /\ mgPhase' = [mgPhase EXCEPT ![r] = x] /\ mgWorker' = mgRb.w /\ mgHead' = mgHead /\ mgSynced' = mgSynced
      BY ZenonT(30) DEF MgAdvance
<1>2. /\ r \in Rebinds /\ mgReq[r] \in MgRequests /\ mgReq[r] # NoRequest /\ Asked(mgReq[r], mgBinding)
      /\ mgRb.w \in MgWorkers /\ r # 0
      BY HelperFacts, MigAssumption, ZenonT(30)
<1>3. /\ mgPhase[r] \in {mgRb.phase, "failed"} /\ mgRb.phase \in EarlyPhases \cup LatePhases
      /\ mgRb.phase \in EarlyPhases => SamePlace(mgWorker, mgReq[r].src)
      /\ mgRb.phase \in LatePhases => SamePlace(mgWorker, mgReq[r].dst)
      /\ IF mgRb.phase = "stopped" THEN SamePlace(mgRb.w, mgReq[r].dst) ELSE SamePlace(mgRb.w, mgWorker)
      /\ mgRb.phase # "reloaded" /\ (mgRb.w.st = "failed" => mgProc.st = "dead")
      BY ZenonT(30) DEF MgInv, HelperInv, HelperOK, Moving, Walking
<1>4. mgPhase[r] = mgRb.phase
      BY <1>1, <1>3, ZenonT(30) DEF Completed
<1>5. /\ mgRb.phase \in {"pending", "prepared", "checkpointed"} => x \in EarlyPhases
      /\ mgRb.phase = "stopped" => x = "reconfigured"
      /\ mgRb.phase = "reconfigured" => x = "reloaded"
      BY DEF NextPhase, EarlyPhases
<1>6. mgRb.phase \in {"pending", "prepared", "checkpointed", "stopped", "reconfigured"}
      BY <1>3, ZenonT(30) DEF EarlyPhases, LatePhases
<1> HIDE DEF r, x
<1>7. x \in EarlyPhases \cup LatePhases /\ x \in MgPhases /\ x # "failed" /\ x # "ok" /\ x # "none"
      BY <1>5, <1>6, ZenonT(30) DEF EarlyPhases, LatePhases, MgPhases
<1>8. /\ mgPhase' \in [Rebinds -> MgPhases] /\ mgPhase'[r] = x
      /\ \A q \in Rebinds : q # r => mgPhase'[q] = mgPhase[q]
      BY <1>1, <1>2, <1>7, NewPhase, ZenonT(30)
<1>9. mgBinding' = mgBinding /\ mgReplaced' = mgReplaced
      BY ZenonT(30) DEF bindingFile
<1>10. mgRb' \in MgHelpers /\ mgRb'.pc = "call" /\ mgRb'.r = r /\ mgRb'.w = mgRb.w /\ mgRb'.phase = x
      BY <1>7, ZenonT(30) DEF MgInv, MgTypes, MgHelpers, Walking, r, x
<1>11. MgTypes'
      BY <1>1, <1>2, <1>8, <1>9, <1>10, ZenonT(30) DEF MgInv, MgTypes
<1>12. /\ mgRb.phase = "stopped" => mgWorker'.gen = mgWorker.gen + 1 /\ SamePlace(mgWorker', mgReq[r].dst)
       /\ mgRb.phase # "stopped" => SamePlace(mgWorker', mgWorker)
      BY <1>1, <1>2, <1>3, ZenonT(30) DEF SamePlace, Asked, EarlyPhases
<1>13. Behind(mgWorker, mgWorker') /\ mgWorker'.gen > 0
      BY <1>12 DEF Behind, SamePlace, MgInv, MgTypes, MgWorkers, ReceiptInv
<1>14. FilesMoveOn
  <2>1. PhasesKept(mgPhase, mgPhase')
        BY <1>4, <1>6, <1>7, <1>8, ZenonT(30) DEF PhasesKept
  <2>2. BindsOn(mgBinding, mgBinding')
        BY <1>9, SMTT(30) DEF BindsOn, MgInv, MgTypes, MgBindings
  <2> QED BY <1>9, <1>13, <2>1, <2>2, ZenonT(30) DEF FilesMoveOn
<1>15. RequestInv'
      BY <1>2, <1>8, <1>9, ZenonT(30) DEF MgInv, RequestInv
<1>16. /\ x \in EarlyPhases => SamePlace(mgWorker', mgReq[r].src)
       /\ x \in LatePhases => SamePlace(mgWorker', mgReq[r].dst)
  <2>1. CASE mgRb.phase \in {"pending", "prepared", "checkpointed"}
        BY <1>3, <1>5, <1>12, <2>1, ZenonT(30) DEF SamePlace, EarlyPhases, LatePhases
  <2>2. CASE mgRb.phase \in {"stopped", "reconfigured"}
        BY <1>3, <1>5, <1>12, <2>2, ZenonT(30) DEF SamePlace, EarlyPhases, LatePhases
  <2> QED BY <1>6, <2>1, <2>2, ZenonT(30)
<1>17. ReceiptInv'
  <2>1. ASSUME NEW q \in Rebinds, q # r
        PROVE  ReceiptOK(q, mgPhase'[q], mgReq[q], mgWorker', mgHead')
    <3>1. mgPhase[q] \in {"none", "ok", "failed"}
          BY <1>1, <1>2, <2>1, OthersFinished, ZenonT(30)
    <3> QED BY <1>8, <1>11, <1>13, <2>1, <3>1, OthersStay, ZenonT(30)
  <2>2. ReceiptOK(r, mgPhase'[r], mgReq[r], mgWorker', mgHead')
        BY <1>1, <1>7, <1>8, <1>16, ZenonT(30) DEF ReceiptOK
  <2>3. r \notin mgSynced /\ mgSynced \subseteq Rebinds /\ mgReplaced \subseteq Rebinds
        BY <1>4, <1>6, ZenonT(30) DEF MgInv, MgTypes, ReceiptInv
  <2>4. Behind(mgProc, mgWorker')
    <3>1. mgProc.gen \in Nat /\ mgWorker \in MgWorkers /\ mgWorker' \in MgWorkers /\ Behind(mgProc, mgWorker)
          BY <1>11, ZenonT(30) DEF MgInv, MgTypes, MgProcs, ReceiptInv
    <3> QED BY <1>13, <3>1, BehindStill, ZenonT(30)
  <2>5. mgWorker'.st = "failed" => mgProc.st = "dead"
        BY <1>1, <1>3, ZenonT(30)
  <2>6. \A q \in mgReplaced : mgPhase'[q] # "none" /\ (mgBinding.gen > 0 => mgReq[q].dst.gen <= mgBinding.gen)
        BY <1>7, <1>8, <2>3, ZenonT(30) DEF MgInv, ReceiptInv
  <2>7. \A q \in mgSynced : mgPhase'[q] = "ok"
        BY <1>8, <2>3, ZenonT(30) DEF MgInv, ReceiptInv
  <2> QED BY <1>1, <1>7, <1>8, <1>9, <1>13, <2>1, <2>2, <2>4, <2>5, <2>6, <2>7, ZenonT(30) DEF ReceiptInv
<1>18. HelperInv'
      BY <1>1, <1>2, <1>3, <1>7, <1>8, <1>10, <1>16, ZenonT(30) DEF HelperInv, HelperOK, Moving, SamePlace
<1>19. ProbeInv' /\ SettleInv' /\ RediscoveryInv'
  <2>1. \A q \in Rebinds : mgPhase'[q] = "ok" => mgPhase[q] = "ok"
        BY <1>7, <1>8, ZenonT(30)
  <2> QED BY <1>10, <1>11, <1>14, <2>1, HelperWrites, ZenonT(30)
<1>20. LagInv'
  <2> SUFFICES ASSUME mgProc.st # "dead", mgBinding.gen > 0, ~SamePlace(mgBinding, mgWorker')
               PROVE  \E q \in Rebinds : /\ SamePlace(mgBinding, mgReq[q].src) /\ SamePlace(mgWorker', mgReq[q].dst)
                                         /\ Accounts(q, mgPhase', mgSynced')
      BY <1>9, ZenonT(30) DEF LagInv
  <2>1. CASE mgRb.phase = "stopped"
    <3>1. SamePlace(mgWorker, mgReq[r].src)
          BY <1>3, <2>1, ZenonT(30) DEF EarlyPhases
    <3>2. SamePlace(mgBinding, mgWorker)
          BY <1>2, <3>1, NoLagBefore, ZenonT(30)
    <3>3. SamePlace(mgBinding, mgReq[r].src)
          BY <3>1, <3>2, ZenonT(30) DEF SamePlace
    <3>4. Accounts(r, mgPhase', mgSynced')
          BY <1>5, <1>8, <2>1, ZenonT(30) DEF Accounts, LatePhases
    <3> QED BY <1>2, <1>12, <2>1, <3>3, <3>4, ZenonT(30)
  <2>2. CASE mgRb.phase # "stopped"
    <3>1. SamePlace(mgWorker', mgWorker)
          BY <1>12, <2>2, ZenonT(30)
    <3>2. PICK q \in Rebinds : /\ SamePlace(mgBinding, mgReq[q].src) /\ SamePlace(mgWorker, mgReq[q].dst)
                               /\ Accounts(q, mgPhase, mgSynced)
          BY <3>1, ZenonT(30) DEF MgInv, LagInv, SamePlace
    <3>3. Accounts(q, mgPhase', mgSynced')
      <4>1. CASE q = r
        <5>1. mgRb.phase = "reconfigured"
              BY <1>4, <1>6, <2>2, <3>2, <4>1, ZenonT(30) DEF Accounts, LatePhases
        <5> QED BY <1>5, <1>8, <4>1, <5>1, ZenonT(30) DEF Accounts, LatePhases
      <4>2. CASE q # r
            BY <1>1, <1>8, <3>2, <4>2, ZenonT(30) DEF Accounts
      <4> QED BY <4>1, <4>2, ZenonT(30)
    <3> QED BY <3>1, <3>2, <3>3, ZenonT(30) DEF SamePlace
  <2> QED BY <2>1, <2>2, ZenonT(30)
<1> QED BY <1>11, <1>15, <1>17, <1>18, <1>19, <1>20, ZenonT(30) DEF MgInv

LEMMA RecordKeeps == ASSUME MgInv, RecordPhase PROVE MgInv'
<1>1. mgRb.pc = "advance" /\ UNCHANGED <<bindingFile, mgReq, mgProc, mgProbe, mgDriver>>
      BY ZenonT(30) DEF RecordPhase
<1>2. CASE UNCHANGED runtimeFile /\ HelperFails
      BY <1>1, <1>2, ProcFacts, HelperFailsKeeps, ZenonT(30)
<1>3. CASE /\ MgAdvance(mgRb.r, NextPhase[mgRb.phase], mgRb.w)
           /\ mgRb' = [mgRb EXCEPT !.pc = "call", !.phase = NextPhase[mgRb.phase]]
      BY <1>1, <1>3, AdvanceKeeps, ZenonT(30)
<1> QED BY <1>2, <1>3, ZenonT(30) DEF RecordPhase

(* A receipt ends as failed: its worker is still where the rebind found it. *)
LEMMA FailKeeps == ASSUME MgInv, FailRebind PROVE MgInv'
<1> DEFINE r == mgRb.r
<1>1. mgRb.pc = "fail" /\ HelperFails /\ UNCHANGED <<bindingFile, mgReq, mgProc, mgProbe, mgDriver>>
      BY ZenonT(30) DEF FailRebind
<1>2. CASE UNCHANGED runtimeFile
      BY <1>1, <1>2, ProcFacts, HelperFailsKeeps, ZenonT(30)
<1>3. CASE MgCompletable(r, mgRb.w, FALSE) /\ MgComplete(r, mgRb.w, FALSE)
  <2>1. /\ mgHead = r /\ mgRb.w.gen = mgReq[r].src.gen /\ mgPhase' = [mgPhase EXCEPT ![r] = "failed"]
        /\ mgWorker' = mgWorker /\ mgHead' = mgHead /\ mgSynced' = mgSynced
        BY <1>3, ZenonT(30) DEF MgCompletable, MgComplete
  <2>2. r \in Rebinds /\ mgReq[r] \in MgRequests /\ mgReq[r] # NoRequest /\ Asked(mgReq[r], mgBinding)
        BY <1>1, HelperFacts, ZenonT(30)
  <2>3. /\ mgPhase[r] \in {mgRb.phase, "failed"} /\ mgRb.phase \in EarlyPhases \cup LatePhases
        /\ mgRb.phase \in LatePhases => SamePlace(mgWorker, mgReq[r].dst)
        /\ SamePlace(mgRb.w, mgWorker)
        BY <1>1, ZenonT(30) DEF MgInv, HelperInv, HelperOK, Moving, Walking
  <2>4. mgRb.phase \notin LatePhases
        BY <2>1, <2>2, <2>3 DEF SamePlace, Asked, MgRequests, MgPlaces
  <2>5. mgPhase[r] \notin {"none", "ok"} \cup LatePhases
        BY <2>3, <2>4, ZenonT(30) DEF EarlyPhases, LatePhases
  <2> HIDE DEF r
  <2>6. /\ mgPhase' \in [Rebinds -> MgPhases] /\ mgPhase'[r] = "failed"
        /\ \A q \in Rebinds : q # r => mgPhase'[q] = mgPhase[q]
        BY <2>1, <2>2, NewPhase, ZenonT(30) DEF MgPhases
  <2>7. mgBinding' = mgBinding /\ mgReplaced' = mgReplaced /\ mgRb' = NoRebind
        BY <1>1, ZenonT(30) DEF bindingFile, HelperFails
  <2>8. MgTypes'
        BY <1>1, <2>1, <2>6, <2>7, EmptyHelpers, ZenonT(30) DEF MgInv, MgTypes
  <2>9. FilesMoveOn
        BY <1>1, <2>1, <2>5, <2>6, <2>7, SMTT(30) DEF FilesMoveOn, Behind, SamePlace, BindsOn, PhasesKept, MgInv, MgTypes, MgBindings
  <2>10. RequestInv'
        BY <1>1, <2>2, <2>6, <2>7, ZenonT(30) DEF MgInv, RequestInv
  <2>11. ReceiptInv'
    <3>1. \A q \in Rebinds : ReceiptOK(q, mgPhase'[q], mgReq[q], mgWorker, mgHead)
      <4>1. ReceiptOK(r, mgPhase'[r], mgReq[r], mgWorker, mgHead)
            BY <2>6, ZenonT(30) DEF ReceiptOK, EarlyPhases, LatePhases
      <4> QED BY <2>6, <4>1, ZenonT(30) DEF MgInv, ReceiptInv
    <3>2. r \notin mgSynced /\ mgSynced \subseteq Rebinds /\ mgReplaced \subseteq Rebinds
          BY <2>5, ZenonT(30) DEF MgInv, MgTypes, ReceiptInv
    <3> QED BY <1>1, <2>1, <2>6, <2>7, <3>1, <3>2, ZenonT(30) DEF MgInv, ReceiptInv
  <2>12. HelperInv'
    <3>1. mgWorker' \in MgWorkers /\ mgWorker'.gen > 0 /\ mgBinding' \in MgBindings
          BY <2>8, <2>11, ZenonT(30) DEF MgTypes, ReceiptInv
    <3>2. HelperOK(NoRebind, mgWorker', mgPhase', mgHead', mgReq', mgBinding', mgProc')
          BY <3>1, IdleOK, ZenonT(30)
    <3> QED BY <2>7, <3>2, ZenonT(30) DEF HelperInv
  <2>13. ProbeInv' /\ SettleInv' /\ RediscoveryInv'
    <3>1. \A q \in Rebinds : mgPhase'[q] = "ok" => mgPhase[q] = "ok"
          BY <2>6, ZenonT(30)
    <3> QED BY <1>1, <2>7, <2>8, <2>9, <3>1, EmptyHelpers, HelperWrites, ZenonT(30)
  <2>14. LagInv'
    <3>1. \A q \in Rebinds : Accounts(q, mgPhase, mgSynced) => Accounts(q, mgPhase', mgSynced)
          BY <2>5, <2>6, ZenonT(30) DEF Accounts
    <3> QED BY <1>1, <2>1, <2>7, <3>1, ZenonT(30) DEF MgInv, LagInv
  <2> QED BY <2>8, <2>10, <2>11, <2>12, <2>13, <2>14, ZenonT(30) DEF MgInv
<1> QED BY <1>1, <1>2, <1>3, ZenonT(30) DEF FailRebind

LEMMA SucceedKeeps ==
  ASSUME MgInv, mgRb.pc = "complete", MgCompletable(mgRb.r, mgRb.w, TRUE), MgComplete(mgRb.r, mgRb.w, TRUE),
         mgRb' = [mgRb EXCEPT !.pc = "replace", !.phase = "ok"],
         UNCHANGED <<bindingFile, mgReq, mgProc, mgProbe, mgDriver>>
  PROVE  MgInv'
<1> DEFINE r == mgRb.r
<1>1. /\ mgHead = r /\ mgPhase' = [mgPhase EXCEPT ![r] = "ok"]
      /\ mgWorker' = mgRb.w /\ mgHead' = mgHead /\ mgSynced' = mgSynced
      BY ZenonT(30) DEF MgCompletable, MgComplete
<1>2. /\ r \in Rebinds /\ mgReq[r] \in MgRequests /\ mgReq[r] # NoRequest /\ Asked(mgReq[r], mgBinding)
      /\ mgRb.w \in MgWorkers /\ r # 0
      BY HelperFacts, MigAssumption, ZenonT(30)
<1>3. /\ mgPhase[r] \in {"reloaded", "failed"} /\ SamePlace(mgWorker, mgReq[r].dst) /\ SamePlace(mgRb.w, mgWorker)
      /\ mgRb.w.st = "failed" => mgProc.st = "dead"
      BY ZenonT(30) DEF MgInv, HelperInv, HelperOK, Moving, Walking, LatePhases
<1>4. mgRb' \in MgHelpers /\ mgRb'.pc = "replace" /\ mgRb'.r = r /\ mgRb'.w = mgRb.w
      BY ZenonT(30) DEF MgInv, MgTypes, MgHelpers
<1> HIDE DEF r
<1>5. /\ mgPhase' \in [Rebinds -> MgPhases] /\ mgPhase'[r] = "ok"
      /\ \A q \in Rebinds : q # r => mgPhase'[q] = mgPhase[q]
      BY <1>1, <1>2, NewPhase, ZenonT(30) DEF MgPhases
<1>6. mgBinding' = mgBinding /\ mgReplaced' = mgReplaced
      BY ZenonT(30) DEF bindingFile
<1>7. MgTypes'
      BY <1>1, <1>2, <1>4, <1>5, <1>6, ZenonT(30) DEF MgInv, MgTypes
<1>8. SamePlace(mgWorker', mgWorker) /\ Behind(mgWorker, mgWorker') /\ mgWorker'.gen > 0
      BY <1>1, <1>3, ZenonT(30) DEF SamePlace, Behind, MgInv, ReceiptInv
<1>9. FilesMoveOn
  <2>1. PhasesKept(mgPhase, mgPhase')
        BY <1>3, <1>5, ZenonT(30) DEF PhasesKept
  <2>2. BindsOn(mgBinding, mgBinding')
        BY <1>6 DEF BindsOn, MgInv, MgTypes, MgBindings
  <2> QED BY <1>6, <1>8, <2>1, <2>2, ZenonT(30) DEF FilesMoveOn
<1>10. RequestInv'
      BY <1>2, <1>5, <1>6, ZenonT(30) DEF MgInv, RequestInv
<1>11. ReceiptInv'
  <2>1. ASSUME NEW q \in Rebinds, q # r
        PROVE  ReceiptOK(q, mgPhase'[q], mgReq[q], mgWorker', mgHead')
    <3>1. mgPhase[q] \in {"none", "ok", "failed"}
          BY <1>1, <1>2, <2>1, OthersFinished, ZenonT(30)
    <3> QED BY <1>5, <1>7, <1>8, <2>1, <3>1, OthersStay, ZenonT(30)
  <2>2. ReceiptOK(r, mgPhase'[r], mgReq[r], mgWorker', mgHead')
        BY <1>1, <1>3, <1>5, ZenonT(30) DEF ReceiptOK, EarlyPhases, LatePhases, Behind, SamePlace
  <2>3. mgSynced \subseteq Rebinds /\ mgReplaced \subseteq Rebinds
        BY ZenonT(30) DEF MgInv, MgTypes
  <2>4. Behind(mgProc, mgWorker')
    <3>1. mgProc.gen \in Nat /\ mgWorker \in MgWorkers /\ mgWorker' \in MgWorkers /\ Behind(mgProc, mgWorker)
          BY <1>7, ZenonT(30) DEF MgInv, MgTypes, MgProcs, ReceiptInv
    <3> QED BY <1>8, <3>1, BehindStill, ZenonT(30)
  <2>5. \A q \in mgReplaced : mgPhase'[q] # "none" /\ (mgBinding.gen > 0 => mgReq[q].dst.gen <= mgBinding.gen)
        BY <1>5, <2>3, ZenonT(30) DEF MgInv, ReceiptInv
  <2>6. \A q \in mgSynced : mgPhase'[q] = "ok"
        BY <1>5, <2>3, ZenonT(30) DEF MgInv, ReceiptInv
  <2> QED BY <1>1, <1>3, <1>5, <1>6, <1>8, <2>1, <2>2, <2>4, <2>5, <2>6, ZenonT(30) DEF ReceiptInv
<1>12. HelperInv'
      BY <1>1, <1>2, <1>3, <1>4, <1>5, ZenonT(30) DEF HelperInv, HelperOK, Walking, SamePlace
<1>13. ProbeInv' /\ SettleInv' /\ RediscoveryInv'
  <2>1. \A q \in Rebinds : mgPhase'[q] = "ok" => mgPhase[q] = "ok" \/ (mgRb.pc = "complete" /\ q = mgRb.r)
        BY <1>5, ZenonT(30) DEF r
  <2> QED BY <1>4, <1>7, <1>9, <2>1, HelperWrites, ZenonT(30)
<1>14. LagInv'
  <2>1. r \notin mgSynced
        BY <1>3, ZenonT(30) DEF MgInv, ReceiptInv
  <2>2. \A q \in Rebinds : Accounts(q, mgPhase, mgSynced) => Accounts(q, mgPhase', mgSynced')
        BY <1>1, <1>5, <2>1, ZenonT(30) DEF Accounts
  <2> QED BY <1>6, <1>8, <2>2, ZenonT(30) DEF MgInv, LagInv, SamePlace
<1> QED BY <1>7, <1>10, <1>11, <1>12, <1>13, <1>14, ZenonT(30) DEF MgInv

LEMMA CompleteKeeps == ASSUME MgInv, CompleteRebind PROVE MgInv'
<1>1. mgRb.pc = "complete" /\ UNCHANGED <<bindingFile, mgReq, mgProc, mgProbe, mgDriver>>
      BY ZenonT(30) DEF CompleteRebind
<1>2. CASE HelperFails /\ UNCHANGED runtimeFile
      BY <1>1, <1>2, ProcFacts, HelperFailsKeeps, ZenonT(30)
<1>3. CASE /\ MgCompletable(mgRb.r, mgRb.w, TRUE) /\ MgComplete(mgRb.r, mgRb.w, TRUE)
           /\ mgRb' = [mgRb EXCEPT !.pc = "replace", !.phase = "ok"]
      BY <1>1, <1>3, SucceedKeeps, ZenonT(30)
<1> QED BY <1>2, <1>3, ZenonT(30) DEF CompleteRebind

-----------------------------------------------------------------------------
(* The binding file moves one generation on, or is written again as it was. *)
LEMMA BindingWritten ==
  ASSUME MgInv, NEW r \in Rebinds, NEW w \in MgWorkers, mgPhase[r] = "ok", Replaceable(r, w), ReplaceBinding(r, w)
  PROVE  /\ mgBinding' \in MgBindings /\ SamePlace(mgBinding', w) /\ w.gen = mgReq[r].dst.gen
         /\ mgBinding' = mgBinding \/ mgBinding'.gen = mgBinding.gen + 1
         /\ mgBinding.gen > 0 /\ mgBinding'.gen > 0 /\ BindsOn(mgBinding, mgBinding')
         /\ mgReplaced' \subseteq Rebinds /\ r \in mgReplaced' /\ mgReplaced \subseteq mgReplaced'
         /\ \A q \in mgReplaced' : mgPhase[q] # "none" /\ mgReq[q].dst.gen <= mgBinding'.gen
<1>1. /\ mgBinding' = [gen |-> w.gen, dev |-> w.dev, by |-> r] /\ mgReplaced' = mgReplaced \cup {r}
      /\ w.gen \in Nat /\ w.dev \in MgDevices
      BY ZenonT(30) DEF ReplaceBinding, MgWorkers
<1>2. Asked(mgReq[r], mgBinding) /\ mgReq[r].src \in MgPlaces
      BY ZenonT(30) DEF MgInv, RequestInv, MgTypes, MgRequests
<1>3. mgBinding' \in MgBindings /\ SamePlace(mgBinding', w) /\ mgBinding'.gen = w.gen
      BY <1>1, ZenonT(30) DEF MgBindings, SamePlace
<1>4. /\ w.gen = mgReq[r].src.gen + 1 /\ w.gen = mgReq[r].dst.gen /\ w.gen > 0
      BY <1>2 DEF Replaceable, Asked, MgPlaces
<1>5. mgBinding' = mgBinding \/ mgBinding'.gen = mgBinding.gen + 1
  <2>1. CASE r \in mgReplaced
        BY <1>1, <2>1, ZenonT(30) DEF Replaceable
  <2>2. CASE r \notin mgReplaced
    <3>1. SamePlace(mgBinding, mgReq[r].src)
          BY <1>2, <2>2, PlaceIs, ZenonT(30) DEF Replaceable
    <3> QED BY <1>3, <1>4, <3>1, ZenonT(30) DEF SamePlace
  <2> QED BY <2>1, <2>2, ZenonT(30)
<1>6. mgBinding.gen > 0
  <2>1. CASE r \in mgReplaced
        BY <1>4, <2>1, SMTT(30) DEF Replaceable
  <2>2. CASE r \notin mgReplaced
    <3>1. SamePlace(mgBinding, mgReq[r].src)
          BY <1>2, <2>2, PlaceIs, ZenonT(30) DEF Replaceable
    <3> QED BY <1>2, <3>1, ZenonT(30) DEF SamePlace, Asked
  <2> QED BY <2>1, <2>2, ZenonT(30)
<1>7. mgBinding.gen \in Nat /\ mgBinding.gen <= mgBinding'.gen /\ mgBinding'.gen > 0
      BY <1>3, <1>4, <1>5, SMTT(30) DEF MgInv, MgTypes, MgBindings
<1>8. \A q \in mgReplaced : q \in Rebinds /\ mgPhase[q] # "none" /\ mgReq[q].dst.gen <= mgBinding.gen
      BY <1>6, ZenonT(30) DEF MgInv, MgTypes, ReceiptInv
<1>9. \A q \in Rebinds : mgReq[q].dst.gen \in Nat
      BY ZenonT(30) DEF MgInv, MgTypes, MgRequests, MgPlaces
<1>10. \A q \in mgReplaced' : mgPhase[q] # "none" /\ mgReq[q].dst.gen <= mgBinding'.gen
  <2>1. ASSUME NEW q \in mgReplaced PROVE mgReq[q].dst.gen <= mgBinding'.gen
    <3>1. mgReq[q].dst.gen \in Nat /\ mgReq[q].dst.gen <= mgBinding.gen
          BY <1>8, <1>9, ZenonT(30)
    <3>2. mgBinding'.gen \in Nat
          BY <1>1, <1>3, ZenonT(30)
    <3> QED BY <1>7, <3>1, <3>2, SMTT(30)
  <2>2. mgPhase[r] # "none" /\ mgReq[r].dst.gen <= mgBinding'.gen
        BY <1>1, <1>3, <1>4, SMTT(30)
  <2> QED BY <1>1, <1>8, <2>1, <2>2, ZenonT(30)
<1> QED BY <1>1, <1>3, <1>4, <1>5, <1>6, <1>7, <1>8, <1>10, ZenonT(30) DEF BindsOn

LEMMA ReplacedKeeps ==
  ASSUME MgInv, mgRb.pc = "replace", Replaceable(mgRb.r, mgRb.w), ReplaceBinding(mgRb.r, mgRb.w),
         mgRb' = [mgRb EXCEPT !.pc = "mark"], UNCHANGED <<runtimeFile, mgReq, mgProc, mgProbe, mgDriver>>
  PROVE  MgInv'
<1> DEFINE r == mgRb.r
<1>1. mgWorker' = mgWorker /\ mgPhase' = mgPhase /\ mgHead' = mgHead /\ mgSynced' = mgSynced
      BY ZenonT(30) DEF runtimeFile
<1>2. /\ r \in Rebinds /\ mgReq[r] \in MgRequests /\ mgReq[r] # NoRequest /\ r # 0 /\ mgRb.w \in MgWorkers
      BY HelperFacts, MigAssumption, ZenonT(30)
<1>3. mgPhase[r] = "ok" /\ SamePlace(mgRb.w, mgWorker) /\ (mgRb.w.st = "failed" => mgProc.st = "dead")
      BY ZenonT(30) DEF MgInv, HelperInv, HelperOK
<1>4. /\ mgBinding' \in MgBindings /\ SamePlace(mgBinding', mgRb.w) /\ mgRb.w.gen = mgReq[r].dst.gen
      /\ mgBinding'.gen > 0 /\ BindsOn(mgBinding, mgBinding')
      /\ mgReplaced' \subseteq Rebinds /\ mgReplaced \subseteq mgReplaced'
      /\ \A q \in mgReplaced' : mgPhase[q] # "none" /\ mgReq[q].dst.gen <= mgBinding'.gen
      BY <1>2, <1>3, BindingWritten, ZenonT(30)
<1>5. mgRb' \in MgHelpers /\ mgRb'.pc = "mark" /\ mgRb'.r = r /\ mgRb'.w = mgRb.w
      BY ZenonT(30) DEF MgInv, MgTypes, MgHelpers
<1> HIDE DEF r
<1>6. SamePlace(mgWorker, mgReq[r].dst)
  <2>1. Behind(mgReq[r].dst, mgWorker)
        BY <1>2, <1>3, ZenonT(30) DEF MgInv, ReceiptInv, ReceiptOK
  <2> QED BY <1>2, <1>3, <1>4, <2>1, SMTT(30) DEF Behind, SamePlace, MgRequests, MgPlaces
<1>7. MgTypes'
      BY <1>1, <1>4, <1>5, ZenonT(30) DEF MgInv, MgTypes
<1>8. FilesMoveOn
      BY <1>1, <1>4, ZenonT(30) DEF FilesMoveOn, Behind, SamePlace, PhasesKept
<1>9. RequestInv'
      BY <1>1, <1>4, RequestsStay, ZenonT(30)
<1>10. ReceiptInv'
      BY <1>1, <1>4, ZenonT(30) DEF MgInv, ReceiptInv
<1>11. HelperInv'
      BY <1>1, <1>2, <1>3, <1>4, <1>5, <1>6, ZenonT(30) DEF HelperInv, HelperOK, Walking, SamePlace
<1>12. ProbeInv' /\ SettleInv' /\ RediscoveryInv'
      BY <1>1, <1>5, <1>7, <1>8, HelperWrites, ZenonT(30)
<1>13. LagInv'
      BY <1>1, <1>3, <1>4, ZenonT(30) DEF LagInv, SamePlace
<1> QED BY <1>7, <1>9, <1>10, <1>11, <1>12, <1>13, ZenonT(30) DEF MgInv

LEMMA SynchronizeKeeps == ASSUME MgInv, SynchronizeBinding PROVE MgInv'
<1>1. mgRb.pc = "replace" /\ UNCHANGED <<runtimeFile, mgReq, mgProc, mgProbe, mgDriver>>
      BY ZenonT(30) DEF SynchronizeBinding
<1>2. CASE HelperFails /\ UNCHANGED bindingFile
      BY <1>1, <1>2, ProcFacts, HelperFailsKeeps, ZenonT(30)
<1>3. CASE /\ Replaceable(mgRb.r, mgRb.w) /\ ReplaceBinding(mgRb.r, mgRb.w) /\ mgRb' = [mgRb EXCEPT !.pc = "mark"]
      BY <1>1, <1>3, ReplacedKeeps, ZenonT(30)
<1> QED BY <1>2, <1>3, ZenonT(30) DEF SynchronizeBinding

LEMMA MarkedKeeps ==
  ASSUME MgInv, mgRb.pc = "mark", MarkBindingSynchronized(mgRb.r), mgRb' = NoRebind,
         mgProbe' = [mgProbe EXCEPT !["refresh"] = [NoProbe EXCEPT !.pc = "snapshot", !.for = mgRb.r]],
         UNCHANGED <<bindingFile, mgReq, mgProc, mgDriver>>
  PROVE  MgInv'
<1> DEFINE r == mgRb.r
           n == [NoProbe EXCEPT !.pc = "snapshot", !.for = r]
<1>1. /\ mgWorker' = mgWorker /\ mgPhase' = mgPhase /\ mgHead' = mgHead /\ mgSynced' = mgSynced \cup {r}
      /\ mgPhase[r] = "ok"
      BY ZenonT(30) DEF MarkBindingSynchronized
<1>2. r \in Rebinds /\ r # 0
      BY HelperFacts, MigAssumption, ZenonT(30)
<1>3. SamePlace(mgBinding, mgWorker) /\ SamePlace(mgWorker, mgReq[r].dst)
      BY ZenonT(30) DEF MgInv, HelperInv, HelperOK
<1>4. /\ n \in MgProbes /\ n.pc = "snapshot" /\ n.for = r /\ n.w = NoProbe.w /\ n.todo = NoProbe.todo
      /\ n.pend = NoProbe.pend /\ n.known = NoProbe.known
      BY <1>2, EmptyHelpers, ZenonT(30) DEF MgProbes
<1>5. mgBinding' = mgBinding /\ mgReplaced' = mgReplaced
      BY ZenonT(30) DEF bindingFile
<1>6. mgProbe' = [mgProbe EXCEPT !["refresh"] = n]
      BY ZenonT(30)
<1> HIDE DEF r, n
<1>7. mgProbe' \in [Probers -> MgProbes] /\ mgProbe'["refresh"] = n /\ mgProbe'["poll"] = mgProbe["poll"]
      BY <1>4, <1>6, ZenonT(30) DEF MgInv, MgTypes, Probers
<1>8. MgTypes'
      BY <1>1, <1>2, <1>5, <1>7, EmptyHelpers, ZenonT(30) DEF MgInv, MgTypes
<1>9. FilesMoveOn
  <2>1. BindsOn(mgBinding, mgBinding')
        BY <1>5 DEF BindsOn, MgInv, MgTypes, MgBindings
  <2> QED BY <1>1, <1>5, <2>1, ZenonT(30) DEF FilesMoveOn, Behind, SamePlace, PhasesKept
<1>10. RequestInv'
      BY <1>1, <1>5, ZenonT(30) DEF MgInv, RequestInv
<1>11. ReceiptInv'
      BY <1>1, <1>5, ZenonT(30) DEF MgInv, ReceiptInv
<1>12. /\ ProbeOK(NoProbe, mgWorker', mgPhase', mgBinding', mgReplaced', mgProc')
       /\ HelperOK(NoRebind, mgWorker', mgPhase', mgHead', mgReq', mgBinding', mgProc')
  <2>1. mgWorker' \in MgWorkers /\ mgWorker'.gen > 0 /\ mgBinding' \in MgBindings
        BY <1>8, <1>11, ZenonT(30) DEF MgTypes, ReceiptInv
  <2> QED BY <2>1, IdleOK, ZenonT(30)
<1>13. ProbeOK(n, mgWorker', mgPhase', mgBinding', mgReplaced', mgProc')
      BY <1>4, <1>12, ZenonT(30) DEF ProbeOK
<1>14. ProbeInv'
      BY <1>4, <1>6, <1>8, <1>9, <1>13, ProbeTurns, ZenonT(30) DEF Probers
<1>15. HelperInv'
      BY <1>12, ZenonT(30) DEF HelperInv
<1>16. SettleInv'
      BY <1>1, <1>4, <1>7, EmptyHelpers, ZenonT(30) DEF MgInv, SettleInv, Settles, Probers
<1>17. RediscoveryInv'
  <2>1. r \in mgSynced' /\ mgPhase'[r] = "ok" /\ SamePlace(mgBinding', mgWorker') /\ SamePlace(mgWorker', mgReq'[r].dst)
        BY <1>1, <1>3, <1>5, ZenonT(30)
  <2>2. mgRb'.pc = "idle"
        BY EmptyHelpers, ZenonT(30)
  <2> QED BY <1>2, <1>4, <1>7, <2>1, <2>2, ZenonT(30) DEF RediscoveryInv, RediscoveryOK
<1>18. LagInv'
      BY <1>1, <1>3, <1>5, ZenonT(30) DEF LagInv
<1> QED BY <1>8, <1>10, <1>11, <1>14, <1>15, <1>16, <1>17, <1>18, ZenonT(30) DEF MgInv

LEMMA MarkKeeps == ASSUME MgInv, MarkAndAnswer PROVE MgInv'
<1>1. mgRb.pc = "mark" /\ mgRb' = NoRebind /\ UNCHANGED <<bindingFile, mgReq, mgProc, mgDriver>>
      BY ZenonT(30) DEF MarkAndAnswer
<1>2. CASE UNCHANGED <<runtimeFile, mgProbe>>
      BY <1>1, <1>2, ProcFacts, HelperFailsKeeps, ZenonT(30) DEF HelperFails
<1>3. CASE /\ MarkBindingSynchronized(mgRb.r)
           /\ mgProbe' = [mgProbe EXCEPT !["refresh"] = [NoProbe EXCEPT !.pc = "snapshot", !.for = mgRb.r]]
      BY <1>1, <1>3, MarkedKeeps, ZenonT(30)
<1> QED BY <1>2, <1>3, ZenonT(30) DEF MarkAndAnswer

-----------------------------------------------------------------------------
(* A probing helper writes a file: the worker stays where it is, no receipt   *)
(* that is done is undone, and the binding does not leave the worker's place. *)
LEMMA ProbeWrites ==
  ASSUME MgInv, MgTypes', FilesMoveOn, mgRb' = mgRb, mgReq' = mgReq, mgProc' = mgProc, mgHead' = mgHead,
         mgSynced \subseteq mgSynced', SamePlace(mgWorker', mgWorker),
         \A r \in Rebinds : mgPhase'[r] \in {mgPhase[r], "failed"},
         SamePlace(mgBinding, mgWorker) => SamePlace(mgBinding', mgWorker),
         NEW p \in Probers, NEW n \in MgProbes, mgProbe' = [mgProbe EXCEPT ![p] = n],
         ProbeOK(n, mgWorker', mgPhase', mgBinding', mgReplaced', mgProc'),
         Settles(n, mgReq) => mgPhase'[n.pend] # "ok" /\ ~(mgRb.pc = "complete" /\ mgRb.r = n.pend),
         p = "refresh" /\ n.pc # "idle" => mgProbe[p].pc # "idle" /\ n.for = mgProbe[p].for
  PROVE  HelperInv' /\ ProbeInv' /\ SettleInv' /\ RediscoveryInv'
<1>1. ProbeInv'
      BY ProbeTurns, ZenonT(30)
<1>2. \A r \in Rebinds : mgPhase[r] = "ok" <=> mgPhase'[r] = "ok"
      BY ZenonT(30) DEF FilesMoveOn, PhasesKept
<1>3. \A q \in Probers : mgProbe'[q] = IF q = p THEN n ELSE mgProbe[q]
      BY ZenonT(30) DEF MgInv, MgTypes
<1>4. SettleInv'
  <2> SUFFICES ASSUME NEW q \in Probers, Settles(mgProbe'[q], mgReq)
               PROVE  mgPhase'[mgProbe'[q].pend] # "ok" /\ ~(mgRb.pc = "complete" /\ mgRb.r = mgProbe'[q].pend)
      BY ZenonT(30) DEF SettleInv
  <2>1. CASE q = p
        BY <1>3, <2>1, ZenonT(30)
  <2>2. CASE q # p
    <3>1. mgProbe'[q] = mgProbe[q]
          BY <1>3, <2>2, ZenonT(30)
    <3>2. mgPhase[mgProbe[q].pend] # "ok" /\ ~(mgRb.pc = "complete" /\ mgRb.r = mgProbe[q].pend)
          BY <3>1, ZenonT(30) DEF MgInv, SettleInv
    <3>3. mgProbe[q].pend \in Rebinds
          BY <3>1, ZenonT(30) DEF Settles, MgInv, MgTypes, MgProbes
    <3> QED BY <1>2, <3>1, <3>2, <3>3, ZenonT(30)
  <2> QED BY <2>1, <2>2, ZenonT(30)
<1>5. RediscoveryInv'
  <2> SUFFICES ASSUME mgProbe'["refresh"].pc # "idle"
               PROVE  /\ mgRb.pc = "idle" /\ mgProbe'["refresh"].for # 0 /\ mgPhase'[mgProbe'["refresh"].for] = "ok"
                      /\ mgProbe'["refresh"].for \in mgSynced' /\ SamePlace(mgBinding', mgWorker')
                      /\ SamePlace(mgWorker', mgReq[mgProbe'["refresh"].for].dst)
      BY ZenonT(30) DEF RediscoveryInv, RediscoveryOK
  <2>1. mgProbe["refresh"].pc # "idle" /\ mgProbe'["refresh"].for = mgProbe["refresh"].for
        BY <1>3, ZenonT(30) DEF Probers
  <2>2. /\ mgRb.pc = "idle" /\ mgProbe["refresh"].for # 0 /\ mgPhase[mgProbe["refresh"].for] = "ok"
        /\ mgProbe["refresh"].for \in mgSynced /\ SamePlace(mgBinding, mgWorker)
        /\ SamePlace(mgWorker, mgReq[mgProbe["refresh"].for].dst)
        BY <2>1, ZenonT(30) DEF MgInv, RediscoveryInv, RediscoveryOK
  <2>3. mgProbe["refresh"].for \in Rebinds
        BY <2>2, ZenonT(30) DEF MgInv, MgTypes
  <2> QED BY <1>2, <2>1, <2>2, <2>3, ZenonT(30) DEF SamePlace
<1>6. HelperInv'
  <2>1. mgRb.pc # "idle" => mgRb.r \in Rebinds
        BY HelperFacts, ZenonT(30)
  <2>2. HelperOK(mgRb, mgWorker, mgPhase, mgHead, mgReq, mgBinding, mgProc)
        BY ZenonT(30) DEF MgInv, HelperInv
  <2>3. mgRb.pc \in Walking => mgPhase'[mgRb.r] \in {mgRb.phase, "failed"}
        BY <2>1, <2>2, ZenonT(30) DEF HelperOK, Walking
  <2>4. mgRb.pc \in {"replace", "mark"} => mgPhase'[mgRb.r] = "ok"
        BY <1>2, <2>1, <2>2, ZenonT(30) DEF HelperOK
  <2>5. HelperOK(mgRb, mgWorker', mgPhase', mgHead, mgReq, mgBinding', mgProc)
        BY <2>2, <2>3, <2>4, ZenonT(30) DEF HelperOK, SamePlace
  <2> QED BY <2>5, ZenonT(30) DEF HelperInv
<1> QED BY <1>1, <1>4, <1>5, <1>6, ZenonT(30)

(* One field of a probing helper's state changes. *)
LEMMA ProbeIs ==
  ASSUME MgInv, NEW p \in Probers
  PROVE  /\ mgProbe[p] \in MgProbes /\ mgProbe[p].w \in MgWorkers /\ mgProbe[p].pend \in Rebinds \cup {0}
         /\ mgProbe[p].todo \in SUBSET Rebinds
         /\ ProbeOK(mgProbe[p], mgWorker, mgPhase, mgBinding, mgReplaced, mgProc)
<1>1. mgProbe[p] \in MgProbes
      BY ZenonT(30) DEF MgInv, MgTypes
<1> QED BY <1>1, ZenonT(30) DEF MgInv, ProbeInv, MgProbes

LEMMA ProbeIsAt ==
  ASSUME MgInv, NEW p \in Probers, NEW pc, ProbeAt(p, pc), pc \in {"settle", "again", "mark"}
  PROVE  \E n \in MgProbes : /\ mgProbe' = [mgProbe EXCEPT ![p] = n] /\ n.pc = pc /\ n.w = mgProbe[p].w
                             /\ n.pend = mgProbe[p].pend /\ n.todo = mgProbe[p].todo
                             /\ n.known = mgProbe[p].known /\ n.for = mgProbe[p].for
<1> DEFINE n == [mgProbe[p] EXCEPT !.pc = pc]
<1>1. mgProbe[p] \in MgProbes
      BY ProbeIs, ZenonT(30)
<1>2. /\ n \in MgProbes /\ n.pc = pc /\ n.w = mgProbe[p].w /\ n.pend = mgProbe[p].pend /\ n.todo = mgProbe[p].todo
      /\ n.known = mgProbe[p].known /\ n.for = mgProbe[p].for
      BY <1>1, ZenonT(30) DEF MgProbes
<1>3. mgProbe' = [mgProbe EXCEPT ![p] = n]
      BY ZenonT(30) DEF ProbeAt
<1> HIDE DEF n
<1> QED BY <1>2, <1>3, ZenonT(30)

LEMMA RefreshedKeeps ==
  ASSUME MgInv, NEW p \in Probers, mgProbe[p].pc = "refresh", Refreshable(mgProbe[p].w), mgWorker' = mgProbe[p].w,
         ProbeAt(p, "settle"), UNCHANGED <<mgPhase, mgHead, mgSynced, mgDriver, bindingFile, mgReq, mgProc, mgRb>>
  PROVE  MgInv'
<1> DEFINE w == mgProbe[p].w
           pend == mgProbe[p].pend
<1>1. w \in MgWorkers /\ pend \in Rebinds \cup {0} /\ Behind(w, mgWorker) /\ (w.st = "failed" => mgProc.st = "dead")
      BY ProbeIs, ZenonT(30) DEF ProbeOK
<1>2. mgBinding' = mgBinding /\ mgReplaced' = mgReplaced
      BY ZenonT(30) DEF bindingFile
<1>3. PICK n \in MgProbes : /\ mgProbe' = [mgProbe EXCEPT ![p] = n] /\ n.pc = "settle" /\ n.w = w /\ n.pend = pend
                            /\ n.todo = mgProbe[p].todo /\ n.known = mgProbe[p].known /\ n.for = mgProbe[p].for
      BY ProbeIsAt, SMTT(30)
<1>4. SamePlace(w, mgWorker)
  <2>1. ASSUME w.gen # mgWorker.gen PROVE FALSE
    <3>1. mgHead # 0 /\ mgReq[mgHead].src.gen = mgWorker.gen /\ mgReq[mgHead].dst.gen = w.gen
          BY <2>1, ZenonT(30) DEF Refreshable, Unresolved
    <3>2. mgHead \in Rebinds /\ mgPhase[mgHead] # "none"
          BY <3>1, ZenonT(30) DEF MgInv, MgTypes, ReceiptInv
    <3>3. Asked(mgReq[mgHead], mgBinding)
          BY <3>2, ZenonT(30) DEF MgInv, RequestInv
    <3>4. w.gen \in Nat /\ mgWorker.gen \in Nat
          BY <1>1, ZenonT(30) DEF MgInv, MgTypes, MgWorkers
    <3> QED BY <1>1, <3>1, <3>3, <3>4, BehindByGeneration, ZenonT(30) DEF Asked
  <2>2. w.gen = mgWorker.gen /\ w.gen \in Nat
        BY <1>1, <2>1, ZenonT(30) DEF MgWorkers
  <2> QED BY <1>1, <2>2, BehindByGeneration, ZenonT(30)
<1> HIDE DEF w
<1>5. mgWorker' = w
      BY ZenonT(30) DEF w
<1>6. mgProbe' \in [Probers -> MgProbes]
      BY <1>3, ZenonT(30) DEF MgInv, MgTypes
<1>7. MgTypes'
      BY <1>1, <1>2, <1>5, <1>6, ZenonT(30) DEF MgInv, MgTypes
<1>8. SamePlace(mgWorker', mgWorker) /\ Behind(mgWorker, mgWorker') /\ mgWorker'.gen > 0
      BY <1>4, <1>5, ZenonT(30) DEF SamePlace, Behind, MgInv, ReceiptInv
<1>9. FilesMoveOn
  <2>1. BindsOn(mgBinding, mgBinding')
        BY <1>2, BindingStands, ZenonT(30) DEF MgInv, MgTypes
  <2> QED BY <1>2, <1>8, <2>1, ZenonT(30) DEF FilesMoveOn, PhasesKept
<1>10. RequestInv'
      BY <1>2, ZenonT(30) DEF MgInv, RequestInv
<1>11. ReceiptInv'
  <2>1. \A r \in Rebinds : ReceiptOK(r, mgPhase[r], mgReq[r], mgWorker', mgHead)
        BY <1>8, ZenonT(30) DEF MgInv, ReceiptInv, ReceiptOK, SamePlace, Behind
  <2>2. Behind(mgProc, mgWorker')
        BY <1>8, ZenonT(30) DEF MgInv, ReceiptInv, SamePlace, Behind
  <2> QED BY <1>1, <1>2, <1>5, <1>8, <2>1, <2>2, ZenonT(30) DEF MgInv, ReceiptInv
<1>12. ProbeOK(n, mgWorker', mgPhase', mgBinding', mgReplaced', mgProc')
  <2>1. ProbeOK(mgProbe[p], mgWorker', mgPhase', mgBinding', mgReplaced', mgProc')
        BY <1>7, <1>9, ProbeStays, ZenonT(30)
  <2> QED BY <1>3, <2>1, ZenonT(30) DEF ProbeOK, w
<1>13. Settles(n, mgReq) => mgPhase'[n.pend] # "ok" /\ ~(mgRb.pc = "complete" /\ mgRb.r = n.pend)
  <2> SUFFICES ASSUME Settles(n, mgReq) PROVE mgPhase[pend] # "ok" /\ ~(mgRb.pc = "complete" /\ mgRb.r = pend)
      BY <1>3, ZenonT(30)
  <2>1. pend # 0 /\ w.gen = mgReq[pend].src.gen
        BY <1>3, ZenonT(30) DEF Settles
  <2>2. mgPhase[pend] # "none"
        BY <2>1, ProbeIs, ZenonT(30) DEF ProbeOK
  <2>3. Asked(mgReq[pend], mgBinding) /\ mgReq[pend] \in MgRequests /\ pend \in Rebinds
        BY <1>1, <2>1, <2>2, ZenonT(30) DEF MgInv, MgTypes, RequestInv
  <2>4. mgWorker.gen = mgReq[pend].src.gen /\ mgReq[pend].src.gen \in Nat
        BY <1>4, <2>1, <2>3, ZenonT(30) DEF SamePlace, MgRequests, MgPlaces
  <2>5. mgPhase[pend] # "ok"
    <3>1. ReceiptOK(pend, mgPhase[pend], mgReq[pend], mgWorker, mgHead)
          BY <2>3, ZenonT(30) DEF MgInv, ReceiptInv
    <3> QED BY <2>3, <2>4, <3>1, NotThroughAtSource, ZenonT(30)
  <2>6. ~(mgRb.pc = "complete" /\ mgRb.r = pend)
        BY <2>4, CompleteIsMoved, ZenonT(30)
  <2> QED BY <2>5, <2>6, ZenonT(30)
<1>14. HelperInv' /\ ProbeInv' /\ SettleInv' /\ RediscoveryInv'
  <2>1. SamePlace(mgBinding, mgWorker) => SamePlace(mgBinding', mgWorker)
        BY <1>2, ZenonT(30)
  <2> QED BY <1>3, <1>7, <1>8, <1>9, <1>12, <1>13, <2>1, ProbeWrites, ZenonT(30)
<1>15. LagInv'
      BY <1>2, <1>8, ZenonT(30) DEF MgInv, LagInv, SamePlace
<1> QED BY <1>7, <1>10, <1>11, <1>14, <1>15, ZenonT(30) DEF MgInv

LEMMA RefreshKeeps == ASSUME MgInv, NEW p \in Probers, ProbeRefresh(p) PROVE MgInv'
<1>1. mgProbe[p].pc = "refresh" /\ UNCHANGED <<bindingFile, mgReq, mgProc, mgRb>>
      BY ZenonT(30) DEF ProbeRefresh, probeFrame
<1>2. CASE ProbeFails(p) /\ UNCHANGED runtimeFile
      BY <1>1, <1>2, ProbeFailsKeeps, ZenonT(30)
<1>3. CASE /\ Refreshable(mgProbe[p].w) /\ mgWorker' = mgProbe[p].w /\ ProbeAt(p, "settle")
           /\ UNCHANGED <<mgPhase, mgHead, mgSynced, mgDriver>>
      BY <1>1, <1>3, RefreshedKeeps, ZenonT(30)
<1> QED BY <1>2, <1>3, ZenonT(30) DEF ProbeRefresh

(* The probe fails a receipt only once the worker is dead. *)
LEMMA SettledKeeps ==
  ASSUME MgInv, NEW p \in Probers, mgProbe[p].pc = "settle", mgProbe[p].pend # 0, mgProbe[p].w.st = "failed",
         MgCompletable(mgProbe[p].pend, mgProbe[p].w, FALSE), MgComplete(mgProbe[p].pend, mgProbe[p].w, FALSE),
         ProbeAt(p, "again"), UNCHANGED <<mgDriver, bindingFile, mgReq, mgProc, mgRb>>
  PROVE  MgInv'
<1> DEFINE r == mgProbe[p].pend
<1>1. /\ mgHead = r /\ mgProbe[p].w.gen = mgReq[r].src.gen /\ mgPhase' = [mgPhase EXCEPT ![r] = "failed"]
      /\ mgWorker' = mgWorker /\ mgHead' = mgHead /\ mgSynced' = mgSynced
      BY ZenonT(30) DEF MgCompletable, MgComplete
<1>2. r \in Rebinds /\ mgProc.st = "dead" /\ mgPhase[r] # "none"
      BY ProbeIs, ZenonT(30) DEF ProbeOK
<1>3. mgPhase[r] # "ok"
      BY <1>1, ZenonT(30) DEF MgInv, SettleInv, Settles
<1>4. PICK n \in MgProbes : /\ mgProbe' = [mgProbe EXCEPT ![p] = n] /\ n.pc = "again" /\ n.w = mgProbe[p].w
                            /\ n.pend = mgProbe[p].pend /\ n.todo = mgProbe[p].todo
                            /\ n.known = mgProbe[p].known /\ n.for = mgProbe[p].for
      BY ProbeIsAt, SMTT(30)
<1> HIDE DEF r
<1>5. /\ mgPhase' \in [Rebinds -> MgPhases] /\ mgPhase'[r] = "failed"
      /\ \A q \in Rebinds : q # r => mgPhase'[q] = mgPhase[q]
      BY <1>1, <1>2, NewPhase, ZenonT(30) DEF MgPhases
<1>6. mgBinding' = mgBinding /\ mgReplaced' = mgReplaced
      BY ZenonT(30) DEF bindingFile
<1>7. mgProbe' \in [Probers -> MgProbes]
      BY <1>4, ZenonT(30) DEF MgInv, MgTypes
<1>8. MgTypes'
      BY <1>1, <1>5, <1>6, <1>7, ZenonT(30) DEF MgInv, MgTypes
<1>9. FilesMoveOn
  <2>1. BindsOn(mgBinding, mgBinding')
        BY <1>6, BindingStands, ZenonT(30) DEF MgInv, MgTypes
  <2>2. PhasesKept(mgPhase, mgPhase')
        BY <1>3, <1>5, ZenonT(30) DEF PhasesKept
  <2> QED BY <1>1, <1>6, <2>1, <2>2, ZenonT(30) DEF FilesMoveOn, Behind, SamePlace
<1>10. RequestInv'
      BY <1>2, <1>5, <1>6, ZenonT(30) DEF MgInv, RequestInv
<1>11. ReceiptInv'
  <2>1. \A q \in Rebinds : ReceiptOK(q, mgPhase'[q], mgReq[q], mgWorker, mgHead)
    <3>1. ReceiptOK(r, mgPhase'[r], mgReq[r], mgWorker, mgHead)
          BY <1>5, ZenonT(30) DEF ReceiptOK, EarlyPhases, LatePhases
    <3> QED BY <1>5, <3>1, ZenonT(30) DEF MgInv, ReceiptInv
  <2>2. r \notin mgSynced /\ mgSynced \subseteq Rebinds /\ mgReplaced \subseteq Rebinds
        BY <1>3, ZenonT(30) DEF MgInv, MgTypes, ReceiptInv
  <2> QED BY <1>1, <1>5, <1>6, <2>1, <2>2, ZenonT(30) DEF MgInv, ReceiptInv
<1>12. ProbeOK(n, mgWorker', mgPhase', mgBinding', mgReplaced', mgProc')
  <2>1. ProbeOK(mgProbe[p], mgWorker', mgPhase', mgBinding', mgReplaced', mgProc')
        BY <1>8, <1>9, ProbeStays, ZenonT(30)
  <2> QED BY <1>4, <2>1, ZenonT(30) DEF ProbeOK
<1>13. HelperInv' /\ ProbeInv' /\ SettleInv' /\ RediscoveryInv'
  <2>1. ~Settles(n, mgReq) /\ SamePlace(mgWorker', mgWorker) /\ n.pc # "idle"
        BY <1>1, <1>4, ZenonT(30) DEF Settles, SamePlace
  <2>2. \A q \in Rebinds : mgPhase'[q] \in {mgPhase[q], "failed"}
        BY <1>5, ZenonT(30)
  <2>3. SamePlace(mgBinding, mgWorker) => SamePlace(mgBinding', mgWorker)
        BY <1>6, ZenonT(30)
  <2> QED BY <1>1, <1>4, <1>8, <1>9, <1>12, <2>1, <2>2, <2>3, ProbeWrites, ZenonT(30)
<1>14. LagInv'
      BY <1>2, ZenonT(30) DEF LagInv
<1> QED BY <1>8, <1>10, <1>11, <1>13, <1>14, ZenonT(30) DEF MgInv

LEMMA SettleKeeps == ASSUME MgInv, NEW p \in Probers, ProbeSettle(p) PROVE MgInv'
<1>1. mgProbe[p].pc = "settle" /\ UNCHANGED <<bindingFile, mgReq, mgProc, mgRb>>
      BY ZenonT(30) DEF ProbeSettle, probeFrame
<1>2. CASE ProbeFails(p) /\ UNCHANGED runtimeFile
      BY <1>1, <1>2, ProbeFailsKeeps, ZenonT(30)
<1>3. CASE ProbeAt(p, "again") /\ UNCHANGED <<runtimeFile, mgDriver>>
      BY <1>1, <1>3, ProbeAtKeeps, ZenonT(30)
<1>4. CASE /\ mgProbe[p].pend # 0 /\ mgProbe[p].w.st = "failed" /\ MgCompletable(mgProbe[p].pend, mgProbe[p].w, FALSE)
           /\ MgComplete(mgProbe[p].pend, mgProbe[p].w, FALSE) /\ ProbeAt(p, "again") /\ UNCHANGED mgDriver
      BY <1>1, <1>4, SettledKeeps, ZenonT(30)
<1> QED BY <1>2, <1>3, <1>4, ZenonT(30) DEF ProbeSettle

LEMMA FinishedKeeps ==
  ASSUME MgInv, NEW p \in Probers, mgProbe[p].pc = "replace", mgProbe[p].todo # {},
         Replaceable(First(mgProbe[p].todo), mgProbe[p].w), ReplaceBinding(First(mgProbe[p].todo), mgProbe[p].w),
         ProbeAt(p, "mark"), UNCHANGED <<runtimeFile, mgDriver, mgReq, mgProc, mgRb>>
  PROVE  MgInv'
<1> DEFINE r == First(mgProbe[p].todo)
           w == mgProbe[p].w
<1>1. mgWorker' = mgWorker /\ mgPhase' = mgPhase /\ mgHead' = mgHead /\ mgSynced' = mgSynced
      BY ZenonT(30) DEF runtimeFile
<1>2. w \in MgWorkers /\ r \in mgProbe[p].todo /\ mgProbe[p].todo \subseteq Rebinds
      BY ProbeIs, FirstIsOne, ZenonT(30)
<1>3. r \in Rebinds /\ mgPhase[r] = "ok" /\ Behind(w, mgWorker)
      BY <1>2, ProbeIs, ZenonT(30) DEF ProbeOK
<1>4. PICK n \in MgProbes : /\ mgProbe' = [mgProbe EXCEPT ![p] = n] /\ n.pc = "mark" /\ n.w = mgProbe[p].w
                            /\ n.pend = mgProbe[p].pend /\ n.todo = mgProbe[p].todo
                            /\ n.known = mgProbe[p].known /\ n.for = mgProbe[p].for
      BY ProbeIsAt, SMTT(30)
<1>5. /\ mgBinding' \in MgBindings /\ SamePlace(mgBinding', w) /\ w.gen = mgReq[r].dst.gen
      /\ mgBinding' = mgBinding \/ mgBinding'.gen = mgBinding.gen + 1
      /\ mgBinding.gen > 0 /\ mgBinding'.gen > 0 /\ BindsOn(mgBinding, mgBinding')
      /\ mgReplaced' \subseteq Rebinds /\ r \in mgReplaced' /\ mgReplaced \subseteq mgReplaced'
      /\ \A q \in mgReplaced' : mgPhase[q] # "none" /\ mgReq[q].dst.gen <= mgBinding'.gen
      BY <1>2, <1>3, BindingWritten, ZenonT(30)
<1> HIDE DEF r, w
<1>6. mgProbe' \in [Probers -> MgProbes]
      BY <1>4, ZenonT(30) DEF MgInv, MgTypes
<1>7. MgTypes'
      BY <1>1, <1>5, <1>6, ZenonT(30) DEF MgInv, MgTypes
<1>8. FilesMoveOn
      BY <1>1, <1>5, ZenonT(30) DEF FilesMoveOn, Behind, SamePlace, PhasesKept
<1>9. RequestInv'
      BY <1>1, <1>5, RequestsStay, ZenonT(30)
<1>10. ReceiptInv'
      BY <1>1, <1>5, ZenonT(30) DEF MgInv, ReceiptInv
<1>11. ProbeOK(n, mgWorker', mgPhase', mgBinding', mgReplaced', mgProc')
  <2>1. ProbeOK(mgProbe[p], mgWorker', mgPhase', mgBinding', mgReplaced', mgProc')
        BY <1>7, <1>8, ProbeStays, ZenonT(30)
  <2>2. n.todo # {} /\ First(n.todo) \in mgReplaced'
        BY <1>4, <1>5, ZenonT(30) DEF r
  <2> QED BY <1>4, <2>1, <2>2, ZenonT(30) DEF ProbeOK
<1>12. /\ w.gen \in Nat /\ mgWorker.gen \in Nat /\ mgBinding.gen \in Nat /\ mgBinding'.gen = w.gen
       /\ mgBinding.gen <= w.gen /\ w.gen <= mgWorker.gen
  <2>1. w.gen \in Nat /\ mgWorker.gen \in Nat /\ mgBinding.gen \in Nat
        BY <1>2, ZenonT(30) DEF MgInv, MgTypes, MgWorkers, MgBindings
  <2>2. mgBinding'.gen = w.gen
        BY <1>5, ZenonT(30) DEF SamePlace
  <2>3. w.gen <= mgWorker.gen
        BY <1>3, <2>1, BehindByGeneration, ZenonT(30)
  <2> QED BY <1>5, <2>1, <2>2, <2>3, SMTT(30)
<1>13. w.gen = mgWorker.gen => SamePlace(mgBinding', mgWorker)
      BY <1>3, <1>5, <1>12, BehindByGeneration, ZenonT(30) DEF SamePlace
<1>14. HelperInv' /\ ProbeInv' /\ SettleInv' /\ RediscoveryInv'
  <2>1. ~Settles(n, mgReq) /\ SamePlace(mgWorker', mgWorker)
        BY <1>1, <1>4, ZenonT(30) DEF Settles, SamePlace
  <2>2. SamePlace(mgBinding, mgWorker) => SamePlace(mgBinding', mgWorker)
        BY <1>12, <1>13, SMTT(30) DEF SamePlace
  <2>3. mgSynced \subseteq mgSynced' /\ (\A q \in Rebinds : mgPhase'[q] \in {mgPhase[q], "failed"})
        BY <1>1, ZenonT(30)
  <2> QED BY <1>1, <1>4, <1>7, <1>8, <1>11, <2>1, <2>2, <2>3, ProbeWrites, ZenonT(30)
<1>15. LagInv'
  <2>1. CASE mgBinding' = mgBinding
        BY <1>1, <2>1, ZenonT(30) DEF MgInv, LagInv
  <2>2. CASE mgBinding'.gen = mgBinding.gen + 1
    <3> SUFFICES ASSUME mgProc.st # "dead", ~SamePlace(mgBinding', mgWorker) PROVE FALSE
        BY <1>1, ZenonT(30) DEF LagInv
    <3>1. w.gen < mgWorker.gen /\ mgBinding.gen < mgWorker.gen
      <4>1. w.gen # mgWorker.gen
            BY <1>13, ZenonT(30)
      <4> QED BY <1>12, <4>1, StrictlyBehind, ZenonT(30)
    <3>2. PICK q \in Rebinds : /\ SamePlace(mgBinding, mgReq[q].src) /\ SamePlace(mgWorker, mgReq[q].dst)
                               /\ Accounts(q, mgPhase, mgSynced)
          BY <1>5, <1>12, <3>1, SMTT(30) DEF MgInv, LagInv, SamePlace
    <3>3. Asked(mgReq[q], mgBinding)
          BY <3>2, ZenonT(30) DEF MgInv, RequestInv, Accounts, LatePhases
    <3> QED BY <1>12, <2>2, <3>1, <3>2, <3>3, SMTT(30) DEF Asked, SamePlace
  <2> QED BY <1>5, <2>1, <2>2, ZenonT(30)
<1> QED BY <1>7, <1>9, <1>10, <1>14, <1>15, ZenonT(30) DEF MgInv

LEMMA ReplaceKeeps == ASSUME MgInv, NEW p \in Probers, ProbeReplace(p) PROVE MgInv'
<1>1. mgProbe[p].pc = "replace" /\ UNCHANGED <<runtimeFile, mgReq, mgProc, mgRb>>
      BY ZenonT(30) DEF ProbeReplace, probeFrame
<1>2. CASE ProbeFails(p) /\ UNCHANGED bindingFile
      BY <1>1, <1>2, ProbeFailsKeeps, ZenonT(30)
<1>3. CASE ProbeAt(p, "read") /\ UNCHANGED <<bindingFile, mgDriver>>
      BY <1>1, <1>3, ProbeAtKeeps, ZenonT(30)
<1>4. CASE /\ mgProbe[p].todo # {} /\ Replaceable(First(mgProbe[p].todo), mgProbe[p].w)
           /\ ReplaceBinding(First(mgProbe[p].todo), mgProbe[p].w) /\ ProbeAt(p, "mark") /\ UNCHANGED mgDriver
      BY <1>1, <1>4, FinishedKeeps, ZenonT(30)
<1> QED BY <1>2, <1>3, <1>4, ZenonT(30) DEF ProbeReplace

LEMMA ProbeMarkKeeps == ASSUME MgInv, NEW p \in Probers, ProbeMark(p) PROVE MgInv'
<1> DEFINE todo == mgProbe[p].todo
           r == First(todo)
           n == [mgProbe[p] EXCEPT !.pc = "replace", !.todo = todo \ {r}]
<1>1. /\ mgProbe[p].pc = "mark" /\ MarkBindingSynchronized(r)
      /\ UNCHANGED <<bindingFile, mgReq, mgProc, mgRb, mgDriver>> /\ mgProbe' = [mgProbe EXCEPT ![p] = n]
      BY ZenonT(30) DEF ProbeMark, probeFrame
<1>2. /\ mgWorker' = mgWorker /\ mgPhase' = mgPhase /\ mgHead' = mgHead /\ mgSynced' = mgSynced \cup {r}
      /\ mgPhase[r] = "ok"
      BY <1>1, ZenonT(30) DEF MarkBindingSynchronized
<1>3. mgBinding' = mgBinding /\ mgReplaced' = mgReplaced
      BY <1>1, ZenonT(30) DEF bindingFile
<1>4. r \in Rebinds /\ r \in mgReplaced
  <2>1. todo \in SUBSET Rebinds /\ todo # {} /\ r \in mgReplaced
        BY <1>1, ProbeIs, ZenonT(30) DEF ProbeOK
  <2> QED BY <2>1, FirstIsOne, ZenonT(30)
<1>5. /\ n \in MgProbes /\ n.pc = "replace" /\ n.w = mgProbe[p].w /\ n.pend = mgProbe[p].pend /\ n.todo = todo \ {r}
      /\ n.known = mgProbe[p].known /\ n.for = mgProbe[p].for
  <2>1. mgProbe[p] \in MgProbes /\ todo \ {r} \in SUBSET Rebinds
        BY ProbeIs, ZenonT(30)
  <2> HIDE DEF todo, r
  <2> QED BY <2>1, ZenonT(30) DEF MgProbes
<1> HIDE DEF r, n
<1>6. mgProbe' \in [Probers -> MgProbes]
      BY <1>1, <1>5, ZenonT(30) DEF MgInv, MgTypes
<1>7. MgTypes'
      BY <1>1, <1>2, <1>3, <1>4, <1>6, ZenonT(30) DEF MgInv, MgTypes
<1>8. FilesMoveOn
  <2>1. BindsOn(mgBinding, mgBinding')
        BY <1>3, BindingStands, ZenonT(30) DEF MgInv, MgTypes
  <2> QED BY <1>1, <1>2, <1>3, <2>1, ZenonT(30) DEF FilesMoveOn, Behind, SamePlace, PhasesKept
<1>9. RequestInv'
      BY <1>1, <1>2, <1>3, ZenonT(30) DEF MgInv, RequestInv
<1>10. ReceiptInv'
      BY <1>1, <1>2, <1>3, ZenonT(30) DEF MgInv, ReceiptInv
<1>11. ProbeOK(n, mgWorker', mgPhase', mgBinding', mgReplaced', mgProc')
  <2>1. ProbeOK(mgProbe[p], mgWorker', mgPhase', mgBinding', mgReplaced', mgProc')
        BY <1>7, <1>8, ProbeStays, ZenonT(30)
  <2> QED BY <1>5, <2>1, ZenonT(30) DEF ProbeOK
<1>12. HelperInv' /\ ProbeInv' /\ SettleInv' /\ RediscoveryInv'
  <2>1. ~Settles(n, mgReq) /\ SamePlace(mgWorker', mgWorker)
        BY <1>2, <1>5, ZenonT(30) DEF Settles, SamePlace
  <2>2. SamePlace(mgBinding, mgWorker) => SamePlace(mgBinding', mgWorker)
        BY <1>3, ZenonT(30)
  <2>3. mgSynced \subseteq mgSynced' /\ (\A q \in Rebinds : mgPhase'[q] \in {mgPhase[q], "failed"})
        BY <1>2, ZenonT(30)
  <2>4. mgProbe[p].pc # "idle" /\ n.for = mgProbe[p].for
        BY <1>1, <1>5, ZenonT(30)
  <2> QED BY <1>1, <1>2, <1>5, <1>7, <1>8, <1>11, <2>1, <2>2, <2>3, <2>4, ProbeWrites, ZenonT(30)
<1>13. LagInv'
  <2> SUFFICES ASSUME mgProc.st # "dead", mgBinding.gen > 0, ~SamePlace(mgBinding, mgWorker)
               PROVE  \E q \in Rebinds : /\ SamePlace(mgBinding, mgReq[q].src) /\ SamePlace(mgWorker, mgReq[q].dst)
                                         /\ Accounts(q, mgPhase, mgSynced')
      BY <1>1, <1>2, <1>3, ZenonT(30) DEF LagInv
  <2>1. PICK q \in Rebinds : /\ SamePlace(mgBinding, mgReq[q].src) /\ SamePlace(mgWorker, mgReq[q].dst)
                             /\ Accounts(q, mgPhase, mgSynced)
        BY ZenonT(30) DEF MgInv, LagInv
  <2>2. q # r
    <3>1. mgReq[r].dst.gen <= mgBinding.gen
          BY <1>4, ZenonT(30) DEF MgInv, ReceiptInv
    <3>2. Asked(mgReq[q], mgBinding) /\ mgBinding.gen \in Nat
          BY <2>1, ZenonT(30) DEF MgInv, MgTypes, MgBindings, RequestInv, Accounts, LatePhases
    <3> QED BY <2>1, <3>1, <3>2, SMTT(30) DEF Asked, SamePlace
  <2> QED BY <1>2, <2>1, <2>2, ZenonT(30) DEF Accounts
<1> QED BY <1>7, <1>9, <1>10, <1>12, <1>13, ZenonT(30) DEF MgInv

-----------------------------------------------------------------------------
MgSpec == MgInit /\ [][MgNext]_mgVars

LEMMA MgStep == ASSUME MgInv, [MgNext]_mgVars PROVE MgInv'
<1>1. CASE UNCHANGED mgVars
  <2>1. UNCHANGED <<mgWorker, mgPhase, mgHead, mgSynced, mgBinding, mgReplaced, mgReq, mgProc, mgRb, mgProbe, mgDriver>>
        BY <1>1, ZenonT(30) DEF mgVars, runtimeFile, bindingFile
  <2>2. UNCHANGED <<MgTypes, RequestInv, ReceiptInv, HelperInv>>
        BY <2>1, ZenonT(30) DEF MgTypes, RequestInv, ReceiptInv, HelperInv
  <2>3. UNCHANGED <<ProbeInv, SettleInv, RediscoveryInv, LagInv>>
        BY <2>1, ZenonT(30) DEF ProbeInv, SettleInv, RediscoveryInv, LagInv
  <2> QED BY <2>2, <2>3, ZenonT(30) DEF MgInv
<1>2. CASE \E r \in Rebinds : StartRebind(r)
      BY <1>2, StartKeeps, ZenonT(30)
<1>3. CASE BeginRebind \/ VerifyRebind \/ CallOrMutate \/ RecordPhase
      BY <1>3, BeginKeeps, VerifyKeeps, CallKeeps, RecordKeeps, ZenonT(30)
<1>4. CASE FailRebind \/ CompleteRebind \/ SynchronizeBinding \/ MarkAndAnswer
      BY <1>4, FailKeeps, CompleteKeeps, SynchronizeKeeps, MarkKeeps, ZenonT(30)
<1>5. CASE Poll \/ RuntimeDiscovered \/ ProbeRead \/ ProbeReceipts \/ Rediscovered
      BY <1>5, PollKeeps, DiscoveredKeeps, ReadKeeps, ReceiptsKeeps, RediscoveredKeeps, ZenonT(30)
<1>6. DOMAIN mgProbe = Probers
      BY ZenonT(30) DEF MgInv, MgTypes
<1>7. CASE \E p \in DOMAIN mgProbe : ProbeSnapshot(p) \/ ProbeStatus(p) \/ ProbeRefresh(p) \/ ProbeSettle(p)
      BY <1>6, <1>7, SnapshotKeeps, StatusKeeps, RefreshKeeps, SettleKeeps, ZenonT(30)
<1>8. CASE \E p \in DOMAIN mgProbe : ProbeAgain(p) \/ ProbePending(p) \/ ProbeReplace(p) \/ ProbeMark(p)
      BY <1>6, <1>8, AgainKeeps, PendingKeeps, ReplaceKeeps, ProbeMarkKeeps, ZenonT(30)
<1>9. CASE ReleaseSandbox \/ WorkerDies \/ HelperKilled \/ MgRestart
      BY <1>9, ReleaseKeeps, DiesKeeps, KilledKeeps, RestartKeeps, ZenonT(30)
<1> QED BY <1>1, <1>2, <1>3, <1>4, <1>5, <1>7, <1>8, <1>9, ZenonT(30) DEF MgNext

(* The inductive invariant of the two files, the helpers and the driver. *)
THEOREM MgInvariant == MgSpec => []MgInv
<1>1. MgInit => MgInv
      BY MgInitial, ZenonT(30)
<1>2. MgInv /\ [MgNext]_mgVars => MgInv'
      BY MgStep, ZenonT(30)
<1> QED BY <1>1, <1>2, PTL DEF MgSpec

(* While the worker lives, a binding file that is behind the runtime file is  *)
(* one rebind behind it, and that rebind's receipt is unfinished or waits for *)
(* its mark, so that a later probe can still finish the write (Advance,       *)
(* ReplaceBinding, MarkBindingSynchronized, synchronizePendingBindings):      *)
(* whatever helpers are killed, calls lost and receipts replayed.             *)
THEOREM LagAlwaysRecorded == MgSpec => []LagIsRecorded
<1>1. MgInv => LagIsRecorded
  <2> SUFFICES ASSUME MgInv, mgProc.st # "dead", mgBinding.gen > 0, Place(mgBinding) # Place(mgWorker)
               PROVE  \E r \in Rebinds : /\ mgReq[r] = [src |-> Place(mgBinding), dst |-> Place(mgWorker)]
                                         /\ mgPhase[r] \in {"reconfigured", "reloaded"} \/ r \in BindingSyncPending
      BY ZenonT(30) DEF LagIsRecorded
  <2>1. ~SamePlace(mgBinding, mgWorker)
        BY SamePlaces, ZenonT(30)
  <2>2. PICK r \in Rebinds : /\ SamePlace(mgBinding, mgReq[r].src) /\ SamePlace(mgWorker, mgReq[r].dst)
                             /\ Accounts(r, mgPhase, mgSynced)
        BY <2>1, ZenonT(30) DEF MgInv, LagInv
  <2>3. mgReq[r] \in MgRequests /\ mgReq[r].src \in MgPlaces /\ mgReq[r].dst \in MgPlaces
        BY ZenonT(30) DEF MgInv, MgTypes, MgRequests
  <2>4. mgReq[r].src = Place(mgBinding) /\ mgReq[r].dst = Place(mgWorker)
        BY <2>2, <2>3, PlaceIs, ZenonT(30)
  <2>5. mgReq[r] = [src |-> Place(mgBinding), dst |-> Place(mgWorker)]
        BY <2>3, <2>4, ZenonT(30) DEF MgRequests
  <2>6. mgPhase[r] \in {"reconfigured", "reloaded"} \/ r \in BindingSyncPending
        BY <2>2, ZenonT(30) DEF Accounts, LatePhases, BindingSyncPending
  <2> QED BY <2>5, <2>6, ZenonT(30)
<1> QED BY <1>1, MgInvariant, PTL

(* Only the rediscovery adds to the results the driver keeps. *)
LEMMA DoneOnlyGrowsThere ==
  ASSUME MgInv, MgNext, ~Rediscovered
  PROVE  mgDriver'.done \subseteq mgDriver.done
<1>1. mgDriver \in MgDrivers
      BY ZenonT(30) DEF MgInv, MgTypes
<1>2. \A p : ProbeFails(p) => mgDriver'.done = mgDriver.done
      BY <1>1, ZenonT(30) DEF ProbeFails, MgDrivers
<1>3. CASE UNCHANGED mgDriver
      BY <1>3, ZenonT(30)
<1>4. CASE \E r \in Rebinds : StartRebind(r)
      BY <1>3, <1>4, ZenonT(30) DEF StartRebind
<1>5. CASE BeginRebind \/ VerifyRebind \/ CallOrMutate \/ RecordPhase
      BY <1>3, <1>5, ZenonT(30) DEF BeginRebind, VerifyRebind, CallOrMutate, RecordPhase
<1>6. CASE FailRebind \/ CompleteRebind \/ SynchronizeBinding \/ MarkAndAnswer
      BY <1>3, <1>6, ZenonT(30) DEF FailRebind, CompleteRebind, SynchronizeBinding, MarkAndAnswer
<1>7. CASE Poll \/ RuntimeDiscovered \/ WorkerDies
      BY <1>3, <1>7, ZenonT(30) DEF Poll, RuntimeDiscovered, WorkerDies
<1>8. CASE ProbeRead
      BY <1>2, <1>3, <1>8, ZenonT(30) DEF ProbeRead
<1>9. CASE ProbeReceipts
      BY <1>1, <1>9, ZenonT(30) DEF ProbeReceipts, MgDrivers
<1>10. CASE \E p \in DOMAIN mgProbe : ProbeSnapshot(p) \/ ProbeAgain(p) \/ ProbePending(p) \/ ProbeMark(p)
      BY <1>3, <1>10, ZenonT(30) DEF ProbeSnapshot, ProbeAgain, ProbePending, ProbeMark
<1>11. CASE \E p \in DOMAIN mgProbe : ProbeStatus(p) \/ ProbeRefresh(p)
      BY <1>2, <1>3, <1>11, ZenonT(30) DEF ProbeStatus, ProbeRefresh
<1>12. CASE \E p \in DOMAIN mgProbe : ProbeSettle(p) \/ ProbeReplace(p)
      BY <1>2, <1>3, <1>12, ZenonT(30) DEF ProbeSettle, ProbeReplace
<1>13. CASE ReleaseSandbox
      BY <1>1, <1>13, ZenonT(30) DEF ReleaseSandbox, MgDrivers
<1>14. CASE HelperKilled
      BY <1>2, <1>3, <1>14, ZenonT(30) DEF HelperKilled
<1>15. CASE MgRestart
      BY <1>15, ZenonT(30) DEF MgRestart, NewDriver
<1> QED BY <1>4, <1>5, <1>6, <1>7, <1>8, <1>9, <1>10, <1>11, <1>12, <1>13, <1>14, <1>15, ZenonT(30) DEF MgNext

(* The driver keeps a rebind as done only when the runtime file and the       *)
(* binding file both have the sandbox at its target, its receipt is ok and    *)
(* marked as synchronized (executeAction after refreshAfterMIGMutation).      *)
THEOREM AnsweredAlwaysReal == MgSpec => AnsweredIsReal
<1> DEFINE Answered(r) == /\ Place(mgBinding) = mgReq[r].dst /\ Place(mgWorker) = mgReq[r].dst
                          /\ mgPhase[r] = "ok" /\ r \in mgSynced
<1>1. ASSUME MgInv, MgNext, NEW r \in mgDriver'.done \ mgDriver.done
      PROVE  Answered(r)
  <2>1. CASE Rediscovered
    <3>1. r = mgProbe["refresh"].for /\ mgProbe["refresh"].pc # "idle"
      <4>1. mgDriver \in MgDrivers /\ mgProbe["refresh"].pc = "read"
            BY <1>1, <2>1, ZenonT(30) DEF MgInv, MgTypes, Rediscovered
      <4>2. mgDriver' = [mgDriver EXCEPT !.known = mgReq[mgProbe["refresh"].for].dst, !.avail = TRUE,
                                         !.done = @ \cup {mgProbe["refresh"].for}]
            BY <1>1, <2>1, ZenonT(30) DEF Rediscovered, ProbeFails
      <4> QED BY <1>1, <4>1, <4>2, ZenonT(30) DEF MgDrivers
    <3>2. /\ r # 0 /\ mgPhase[r] = "ok" /\ r \in mgSynced /\ SamePlace(mgBinding, mgWorker)
          /\ SamePlace(mgWorker, mgReq[r].dst)
          BY <1>1, <3>1, ZenonT(30) DEF MgInv, RediscoveryInv, RediscoveryOK
    <3>3. mgReq[r].dst \in MgPlaces
      <4>1. r \in Rebinds
            BY <1>1, <3>2, ZenonT(30) DEF MgInv, MgTypes
      <4> QED BY <1>1, <4>1, ZenonT(30) DEF MgInv, MgTypes, MgRequests
    <3>4. Place(mgBinding) = mgReq[r].dst /\ Place(mgWorker) = mgReq[r].dst
      <4>1. SamePlace(mgBinding, mgReq[r].dst)
            BY <3>2, ZenonT(30) DEF SamePlace
      <4> QED BY <3>2, <3>3, <4>1, PlaceIs, ZenonT(30)
    <3> QED BY <3>2, <3>4, ZenonT(30)
  <2>2. CASE ~Rediscovered
    <3>1. mgDriver'.done \subseteq mgDriver.done
          BY <1>1, <2>2, DoneOnlyGrowsThere, ZenonT(30)
    <3> QED BY <1>1, <3>1, ZenonT(30)
  <2> QED BY <2>1, <2>2, ZenonT(30)
<1>2. MgInv /\ [MgNext]_mgVars => [\A r \in mgDriver'.done \ mgDriver.done : Answered(r)]_mgVars
      BY <1>1, ZenonT(30)
<1> HIDE DEF Answered
<1>3. MgSpec => [][\A r \in mgDriver'.done \ mgDriver.done : Answered(r)]_mgVars
      BY <1>2, MgInvariant, PTL DEF MgSpec
<1> QED BY <1>3, ZenonT(30) DEF AnsweredIsReal, Answered
=============================================================================

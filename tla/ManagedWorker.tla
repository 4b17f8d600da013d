--------------------------- MODULE ManagedWorker ---------------------------
(***************************************************************************)
(* The managed workers of one sandbox: the bootstrap that supervises a     *)
(* workload process inside a Pod (cmd/tgsrl-worker-bootstrap), and the     *)
(* durable registry the Scheduler serves (internal/managedworker, wired by *)
(* scheduler-go/cmd/scheduler/worker_registry.go).                         *)
(*                                                                         *)
(* An incarnation is one bootstrap with its process; several of them may   *)
(* be alive at a time, each of its own generation.  A registry handler     *)
(* holds no lock between its reads, its remote calls and its writes, so    *)
(* every one of these is a step; only the updates of the state file, made  *)
(* under the file lock, are atomic.                                        *)
(*                                                                         *)
(* The identity of an incarnation stands for its PID, process token, Pod   *)
(* UID and control endpoint.  The scoped token is a function of the        *)
(* generation (registrationClaims).  Memory figures, shares, devices and   *)
(* the trace proxy (which changes no state here) are left out.  A request  *)
(* replayed under a key with a receipt changes nothing and is not a step.  *)
(***************************************************************************)
EXTENDS Integers, Sequences, FiniteSets

CONSTANTS
    WkIncarnations,   \* the bootstraps that may run
    WkGeneration,     \* the generation of each of them
    WkCooperative,    \* those whose workload has a control socket
    WkProcs,          \* the registry's concurrent handlers
    WkKeys,           \* idempotency keys
    WkOps,            \* the lifecycle operations callers ask for
    MaxWkFaults,      \* bound on lost, garbled or unconfirmed answers
    MaxWkCrashes,     \* bound on restarts of the registry
    MaxWkReports      \* attempts of reportWorkerExitWithRetry

ASSUME WkGenerations == WkGeneration \in [WkIncarnations -> Nat \ {0}]

VARIABLES
    wkBound,      \* the generation the Scheduler's binding has
    wkBoots,      \* the incarnations
    wkWorker,     \* state file: the registered worker
    wkReceipts,   \* state file: the receipts, by key
    wkHead,       \* state file: the key of the sandbox's last operation
    wkCalls,      \* the handlers in progress
    wkPublished,  \* lifecycle events Runtime has accepted
    wkReached,    \* keys whose target the addressed worker has been in
    wkFaults, wkCrashes

wkVars == <<wkBound, wkBoots, wkWorker, wkReceipts, wkHead, wkCalls,
            wkPublished, wkReached, wkFaults, wkCrashes>>

Nobody == 0
NoOp == "none"
ASSUME WkAssumption == Nobody \notin WkIncarnations /\ NoOp \notin WkKeys /\ MaxWkReports \in Nat

WkTerminal == {"terminated", "failed"}

(***************************************************************************)
(* What is observed of a worker: applyControlObservation copies all of it. *)
(***************************************************************************)
Fresh == [st |-> "running", safe |-> FALSE, off |-> FALSE, ckpt |-> FALSE,
          ready |-> TRUE]

NoWorker == [inc |-> Nobody, obs |-> Fresh, last |-> NoOp, exit |-> FALSE]
NoReceipt == [op |-> NoOp, gen |-> 0, done |-> FALSE, ok |-> FALSE]
NoCall == [pc |-> "idle", op |-> NoOp, key |-> NoOp, seen |-> NoWorker,
           head |-> NoOp, calls |-> <<>>, at |-> 1]

GenOfWorker(w) == IF w.inc = Nobody THEN 0 ELSE WkGeneration[w.inc]
Pending == wkHead # NoOp /\ ~wkReceipts[wkHead].done

WkInit ==
    /\ wkBound = 1
    /\ wkBoots = [i \in WkIncarnations |->
                    [phase |-> "absent", alive |-> FALSE, obs |-> Fresh,
                     verdict |-> "failed", left |-> MaxWkReports, acked |-> "no"]]
    /\ wkWorker = NoWorker
    /\ wkReceipts = [k \in WkKeys |-> NoReceipt]
    /\ wkHead = NoOp
    /\ wkCalls = [p \in WkProcs |-> NoCall]
    /\ wkPublished = {} /\ wkReached = {}
    /\ wkFaults = 0 /\ wkCrashes = 0

storeVars == <<wkWorker, wkReceipts, wkHead>>

(***************************************************************************)
(* The supervisor.  A cooperative worker confirms every action through its *)
(* socket; without one the supervisor uses signals and marker files.       *)
(***************************************************************************)
Serving(i) == wkBoots[i].phase \in {"launched", "authorized", "registered"}

\* The cooperative bridge (external) and the signal-only cases of apply.
WkAllows(i, a) ==
    LET o == wkBoots[i].obs IN
    IF i \in WkCooperative
    THEN CASE a \in {"pause", "sleep", "checkpoint"} -> o.safe
           [] a = "offload" -> o.safe /\ o.ckpt
           [] a = "reload" -> o.off
           [] a = "resume" -> ~o.off
           [] OTHER -> TRUE
    ELSE \/ a \in {"prepare_pause", "resume", "stop"}
         \/ a \in {"pause", "sleep"} /\ o.safe

Effect(o, a) ==
    CASE a = "prepare_pause" -> [o EXCEPT !.safe = TRUE, !.ready = FALSE]
      [] a = "pause" -> [o EXCEPT !.st = "paused", !.ready = FALSE]
      [] a = "sleep" -> [o EXCEPT !.st = "sleeping", !.ready = FALSE]
      [] a = "checkpoint" -> [o EXCEPT !.ckpt = TRUE]
      [] a = "offload" -> [o EXCEPT !.st = "sleeping", !.off = TRUE, !.ready = FALSE]
      [] a = "reload" -> [o EXCEPT !.st = "sleeping", !.off = FALSE]
      [] a = "resume" -> [o EXCEPT !.st = "running", !.safe = FALSE, !.ready = TRUE]
      [] a = "stop" -> [o EXCEPT !.st = "terminated", !.ready = FALSE]

(***************************************************************************)
(* lifecycleObserved: what tells reconcilePending that an operation whose  *)
(* outcome was not confirmed has happened.                                 *)
(***************************************************************************)
LifecycleObservedLoosely(op, o) == op # NoOp /\ o.safe

LifecycleObserved(op, o) ==
    CASE op = "pause" -> o.st = "paused" /\ o.safe
      [] op = "checkpoint" -> o.st = "paused" /\ o.safe /\ o.ckpt
      [] op = "sleep" -> o.st = "sleeping"
      [] op = "offload" -> o.st = "sleeping" /\ o.off /\ o.ckpt
      [] op = "reload" -> o.st = "sleeping" /\ ~o.off /\ o.ckpt
      [] op = "resume" -> o.st = "running" /\ o.ready /\ ~o.off
      [] OTHER -> FALSE

\* History: the state the last operation promises holds at its worker.
Promised(op, o) ==
    CASE op = "stop" -> o.st = "terminated"
      [] op = "pause" -> o.st = "paused"
      [] op = "checkpoint" -> o.ckpt
      [] op = "resume" -> o.st = "running"
      [] op = "offload" -> o.st = "sleeping" /\ o.off
      [] op = "reload" -> o.st = "sleeping" /\ ~o.off
      [] OTHER -> o.st = "sleeping"

Reaches(boots, head, receipts) ==
    {k \in {head} \ {NoOp} :
        /\ wkWorker.inc # Nobody
        /\ Promised(receipts[k].op, boots[wkWorker.inc].obs)}

(***************************************************************************)
(* Bootstrap: runWorker.                                                   *)
(***************************************************************************)
Boot(i, b) == wkBoots' = [wkBoots EXCEPT ![i] = b]

Launch(i) ==
    /\ wkBoots[i].phase = "absent"
    /\ WkGeneration[i] <= wkBound
    /\ Boot(i, [wkBoots[i] EXCEPT !.phase = "launched", !.alive = TRUE])
    /\ UNCHANGED <<wkBound, storeVars, wkCalls, wkPublished, wkReached, wkFaults, wkCrashes>>

(***************************************************************************)
(* registerWithRetry, and the register handler it calls: authorize reads   *)
(* the Scheduler's binding; Register asks the bootstrap for its status and *)
(* updates the file; observe publishes, and fails when the binding moved.  *)
(* An attempt that fails leaves the bootstrap to try again.                *)
(***************************************************************************)
Authorize(i) ==
    /\ wkBoots[i].phase = "launched" /\ wkBoots[i].alive
    /\ wkBound = WkGeneration[i]
    /\ Boot(i, [wkBoots[i] EXCEPT !.phase = "authorized"])
    /\ UNCHANGED <<wkBound, storeVars, wkCalls, wkPublished, wkReached, wkFaults, wkCrashes>>

StoreRefuses(i) ==
    \/ Pending
    \/ GenOfWorker(wkWorker) > WkGeneration[i]
    \/ /\ GenOfWorker(wkWorker) = WkGeneration[i]
       /\ \/ wkWorker.inc # i
          \/ wkWorker.obs.st \in WkTerminal

RegisterRefused(i) ==
    /\ wkBoots[i].phase = "authorized" /\ StoreRefuses(i)
    /\ Boot(i, [wkBoots[i] EXCEPT !.phase = "launched"])
    /\ UNCHANGED <<wkBound, storeVars, wkCalls, wkPublished, wkReached, wkFaults, wkCrashes>>

RegisterWorker(i) ==
    /\ wkBoots[i].phase = "authorized" /\ ~StoreRefuses(i)
    /\ IF wkWorker.inc = i
       THEN UNCHANGED storeVars
       ELSE /\ wkWorker' = [NoWorker EXCEPT !.inc = i, !.obs = wkBoots[i].obs]
            /\ wkHead' = NoOp
            /\ UNCHANGED wkReceipts
    /\ \E answered \in BOOLEAN :
          /\ wkBound # WkGeneration[i] => ~answered
          /\ ~answered /\ wkBound = WkGeneration[i] => wkFaults < MaxWkFaults
          /\ wkFaults' = IF ~answered /\ wkBound = WkGeneration[i]
                         THEN wkFaults + 1 ELSE wkFaults
          /\ wkPublished' = IF answered
                            THEN wkPublished \cup {<<i, wkWorker'.obs.st>>}
                            ELSE wkPublished
          /\ Boot(i, [wkBoots[i] EXCEPT !.phase = IF answered THEN "registered"
                                                  ELSE "launched"])
    /\ UNCHANGED <<wkBound, wkCalls, wkReached, wkCrashes>>

(***************************************************************************)
(* The end of a workload: it exits, or it is killed because registration   *)
(* did not converge (one attempt to report) or because the bootstrap was   *)
(* signalled.  A commanded or forwarded end is "terminated", any other     *)
(* "terminated" or "failed" by its exit code.                              *)
(***************************************************************************)
Ends(i) ==
    /\ wkBoots[i].phase = "registered"
    /\ \E v \in WkTerminal :
          /\ wkBoots[i].obs.st = "terminated" => v = "terminated"
          /\ Boot(i, [wkBoots[i] EXCEPT !.phase = "reporting", !.alive = FALSE,
                                        !.verdict = v])
    /\ UNCHANGED <<wkBound, storeVars, wkCalls, wkPublished, wkReached, wkFaults, wkCrashes>>

RegistrationFails(i) ==
    /\ wkBoots[i].phase \in {"launched", "authorized"}
    /\ Boot(i, [wkBoots[i] EXCEPT !.phase = "reporting", !.alive = FALSE,
                                  !.verdict = "failed", !.left = 1])
    /\ UNCHANGED <<wkBound, storeVars, wkCalls, wkPublished, wkReached, wkFaults, wkCrashes>>

(***************************************************************************)
(* reportExit: the caller must hold the registered worker's token, so a    *)
(* generation that was replaced is refused; Store.ReportExit checks the    *)
(* generation, the instance and the process token; a commanded stop is not *)
(* published, any other matched end is, also when it was already stored.   *)
(***************************************************************************)
Unauthorized(i) == GenOfWorker(wkWorker) # WkGeneration[i]

ReportAttempt(i, acked) ==
    Boot(i, [wkBoots[i] EXCEPT
        !.left = @ - 1,
        !.acked = acked,
        !.phase = IF acked # "no" \/ wkBoots[i].left = 1 THEN "gone" ELSE "reporting"])

Exited(w, i) == [w EXCEPT !.obs = [Fresh EXCEPT !.st = wkBoots[i].verdict,
                                               !.ready = FALSE, !.ckpt = w.obs.ckpt],
                          !.exit = TRUE]

\* The end is stored already with another verdict: only a commanded stop
\* takes the exit code of the process.
Conflicts(i) ==
    /\ wkWorker.obs.st \in WkTerminal
    /\ wkWorker.obs.st # wkBoots[i].verdict
    /\ wkWorker.last # "stop" \/ wkWorker.exit

Matches(i) == wkWorker.inc = i

ReportRefused(i) ==
    /\ wkBoots[i].phase = "reporting"
    /\ Unauthorized(i) \/ (Matches(i) /\ Conflicts(i))
    /\ ReportAttempt(i, "no")
    /\ UNCHANGED <<wkBound, storeVars, wkCalls, wkPublished, wkReached, wkFaults, wkCrashes>>

CommandedStop == wkWorker.obs.st = "terminated" /\ wkWorker.last = "stop"

PublishesUpdateOnly(i) == Matches(i) /\ wkWorker.obs.st \notin WkTerminal

PublishesExit(i) == Matches(i) /\ ~CommandedStop

ReportExit(i) ==
    /\ wkBoots[i].phase = "reporting"
    /\ ~Unauthorized(i)
    /\ Matches(i) => ~Conflicts(i)
    /\ wkWorker' = IF ~Matches(i) THEN wkWorker
                   ELSE IF wkWorker.obs.st \in WkTerminal
                        THEN [wkWorker EXCEPT !.exit = TRUE]
                        ELSE Exited(wkWorker, i)
    /\ \E published \in BOOLEAN :
          /\ ~published => wkFaults < MaxWkFaults \/ wkBound # WkGeneration[i]
          /\ published => wkBound = WkGeneration[i] \/ ~PublishesExit(i)
          /\ wkFaults' = IF ~published /\ wkBound = WkGeneration[i]
                         THEN wkFaults + 1 ELSE wkFaults
          /\ wkFaults' <= MaxWkFaults
          /\ wkPublished' = IF published /\ PublishesExit(i)
                            THEN wkPublished \cup {<<i, wkWorker'.obs.st>>}
                            ELSE wkPublished
          /\ ReportAttempt(i, IF ~published THEN "no"
                             ELSE IF Matches(i) /\ ~CommandedStop THEN "yes"
                             ELSE "excused")
    /\ UNCHANGED <<wkBound, wkReceipts, wkHead, wkCalls, wkReached, wkCrashes>>

(***************************************************************************)
(* The action and status handlers.  Both read the state file, check token  *)
(* and generation, and ask the worker for its status (DiscoverWorker); an  *)
(* action goes on to Controller.Apply.  A key that already has a receipt   *)
(* is answered from it and changes nothing.                                *)
(***************************************************************************)
Proc(p, c) == wkCalls' = [wkCalls EXCEPT ![p] = c]

Unreachable == [Fresh EXCEPT !.st = "failed", !.ready = FALSE]

\* What discoverWorker makes of the status answer: the observation, or
\* "failed" when the worker cannot be reached or is another incarnation.
Probe(w, reached) ==
    [w EXCEPT !.obs = IF reached /\ Serving(w.inc) /\ wkBoots[w.inc].alive
                      THEN wkBoots[w.inc].obs
                      ELSE [Unreachable EXCEPT !.ckpt = w.obs.ckpt]]

Discover(p) ==
    /\ wkCalls[p].pc = "idle" /\ wkWorker.inc # Nobody
    /\ \E op \in WkOps \cup {"status"}, k \in WkKeys, reached \in BOOLEAN :
          /\ op # "status" => wkReceipts[k] = NoReceipt
          /\ op = "status" => k = CHOOSE x \in WkKeys : TRUE
          /\ ~reached => wkFaults < MaxWkFaults
          /\ wkFaults' = IF reached THEN wkFaults ELSE wkFaults + 1
          /\ Proc(p, [NoCall EXCEPT
                !.op = op, !.key = k,
                !.head = IF Pending THEN wkHead ELSE NoOp,
                !.seen = IF wkWorker.obs.st \in WkTerminal THEN wkWorker
                         ELSE Probe(wkWorker, reached),
                !.pc = IF wkWorker.obs.st \in WkTerminal THEN "reconcile"
                       ELSE "refresh"])
    /\ UNCHANGED <<wkBound, wkBoots, storeVars, wkPublished, wkReached, wkCrashes>>

\* Store.Refresh: the same process and generation are still registered; it
\* does not compare anything else with what was read.
Refresh(p) ==
    LET c == wkCalls[p] IN
    /\ c.pc = "refresh"
    /\ IF wkWorker.inc = c.seen.inc
       THEN wkWorker' = c.seen /\ Proc(p, [c EXCEPT !.pc = "reconcile"])
       ELSE UNCHANGED wkWorker /\ Proc(p, NoCall)
    /\ UNCHANGED <<wkBound, wkBoots, wkReceipts, wkHead, wkPublished, wkReached, wkFaults, wkCrashes>>

\* Store.Complete: the receipt is still the head and the worker has the
\* generation the receipt names.
Completable(k, w) == wkHead = k /\ GenOfWorker(w) = wkReceipts[k].gen

Complete(k, w, ok) ==
    IF Completable(k, w)
    THEN /\ wkReceipts' = [wkReceipts EXCEPT ![k].done = TRUE, ![k].ok = ok]
         /\ wkWorker' = IF ok THEN w ELSE wkWorker
    ELSE UNCHANGED <<wkReceipts, wkWorker>>

ReconcilePending(p) ==
    LET c == wkCalls[p]
        op == IF c.head = NoOp THEN NoOp ELSE wkReceipts[c.head].op
        next == IF c.op = "status" THEN NoCall ELSE [c EXCEPT !.pc = "begin"]
    IN
    /\ c.pc = "reconcile"
    /\ IF c.head = NoOp THEN UNCHANGED <<wkReceipts, wkWorker>> /\ Proc(p, next)
       ELSE IF c.seen.obs.st = "failed"
       THEN /\ Complete(c.head, c.seen, FALSE)
            /\ Proc(p, IF Completable(c.head, c.seen) THEN next ELSE NoCall)
       ELSE IF LifecycleObserved(op, c.seen.obs)
       THEN /\ Complete(c.head, [c.seen EXCEPT !.last = op], TRUE)
            /\ Proc(p, IF Completable(c.head, c.seen) THEN next ELSE NoCall)
       ELSE UNCHANGED <<wkReceipts, wkWorker>> /\ Proc(p, next)
    /\ UNCHANGED <<wkBound, wkBoots, wkHead, wkPublished, wkReached, wkFaults, wkCrashes>>

\* validateTransition
ValidTransition(o, op) ==
    CASE op = "pause" -> o.st = "running"
      [] op = "checkpoint" -> o.st = "paused" /\ o.safe
      [] op = "resume" -> o.st \in {"paused", "sleeping"}
      [] op = "sleep" -> o.st \in {"running", "paused"}
      [] op = "offload" -> o.st \in {"running", "paused", "sleeping"}
      [] op = "reload" -> o.st = "sleeping" /\ o.off /\ o.ckpt
      [] op = "stop" -> o.st \in {"running", "paused", "sleeping"}
      [] OTHER -> FALSE

\* The remote calls of Controller.apply, from the worker Begin returned.
CallsOf(op, o) ==
    CASE op \in {"pause", "sleep"} -> <<"prepare_pause", op>>
      [] op = "offload" ->
            (IF o.st = "running" \/ ~o.safe THEN <<"prepare_pause">> ELSE <<>>)
            \o (IF ~o.ckpt THEN <<"checkpoint">> ELSE <<>>) \o <<"offload">>
      [] op = "resume" -> (IF o.off THEN <<"reload">> ELSE <<>>) \o <<"resume">>
      [] OTHER -> <<op>>

\* Store.Begin: one unresolved operation at a time, a legal one, for the
\* generation the request names.
Begin(p) ==
    LET c == wkCalls[p] IN
    /\ c.pc = "begin"
    /\ IF /\ wkReceipts[c.key] = NoReceipt
          /\ GenOfWorker(wkWorker) = GenOfWorker(c.seen)
          /\ ~Pending
          /\ ValidTransition(wkWorker.obs, c.op)
       THEN /\ wkReceipts' = [wkReceipts EXCEPT ![c.key] =
                    [op |-> c.op, gen |-> GenOfWorker(c.seen), done |-> FALSE, ok |-> FALSE]]
            /\ wkHead' = c.key
            /\ wkReached' = wkReached \cup Reaches(wkBoots, wkHead', wkReceipts')
            /\ Proc(p, [c EXCEPT !.pc = "verify", !.seen = wkWorker,
                                 !.calls = CallsOf(c.op, wkWorker.obs)])
       ELSE UNCHANGED <<wkReceipts, wkHead, wkReached>> /\ Proc(p, NoCall)
    /\ UNCHANGED <<wkBound, wkBoots, wkWorker, wkPublished, wkFaults, wkCrashes>>

\* verifyWorker: a status call; any failure fails the operation.
Verify(p) ==
    LET c == wkCalls[p] IN
    /\ c.pc = "verify"
    /\ \E reached \in BOOLEAN :
          /\ ~reached => wkFaults < MaxWkFaults
          /\ wkFaults' = IF reached THEN wkFaults ELSE wkFaults + 1
          /\ Proc(p, [c EXCEPT !.pc =
                IF reached /\ Serving(c.seen.inc) THEN "call" ELSE "fail"])
    /\ UNCHANGED <<wkBound, wkBoots, storeVars, wkPublished, wkReached, wkCrashes>>

(***************************************************************************)
(* One remote call.  "unconfirmed" is the cooperative worker that acted    *)
(* without answering its supervisor; the supervisor's answer is then a     *)
(* refusal.  "lost" is an answer lost on the network, which callHTTPControl*)
(* reports as a request that was not delivered.  Both fail the operation.  *)
(* An answer that cannot be decoded ("garbled"), and a resume that fails   *)
(* after the reload before it, leave it pending.                           *)
(***************************************************************************)
Answers == {"ok", "refused", "unconfirmed", "lost", "garbled"}

CallWorker(p) ==
    LET c == wkCalls[p]
        i == c.seen.inc
        a == c.calls[c.at]
        able == Serving(i) /\ wkBoots[i].alive /\ WkAllows(i, a)
    IN
    /\ c.pc = "call"
    /\ \E r \in Answers :
          /\ r # "refused" => able
          /\ r = "refused" => ~able \/ (i \notin WkCooperative /\ a \in {"prepare_pause", "resume"})
          /\ r = "unconfirmed" => i \in WkCooperative
          /\ r \in {"unconfirmed", "lost", "garbled"} => wkFaults < MaxWkFaults
          /\ wkFaults' = IF r \in {"ok", "refused"} THEN wkFaults ELSE wkFaults + 1
          /\ IF r = "refused" THEN UNCHANGED <<wkBoots, wkReached>>
             ELSE /\ Boot(i, [wkBoots[i] EXCEPT !.obs = Effect(@, a)])
                  /\ wkReached' = wkReached \cup Reaches(wkBoots', wkHead, wkReceipts)
          /\ Proc(p, IF r = "ok"
                     THEN [c EXCEPT !.at = @ + 1, !.seen.obs = Effect(@, a),
                                    !.pc = IF c.at = Len(c.calls) THEN "done" ELSE "call"]
                     ELSE IF r = "garbled" \/ (a = "resume" /\ c.at = 2)
                     THEN NoCall
                     ELSE [c EXCEPT !.pc = "fail"])
    /\ UNCHANGED <<wkBound, storeVars, wkPublished, wkCrashes>>

Fail(p) ==
    LET c == wkCalls[p] IN
    /\ c.pc = "fail"
    /\ Complete(c.key, c.seen, FALSE)
    /\ Proc(p, NoCall)
    /\ UNCHANGED <<wkBound, wkBoots, wkHead, wkPublished, wkReached, wkFaults, wkCrashes>>

Finish(p) ==
    LET c == wkCalls[p] IN
    /\ c.pc = "done"
    /\ Complete(c.key, [c.seen EXCEPT !.last = c.op], TRUE)
    /\ Proc(p, NoCall)
    /\ UNCHANGED <<wkBound, wkBoots, wkHead, wkPublished, wkReached, wkFaults, wkCrashes>>

(***************************************************************************)
(* The surroundings: the Scheduler moves the binding to its next           *)
(* generation; the registry's process dies and comes back with its file.   *)
(***************************************************************************)
Rebind ==
    /\ \E i \in WkIncarnations : WkGeneration[i] > wkBound
    /\ wkBound' = wkBound + 1
    /\ UNCHANGED <<wkBoots, storeVars, wkCalls, wkPublished, wkReached, wkFaults, wkCrashes>>

RegistryCrash ==
    /\ wkCrashes < MaxWkCrashes
    /\ wkCrashes' = wkCrashes + 1
    /\ wkCalls' = [p \in WkProcs |-> NoCall]
    /\ wkBoots' = [i \in WkIncarnations |->
                     [wkBoots[i] EXCEPT !.phase = IF @ = "authorized" THEN "launched" ELSE @]]
    /\ UNCHANGED <<wkBound, storeVars, wkPublished, wkReached, wkFaults>>

WkNext ==
    \/ \E i \in WkIncarnations :
          \/ Launch(i) \/ Authorize(i) \/ RegisterRefused(i) \/ RegisterWorker(i)
          \/ Ends(i) \/ RegistrationFails(i) \/ ReportRefused(i) \/ ReportExit(i)
    \/ \E p \in WkProcs :
          \/ Discover(p) \/ Refresh(p) \/ ReconcilePending(p)
          \/ Begin(p) \/ Verify(p) \/ CallWorker(p) \/ Fail(p) \/ Finish(p)
    \/ Rebind \/ RegistryCrash

WkSpec == WkInit /\ [][WkNext]_wkVars

(***************************************************************************)
(* SucceededIsReal: an operation is recorded as succeeded only if the      *)
(* worker it was begun for has really been in the state it promises, at    *)
(* some time since it was begun; whether the calling handler, another      *)
(* handler or a restarted registry recorded it.                            *)
(***************************************************************************)
SucceededIsReal ==
    \A k \in WkKeys : wkReceipts[k].ok => k \in wkReached

(***************************************************************************)
(* AckedEndIsPublished: when the registry has acknowledged the end of the  *)
(* registered worker, Runtime knows of it, unless the end was commanded    *)
(* (the Operator then reports it); also when an earlier attempt stored the *)
(* end and failed to publish it.                                           *)
(***************************************************************************)
AckedEndIsPublished ==
    \A i \in WkIncarnations :
        wkBoots[i].acked = "yes" => \E v \in WkTerminal : <<i, v>> \in wkPublished

(***************************************************************************)
(* FailedWasNotDone: an operation recorded as failed was not carried out;  *)
(* an outcome that cannot be confirmed stays pending for reconciliation    *)
(* (docs/design/managed-worker-bootstrap.md).  The code does not keep it.  *)
(***************************************************************************)
FailedWasNotDone ==
    \A k \in WkKeys : wkReceipts[k].done /\ ~wkReceipts[k].ok => k \notin wkReached
=============================================================================

------------------------------ MODULE JobControl ------------------------------
(***************************************************************************)
(* The Job Controller (job-controller-go/controller): lifecycle commands   *)
(* of one job, each a persisted Operation that is recorded, dispatched to  *)
(* the runtime, finalized, and completed later by a runtime observation;   *)
(* replay under an idempotency key; reconciliation of the operations a     *)
(* restart left running.                                                   *)
(*                                                                         *)
(* One Update of the repository is one atomic, durable step (JobStore      *)
(* models how the file repository makes it so).  A call is cut where the   *)
(* code lets another run between two repository accesses: look up the key, *)
(* look for an in-flight execution, record, enter, dispatch, finalize.     *)
(*                                                                         *)
(* Abstracted: the job's content, actors, reasons and request ids (one of  *)
(* each per key), timestamps (CreatedAt is the rank `born`), event texts.  *)
(* A run id is the hash of the attempt and of the job, whose only changing *)
(* part is its State: the pair <<attempt, job state>>.  isObservationNewer *)
(* compares a (revision, observed_at) pair: a report is newer or it is not.*)
(***************************************************************************)
EXTENDS Integers, FiniteSets

CONSTANTS Callers,      \* concurrent API callers
          Keys,         \* idempotency keys
          NoKey,        \* the empty idempotency key
          Commands,     \* the lifecycle commands callers send
          MaxOps,       \* bound: operations recorded
          MaxCreated,   \* bound: attempts CreateJobRun makes
          MaxAttempts,  \* bound: attempts of the job
          MaxReports,   \* bound: new runtime observations reported
          MaxRestarts   \* bound: restarts of the controller

(* the recovery pass runs calls of its own, before the server listens *)
Recovery == "recovery"
ASSUME JobAssumption ==
  /\ Commands \subseteq {"start", "pause", "resume", "stop", "terminate", "retry"}
  /\ Recovery \notin Callers /\ MaxOps \in Nat /\ MaxCreated \in Nat /\ MaxAttempts \in Nat

VARIABLES jobState,     \* RLTrainingJob.State, "none" before CreateJob
          jobRuns,      \* run id -> [st, ops, obs]
          jobOps,       \* operation id -> [state, accepted, born]
          jobIdem,      \* key -> [hash, op]
          jobCalls,     \* caller -> its call in progress
          jobInflight,  \* Controller.inflight: operations being executed
          jobTodo,      \* operations the startup reconciliation has left
          jobReports,   \* new observations so far
          jobRestarts   \* restarts so far
jobVars == <<jobState, jobRuns, jobOps, jobIdem, jobCalls, jobInflight, jobTodo, jobReports, jobRestarts>>
jobStore == <<jobState, jobRuns, jobOps, jobIdem>>

IsTerminalRunState == {"stopped", "succeeded", "failed", "terminated"}
NoObs == "none"

(* one entry of a table of the repository *)
Put(table, key, value) == [k \in DOMAIN table \cup {key} |-> IF k = key THEN value ELSE table[k]]

JobIdle == [pc |-> "idle"]
JobServing == jobCalls[Recovery].pc = "idle"

(* persistCommandPhase: the run states a command accepts, the transient run *)
(* state it writes, and the job state it writes with it                     *)
Accepts(cmd) ==
  CASE cmd = "start"     -> {"admitted", "waiting", "stopped"}
    [] cmd = "pause"     -> {"running"}
    [] cmd = "resume"    -> {"paused"}
    [] cmd = "stop"      -> {"running", "paused", "admitted"}
    [] cmd = "terminate" -> {r.st : r \in {jobRuns[i] : i \in DOMAIN jobRuns}} \ IsTerminalRunState
    [] cmd = "retry"     -> IsTerminalRunState
Transient == [start |-> "starting", pause |-> "pausing", resume |-> "resuming",
              stop |-> "stopping", terminate |-> "terminating", retry |-> "retrying"]
JobStateOf == [start |-> "pending", pause |-> "running", resume |-> "paused",
               stop |-> "running", terminate |-> "running", retry |-> "pending"]

(* advanceRunFromComponent: what a converged observation must show for a    *)
(* transient run to settle, where it settles, and the job state written     *)
Settles == [start     |-> [obs |-> "running",    run |-> "running",    job |-> "running"],
            pause     |-> [obs |-> "paused",     run |-> "paused",     job |-> "paused"],
            resume    |-> [obs |-> "running",    run |-> "running",    job |-> "running"],
            stop      |-> [obs |-> "terminated", run |-> "stopped",    job |-> "cancelled"],
            terminate |-> [obs |-> "terminated", run |-> "terminated", job |-> "cancelled"]]
Lifecycle == DOMAIN Settles

(* newOperation's identity: the key when there is one, else the call itself *)
Born == Cardinality(UNION {1..jobOps[i].born : i \in DOMAIN jobOps}) + 1
OpId(type, run, key) == <<type, run, key, IF key = NoKey THEN Born ELSE 0>>
NewOperation(state) == [state |-> state, accepted |-> FALSE, born |-> Born]
LatestOp(ids, ops) == CHOOSE i \in ids : \A j \in ids : ops[j].born <= ops[i].born
NewRun(st) == [st |-> st, ops |-> <<>>, obs |-> NoObs]

(* GetLatestRun: the highest attempt; ids are hashes, so a tie is any fixed choice *)
LatestRun ==
  CHOOSE r \in DOMAIN jobRuns : \A q \in DOMAIN jobRuns : q[1] <= r[1]

(* a request's run_id left empty *)
LatestOne == <<0, "latest">>
CommandHash(cmd, run) == <<cmd, run>>

JobInit ==
  /\ jobState = "none"
  /\ jobRuns = <<>> /\ jobOps = <<>> /\ jobIdem = <<>>
  /\ jobCalls = [c \in Callers \cup {Recovery} |-> JobIdle]
  /\ jobInflight = {} /\ jobTodo = {} /\ jobReports = 0 /\ jobRestarts = 0

(* The steps of ApplyJobCommand, and of AdmitJob, which return to idle. *)
SetCall(c, call) == jobCalls' = [jobCalls EXCEPT ![c] = call]
Return(c) == SetCall(c, JobIdle)

-----------------------------------------------------------------------------
(* CreateJob stores a normalized job once. *)
CreateJob ==
  /\ JobServing /\ jobState = "none"
  /\ jobState' = "pending"
  /\ UNCHANGED <<jobRuns, jobOps, jobIdem, jobCalls, jobInflight, jobTodo, jobReports, jobRestarts>>

(* CreateJobRun compiles the next attempt, not yet admitted, of a job it may  *)
(* have to store first.                                                      *)
CreateJobRun ==
  /\ JobServing
  /\ jobState' = IF jobState = "none" THEN "pending" ELSE jobState
  /\ LET attempt == IF DOMAIN jobRuns = {} THEN 1 ELSE LatestRun[1] + 1
     IN /\ attempt <= MaxCreated
        /\ jobRuns' = Put(jobRuns, <<attempt, jobState'>>, NewRun("validating"))
  /\ UNCHANGED <<jobOps, jobIdem, jobCalls, jobInflight, jobTodo, jobReports, jobRestarts>>

(* RecordOperation stores an external operation, on the run it names too. *)
RecordOperation(run, type) ==
  LET id == OpId(type, run, NoKey)
      op == NewOperation("succeeded")
  IN /\ JobServing /\ Born <= MaxOps
     /\ jobOps' = Put(jobOps, id, op)
     /\ jobRuns' = [jobRuns EXCEPT ![run].ops = Put(@, id, op)]
     /\ UNCHANGED <<jobState, jobIdem, jobCalls, jobInflight, jobTodo, jobReports, jobRestarts>>

(* loadCommandIdempotency, loadAdmitIdempotency: a View before anything is   *)
(* recorded.  A settled operation, or another request's key, ends the call.  *)
LoadIdempotency(c, cmd, run, key) ==
  LET hash == CommandHash(cmd, run)
      op == jobIdem[key].op
  IN /\ c # Recovery /\ JobServing /\ jobCalls[c] = JobIdle /\ jobState # "none"
     /\ \/ /\ key \notin DOMAIN jobIdem
           /\ SetCall(c, [pc |-> "persist", cmd |-> cmd, run |-> run, key |-> key])
        \/ /\ key \in DOMAIN jobIdem /\ jobIdem[key].hash = hash
           /\ jobOps[op].state = "running"
           /\ SetCall(c, [pc |-> "wait", op |-> op, saw |-> jobOps[op].accepted, cmd |-> cmd, key |-> key])
     /\ UNCHANGED <<jobStore, jobInflight, jobTodo, jobReports, jobRestarts>>

(* waitInflight: wait for the execution under way and answer from the store  *)
(* (a call that only waits is dropped at once: it changes nothing); with     *)
(* none under way, answer if the operation, as read, was accepted, else      *)
(* resume it.                                                                *)
WaitInflight(c) ==
  /\ jobCalls[c].pc = "wait"
  /\ IF jobCalls[c].op \in jobInflight \/ (jobCalls[c].saw /\ jobCalls[c].cmd # "admit")
       THEN Return(c)
       ELSE SetCall(c, [jobCalls[c] EXCEPT !.pc = "resume"])
  /\ UNCHANGED <<jobStore, jobInflight, jobTodo, jobReports, jobRestarts>>

(* loadCommandRunningPlan, loadAdmitRunningPlan: the plan of a resumed call; *)
(* its stable run is the run as it stands now.                               *)
ResumePlan(c) ==
  LET id == jobCalls[c].op
      plan == [pc |-> "enter", cmd |-> id[1], key |-> jobCalls[c].key, op |-> id,
               stableJob |-> jobState, stableRun |-> jobRuns[id[2]]]
  IN /\ jobCalls[c].pc = "resume"
     /\ IF jobOps[id].state = "running" THEN SetCall(c, plan) ELSE Return(c)
     /\ UNCHANGED <<jobStore, jobInflight, jobTodo, jobReports, jobRestarts>>

(* semanticIdempotentOperation: the command already has its effect *)
AlreadyDone(cmd, run) ==
  LET ids == {i \in DOMAIN jobOps : i[1] = cmd /\ i[2] = run}
  IN /\ ids # {}
     /\ IF cmd = "retry" THEN LatestRun[1] > run[1]
                         ELSE jobRuns[run].st = Settles[cmd].run

PutIdempotency(key, hash, op) ==
  jobIdem' = IF key = NoKey THEN jobIdem ELSE Put(jobIdem, key, [hash |-> hash, op |-> op])

(* RecordRunning a new operation on a run and the plan to execute it. *)
RecordRunning(c, type, run, st, js, stableRun) ==
  LET call == jobCalls[c]
      id == OpId(type, run, call.key)
      old == IF run \in DOMAIN jobRuns /\ type # "retry" THEN jobRuns[run] ELSE NewRun(st)
  IN /\ Born <= MaxOps
     /\ jobState' = js
     /\ jobOps' = Put(jobOps, id, NewOperation("running"))
     /\ jobRuns' = Put(jobRuns, run, [old EXCEPT !.st = st, !.ops = Put(@, id, NewOperation("running"))])
     /\ PutIdempotency(call.key, CommandHash(call.cmd, call.run), id)
     /\ SetCall(c, [pc |-> "enter", cmd |-> type, key |-> call.key, op |-> id,
                    stableJob |-> jobState, stableRun |-> stableRun])

(* persistCommandPhase: the target run is the one named, else the latest.  A *)
(* retry makes a new run of the next attempt, under the job's current id.    *)
PersistCommand(c) ==
  LET call == jobCalls[c]
      run == IF call.run = LatestOne THEN LatestRun ELSE call.run
      next == <<run[1] + 1, jobState>>
      last == LatestOp({i \in DOMAIN jobOps : i[1] = call.cmd /\ i[2] = run}, jobOps)
  IN /\ call.pc = "persist" /\ call.cmd # "admit"
     /\ \/ /\ DOMAIN jobRuns # {}
           /\ AlreadyDone(call.cmd, run)
           /\ PutIdempotency(call.key, CommandHash(call.cmd, call.run), last)
           /\ Return(c) /\ UNCHANGED <<jobState, jobRuns, jobOps>>
        \/ /\ DOMAIN jobRuns # {}
           /\ ~AlreadyDone(call.cmd, run) /\ jobRuns[run].st \in Accepts(call.cmd)
           /\ IF call.cmd = "retry"
                THEN /\ next[1] <= MaxAttempts
                     /\ RecordRunning(c, "retry", next, "retrying", "pending", jobRuns[run])
                ELSE RecordRunning(c, call.cmd, run, Transient[call.cmd], JobStateOf[call.cmd], jobRuns[run])
        \/ Return(c) /\ UNCHANGED jobStore     \* invalid transition, or the Update failed
     /\ UNCHANGED <<jobInflight, jobTodo, jobReports, jobRestarts>>

(* persistAdmitPhase: an admitted latest run answers, a terminal one refuses *)
PersistAdmit(c) ==
  LET call == jobCalls[c]
      fresh == DOMAIN jobRuns = {}
      run == IF fresh THEN <<1, jobState>> ELSE LatestRun
      ids == {i \in DOMAIN jobOps : i[1] = "admit" /\ i[2] = run}
      id == IF ids = {} THEN OpId("admit", run, call.key) ELSE LatestOp(ids, jobOps)
  IN /\ call.pc = "persist" /\ call.cmd = "admit"
     /\ \/ /\ ~fresh /\ jobRuns[run].st \in {"admitted", "waiting"}
           /\ ids = {} => Born <= MaxOps
           /\ jobOps' = IF ids # {} THEN jobOps
                        ELSE Put(jobOps, id, NewOperation("succeeded"))
           /\ PutIdempotency(call.key, CommandHash(call.cmd, call.run), id)
           /\ Return(c) /\ UNCHANGED <<jobState, jobRuns>>
        \/ /\ ~fresh => jobRuns[run].st \notin {"admitted", "waiting"} \cup IsTerminalRunState
           /\ RecordRunning(c, "admit", run, "admitting", "pending",
                     IF fresh THEN NewRun("admitting") ELSE jobRuns[run])
        \/ Return(c) /\ UNCHANGED jobStore
     /\ UNCHANGED <<jobInflight, jobTodo, jobReports, jobRestarts>>

(* runInflight: one execution of an operation at a time; a second caller     *)
(* takes the first one's result.                                             *)
RunInflight(c) ==
  LET id == jobCalls[c].op
  IN /\ jobCalls[c].pc = "enter"
     /\ IF id \in jobInflight
          THEN Return(c) /\ UNCHANGED jobInflight
          ELSE /\ jobInflight' = jobInflight \cup {id}
               /\ SetCall(c, [jobCalls[c] EXCEPT !.pc = "dispatch"])
     /\ UNCHANGED <<jobStore, jobTodo, jobReports, jobRestarts>>

(* invokeRuntime, prepareRun: the runtime accepts, refuses, or the outcome   *)
(* is unknown (isAmbiguousRuntimeCommandError); a prepare has no third case. *)
InvokeRuntime(c, outcome) ==
  /\ jobCalls[c].pc = "dispatch"
  /\ outcome \in {"accepted", "refused", "ambiguous"}
  /\ jobCalls[c].cmd \in {"admit", "retry"} => outcome # "ambiguous"
  /\ LET call == jobCalls[c]
     IN SetCall(c, [pc |-> "finalize", outcome |-> outcome, cmd |-> call.cmd, key |-> call.key, op |-> call.op,
                    stableJob |-> call.stableJob, stableRun |-> call.stableRun])
  /\ UNCHANGED <<jobStore, jobInflight, jobTodo, jobReports, jobRestarts>>

PutBoth(id, op, run) ==
  /\ jobOps' = Put(jobOps, id, op)
  /\ jobRuns' = [jobRuns EXCEPT ![id[2]] = [run EXCEPT !.ops = Put(@, id, op)]]

(* finalizeAdmitPhase, finalizeRetryPhase.  failOperation writes a runtime   *)
(* component status of its own in place of the aggregated observation.       *)
FinalizePrepare(c) ==
  LET call == jobCalls[c]
      op == jobOps[call.op]
      run == jobRuns[call.op[2]]
  IN IF call.outcome = "accepted"
       THEN /\ jobState' = "pending"
            /\ PutBoth(call.op, [op EXCEPT !.state = "succeeded"], [run EXCEPT !.st = "waiting"])
       ELSE /\ jobState' = jobState
            /\ PutBoth(call.op, [op EXCEPT !.state = "failed"], [run EXCEPT !.obs = NoObs])

(* finalizeCommandPhase: a refusal restores the job and the run as the plan  *)
(* saved them; an acceptance leaves the operation running until observed.    *)
FinalizeCommand(c) ==
  LET call == jobCalls[c]
      op == jobOps[call.op]
  IN CASE call.outcome = "ambiguous" -> UNCHANGED <<jobState, jobRuns, jobOps>>
       [] call.outcome = "refused" ->
            /\ jobState' = call.stableJob
            /\ PutBoth(call.op, [op EXCEPT !.state = "failed"], call.stableRun)
       [] call.outcome = "accepted" ->
            /\ jobState' = jobState
            /\ PutBoth(call.op, [op EXCEPT !.accepted = TRUE], jobRuns[call.op[2]])

(* The finalizing Update (which may fail) and the end of the in-flight entry *)
FinalizePhase(c) ==
  LET call == jobCalls[c]
  IN /\ call.pc = "finalize"
     /\ \/ /\ jobOps[call.op].state = "running"
           /\ IF call.cmd \in {"admit", "retry"} THEN FinalizePrepare(c) ELSE FinalizeCommand(c)
        \/ jobOps[call.op].state # "running" /\ UNCHANGED <<jobState, jobRuns, jobOps>>
        \/ c # Recovery /\ UNCHANGED <<jobState, jobRuns, jobOps>>     \* the Update failed
     /\ jobInflight' = jobInflight \ {call.op}
     /\ SetCall(c, IF c = Recovery THEN [pc |-> "confirm", op |-> call.op] ELSE JobIdle)
     /\ UNCHANGED <<jobIdem, jobTodo, jobReports, jobRestarts>>

-----------------------------------------------------------------------------
(* What a runtime status says: the observed state, when it has converged or   *)
(* is FAILED, else only that there is one.                                    *)
Observed == {"running", "paused", "terminated", "failed", "unsettled"}

(* advanceRunFromComponent under the newest observation of the runtime kept.  *)
(* FAILED fails the run, and its latest running operation, at once; any other *)
(* counts only when converged and only for the transient state it ends.       *)
AdvanceRun(run, seen) ==
  LET r == jobRuns[run]
      live == {i \in DOMAIN r.ops : r.ops[i].state = "running"}
      ends == {k \in Lifecycle : Transient[k] = r.st /\ seen = Settles[k].obs}
      failed == seen = "failed"
      hit == {i \in live : i[1] \in IF failed THEN Lifecycle ELSE ends}
      id == LatestOp(hit, r.ops)
      op == [r.ops[id] EXCEPT !.state = IF failed THEN "failed" ELSE "succeeded"]
      end == CHOOSE k \in ends : TRUE
      st == IF failed THEN "failed" ELSE IF ends = {} THEN r.st ELSE Settles[end].run
      ops == IF hit = {} THEN r.ops ELSE Put(r.ops, id, op)
  IN /\ jobState' = IF failed THEN "failed" ELSE IF ends = {} THEN jobState ELSE Settles[end].job
     /\ jobRuns' = [jobRuns EXCEPT ![run] = [st |-> st, ops |-> ops, obs |-> seen]]
     /\ jobOps' = IF hit = {} THEN jobOps ELSE Put(jobOps, id, op)

(* MergeAggregatedStatus keeps the newest observation of a source: a new one  *)
(* replaces it, a stale or duplicated report re-applies the one kept.         *)
ObserveRun(run, obs) ==
  \/ /\ jobReports < MaxReports
     /\ jobReports' = jobReports + 1
     /\ AdvanceRun(run, obs)
  \/ /\ jobRuns[run].obs = obs
     /\ jobReports' = jobReports
     /\ AdvanceRun(run, obs)

ReportComponentStatus(run, obs) ==
  /\ JobServing
  /\ ObserveRun(run, obs)
  /\ UNCHANGED <<jobIdem, jobCalls, jobInflight, jobTodo, jobRestarts>>

-----------------------------------------------------------------------------
(* A restart loses every call; the repository's content survives.  main runs *)
(* ReconcileIncompleteOperations before it listens.                          *)
JobRestart ==
  /\ jobRestarts < MaxRestarts
  /\ jobRestarts' = jobRestarts + 1
  /\ jobCalls' = [c \in DOMAIN jobCalls |->
                    IF c = Recovery THEN [pc |-> "next"] ELSE JobIdle]
  /\ jobInflight' = {}
  /\ jobTodo' = {i \in DOMAIN jobOps : jobOps[i].state = "running"}
  /\ UNCHANGED <<jobStore, jobReports>>

(* hasRecoveryIdentity: the key's record names this operation, and was made  *)
(* by a request with the hash recomputed from the operation                  *)
HasRecoveryIdentity(id) ==
  /\ id[3] # NoKey /\ id[3] \in DOMAIN jobIdem
  /\ jobIdem[id[3]].op = id
  /\ jobIdem[id[3]].hash = IF id[1] = "admit" THEN CommandHash("admit", LatestOne)
                           ELSE CommandHash(id[1], id[2])

(* reconcileOperation takes the oldest operation left: an admit or a retry   *)
(* goes straight to the replay, a command asks the runtime for its status.   *)
ReconcileNext ==
  LET id == CHOOSE i \in jobTodo : \A j \in jobTodo : jobOps[i].born <= jobOps[j].born
  IN /\ jobCalls[Recovery].pc = "next"
     /\ IF jobTodo = {}
          THEN Return(Recovery) /\ UNCHANGED jobTodo
          ELSE /\ jobTodo' = jobTodo \ {id}
               /\ SetCall(Recovery, [pc |-> IF id[1] \in {"admit", "retry"} THEN "decide" ELSE "status",
                                     op |-> id])
     /\ UNCHANGED <<jobStore, jobInflight, jobReports, jobRestarts>>

(* GetRuntimeStatus answered with an observation made since the operation    *)
(* was recorded, reported like any other; or it did not.                     *)
ReconcileStatus(obs) ==
  /\ jobCalls[Recovery].pc = "status"
  /\ \/ ObserveRun(jobCalls[Recovery].op[2], obs)
     \/ UNCHANGED <<jobState, jobRuns, jobOps, jobReports>>
  /\ SetCall(Recovery, [jobCalls[Recovery] EXCEPT !.pc = "decide"])
  /\ UNCHANGED <<jobIdem, jobInflight, jobTodo, jobRestarts>>

(* markReconciliationRequired *)
MarkReconciliationRequired(id) ==
  IF jobOps[id].state = "running"
    THEN PutBoth(id, [jobOps[id] EXCEPT !.state = "failed"], jobRuns[id[2]])
    ELSE UNCHANGED <<jobRuns, jobOps>>

(* settled meanwhile: done; not replayable, or accepted before the restart   *)
(* and still unconfirmed: for an operator to decide; else replay             *)
ReconcileDecide ==
  LET id == jobCalls[Recovery].op
  IN /\ jobCalls[Recovery].pc = "decide"
     /\ IF jobOps[id].state = "running" /\ HasRecoveryIdentity(id)
           /\ ~(jobOps[id].accepted /\ id[1] # "admit")
          THEN /\ SetCall(Recovery, [pc |-> "resume", op |-> id, key |-> id[3]])
               /\ UNCHANGED <<jobRuns, jobOps>>
          ELSE /\ MarkReconciliationRequired(id)
               /\ SetCall(Recovery, [pc |-> "next"])
     /\ UNCHANGED <<jobState, jobIdem, jobInflight, jobTodo, jobReports, jobRestarts>>

(* mutated: a replay with an unknown outcome is left as it is *)
ReconcileConfirmTrusting ==
  /\ jobCalls[Recovery].pc = "confirm"
  /\ SetCall(Recovery, [pc |-> "next"])
  /\ UNCHANGED <<jobStore, jobInflight, jobTodo, jobReports, jobRestarts>>

(* replayOperation's last check, on the outcome the replay left *)
ReconcileConfirm ==
  LET id == jobCalls[Recovery].op
  IN /\ jobCalls[Recovery].pc = "confirm"
     /\ IF jobOps[id].accepted /\ id[1] # "admit"
          THEN UNCHANGED <<jobRuns, jobOps>>
          ELSE MarkReconciliationRequired(id)
     /\ SetCall(Recovery, [pc |-> "next"])
     /\ UNCHANGED <<jobState, jobIdem, jobInflight, jobTodo, jobReports, jobRestarts>>

JobNext ==
  \/ CreateJob \/ CreateJobRun
  \/ \E run \in DOMAIN jobRuns : \E type \in Commands \cap {"start"} : RecordOperation(run, type)
  \/ \E c \in Callers, key \in Keys \cup {NoKey} :
       \/ LoadIdempotency(c, "admit", LatestOne, key)
       \/ \E cmd \in Commands, run \in DOMAIN jobRuns \cup {LatestOne} : LoadIdempotency(c, cmd, run, key)
  \/ \E c \in Callers \cup {Recovery} :
       \/ WaitInflight(c) \/ ResumePlan(c) \/ PersistCommand(c) \/ PersistAdmit(c) \/ RunInflight(c)
       \/ \E outcome \in {"accepted", "refused", "ambiguous"} : InvokeRuntime(c, outcome)
       \/ FinalizePhase(c)
  \/ \E run \in DOMAIN jobRuns, obs \in Observed : ReportComponentStatus(run, obs)
  \/ JobRestart \/ ReconcileNext
  \/ \E obs \in Observed : ReconcileStatus(obs)
  \/ ReconcileDecide \/ ReconcileConfirm

JobSpec == JobInit /\ [][JobNext]_jobVars

-----------------------------------------------------------------------------
(* When startup reconciliation ends and the server begins to listen, no      *)
(* operation is left in doubt: every one still running is a command whose    *)
(* dispatch the runtime accepted (ReconcileIncompleteOperations).            *)
RecoveredIsResolved ==
  [][~JobServing /\ JobServing' =>
       \A id \in DOMAIN jobOps' : jobOps'[id].state = "running" =>
          jobOps'[id].accepted /\ id[1] \in Lifecycle]_jobVars

(* A dispatch the runtime accepted is never sent a second time: a replay     *)
(* under the same key answers from the record (ApplyJobCommand).  The code   *)
(* does not keep it with two callers.                                        *)
NoSecondDispatch ==
  [][\A c \in DOMAIN jobCalls :
       jobCalls[c].pc = "dispatch" /\ jobCalls'[c].pc = "finalize" =>
          ~jobOps[jobCalls[c].op].accepted]_jobVars

=============================================================================

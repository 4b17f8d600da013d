------------------------------ MODULE MCControl ------------------------------
(***************************************************************************)
(* The services around the scheduler, for TLC: the Job Controller          *)
(* (JobControl, JobStore), the Operator (OperatorWorker, OperatorBackend,  *)
(* BundlePipeline), the managed worker (ManagedWorker) and the replacement *)
(* of its MIG device (MigReplacement) side by side.  In a behaviour one of *)
(* them is at work and the others stay in one initial state, so that their *)
(* state spaces add up.                                                    *)
(***************************************************************************)
EXTENDS JobControl, JobStore, OperatorWorker, OperatorBackend, BundlePipeline, ManagedWorker,
        MigReplacement

VARIABLE focus
controlVars == <<jobVars, logVars, opVars, bkVars, bpVars, wkVars, mgVars, focus>>

ControlInit ==
  /\ JobInit /\ JsInit /\ OpInit /\ BkInit /\ BpInit /\ WkInit /\ MgInit
  /\ focus \in {"jobs", "events", "operator", "backend", "bundle", "worker", "mig"}
  /\ focus # "events" => logWatch.filter = AnyRun /\ logPage.filter = AnyRun
  /\ focus # "operator" => \A i \in 1..OpLength : opStream[i].kind = "skip"
  /\ focus # "bundle" => bpInput = [ids |-> <<>>, units |-> 0, bootstrap |-> FALSE]

\* The Operator sees two bindings, or one with a pause and a crash; the backend
\* and the replacement of a device meet one failed call or one crash.
OperatorBound ==
  Cardinality({i \in 1..OpLength : opStream[i].kind = "bind"}) > 1 =>
    opCrashes' = 0 /\ \A k \in OpKeys : opWork'[k].pauses = 0
BackendBound == bkFaults' + bkCrashes' <= 1
MigBound == mgFaults' + mgCrashes' <= 1

ControlNext ==
  /\ UNCHANGED focus
  /\ \/ focus = "jobs" /\ JobNext /\ UNCHANGED <<logVars, opVars, bkVars, bpVars, wkVars, mgVars>>
     \/ focus = "events" /\ JsNext /\ UNCHANGED <<jobVars, opVars, bkVars, bpVars, wkVars, mgVars>>
     \/ focus = "operator" /\ OpNext /\ OperatorBound /\ UNCHANGED <<jobVars, logVars, bkVars, bpVars, wkVars, mgVars>>
     \/ focus = "backend" /\ BkNext /\ BackendBound /\ UNCHANGED <<jobVars, logVars, opVars, bpVars, wkVars, mgVars>>
     \/ focus = "bundle" /\ BpNext /\ UNCHANGED <<jobVars, logVars, opVars, bkVars, wkVars, mgVars>>
     \/ focus = "worker" /\ WkNext /\ UNCHANGED <<jobVars, logVars, opVars, bkVars, bpVars, mgVars>>
     \/ focus = "mig" /\ MgNext /\ MigBound /\ UNCHANGED <<jobVars, logVars, opVars, bkVars, bpVars, wkVars>>

ControlSpec == ControlInit /\ [][ControlNext]_controlVars

\* Two incarnations of a managed worker, each of its own generation.
WorkerGenerations == [i \in {1, 2} |-> i]

\* A rebind to another device, then a recreate on it.
MigTargets == <<2, 2>>
==============================================================================

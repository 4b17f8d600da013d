--------------------------- MODULE ProtectionGuard ----------------------------
(***************************************************************************)
(* The mutation guard of the Scheduler (protection.Guard): per key a       *)
(* cooldown, a hysteresis on scores, a budget of actions per window and a  *)
(* circuit breaker, together with the callers that decide when it counts:  *)
(* the reconcile path (check, commit, save, roll back, record the          *)
(* outcome), the Schedule preview, and start-up from the checkpoint.       *)
(* Time is an integer clock; 0 is the zero time.                           *)
(***************************************************************************)
EXTENDS Integers, Sequences

CONSTANTS
  Keys,          \* protection keys, execution/stage
  Cooldown, Hysteresis, MaxActionsPerWindow, Window, BreakerThreshold, BreakerResetAfter,
  Scores, Counts,\* scores and action counts of the plans evaluated
  MaxTime,       \* bound on the clock
  MaxFailures,   \* bound on the failures recorded for a key
  MaxFaults,     \* bound on failed saves
  MaxCrashes,    \* bound on crashes
  Previews       \* bound on Schedule previews that find no candidate

ASSUME GuardAssumption ==
  /\ Cooldown \in Nat /\ Hysteresis \in Nat /\ MaxActionsPerWindow \in Nat \ {0}
  /\ Window \in Nat \ {0} /\ BreakerThreshold \in Nat \ {0} /\ BreakerResetAfter \in Nat \ {0}
  /\ Scores \subseteq Nat /\ Counts \subseteq Nat \ {0}
  /\ MaxTime \in Nat /\ MaxFailures \in Nat /\ MaxFaults \in Nat /\ MaxCrashes \in Nat /\ Previews \in Nat

VARIABLES
  guard,     \* the guard's state, one entry per key
  saved,     \* the guard's state in the durable checkpoint
  snapshot,  \* the state exported before the reservation of the lock holder
  pc,        \* the worker of each key
  plan,      \* the plan of each key: score, action count, time of admission
  planMu,    \* "held" while a worker is between evaluation and its save
  gate,      \* "closed" once a save failed
  phase,     \* "serving", or "recovering" until the recovered outcomes are recorded
  admitted,  \* history: the plans that were executed, in order of their save
  failures,  \* history: failures the reconcile path recorded for each key
  now, faults, crashes, previews

counters == <<faults, crashes, previews>>
vars == <<guard, saved, snapshot, pc, plan, planMu, gate, phase, admitted, failures, now, counters>>

Zero == [last |-> 0, score |-> 0, wstart |-> 0, wcount |-> 0, bcount |-> 0, opened |-> 0]
NoEntries == [k \in Keys |-> Zero]
NoPlan == [score |-> 0, count |-> 0, at |-> 0]

Init ==
  /\ guard = NoEntries /\ saved = NoEntries /\ snapshot = NoEntries
  /\ pc = [k \in Keys |-> "idle"] /\ plan = [k \in Keys |-> NoPlan] /\ planMu = "free"
  /\ gate = "open" /\ phase = "serving" /\ admitted = <<>> /\ failures = [k \in Keys |-> 0]
  /\ now = 1 /\ faults = 0 /\ crashes = 0 /\ previews = 0

--------------------------------------------------------------------------------
(* The guard. *)

BreakerExpired(st) == st.opened # 0 /\ now - st.opened >= BreakerResetAfter
WindowExpired(st) == st.wstart # 0 /\ now - st.wstart >= Window
Normalize(st) ==
  [last |-> st.last, score |-> st.score,
   wstart |-> IF WindowExpired(st) THEN 0 ELSE st.wstart,
   wcount |-> IF WindowExpired(st) THEN 0 ELSE st.wcount,
   bcount |-> IF BreakerExpired(st) THEN 0 ELSE st.bcount,
   opened |-> IF BreakerExpired(st) THEN 0 ELSE st.opened]

CircuitOpen(st) == st.opened # 0 /\ now - st.opened < BreakerResetAfter
CoolingDown(st) == st.last # 0 /\ now - st.last < Cooldown
BelowHysteresis(st, score) == Hysteresis > 0 /\ st.score > 0 /\ score < st.score + Hysteresis
OverBudget(st, count) == count > MaxActionsPerWindow - st.wcount

\* Mutant: the actions of the plan are not charged to the window.
ConsumedUncharged(st, score, count) ==
  [st EXCEPT !.last = now, !.score = score, !.wstart = IF @ = 0 THEN now ELSE @]

\* evaluateLocked on a normalized entry: may a plan proceed, and the entry after
\* it did.
Allowed(st, score, count) ==
  ~CircuitOpen(st) /\ ~CoolingDown(st) /\ ~BelowHysteresis(st, score) /\ ~OverBudget(st, count)
Consumed(st, score, count) ==
  [last |-> now, score |-> score, wcount |-> st.wcount + count,
   wstart |-> IF st.wstart = 0 THEN now ELSE st.wstart, bcount |-> st.bcount, opened |-> st.opened]

WithBreaker(st, count, opened) ==
  [last |-> st.last, score |-> st.score, wstart |-> st.wstart, wcount |-> st.wcount,
   bcount |-> count, opened |-> opened]

\* Reject counts a failure and opens the breaker at the threshold; Accept heals
\* one failure and closes the breaker with the last one.
Rejected(st) ==
  LET n == Normalize(st)
  IN  WithBreaker(n, n.bcount + 1, IF n.bcount + 1 >= BreakerThreshold THEN now ELSE n.opened)
Accepted(st) ==
  LET n == Normalize(st)
  IN  WithBreaker(n, IF n.bcount > 0 THEN n.bcount - 1 ELSE 0, IF n.bcount <= 1 THEN 0 ELSE n.opened)

--------------------------------------------------------------------------------
(* The reconcile path. *)

\* A checkpoint: it is saved, it is lost, or it is written although the save
\* reports an error.  The last two close the gate, and
\* behind a closed gate every save fails.
NoSave == UNCHANGED <<saved, gate, faults>>
Save(state, outcome) ==
  \/ gate = "closed" /\ outcome = "lost" /\ NoSave
  \/ /\ gate = "open" /\ (outcome = "ok" \/ faults < MaxFaults)
     /\ saved' = IF outcome = "lost" THEN saved ELSE state
     /\ gate' = IF outcome = "ok" THEN "open" ELSE "closed"
     /\ faults' = IF outcome = "ok" THEN faults ELSE faults + 1
SaveOutcomes == {"ok", "lost", "written"}

Serving(k) == phase = "serving" /\ planMu = "free" /\ pc[k] = "idle"

\* No candidate: the evaluation itself counts a failure, and its fallback is
\* saved.
EvaluateNoCandidate(k, outcome) ==
  /\ Serving(k) /\ failures[k] < MaxFailures
  /\ guard' = [guard EXCEPT ![k] = Rejected(@)] /\ failures' = [failures EXCEPT ![k] = @ + 1]
  /\ Save(guard', outcome)
  /\ UNCHANGED <<snapshot, pc, plan, planMu, phase, admitted, now, crashes, previews>>

\* CheckN, then the export of the guard's state before the reservation.
Evaluate(k, score, count) ==
  /\ Serving(k)
  /\ Allowed(Normalize(guard[k]), score, count)
  /\ plan' = [plan EXCEPT ![k] = [score |-> score, count |-> count, at |-> 0]]
  /\ pc' = [pc EXCEPT ![k] = "checked"] /\ planMu' = "held"
  /\ UNCHANGED <<guard, snapshot, phase, admitted, failures, now, crashes, previews>> /\ NoSave

Stage(k) ==
  /\ pc[k] = "checked"
  /\ snapshot' = guard /\ pc' = [pc EXCEPT ![k] = "staged"]
  /\ UNCHANGED <<guard, plan, planMu, phase, admitted, failures, now, crashes, previews>> /\ NoSave

\* CommitN re-validates: the guard may have changed since the check.
Admit(k) ==
  /\ pc[k] = "staged" /\ Allowed(Normalize(guard[k]), plan[k].score, plan[k].count)
  /\ guard' = [guard EXCEPT ![k] = Consumed(Normalize(@), plan[k].score, plan[k].count)]
  /\ plan' = [plan EXCEPT ![k].at = now]
  /\ pc' = [pc EXCEPT ![k] = "admitted"]
  /\ UNCHANGED <<snapshot, planMu, phase, admitted, failures, now, crashes, previews>> /\ NoSave

RefuseAdmission(k, outcome) ==
  /\ pc[k] = "staged" /\ ~Allowed(Normalize(guard[k]), plan[k].score, plan[k].count)
  /\ guard' = snapshot /\ Save(snapshot, outcome)
  /\ pc' = [pc EXCEPT ![k] = "idle"] /\ planMu' = "free"
  /\ UNCHANGED <<snapshot, plan, phase, admitted, failures, now, crashes, previews>>

Executed(k) == [key |-> k, score |-> plan[k].score, count |-> plan[k].count, at |-> plan[k].at]

\* checkpointPendingDecision.  When it fails the guard is rolled back, though
\* the checkpoint may hold the admission.
PersistAdmission(k, outcome) ==
  /\ pc[k] = "admitted"
  /\ Save(guard, outcome)
  /\ guard' = IF outcome = "ok" THEN guard ELSE snapshot
  /\ pc' = [pc EXCEPT ![k] = CASE outcome = "ok" -> "running" [] outcome = "lost" -> "idle" [] OTHER -> "written"]
  /\ planMu' = "free"
  /\ admitted' = IF outcome = "ok" THEN Append(admitted, Executed(k)) ELSE admitted
  /\ UNCHANGED <<snapshot, plan, phase, failures, now, crashes, previews>>

\* The outcome of the plan, appended with its decision; a failed append rolls
\* the guard back.
RecordOutcome(k, succeeded, outcome) ==
  LET next == [guard EXCEPT ![k] = IF succeeded THEN Accepted(@) ELSE Rejected(@)]
  IN  /\ pc[k] = "running" /\ planMu = "free"
      /\ Save(next, outcome)
      /\ guard' = IF outcome = "ok" THEN next ELSE guard
      /\ succeeded \/ failures[k] < MaxFailures
      /\ failures' = IF succeeded THEN failures ELSE [failures EXCEPT ![k] = @ + 1]
      /\ pc' = [pc EXCEPT ![k] = IF outcome = "lost" THEN "running" ELSE "idle"]
      /\ UNCHANGED <<snapshot, plan, planMu, phase, admitted, now, crashes, previews>>

\* Executors of other keys save whole checkpoints, outside planMu.
ExecutorSaves ==
  /\ \E k \in Keys : pc[k] = "running"
  /\ Save(guard, "ok")
  /\ UNCHANGED <<guard, snapshot, pc, plan, planMu, phase, admitted, failures, now, crashes, previews>>

\* The Schedule RPC: a preview that finds no candidate for the caller's snapshot.
Schedule(k) ==
  /\ phase = "serving" /\ previews < Previews /\ previews' = previews + 1
  /\ guard' = [guard EXCEPT ![k] = Rejected(@)]
  /\ UNCHANGED <<snapshot, pc, plan, planMu, phase, admitted, failures, now, crashes>> /\ NoSave

Tick ==
  /\ now < MaxTime /\ now' = now + 1
  /\ UNCHANGED <<guard, snapshot, pc, plan, planMu, phase, admitted, failures, crashes, previews>> /\ NoSave

--------------------------------------------------------------------------------
(* Crash and start-up. *)

Durable(k) == pc[k] \in {"running", "written"}
Revived == {k \in Keys : pc[k] = "written"}

\* Mutant: the guard starts empty.
CrashForgets(k) ==
  /\ crashes < MaxCrashes /\ crashes' = crashes + 1 /\ Revived \subseteq {k}
  /\ guard' = NoEntries /\ planMu' = "free" /\ gate' = "open" /\ phase' = "recovering"
  /\ pc' = [j \in Keys |-> IF Durable(j) THEN "running" ELSE "idle"]
  /\ admitted' = IF pc[k] = "written" THEN Append(admitted, Executed(k)) ELSE admitted
  /\ UNCHANGED <<saved, snapshot, plan, failures, now, faults, previews>>

\* Crash and RestoreState.  A plan whose pending decision is in the checkpoint
\* is resumed (k is the one whose save reported an error, if there is one).
Crash(k) ==
  /\ crashes < MaxCrashes /\ crashes' = crashes + 1 /\ Revived \subseteq {k}
  /\ guard' = saved /\ planMu' = "free" /\ gate' = "open" /\ phase' = "recovering"
  /\ pc' = [j \in Keys |-> IF Durable(j) THEN "running" ELSE "idle"]
  /\ admitted' = IF pc[k] = "written" THEN Append(admitted, Executed(k)) ELSE admitted
  /\ UNCHANGED <<saved, snapshot, plan, failures, now, faults, previews>>

\* The recovered outcomes are recorded (RecordOutcome) before requests are served.
Serve ==
  /\ phase = "recovering" /\ \A k \in Keys : pc[k] = "idle"
  /\ phase' = "serving"
  /\ UNCHANGED <<guard, snapshot, pc, plan, planMu, admitted, failures, now, crashes, previews>> /\ NoSave

Next ==
  \/ Tick \/ Serve \/ ExecutorSaves
  \/ \E k \in Keys :
       \/ \E s \in Scores, n \in Counts : Evaluate(k, s, n)
       \/ Stage(k) \/ Admit(k) \/ Schedule(k) \/ Crash(k)
       \/ \E outcome \in SaveOutcomes :
            \/ EvaluateNoCandidate(k, outcome) \/ RefuseAdmission(k, outcome) \/ PersistAdmission(k, outcome)
            \/ \E succeeded \in BOOLEAN : RecordOutcome(k, succeeded, outcome)

Spec == Init /\ [][Next]_vars

--------------------------------------------------------------------------------
(* Properties. *)

Entry == [last : Nat, score : Nat, wstart : Nat, wcount : 0..MaxActionsPerWindow, bcount : Nat, opened : Nat]
Inside == {"checked", "staged", "admitted"}

\* The state of the guard, in memory and in the checkpoint, never charges more
\* than the budget to a window; at most one worker is inside planMu.
GuardTypeOK ==
  /\ guard \in [Keys -> Entry] /\ saved \in [Keys -> Entry] /\ snapshot \in [Keys -> Entry]
  /\ pc \in [Keys -> Inside \cup {"idle", "written", "running"}]
  /\ \A j, k \in Keys : pc[j] \in Inside /\ pc[k] \in Inside => j = k

Later(i, j) == i < j /\ admitted[i].key = admitted[j].key

\* Two executed plans of a key are a cooldown apart, whatever roll-backs,
\* failed saves, restarts and previews came between them.
CooldownRespected ==
  \A i, j \in DOMAIN admitted : Later(i, j) => admitted[j].at >= admitted[i].at + Cooldown

\* Each executed plan of a key improves on the one before it by the hysteresis:
\* the margin never expires, so a key's scores can only climb.
ScoresClimb ==
  \A i, j \in DOMAIN admitted :
    Hysteresis > 0 /\ Later(i, j) /\ admitted[i].score > 0 => admitted[j].score >= admitted[i].score + Hysteresis

\* The actions executed for key k in the window-long interval that begins at from.
ActionsIn(k, from) ==
  LET counts(a) == a.key = k /\ a.at \in from..from + Window - 1
      sum[n \in 0..Len(admitted)] ==
        IF n = 0 THEN 0 ELSE sum[n - 1] + (IF counts(admitted[n]) THEN admitted[n].count ELSE 0)
  IN  sum[Len(admitted)]

\* The actions executed for a key in an interval of one window are fewer than two
\* budgets: windows tumble, so an interval meets at most two of them, and the
\* first of these began with an action before the interval.
SlidingBudget ==
  \A k \in Keys, from \in 1..now : ActionsIn(k, from) < 2 * MaxActionsPerWindow

\* The breaker of a key opens only after as many failures as the threshold: those
\* the reconcile path recorded for the key, and previews that found no candidate.
BreakerIsEarned ==
  \A k \in Keys : guard[k].opened # 0 => failures[k] + previews >= BreakerThreshold

\* Budget and breaker hold for what was executed and what failed, across roll-backs,
\* failed saves, previews and restarts (CommitN, Reject, RestoreState).
LimitsHold == SlidingBudget /\ BreakerIsEarned

\* "Schedule performs a pure scheduling preview": it leaves the guard alone.
PreviewIsPure == [][previews' # previews => guard' = guard]_vars
================================================================================

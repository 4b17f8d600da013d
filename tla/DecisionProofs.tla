--------------------------- MODULE DecisionProofs ---------------------------
(***************************************************************************)
(* What is proved of the two places a decision passes: the guard that      *)
(* admits it (ProtectionGuard), for all constants, and the Operator's      *)
(* decision worker and observation manager that carry it out               *)
(* (OperatorWorker), for every stream of decisions and any bounds.         *)
(*                                                                         *)
(* The guard's properties speak of the history alone; the inductive        *)
(* invariant ties the history to the three copies of the guard's state.    *)
(* The guard, the checkpoint and the export taken before a reservation     *)
(* each dominate what was executed, and an admission that is not in the    *)
(* history yet follows everything in it.  A save that was written although *)
(* it reported an error is the delicate case: the guard is rolled back     *)
(* below the admission, the checkpoint is not, and nothing is admitted     *)
(* behind the closed gate until the crash that puts the plan into the      *)
(* history.                                                                *)
(***************************************************************************)
EXTENDS ProtectionGuard, OperatorWorker, FiniteSetTheorems, TLAPS

Execution == [key : Keys, score : Nat, count : Nat, at : Nat]

\* The history lies within what a state of the guard remembers.
Dominates(state) ==
  \A i \in DOMAIN admitted :
    /\ admitted[i].at <= state[admitted[i].key].last
    /\ Hysteresis > 0 => admitted[i].score <= state[admitted[i].key].score

\* A plan admitted at a time with a score keeps its distance from the history.
Follows(k, at, score) ==
  \A i \in DOMAIN admitted : admitted[i].key = k =>
    /\ admitted[i].at + Cooldown <= at
    /\ Hysteresis > 0 => admitted[i].score <= score
    /\ Hysteresis > 0 /\ admitted[i].score > 0 => admitted[i].score + Hysteresis <= score

TypeInv ==
  /\ guard \in [Keys -> Entry] /\ saved \in [Keys -> Entry] /\ snapshot \in [Keys -> Entry]
  /\ pc \in [Keys -> Inside \cup {"idle", "written", "running"}]
  /\ plan \in [Keys -> [score : Nat, count : Nat, at : Nat]]
  /\ planMu \in {"free", "held"} /\ gate \in {"open", "closed"}
  /\ admitted \in Seq(Execution) /\ now \in Nat \ {0}

LockInv ==
  /\ planMu = "free" => \A k \in Keys : pc[k] \notin Inside
  /\ \A j, k \in Keys : pc[j] \in Inside /\ pc[k] \in Inside => j = k
  /\ \A k \in Keys : pc[k] = "written" => gate = "closed"

HistoryInv ==
  /\ \A i \in DOMAIN admitted : admitted[i].at >= 1
  /\ CooldownRespected /\ ScoresClimb

StateInv ==
  /\ Dominates(guard) /\ Dominates(saved)
  /\ \A k \in Keys : pc[k] \in {"staged", "admitted"} => Dominates(snapshot)

PendingInv ==
  \A k \in Keys : pc[k] \in {"admitted", "written"} =>
    /\ plan[k].at >= 1 /\ Follows(k, plan[k].at, plan[k].score)
    /\ pc[k] = "admitted" => guard[k].last = plan[k].at /\ guard[k].score = plan[k].score
    /\ pc[k] = "written" => saved[k].last = plan[k].at /\ saved[k].score = plan[k].score

\* The inductive invariant.
GuardInv == TypeInv /\ LockInv /\ HistoryInv /\ StateInv /\ PendingInv

\* Normalizing an entry and recording an outcome keep its last action and score.
LEMMA OutcomeKeeps ==
  ASSUME NEW st \in Entry, now \in Nat
  PROVE  /\ Normalize(st) \in Entry /\ Normalize(st).last = st.last /\ Normalize(st).score = st.score
         /\ Rejected(st) \in Entry /\ Rejected(st).last = st.last /\ Rejected(st).score = st.score
         /\ Accepted(st) \in Entry /\ Accepted(st).last = st.last /\ Accepted(st).score = st.score
<1>1. /\ Normalize(st) \in Entry /\ Normalize(st).last = st.last /\ Normalize(st).score = st.score
  BY GuardAssumption DEF Normalize, Entry
<1>2. ASSUME NEW n \in Entry, NEW c \in Nat, NEW t \in Nat
      PROVE  WithBreaker(n, c, t) \in Entry /\ WithBreaker(n, c, t).last = n.last /\ WithBreaker(n, c, t).score = n.score
  BY DEF WithBreaker, Entry
<1> DEFINE n == Normalize(st)
<1>3. n.bcount \in Nat /\ n.opened \in Nat /\ n \in Entry
  BY <1>1 DEF Entry
<1>4. /\ Rejected(st) = WithBreaker(n, n.bcount + 1, IF n.bcount + 1 >= BreakerThreshold THEN now ELSE n.opened)
      /\ Accepted(st) = WithBreaker(n, IF n.bcount > 0 THEN n.bcount - 1 ELSE 0, IF n.bcount <= 1 THEN 0 ELSE n.opened)
  BY DEF Rejected, Accepted
<1>5. /\ n.bcount + 1 \in Nat /\ (IF n.bcount > 0 THEN n.bcount - 1 ELSE 0) \in Nat
      /\ (IF n.bcount + 1 >= BreakerThreshold THEN now ELSE n.opened) \in Nat
      /\ (IF n.bcount <= 1 THEN 0 ELSE n.opened) \in Nat
  <2> HIDE DEF n
  <2> QED BY <1>3
<1>6. n.last = st.last /\ n.score = st.score
  BY <1>1
<1> DEFINE failed == n.bcount + 1
           healed == IF n.bcount > 0 THEN n.bcount - 1 ELSE 0
           opens == IF n.bcount + 1 >= BreakerThreshold THEN now ELSE n.opened
           closes == IF n.bcount <= 1 THEN 0 ELSE n.opened
<1> HIDE DEF n
<1>7. Rejected(st) = WithBreaker(n, failed, opens) /\ Accepted(st) = WithBreaker(n, healed, closes)
  BY <1>4
<1>8. failed \in Nat /\ healed \in Nat /\ opens \in Nat /\ closes \in Nat
  BY <1>5
<1> HIDE DEF failed, healed, opens, closes
<1>9. /\ WithBreaker(n, failed, opens) \in Entry
      /\ WithBreaker(n, failed, opens).last = n.last /\ WithBreaker(n, failed, opens).score = n.score
  BY <1>2, <1>3, <1>8, ZenonT(30)
<1>10. /\ WithBreaker(n, healed, closes) \in Entry
       /\ WithBreaker(n, healed, closes).last = n.last /\ WithBreaker(n, healed, closes).score = n.score
  BY <1>2, <1>3, <1>8, ZenonT(30)
<1> QED BY <1>1, <1>6, <1>7, <1>9, <1>10

\* An allowed plan is admitted a cooldown after the entry's last action, at a
\* score above its margin, and within the budget.
LEMMA AdmissionFollows ==
  ASSUME NEW st \in Entry, now \in Nat \ {0}, NEW score \in Nat, NEW count \in Nat,
         Allowed(st, score, count)
  PROVE  /\ Consumed(st, score, count) \in Entry
         /\ Consumed(st, score, count).last = now /\ Consumed(st, score, count).score = score
         /\ st.last # 0 => st.last + Cooldown <= now
         /\ Hysteresis > 0 /\ st.score > 0 => st.score + Hysteresis <= score
BY GuardAssumption DEF Allowed, CoolingDown, BelowHysteresis, OverBudget, Consumed, Entry

\* What appending does to a sequence.
LEMMA SequencesAppend ==
  ASSUME NEW S, NEW s \in Seq(S), NEW e \in S, NEW t, t = Append(s, e)
  PROVE  /\ DOMAIN t = 1..Len(s) + 1 /\ DOMAIN s = 1..Len(s) /\ Len(s) \in Nat
         /\ \A i \in 1..Len(s) : t[i] = s[i] /\ s[i] \in S
         /\ t[Len(s) + 1] = e /\ t \in Seq(S)
OBVIOUS

\* Appending an execution that follows the history keeps the distances.
LEMMA AppendKeepsDistance ==
  ASSUME NEW e \in Execution, admitted \in Seq(Execution), admitted' = Append(admitted, e),
         e.at >= 1, HistoryInv, Follows(e.key, e.at, e.score)
  PROVE  HistoryInv'
<1>1. /\ DOMAIN admitted' = 1..Len(admitted) + 1 /\ DOMAIN admitted = 1..Len(admitted) /\ Len(admitted) \in Nat
      /\ \A i \in 1..Len(admitted) : admitted'[i] = admitted[i] /\ admitted[i] \in Execution
      /\ admitted'[Len(admitted) + 1] = e
  BY SequencesAppend
<1> USE GuardAssumption DEF Execution
<1>2. \A i \in DOMAIN admitted' : admitted'[i].at >= 1
  <2>1. \A i \in DOMAIN admitted' : i \in 1..Len(admitted) \/ i = Len(admitted) + 1
    BY <1>1
  <2> QED BY <1>1, <2>1, ZenonT(30) DEF HistoryInv
<1>3. CooldownRespected'
  BY <1>1, SMTT(30) DEF HistoryInv, CooldownRespected, Later, Follows
<1>4. ScoresClimb'
  BY <1>1, SMTT(30) DEF HistoryInv, ScoresClimb, Later, Follows
<1> QED BY <1>2, <1>3, <1>4 DEF HistoryInv

\* The guard starts empty, with an empty history.
THEOREM InitGuard == Init => GuardInv
<1> SUFFICES ASSUME Init PROVE GuardInv
  OBVIOUS
<1> USE GuardAssumption DEF Init
<1>1. TypeInv
  BY DEF TypeInv, NoEntries, Zero, NoPlan, Entry, Inside
<1>2. LockInv
  BY DEF LockInv, Inside
<1>3. DOMAIN admitted = {}
  OBVIOUS
<1>4. HistoryInv /\ StateInv /\ PendingInv
  BY <1>3 DEF HistoryInv, CooldownRespected, ScoresClimb, StateInv, Dominates, PendingInv
<1> QED BY <1>1, <1>2, <1>4 DEF GuardInv

\* A step that leaves the history alone and changes no entry's last action or
\* score.
Quiet ==
  /\ admitted' = admitted /\ snapshot' = snapshot /\ plan' = plan
  /\ \A k \in Keys : guard'[k].last = guard[k].last /\ guard'[k].score = guard[k].score
  /\ \A k \in Keys :
       \/ saved'[k].last = saved[k].last /\ saved'[k].score = saved[k].score
       \/ saved'[k].last = guard[k].last /\ saved'[k].score = guard[k].score /\ gate = "open"
  /\ \A k \in Keys : pc'[k] \in {"staged", "admitted", "written"} => pc[k] = pc'[k]

\* Such a step keeps what the history and the pending admissions need.
LEMMA QuietStep ==
  ASSUME GuardInv, Quiet, TypeInv', LockInv'
  PROVE  GuardInv'
<1>1. \A i \in DOMAIN admitted : admitted[i] \in Execution
  BY DEF GuardInv, TypeInv
<1>2. HistoryInv'
  BY DEF GuardInv, HistoryInv, CooldownRespected, ScoresClimb, Later, Quiet
<1>3. StateInv'
  BY <1>1 DEF GuardInv, StateInv, Dominates, Execution, Quiet
<1>4. PendingInv'
  BY DEF GuardInv, PendingInv, Follows, LockInv, Quiet
<1> QED BY <1>2, <1>3, <1>4 DEF GuardInv

\* What a save can do to the checkpoint and the gate.
LEMMA SaveStep ==
  ASSUME NEW state \in [Keys -> Entry], NEW outcome, Save(state, outcome), TypeInv
  PROVE  /\ saved' \in [Keys -> Entry] /\ gate' \in {"open", "closed"}
         /\ saved' = saved \/ (saved' = state /\ gate = "open")
         /\ gate = "closed" => gate' = "closed" /\ saved' = saved
         /\ outcome # "ok" => gate' = "closed"
         /\ outcome = "ok" => gate = "open" /\ saved' = state
         /\ outcome \notin {"ok", "lost"} => saved' = state /\ gate = "open"
BY DEF Save, NoSave, TypeInv

\* Recording an outcome for a key leaves every last action and score.
LEMMA RejectStep ==
  ASSUME TypeInv, NEW k \in Keys
  PROVE  /\ [guard EXCEPT ![k] = Rejected(@)] \in [Keys -> Entry]
         /\ [guard EXCEPT ![k] = Accepted(@)] \in [Keys -> Entry]
         /\ \A j \in Keys : /\ [guard EXCEPT ![k] = Rejected(@)][j].last = guard[j].last
                          /\ [guard EXCEPT ![k] = Rejected(@)][j].score = guard[j].score
                          /\ [guard EXCEPT ![k] = Accepted(@)][j].last = guard[j].last
                          /\ [guard EXCEPT ![k] = Accepted(@)][j].score = guard[j].score
<1>1. guard \in [Keys -> Entry] /\ now \in Nat /\ guard[k] \in Entry
  BY DEF TypeInv
<1>2. /\ Rejected(guard[k]) \in Entry /\ Rejected(guard[k]).last = guard[k].last /\ Rejected(guard[k]).score = guard[k].score
      /\ Accepted(guard[k]) \in Entry /\ Accepted(guard[k]).last = guard[k].last /\ Accepted(guard[k]).score = guard[k].score
  BY <1>1, OutcomeKeeps
<1> QED BY <1>1, <1>2

\* The steps that admit nothing: time, evaluation, previews and outcomes.
LEMMA QuietActions ==
  ASSUME GuardInv,
         \/ Tick \/ Serve \/ ExecutorSaves \/ UNCHANGED vars
         \/ \E k \in Keys : Schedule(k) \/ \E s \in Scores, n \in Counts : Evaluate(k, s, n)
         \/ \E k \in Keys, outcome \in SaveOutcomes :
              \/ EvaluateNoCandidate(k, outcome)
              \/ \E succeeded \in BOOLEAN : RecordOutcome(k, succeeded, outcome)
  PROVE  GuardInv'
<1>0. TypeInv /\ LockInv
  BY DEF GuardInv
<1>1. CASE Tick \/ Serve \/ UNCHANGED vars
  <2>1. TypeInv' /\ LockInv'
    BY <1>0, <1>1, SMTT(30) DEF Tick, Serve, vars, NoSave, TypeInv, LockInv
  <2>2. Quiet
    BY <1>1, ZenonT(30) DEF Tick, Serve, vars, NoSave, Quiet
  <2> QED BY <2>1, <2>2, QuietStep, ZenonT(30)
<1>2. CASE ExecutorSaves
  <2>1. guard \in [Keys -> Entry] /\ Save(guard, "ok")
    BY <1>0, <1>2 DEF ExecutorSaves, TypeInv
  <2>2. TypeInv' /\ LockInv'
    BY <1>0, <1>2, <2>1, SaveStep, ZenonT(30) DEF ExecutorSaves, TypeInv, LockInv
  <2>3. Quiet
    BY <1>0, <1>2, <2>1, SaveStep, ZenonT(30) DEF ExecutorSaves, Quiet
  <2> QED BY <2>2, <2>3, QuietStep
<1>3. ASSUME NEW k \in Keys, Schedule(k) PROVE GuardInv'
  <2>1. /\ guard' \in [Keys -> Entry]
        /\ \A j \in Keys : guard'[j].last = guard[j].last /\ guard'[j].score = guard[j].score
    BY <1>0, <1>3, RejectStep, ZenonT(30) DEF Schedule
  <2>2. TypeInv' /\ LockInv'
    BY <1>0, <1>3, <2>1, ZenonT(30) DEF Schedule, NoSave, TypeInv, LockInv
  <2>3. Quiet
    BY <1>3, <2>1 DEF Schedule, NoSave, Quiet
  <2> QED BY <2>2, <2>3, QuietStep, ZenonT(30)
<1>4. ASSUME NEW k \in Keys, NEW s \in Scores, NEW n \in Counts, Evaluate(k, s, n) PROVE GuardInv'
  <2>1. [score |-> s, count |-> n, at |-> 0] \in [score : Nat, count : Nat, at : Nat]
    BY GuardAssumption, ZenonT(30)
  <2>2. TypeInv'
    BY <1>0, <1>4, <2>1, ZenonT(30) DEF Evaluate, NoSave, TypeInv, Inside
  <2>3. LockInv'
    BY <1>0, <1>4, ZenonT(30) DEF Evaluate, Serving, NoSave, TypeInv, LockInv, Inside
  <2>4. HistoryInv'
    BY <1>4, ZenonT(30) DEF GuardInv, Evaluate, HistoryInv, CooldownRespected, ScoresClimb, Later
  <2>5. StateInv'
    BY <1>0, <1>4, ZenonT(30) DEF GuardInv, Evaluate, NoSave, StateInv, Dominates, TypeInv
  <2>6. PendingInv'
    BY <1>0, <1>4, ZenonT(30) DEF GuardInv, Evaluate, NoSave, PendingInv, Follows, TypeInv
  <2> QED BY <2>2, <2>3, <2>4, <2>5, <2>6, ZenonT(30) DEF GuardInv
<1>5. ASSUME NEW k \in Keys, NEW outcome \in SaveOutcomes, EvaluateNoCandidate(k, outcome) PROVE GuardInv'
  <2>1. /\ guard' \in [Keys -> Entry] /\ Save(guard', outcome)
        /\ \A j \in Keys : guard'[j].last = guard[j].last /\ guard'[j].score = guard[j].score
    BY <1>0, <1>5, RejectStep DEF EvaluateNoCandidate
  <2>2. TypeInv' /\ LockInv'
    BY <1>0, <1>5, <2>1, SaveStep, Zenon DEF EvaluateNoCandidate, TypeInv, LockInv
  <2>3. saved' = saved \/ (saved' = guard' /\ gate = "open")
    BY <1>0, <2>1, SaveStep, ZenonT(30)
  <2>4. Quiet
    BY <1>5, <2>1, <2>3 DEF EvaluateNoCandidate, Quiet
  <2> QED BY <2>2, <2>4, QuietStep
<1>6. ASSUME NEW k \in Keys, NEW succeeded \in BOOLEAN, NEW outcome \in SaveOutcomes,
             RecordOutcome(k, succeeded, outcome)
      PROVE  GuardInv'
  <2> DEFINE next == [guard EXCEPT ![k] = IF succeeded THEN Accepted(@) ELSE Rejected(@)]
  <2>1. /\ next \in [Keys -> Entry]
        /\ \A j \in Keys : next[j].last = guard[j].last /\ next[j].score = guard[j].score
    <3>1. CASE succeeded
      BY <1>0, <3>1, RejectStep
    <3>2. CASE ~succeeded
      BY <1>0, <3>2, RejectStep, ZenonT(30)
    <3> QED BY <3>1, <3>2, ZenonT(30)
  <2>2. Save(next, outcome) /\ guard' = IF outcome = "ok" THEN next ELSE guard
    BY <1>6 DEF RecordOutcome
  <2> HIDE DEF next
  <2>3. /\ saved' \in [Keys -> Entry] /\ gate' \in {"open", "closed"} /\ (gate = "closed" => gate' = "closed")
        /\ saved' = saved \/ (saved' = next /\ gate = "open")
    BY <1>0, <2>1, <2>2, SaveStep, ZenonT(30)
  <2>4. /\ pc' \in [Keys -> Inside \cup {"idle", "written", "running"}]
        /\ \A j \in Keys : pc'[j] = pc[j] \/ pc'[j] \in {"running", "idle"}
    BY <1>0, <1>6, ZenonT(30) DEF RecordOutcome, TypeInv
  <2>5. planMu' = planMu /\ admitted' = admitted /\ snapshot' = snapshot /\ plan' = plan /\ now' = now
    BY <1>6 DEF RecordOutcome
  <2>6. TypeInv'
    BY <1>0, <2>1, <2>2, <2>3, <2>4, <2>5, ZenonT(30) DEF TypeInv
  <2>7. LockInv'
    BY <1>0, <2>3, <2>4, <2>5, ZenonT(30) DEF LockInv, Inside
  <2>8. Quiet
    BY <2>1, <2>2, <2>3, <2>4, <2>5, ZenonT(30) DEF Quiet
  <2> QED BY <2>6, <2>7, <2>8, QuietStep, ZenonT(30)
<1> QED BY <1>1, <1>2, <1>3, <1>4, <1>5, <1>6, ZenonT(30)

\* Exporting the guard's state before the reservation.
LEMMA StageStep ==
  ASSUME GuardInv, NEW k \in Keys, Stage(k)
  PROVE  GuardInv'
<1> USE DEF GuardInv, Stage, NoSave
<1>1. TypeInv'
  BY DEF TypeInv, Inside
<1>2. LockInv'
  BY ZenonT(30) DEF TypeInv, LockInv, Inside
<1>3. HistoryInv'
  BY ZenonT(30) DEF HistoryInv, CooldownRespected, ScoresClimb, Later
<1>4. StateInv'
  BY ZenonT(30) DEF StateInv, Dominates, TypeInv
<1>5. PendingInv'
  BY DEF PendingInv, Follows, TypeInv
<1> QED BY <1>1, <1>2, <1>3, <1>4, <1>5, ZenonT(30)

\* CommitN: the admission follows everything executed.
LEMMA AdmitStep ==
  ASSUME GuardInv, NEW k \in Keys, Admit(k)
  PROVE  GuardInv'
<1> DEFINE st == Normalize(guard[k])
           next == Consumed(st, plan[k].score, plan[k].count)
<1>1. /\ TypeInv /\ LockInv /\ HistoryInv /\ StateInv /\ PendingInv
      /\ plan[k].score \in Nat /\ plan[k].count \in Nat /\ plan[k] \in [score : Nat, count : Nat, at : Nat]
      /\ guard[k] \in Entry /\ now \in Nat \ {0}
  BY ZenonT(30) DEF GuardInv, TypeInv
<1>2. st \in Entry /\ st.last = guard[k].last /\ st.score = guard[k].score
  BY <1>1, OutcomeKeeps
<1>3. /\ pc[k] = "staged" /\ Allowed(st, plan[k].score, plan[k].count)
      /\ guard' = [guard EXCEPT ![k] = next] /\ plan' = [plan EXCEPT ![k].at = now]
      /\ pc' = [pc EXCEPT ![k] = "admitted"]
      /\ snapshot' = snapshot /\ saved' = saved /\ planMu' = planMu /\ gate' = gate
      /\ admitted' = admitted /\ now' = now
  BY DEF Admit, NoSave
<1>4. /\ next \in Entry /\ next.last = now /\ next.score = plan[k].score
      /\ guard[k].last # 0 => guard[k].last + Cooldown <= now
      /\ Hysteresis > 0 /\ guard[k].score > 0 => guard[k].score + Hysteresis <= plan[k].score
  <2> HIDE DEF st
  <2> QED BY <1>1, <1>2, <1>3, AdmissionFollows
<1> HIDE DEF next
<1>5. TypeInv'
  BY <1>1, <1>3, <1>4, Zenon DEF TypeInv, Inside
<1>6. LockInv'
  BY <1>1, <1>3, ZenonT(30) DEF TypeInv, LockInv, Inside
<1>7. HistoryInv'
  BY <1>1, <1>3, ZenonT(30) DEF HistoryInv, CooldownRespected, ScoresClimb, Later
<1>8. Follows(k, now, plan[k].score)
  <2> SUFFICES ASSUME NEW i \in DOMAIN admitted, admitted[i].key = k
               PROVE  /\ admitted[i].at + Cooldown <= now
                      /\ Hysteresis > 0 => admitted[i].score <= plan[k].score
                      /\ Hysteresis > 0 /\ admitted[i].score > 0 => admitted[i].score + Hysteresis <= plan[k].score
    BY DEF Follows
  <2>0. admitted[i] \in Execution
    BY <1>1 DEF TypeInv
  <2>1. admitted[i].at \in Nat /\ admitted[i].at >= 1 /\ admitted[i].score \in Nat
    BY <1>1, <2>0, ZenonT(30) DEF HistoryInv, Execution
  <2>2. admitted[i].at <= guard[k].last /\ (Hysteresis > 0 => admitted[i].score <= guard[k].score)
    BY <1>1, ZenonT(30) DEF StateInv, Dominates
  <2>3. guard[k].last \in Nat /\ guard[k].score \in Nat
    BY <1>1 DEF Entry
  <2> QED BY <1>1, <1>4, <2>1, <2>2, <2>3, GuardAssumption, SMTT(30)
<1>9. StateInv'
  <2>1. Dominates(guard)'
    <3> SUFFICES ASSUME NEW i \in DOMAIN admitted
                 PROVE  /\ admitted[i].at <= guard'[admitted[i].key].last
                        /\ Hysteresis > 0 => admitted[i].score <= guard'[admitted[i].key].score
      BY <1>3 DEF Dominates
    <3>0. admitted[i] \in Execution /\ guard \in [Keys -> Entry]
      BY <1>1 DEF TypeInv
    <3>1. admitted[i].at \in Nat /\ admitted[i].key \in Keys
      BY <3>0, ZenonT(30) DEF Execution
    <3>2. CASE admitted[i].key = k
      <4>1. guard'[k].last = now /\ guard'[k].score = plan[k].score
        BY <1>3, <1>4, <3>0, ZenonT(30)
      <4>2. admitted[i].at + Cooldown <= now /\ (Hysteresis > 0 => admitted[i].score <= plan[k].score)
        BY <1>8, <3>2 DEF Follows
      <4> QED BY <1>1, <3>1, <3>2, <4>1, <4>2, GuardAssumption, SMTT(30)
    <3>3. CASE admitted[i].key # k
      BY <1>1, <1>3, <3>1, <3>3, ZenonT(30) DEF StateInv, Dominates, TypeInv
    <3> QED BY <3>2, <3>3
  <2>2. Dominates(saved)'
    BY <1>1, <1>3 DEF StateInv, Dominates
  <2>3. \A j \in Keys : pc'[j] \in {"staged", "admitted"} => Dominates(snapshot)'
    BY <1>1, <1>3, ZenonT(30) DEF StateInv, Dominates, TypeInv
  <2> QED BY <2>1, <2>2, <2>3, ZenonT(30) DEF StateInv
<1>10. PendingInv'
  <2> SUFFICES ASSUME NEW j \in Keys, pc'[j] \in {"admitted", "written"}
               PROVE  /\ plan'[j].at >= 1 /\ Follows(j, plan[j].at, plan[j].score)'
                      /\ pc'[j] = "admitted" => guard'[j].last = plan'[j].at /\ guard'[j].score = plan'[j].score
                      /\ pc'[j] = "written" => saved'[j].last = plan'[j].at /\ saved'[j].score = plan'[j].score
    BY DEF PendingInv
  <2>1. CASE j = k
    <3>1. plan'[k].at = now /\ plan'[k].score = plan[k].score /\ guard'[k] = next /\ pc'[k] = "admitted"
      BY <1>1, <1>3, ZenonT(30) DEF TypeInv
    <3> QED BY <1>1, <1>3, <1>4, <1>8, <2>1, <3>1, SMTT(30) DEF Follows
  <2>2. CASE j # k
    <3>1. plan'[j] = plan[j] /\ guard'[j] = guard[j] /\ pc'[j] = pc[j]
      BY <1>1, <1>3, <2>2, ZenonT(30) DEF TypeInv
    <3> QED BY <1>1, <1>3, <3>1 DEF PendingInv, Follows
  <2> QED BY <2>1, <2>2, ZenonT(30)
<1> QED BY <1>5, <1>6, <1>7, <1>9, <1>10, ZenonT(30) DEF GuardInv

\* A state that dominates the history and remembers an execution dominates the
\* history with it.
LEMMA AppendKeepsDomination ==
  ASSUME NEW e \in Execution, admitted \in Seq(Execution), admitted' = Append(admitted, e),
         NEW state, Dominates(state), NEW next, next = state,
         state[e.key].last = e.at, state[e.key].score = e.score
  PROVE  \A i \in DOMAIN admitted' :
           /\ admitted'[i].at <= next[admitted'[i].key].last
           /\ Hysteresis > 0 => admitted'[i].score <= next[admitted'[i].key].score
<1>1. /\ DOMAIN admitted' = 1..Len(admitted) + 1 /\ DOMAIN admitted = 1..Len(admitted) /\ Len(admitted) \in Nat
      /\ \A i \in 1..Len(admitted) : admitted'[i] = admitted[i]
      /\ admitted'[Len(admitted) + 1] = e
  BY SequencesAppend, SMTT(30)
<1>2. e.at \in Nat /\ e.score \in Nat
  BY DEF Execution
<1> QED BY <1>1, <1>2, SMTT(30) DEF Dominates

\* CommitN refuses and the guard is rolled back to the export.
LEMMA RefuseStep ==
  ASSUME GuardInv, NEW k \in Keys, NEW outcome \in SaveOutcomes, RefuseAdmission(k, outcome)
  PROVE  GuardInv'
<1>1. TypeInv /\ LockInv /\ HistoryInv /\ StateInv /\ PendingInv
  BY ZenonT(30) DEF GuardInv
<1>2. /\ pc[k] = "staged" /\ guard' = snapshot /\ Save(snapshot, outcome)
      /\ pc' = [pc EXCEPT ![k] = "idle"] /\ planMu' = "free"
      /\ snapshot' = snapshot /\ plan' = plan /\ admitted' = admitted /\ now' = now
  BY DEF RefuseAdmission
<1>3. /\ saved' \in [Keys -> Entry] /\ gate' \in {"open", "closed"}
      /\ saved' = saved \/ (saved' = snapshot /\ gate = "open")
      /\ gate = "closed" => gate' = "closed" /\ saved' = saved
  BY <1>1, <1>2, SaveStep, ZenonT(30) DEF TypeInv
<1>4. /\ pc'[k] = "idle" /\ \A j \in Keys : j # k => pc'[j] = pc[j]
      /\ \A j \in Keys : j # k => pc[j] \notin Inside
  BY <1>1, <1>2 DEF TypeInv, LockInv, Inside
<1>5. TypeInv'
  BY <1>1, <1>2, <1>3, Zenon DEF TypeInv
<1>6. LockInv'
  BY <1>1, <1>2, <1>3, <1>4, ZenonT(30) DEF LockInv, Inside
<1>7. HistoryInv'
  BY <1>1, <1>2, ZenonT(30) DEF HistoryInv, CooldownRespected, ScoresClimb, Later
<1>8. StateInv'
  <2>1. Dominates(snapshot) /\ Dominates(saved)
    BY <1>1, <1>2, ZenonT(30) DEF StateInv
  <2> QED BY <1>2, <1>3, <2>1 DEF StateInv, Dominates
<1>9. PendingInv'
  BY <1>1, <1>2, <1>3, <1>4 DEF PendingInv, Follows, LockInv, Inside
<1> QED BY <1>5, <1>6, <1>7, <1>8, <1>9 DEF GuardInv

\* The save of the admission: executed, rolled back, or rolled back although
\* the checkpoint holds it.
LEMMA PersistStep ==
  ASSUME GuardInv, NEW k \in Keys, NEW outcome \in SaveOutcomes, PersistAdmission(k, outcome)
  PROVE  GuardInv'
<1>1. TypeInv /\ LockInv /\ HistoryInv /\ StateInv /\ PendingInv
  BY DEF GuardInv
<1>2. /\ pc[k] = "admitted" /\ Save(guard, outcome) /\ planMu' = "free"
      /\ guard' = IF outcome = "ok" THEN guard ELSE snapshot
      /\ snapshot' = snapshot /\ plan' = plan /\ now' = now
      /\ admitted' = IF outcome = "ok" THEN Append(admitted, Executed(k)) ELSE admitted
  BY DEF PersistAdmission
<1>3. /\ saved' \in [Keys -> Entry] /\ gate' \in {"open", "closed"}
      /\ saved' = saved \/ (saved' = guard /\ gate = "open")
      /\ gate = "closed" => gate' = "closed" /\ saved' = saved
      /\ outcome # "ok" => gate' = "closed"
      /\ outcome = "ok" => gate = "open" /\ saved' = guard
      /\ outcome = "written" => saved' = guard /\ gate = "open"
  BY <1>1, <1>2, SaveStep, Zenon DEF TypeInv
<1>4. /\ pc' \in [Keys -> Inside \cup {"idle", "written", "running"}]
      /\ outcome = "ok" => pc'[k] = "running"
      /\ outcome = "lost" => pc'[k] = "idle"
      /\ outcome = "written" => pc'[k] = "written"
      /\ \A j \in Keys : j # k => pc'[j] = pc[j] /\ pc[j] \notin Inside
  BY <1>1, <1>2, ZenonT(30) DEF PersistAdmission, SaveOutcomes, TypeInv, LockInv, Inside
<1>5. /\ Executed(k) \in Execution /\ Executed(k).key = k
      /\ Executed(k).at = plan[k].at /\ Executed(k).score = plan[k].score
  BY <1>1, ZenonT(30) DEF Executed, Execution, TypeInv
<1>6. /\ plan[k].at >= 1 /\ Follows(k, plan[k].at, plan[k].score)
      /\ guard[k].last = plan[k].at /\ guard[k].score = plan[k].score /\ Dominates(snapshot)
  BY <1>1, <1>2, ZenonT(30) DEF PendingInv, StateInv
<1>7. outcome \in {"ok", "lost", "written"} /\ admitted \in Seq(Execution)
  BY <1>1, ZenonT(30) DEF SaveOutcomes, TypeInv
<1>8. TypeInv'
  <2>1. admitted' \in Seq(Execution)
    BY <1>2, <1>5, <1>7, SMTT(30)
  <2> QED BY <1>1, <1>2, <1>3, <1>4, <2>1, ZenonT(30) DEF TypeInv
<1>9. LockInv'
  BY <1>1, <1>2, <1>3, <1>4, <1>7, ZenonT(30) DEF LockInv, Inside
<1>10. CASE outcome = "ok"
  <2>1. admitted' = Append(admitted, Executed(k)) /\ guard' = guard /\ saved' = guard
    BY <1>2, <1>3, <1>10, ZenonT(30)
  <2>2. HistoryInv'
    BY <1>1, <1>5, <1>6, <1>7, <2>1, AppendKeepsDistance, ZenonT(30)
  <2>3. Dominates(guard)' /\ Dominates(saved)'
    BY <1>1, <1>5, <1>6, <1>7, <2>1, AppendKeepsDomination, ZenonT(30) DEF StateInv, Dominates
  <2>4. \A j \in Keys : pc'[j] \notin {"staged", "admitted", "written"}
    BY <1>1, <1>3, <1>4, <1>10, ZenonT(30) DEF LockInv, Inside
  <2> QED BY <1>8, <1>9, <2>2, <2>3, <2>4, ZenonT(30) DEF GuardInv, StateInv, PendingInv
<1>11. CASE outcome # "ok"
  <2>1. admitted' = admitted /\ guard' = snapshot
    BY <1>2, <1>11, ZenonT(30)
  <2>2. HistoryInv'
    BY <1>1, <2>1, ZenonT(30) DEF HistoryInv, CooldownRespected, ScoresClimb, Later
  <2>3. StateInv'
    <3>1. Dominates(snapshot) /\ Dominates(saved) /\ Dominates(guard)
      BY <1>1, <1>6, ZenonT(30) DEF StateInv
    <3> QED BY <1>2, <1>3, <2>1, <3>1, ZenonT(30) DEF StateInv, Dominates
  <2>4. PendingInv'
    <3> SUFFICES ASSUME NEW j \in Keys, pc'[j] \in {"admitted", "written"}
                 PROVE  /\ plan'[j].at >= 1 /\ Follows(j, plan[j].at, plan[j].score)'
                        /\ pc'[j] = "admitted" => guard'[j].last = plan'[j].at /\ guard'[j].score = plan'[j].score
                        /\ pc'[j] = "written" => saved'[j].last = plan'[j].at /\ saved'[j].score = plan'[j].score
      BY ZenonT(30) DEF PendingInv
    <3>1. CASE j = k
      BY <1>2, <1>3, <1>4, <1>6, <1>7, <1>11, <2>1, <3>1, ZenonT(30) DEF Follows
    <3>2. CASE j # k
      <4>1. pc'[j] = "written" /\ pc[j] = "written" /\ saved' = saved
        BY <1>1, <1>3, <1>4, <3>2, ZenonT(30) DEF LockInv, Inside
      <4> QED BY <1>1, <1>2, <2>1, <4>1, ZenonT(30) DEF PendingInv, Follows
    <3> QED BY <3>1, <3>2, ZenonT(30)
  <2> QED BY <1>8, <1>9, <2>2, <2>3, <2>4, ZenonT(30) DEF GuardInv
<1> QED BY <1>10, <1>11, ZenonT(30)

\* A crash restores the checkpoint and revives a plan that it holds.
LEMMA CrashStep ==
  ASSUME GuardInv, NEW k \in Keys, Crash(k)
  PROVE  GuardInv'
<1>1. TypeInv /\ LockInv /\ HistoryInv /\ StateInv /\ PendingInv
  BY ZenonT(30) DEF GuardInv
<1>2. /\ guard' = saved /\ saved' = saved /\ snapshot' = snapshot /\ plan' = plan /\ now' = now
      /\ planMu' = "free" /\ gate' = "open"
      /\ admitted' = IF pc[k] = "written" THEN Append(admitted, Executed(k)) ELSE admitted
  BY ZenonT(30) DEF Crash
<1>3. /\ pc' \in [Keys -> Inside \cup {"idle", "written", "running"}]
      /\ \A j \in Keys : pc'[j] \in {"running", "idle"}
  BY ZenonT(30) DEF Crash
<1>4. /\ Executed(k) \in Execution /\ Executed(k).key = k
      /\ Executed(k).at = plan[k].at /\ Executed(k).score = plan[k].score
      /\ admitted \in Seq(Execution)
  BY <1>1, ZenonT(30) DEF Executed, Execution, TypeInv
<1>5. TypeInv'
  <2>1. admitted' \in Seq(Execution)
    BY <1>2, <1>4, SMTT(30)
  <2> QED BY <1>1, <1>2, <1>3, <2>1, ZenonT(30) DEF TypeInv
<1>6. LockInv' /\ PendingInv'
  BY <1>3, ZenonT(30) DEF LockInv, PendingInv, Inside
<1>7. CASE pc[k] = "written"
  <2>1. /\ plan[k].at >= 1 /\ Follows(k, plan[k].at, plan[k].score)
        /\ saved[k].last = plan[k].at /\ saved[k].score = plan[k].score
    BY <1>1, <1>7, ZenonT(30) DEF PendingInv
  <2>2. HistoryInv'
    BY <1>1, <1>2, <1>4, <1>7, <2>1, AppendKeepsDistance, ZenonT(30)
  <2>3. Dominates(guard)' /\ Dominates(saved)'
    BY <1>1, <1>2, <1>4, <1>7, <2>1, AppendKeepsDomination, ZenonT(30) DEF StateInv, Dominates
  <2> QED BY <1>3, <1>5, <1>6, <2>2, <2>3, ZenonT(30) DEF GuardInv, StateInv
<1>8. CASE pc[k] # "written"
  <2>1. admitted' = admitted
    BY <1>2, <1>8, ZenonT(30)
  <2>2. HistoryInv'
    BY <1>1, <2>1, ZenonT(30) DEF HistoryInv, CooldownRespected, ScoresClimb, Later
  <2>3. StateInv'
    BY <1>1, <1>2, <1>3, <2>1, ZenonT(30) DEF StateInv, Dominates
  <2> QED BY <1>5, <1>6, <2>2, <2>3, ZenonT(30) DEF GuardInv
<1> QED BY <1>7, <1>8, ZenonT(30)

\* Every step of the guard's callers preserves the inductive invariant.
THEOREM NextGuard == GuardInv /\ [Next]_vars => GuardInv'
<1> SUFFICES ASSUME GuardInv, [Next]_vars PROVE GuardInv'
  BY ZenonT(30)
<1>1. CASE \/ Tick \/ Serve \/ ExecutorSaves \/ UNCHANGED vars
           \/ \E k \in Keys : Schedule(k) \/ \E s \in Scores, n \in Counts : Evaluate(k, s, n)
           \/ \E k \in Keys, outcome \in SaveOutcomes :
                \/ EvaluateNoCandidate(k, outcome)
                \/ \E succeeded \in BOOLEAN : RecordOutcome(k, succeeded, outcome)
  BY <1>1, QuietActions, ZenonT(30)
<1>2. ASSUME NEW k \in Keys, Stage(k) \/ Admit(k) \/ Crash(k) PROVE GuardInv'
  BY <1>2, StageStep, AdmitStep, CrashStep, ZenonT(30)
<1>3. ASSUME NEW k \in Keys, NEW outcome \in SaveOutcomes,
             RefuseAdmission(k, outcome) \/ PersistAdmission(k, outcome)
      PROVE  GuardInv'
  BY <1>3, RefuseStep, PersistStep, ZenonT(30)
<1> QED BY <1>1, <1>2, <1>3, ZenonT(30) DEF Next

\* The inductive invariant holds in every reachable state of the guard and its
\* callers.
THEOREM GuardInvariant == Spec => []GuardInv
<1>1. Init => GuardInv
  BY InitGuard, ZenonT(30)
<1>2. GuardInv /\ [Next]_vars => GuardInv'
  BY NextGuard, ZenonT(30)
<1> QED BY <1>1, <1>2, PTL DEF Spec

\* No window is charged beyond its budget in any copy of the guard's state, and
\* planMu has one holder.
THEOREM GuardTypeCorrect == Spec => []GuardTypeOK
<1>1. GuardInv => GuardTypeOK
  BY ZenonT(30) DEF GuardInv, TypeInv, LockInv, GuardTypeOK
<1> QED BY <1>1, GuardInvariant, PTL

\* Executed plans of a key are a cooldown apart across roll-backs, failed saves,
\* previews and restarts (CommitN, RestoreState).
THEOREM CooldownAlways == Spec => []CooldownRespected
<1>1. GuardInv => CooldownRespected
  BY ZenonT(30) DEF GuardInv, HistoryInv
<1> QED BY <1>1, GuardInvariant, PTL

\* The score of each executed plan of a key exceeds every earlier one's by the
\* hysteresis (evaluateLocked never lowers LastScore).
THEOREM ScoresAlwaysClimb == Spec => []ScoresClimb
<1>1. GuardInv => ScoresClimb
  BY ZenonT(30) DEF GuardInv, HistoryInv
<1> QED BY <1>1, GuardInvariant, PTL


--------------------------------------------------------------------------------
(* The circuit breaker. *)

\* An entry counts no more than n failures, and is open only if n reaches the threshold.
EarnedBy(st, n) == st.bcount <= n /\ (st.opened # 0 => n >= BreakerThreshold)

\* Every entry of a state is earned by the key's failures and the previews.
Earned(state, recorded, shown) == \A k \in Keys : EarnedBy(state[k], recorded[k] + shown)

\* The guard, the checkpoint and the export are all earned: each can become the
\* guard's state again, by a roll-back or a restart.
BreakerInv ==
  /\ failures \in [Keys -> Nat] /\ previews \in Nat
  /\ Earned(guard, failures, previews)
  /\ Earned(saved, failures, previews)
  /\ Earned(snapshot, failures, previews)

\* One more failure earns a rejection; healing, expiry and an admission need none.
LEMMA EarnedEntries ==
  ASSUME NEW st \in Entry, now \in Nat, NEW n \in Nat, EarnedBy(st, n)
  PROVE  /\ EarnedBy(st, n + 1)
         /\ EarnedBy(Rejected(st), n + 1)
         /\ EarnedBy(Accepted(st), n)
         /\ \A score, count : EarnedBy(Consumed(Normalize(st), score, count), n)
<1>0. st.bcount \in Nat /\ st.opened \in Nat
  BY ZenonT(30) DEF Entry
<1>1. EarnedBy(st, n + 1)
  BY <1>0, GuardAssumption, SMTT(30) DEF EarnedBy
<1> DEFINE e == Normalize(st)
<1>2. e.bcount \in Nat /\ e.opened \in Nat /\ EarnedBy(e, n)
  BY <1>0, GuardAssumption, SMTT(30) DEF Normalize, EarnedBy
<1>3. /\ Rejected(st).bcount = e.bcount + 1
      /\ Rejected(st).opened = IF e.bcount + 1 >= BreakerThreshold THEN now ELSE e.opened
      /\ Accepted(st).bcount = IF e.bcount > 0 THEN e.bcount - 1 ELSE 0
      /\ Accepted(st).opened = IF e.bcount <= 1 THEN 0 ELSE e.opened
  BY ZenonT(30) DEF Rejected, Accepted, WithBreaker
<1>4. \A score, count : Consumed(e, score, count).bcount = e.bcount /\ Consumed(e, score, count).opened = e.opened
  BY ZenonT(30) DEF Consumed
<1> HIDE DEF e
<1>5. EarnedBy(Rejected(st), n + 1)
  BY <1>2, <1>3, GuardAssumption, SMTT(30) DEF EarnedBy
<1>6. EarnedBy(Accepted(st), n)
  BY <1>2, <1>3, GuardAssumption, SMTT(30) DEF EarnedBy
<1>7. \A score, count : EarnedBy(Consumed(e, score, count), n)
  BY <1>2, <1>4, ZenonT(30) DEF EarnedBy
<1> QED BY <1>1, <1>5, <1>6, <1>7, ZenonT(30) DEF e

\* Failures and previews only accumulate, so what was earned stays earned.
LEMMA EarnedGrows ==
  ASSUME NEW state \in [Keys -> Entry], NEW f \in [Keys -> Nat], NEW g \in [Keys -> Nat],
         NEW p \in Nat, NEW q \in Nat,
         \A k \in Keys : f[k] <= g[k], p <= q, Earned(state, f, p)
  PROVE  Earned(state, g, q)
<1> SUFFICES ASSUME NEW k \in Keys PROVE EarnedBy(state[k], g[k] + q)
  BY Zenon DEF Earned
<1>1. state[k].bcount \in Nat /\ f[k] \in Nat /\ g[k] \in Nat /\ f[k] <= g[k]
  BY ZenonT(30) DEF Entry
<1>2. EarnedBy(state[k], f[k] + p)
  BY ZenonT(30) DEF Earned
<1> QED BY <1>1, <1>2, GuardAssumption DEF EarnedBy

\* A failure recorded for a key, with its rejection, keeps the state earned.
LEMMA EarnedRejection ==
  ASSUME TypeInv, NEW f \in [Keys -> Nat], NEW p \in Nat, Earned(guard, f, p), NEW k \in Keys
  PROVE  /\ [f EXCEPT ![k] = @ + 1] \in [Keys -> Nat]
         /\ \A j \in Keys : f[j] <= [f EXCEPT ![k] = @ + 1][j]
         /\ Earned([guard EXCEPT ![k] = Rejected(@)], [f EXCEPT ![k] = @ + 1], p)
         /\ Earned([guard EXCEPT ![k] = Rejected(@)], f, p + 1)
         /\ Earned([guard EXCEPT ![k] = Accepted(@)], f, p)
<1>1. guard \in [Keys -> Entry] /\ now \in Nat
  BY ZenonT(30) DEF TypeInv
<1>2. \A j \in Keys : f[j] \in Nat /\ f[j] + p \in Nat /\ EarnedBy(guard[j], f[j] + p) /\ guard[j] \in Entry
  BY <1>1 DEF Earned
<1>3. \A j \in Keys : /\ EarnedBy(guard[j], f[j] + p + 1) /\ EarnedBy(Rejected(guard[j]), f[j] + p + 1)
                      /\ EarnedBy(Accepted(guard[j]), f[j] + p)
  BY <1>1, <1>2, EarnedEntries, Zenon
<1>4. [f EXCEPT ![k] = @ + 1] \in [Keys -> Nat] /\ \A j \in Keys : f[j] <= [f EXCEPT ![k] = @ + 1][j]
  BY <1>2, SMTT(30)
<1>5. Earned([guard EXCEPT ![k] = Rejected(@)], [f EXCEPT ![k] = @ + 1], p)
  <2> SUFFICES ASSUME NEW j \in Keys
               PROVE  EarnedBy([guard EXCEPT ![k] = Rejected(@)][j], [f EXCEPT ![k] = @ + 1][j] + p)
    BY ZenonT(30) DEF Earned
  <2>1. CASE j = k
    <3>1. [guard EXCEPT ![k] = Rejected(@)][j] = Rejected(guard[k]) /\ [f EXCEPT ![k] = @ + 1][j] + p = f[k] + p + 1
      BY <1>1, <1>2, <2>1, SMTT(30)
    <3> QED BY <1>3, <3>1, ZenonT(30)
  <2>2. CASE j # k
    BY <1>1, <1>2, <2>2, ZenonT(30)
  <2> QED BY <2>1, <2>2, ZenonT(30)
<1>6. Earned([guard EXCEPT ![k] = Rejected(@)], f, p + 1)
  <2> SUFFICES ASSUME NEW j \in Keys PROVE EarnedBy([guard EXCEPT ![k] = Rejected(@)][j], f[j] + (p + 1))
    BY ZenonT(30) DEF Earned
  <2>1. f[j] + (p + 1) = f[j] + p + 1
    BY <1>2
  <2>2. [guard EXCEPT ![k] = Rejected(@)][j] \in {guard[j], Rejected(guard[j])}
    BY <1>1, ZenonT(30)
  <2> QED BY <1>3, <2>1, <2>2, ZenonT(30)
<1>7. Earned([guard EXCEPT ![k] = Accepted(@)], f, p)
  BY <1>1, <1>2, <1>3, ZenonT(30) DEF Earned
<1> QED BY <1>4, <1>5, <1>6, <1>7, ZenonT(30)

\* Every step keeps all three copies earned.
LEMMA BreakerStep ==
  ASSUME TypeInv, BreakerInv, [Next]_vars
  PROVE  BreakerInv'
<1>1. /\ guard \in [Keys -> Entry] /\ saved \in [Keys -> Entry] /\ snapshot \in [Keys -> Entry]
      /\ failures \in [Keys -> Nat] /\ previews \in Nat /\ now \in Nat
      /\ Earned(guard, failures, previews) /\ Earned(saved, failures, previews)
      /\ Earned(snapshot, failures, previews)
  BY ZenonT(30) DEF TypeInv, BreakerInv
<1>2. ASSUME UNCHANGED <<failures, previews>>,
             {guard', saved', snapshot'} \subseteq {guard, saved, snapshot}
      PROVE  BreakerInv'
  BY <1>1, <1>2, ZenonT(30) DEF BreakerInv
<1>3. CASE Tick \/ Serve \/ ExecutorSaves \/ UNCHANGED vars
  BY <1>2, <1>3, ZenonT(30) DEF Tick, Serve, ExecutorSaves, vars, counters, NoSave, Save
<1>4. ASSUME NEW k \in Keys,
             \/ \E s \in Scores, n \in Counts : Evaluate(k, s, n)
             \/ Stage(k) \/ Crash(k)
      PROVE  BreakerInv'
  BY <1>2, <1>4, ZenonT(30) DEF Evaluate, Stage, Crash, NoSave
<1>5. ASSUME NEW k \in Keys, NEW outcome \in SaveOutcomes,
             RefuseAdmission(k, outcome) \/ PersistAdmission(k, outcome)
      PROVE  BreakerInv'
  BY <1>2, <1>5, ZenonT(30) DEF RefuseAdmission, PersistAdmission, Save, NoSave
<1>6. ASSUME NEW k \in Keys, Admit(k) PROVE BreakerInv'
  <2>1. /\ guard' = [guard EXCEPT ![k] = Consumed(Normalize(@), plan[k].score, plan[k].count)]
        /\ UNCHANGED <<saved, snapshot, failures, previews>>
    BY <1>6, ZenonT(30) DEF Admit, NoSave
  <2>2. \A j \in Keys : EarnedBy(guard[j], failures[j] + previews) /\ guard[j] \in Entry /\ failures[j] + previews \in Nat
    BY <1>1 DEF Earned
  <2>3. EarnedBy(Consumed(Normalize(guard[k]), plan[k].score, plan[k].count), failures[k] + previews)
    BY <1>1, <2>2, EarnedEntries, ZenonT(30)
  <2>4. Earned(guard', failures, previews)
    BY <1>1, <2>1, <2>2, <2>3, ZenonT(30) DEF Earned
  <2> QED BY <1>1, <2>1, <2>4, ZenonT(30) DEF BreakerInv
<1>7. ASSUME NEW k \in Keys, Schedule(k) PROVE BreakerInv'
  <2>1. /\ guard' = [guard EXCEPT ![k] = Rejected(@)] /\ previews' = previews + 1
        /\ UNCHANGED <<saved, snapshot, failures>>
    BY <1>7, ZenonT(30) DEF Schedule, NoSave
  <2>2. Earned(guard', failures, previews + 1)
    BY <1>1, <2>1, EarnedRejection, ZenonT(30)
  <2>3. Earned(saved, failures, previews + 1) /\ Earned(snapshot, failures, previews + 1)
    BY <1>1, EarnedGrows
  <2> QED BY <1>1, <2>1, <2>2, <2>3, SMTT(30) DEF BreakerInv
<1>8. ASSUME NEW k \in Keys, NEW outcome \in SaveOutcomes, EvaluateNoCandidate(k, outcome) PROVE BreakerInv'
  <2>1. /\ guard' = [guard EXCEPT ![k] = Rejected(@)] /\ failures' = [failures EXCEPT ![k] = @ + 1]
        /\ UNCHANGED <<snapshot, previews>> /\ saved' \in {saved, guard'}
    BY <1>8, ZenonT(30) DEF EvaluateNoCandidate, Save, NoSave
  <2>2. /\ failures' \in [Keys -> Nat] /\ \A j \in Keys : failures[j] <= failures'[j]
        /\ Earned(guard', failures', previews)
    BY <1>1, <2>1, EarnedRejection, ZenonT(30)
  <2>3. Earned(saved, failures', previews) /\ Earned(snapshot, failures', previews)
    BY <1>1, <2>2, EarnedGrows, SMTT(30)
  <2> QED BY <1>1, <2>1, <2>2, <2>3, ZenonT(30) DEF BreakerInv
<1>9. ASSUME NEW k \in Keys, NEW outcome \in SaveOutcomes, RecordOutcome(k, TRUE, outcome) PROVE BreakerInv'
  <2> DEFINE next == [guard EXCEPT ![k] = Accepted(@)]
  <2>1. /\ guard' \in {guard, next} /\ saved' \in {saved, next} /\ UNCHANGED <<failures, snapshot, previews>>
    BY <1>9, ZenonT(30) DEF RecordOutcome, Save, NoSave
  <2>2. Earned(next, failures, previews)
    BY <1>1, EarnedRejection, ZenonT(30)
  <2> HIDE DEF next
  <2> QED BY <1>1, <2>1, <2>2, ZenonT(30) DEF BreakerInv
<1>10. ASSUME NEW k \in Keys, NEW outcome \in SaveOutcomes, RecordOutcome(k, FALSE, outcome) PROVE BreakerInv'
  <2> DEFINE next == [guard EXCEPT ![k] = Rejected(@)]
  <2>1. /\ guard' \in {guard, next} /\ saved' \in {saved, next} /\ UNCHANGED <<snapshot, previews>>
        /\ failures' = [failures EXCEPT ![k] = @ + 1]
    BY <1>10, ZenonT(30) DEF RecordOutcome, Save, NoSave
  <2>2. /\ failures' \in [Keys -> Nat] /\ \A j \in Keys : failures[j] <= failures'[j]
        /\ Earned(next, failures', previews)
    BY <1>1, <2>1, EarnedRejection, ZenonT(30)
  <2> HIDE DEF next
  <2>3. /\ Earned(guard, failures', previews) /\ Earned(saved, failures', previews)
        /\ Earned(snapshot, failures', previews)
    BY <1>1, <2>2, EarnedGrows, SMTT(30)
  <2> QED BY <1>1, <2>1, <2>2, <2>3, ZenonT(30) DEF BreakerInv
<1> QED BY <1>3, <1>4, <1>5, <1>6, <1>7, <1>8, <1>9, <1>10, ZenonT(30) DEF Next

\* The breaker of a key is open only if the failures recorded for the key and the
\* previews without a candidate reach the threshold: no roll-back, failed save or
\* restart opens it by itself (Reject, Accept, normalizeEntry, RestoreState).
THEOREM BreakerAlwaysEarned == Spec => []BreakerIsEarned
<1>1. Init => BreakerInv
  BY GuardAssumption DEF Init, BreakerInv, Earned, EarnedBy, NoEntries, Zero
<1>2. TypeInv /\ BreakerInv /\ [Next]_vars => BreakerInv'
  BY BreakerStep, ZenonT(30)
<1>3. BreakerInv => BreakerIsEarned
  BY ZenonT(30) DEF BreakerInv, Earned, EarnedBy, BreakerIsEarned
<1>4. Spec => []TypeInv
  BY GuardInvariant, PTL DEF GuardInv
<1> QED BY <1>1, <1>2, <1>3, <1>4, PTL DEF Spec

-----------------------------------------------------------------------------
(* The decision worker *)

WorkerSteps == {"idle", "recv", "reconcile", "register", "cursor", "clear"}

(* The worker's types. *)
OpTypeOK ==
  /\ opStream \in [1..OpLength -> [kind : {"bind", "skip", "orphan"}, key : OpKeys]]
  /\ opCursor \in 0..OpLength /\ opDelivery \in 0..OpLength
  /\ opWorker \in [pc : WorkerSteps, at : Nat]

(* The decision in flight is the one after the cursor, until the cursor moves *)
(* onto it; a binding one was applied before it is registered.                *)
InFlight ==
  /\ opDelivery <= opCursor + 1
  /\ opWorker.pc \in {"recv", "reconcile", "register", "cursor"} => opWorker.at = opCursor + 1
  /\ opWorker.pc = "clear" => opWorker.at = opCursor
  /\ opWorker.pc \in {"reconcile", "register", "cursor"} => opWorker.at <= OpLength
  /\ opWorker.pc \in {"reconcile", "register"} => opStream[opWorker.at].kind = "bind"
  /\ opWorker.pc = "register" => opWorker.at \in opApplied
  /\ opWorker.pc = "cursor" /\ opStream[opWorker.at].kind = "bind" => opWorker.at \in opApplied

CursorInv == OpTypeOK /\ InFlight /\ NoDecisionSkipped

LEMMA CursorInit == OpInit => CursorInv
BY OpAssumption, SMTT(30) DEF OpInit, OpStreams, IdleWorker, CursorInv, OpTypeOK, WorkerSteps, InFlight, NoDecisionSkipped

(* Only the worker's own steps and a crash move its state. *)
workerView == <<opStream, opCursor, opDelivery, opApplied, opWorker>>

LEMMA CursorStutter == CursorInv /\ UNCHANGED workerView => CursorInv'
BY ZenonT(30) DEF workerView, CursorInv, OpTypeOK, InFlight, NoDecisionSkipped

LEMMA CursorStep == CursorInv /\ [OpNext]_opVars => CursorInv'
<1> SUFFICES ASSUME CursorInv, [OpNext]_opVars PROVE CursorInv'
    BY ZenonT(30)
<1> USE OpAssumption DEF CursorInv, OpTypeOK, WorkerSteps, InFlight, NoDecisionSkipped
<1>1. CASE RunOnce
      BY <1>1, SMTT(30) DEF RunOnce, ResumeAfter
<1>2. CASE StartDelivery
      BY <1>2 DEF StartDelivery, IdleWorker
<1>3. CASE ReconcileDecision
      BY <1>3, SMTT(30) DEF ReconcileDecision, IdleWorker
<1>4. CASE Register
      BY <1>4 DEF Register, IdleWorker
<1>5. CASE SaveCursor
      BY <1>5, SMTT(30) DEF SaveCursor
<1>6. CASE ClearDelivery
      BY <1>6, SMTT(30) DEF ClearDelivery
<1>7. CASE LoopFails
      BY <1>7, ZenonT(30) DEF LoopFails, IdleWorker, opDisk
<1>8. CASE OperatorCrash
      BY <1>8, ZenonT(30) DEF OperatorCrash, IdleWorker, opDisk
<1>9. CASE UNCHANGED workerView
      BY <1>9, CursorStutter, ZenonT(30)
<1>10. ASSUME RecoverRegistrations \/ AcceptRegistrations \/ UNCHANGED opVars PROVE UNCHANGED workerView
      BY <1>10, ZenonT(30) DEF RecoverRegistrations, AcceptRegistrations, opVars, opDisk, workerView
<1>11. ASSUME NEW stale \in BOOLEAN, NEW k \in OpKeys, WatchStep(stale, k) \/ WatchFails(stale, k)
       PROVE UNCHANGED workerView
      BY <1>11, ZenonT(30) DEF WatchStep, WatchLoad, Observe, PublishEvent, RecordPublished, Settle, SettleTerminal,
                   ForgetTerminal, WatchFails, opDisk, workerView
<1>12. ASSUME NEW k \in OpKeys, JobMoves(k) PROVE UNCHANGED workerView
      BY <1>12, ZenonT(30) DEF JobMoves, opDisk, workerView
<1> QED BY <1>1, <1>2, <1>3, <1>4, <1>5, <1>6, <1>7, <1>8, <1>9, <1>10, <1>11, <1>12, ZenonT(30) DEF OpNext

(* Whatever fails, crashes and is replayed, the durable cursor never passes a *)
(* decision that carries workload state before its bundle was applied         *)
(* (RunOnce, startOrResumeDelivery, completeDelivery).                        *)
THEOREM DecisionsNeverSkipped == OpSpec => []NoDecisionSkipped
<1>1. OpSpec => []CursorInv
      BY CursorInit, CursorStep, PTL DEF OpSpec
<1> QED BY <1>1, PTL DEF CursorInv
-----------------------------------------------------------------------------
(* The observation manager *)

States == {NoState, "bound", "running", "paused", "ended"}
Phases == {"created", "admitted", "suspended", "active", "over"}
WatcherSteps == {"none", "load", "observe", "publish", "published", "settle", "forget"}
Bundles == [gen : Nat, dec : Nat, phase : Phases, pauses : Nat] \cup {NoBundle}
Registrations == [gen : Nat, dec : Nat, seq : Nat, last : States, pending : States]
Watchers == [pc : WatcherSteps, reg : Registrations]

ObsTypeOK ==
  /\ opWork \in [OpKeys -> Bundles]
  /\ opRegs \in [OpKeys -> Registrations]
  /\ opWatch \in [OpKeys -> Watchers] /\ opStale \in [OpKeys -> Watchers]

(* x, a bundle or a registration of key k, was made by a decision of stream s *)
(* that binds k, and has that decision's generation.                          *)
GenIn(s, n) == Cardinality({i \in 1..n : s[i].kind = "bind" /\ s[i].key = s[n].key})
MadeBy(s, k, x) ==
  /\ x.dec \in 1..OpLength /\ s[x.dec].kind = "bind" /\ s[x.dec].key = k
  /\ x.gen = GenIn(s, x.dec)

Sent(events, w) ==
  w.pc \in {"published", "settle", "forget"} /\ w.reg.pending = "ended" => w.reg.dec \in events
Active(w) == w.pc \notin {"none", "load"}

(* A bundle, a registration and a watcher name a decision and its generation, *)
(* and a watcher beyond its publication has sent the event.                   *)
ObsInv ==
  /\ ObsTypeOK
  /\ \A k \in OpKeys : opWork[k] # NoBundle => MadeBy(opStream, k, opWork[k])
  /\ \A k \in OpKeys : opRegs[k] # NoReg => MadeBy(opStream, k, opRegs[k])
  /\ \A k \in OpKeys : Active(opWatch[k]) => MadeBy(opStream, k, opWatch[k].reg)
  /\ \A k \in OpKeys : Active(opStale[k]) => MadeBy(opStream, k, opStale[k].reg)
  /\ \A k \in OpKeys : Sent(opEvents, opWatch[k]) /\ Sent(opEvents, opStale[k])

LEMMA GenOfIsGenIn == \A n : GenOf(n) = GenIn(opStream, n)
BY ZenonT(30) DEF GenOf, GenIn

LEMMA GenInNat == ASSUME NEW s, NEW n \in Nat PROVE GenIn(s, n) \in Nat
<1> DEFINE S == {i \in 1..n : s[i].kind = "bind" /\ s[i].key = s[n].key}
<1>1. IsFiniteSet(1..n)
      BY FS_Interval, SMTT(30)
<1>2. IsFiniteSet(S)
      BY <1>1, FS_Subset, ZenonT(30)
<1> QED BY <1>2, FS_CardinalityType, ZenonT(30) DEF GenIn

(* Two binding decisions of one key have two generations. *)
LEMMA GenerationsGrow ==
  ASSUME NEW s, NEW m \in Nat, NEW n \in Nat, m < n, 1 <= m, s[m].key = s[n].key, s[n].kind = "bind"
  PROVE  GenIn(s, m) # GenIn(s, n)
<1> DEFINE S(j) == {i \in 1..j : s[i].kind = "bind" /\ s[i].key = s[j].key}
<1>1. IsFiniteSet(1..n)
      BY FS_Interval, SMTT(30)
<1>2. IsFiniteSet(S(n))
      BY <1>1, FS_Subset, ZenonT(30)
<1>3. S(m) \subseteq S(n) /\ n \in S(n) /\ n \notin S(m)
      BY SMTT(30)
<1>4. Cardinality(S(n)) # Cardinality(S(m))
      BY <1>2, <1>3, FS_Subset, ZenonT(30)
<1> QED BY <1>4, ZenonT(30) DEF GenIn

(* So a generation of a key names its decision. *)
LEMMA OneDecisionPerGeneration ==
  ASSUME NEW s, NEW k, NEW x, NEW y, MadeBy(s, k, x), MadeBy(s, k, y), x.gen = y.gen
  PROVE  x.dec = y.dec
<1> USE OpAssumption
<1>1. x.dec \in Nat /\ y.dec \in Nat /\ 1 <= x.dec /\ 1 <= y.dec
      BY SMTT(30) DEF MadeBy
<1>2. GenIn(s, x.dec) = GenIn(s, y.dec)
      BY ZenonT(30) DEF MadeBy
<1>3. ~(x.dec < y.dec)
      BY <1>1, <1>2, GenerationsGrow, ZenonT(30) DEF MadeBy
<1>4. ~(y.dec < x.dec)
      BY <1>1, <1>2, GenerationsGrow, ZenonT(30) DEF MadeBy
<1> QED BY <1>1, <1>3, <1>4, SMTT(30)

LEMMA ObsInit == OpInit => ObsInv
<1> SUFFICES ASSUME OpInit PROVE ObsInv
    BY ZenonT(30)
<1>1. NoReg \in Registrations
      BY ZenonT(30) DEF NoReg, Registrations, NoState, States
<1>2. NoWatcher \in Watchers /\ NoWatcher.pc = "none" /\ NoBundle \in Bundles
      BY <1>1, Zenon DEF NoWatcher, Watchers, WatcherSteps, Bundles
<1>3. /\ opRegs = [k \in OpKeys |-> NoReg] /\ opWork = [k \in OpKeys |-> NoBundle]
      /\ opWatch = [k \in OpKeys |-> NoWatcher] /\ opStale = [k \in OpKeys |-> NoWatcher]
      BY Zenon DEF OpInit
<1>4. ObsTypeOK
      BY <1>1, <1>2, <1>3, Zenon DEF ObsTypeOK
<1>5. ASSUME NEW k \in OpKeys
      PROVE  /\ opRegs[k] = NoReg /\ opWork[k] = NoBundle
             /\ opWatch[k] = NoWatcher /\ opStale[k] = NoWatcher
      BY <1>3, Zenon
<1>6. ~Active(NoWatcher) /\ \A events : Sent(events, NoWatcher)
      BY <1>2, Zenon DEF Active, Sent
<1> QED BY <1>4, <1>5, <1>6, ZenonT(30) DEF ObsInv

(* What a watcher's step may do: replace the registration it read by one of   *)
(* the same decision or remove it, and become w.                              *)
LEMMA SetWatcherPreserves ==
  ASSUME ObsInv, UNCHANGED <<opStream, opWork>>, opEvents \subseteq opEvents',
         NEW stale \in BOOLEAN, NEW k \in OpKeys, NEW w \in Watchers, SetWatcher(stale, k, w),
         Active(w) => MadeBy(opStream, k, w.reg), Sent(opEvents', w),
         NEW reg \in Registrations, reg # NoReg => MadeBy(opStream, k, reg),
         opRegs' = [opRegs EXCEPT ![k] = reg]
  PROVE  ObsInv'
<1> USE DEF ObsInv
<1>1. ObsTypeOK'
      BY ZenonT(30) DEF ObsTypeOK, SetWatcher
<1>2. \A j \in OpKeys : opRegs'[j] # NoReg => MadeBy(opStream, j, opRegs'[j])
      BY ZenonT(30) DEF ObsTypeOK
<1>3. \A j \in OpKeys : /\ opWatch'[j] = opWatch[j] \/ (j = k /\ opWatch'[j] = w)
                        /\ opStale'[j] = opStale[j] \/ (j = k /\ opStale'[j] = w)
      BY ZenonT(30) DEF ObsTypeOK, SetWatcher
<1>4. \A j \in OpKeys : /\ Active(opWatch'[j]) => MadeBy(opStream, j, opWatch'[j].reg)
                        /\ Active(opStale'[j]) => MadeBy(opStream, j, opStale'[j].reg)
      BY <1>3, ZenonT(30)
<1>5. \A j \in OpKeys : Sent(opEvents', opWatch'[j]) /\ Sent(opEvents', opStale'[j])
      BY <1>3, ZenonT(30) DEF Sent
<1> QED BY <1>1, <1>2, <1>4, <1>5, ZenonT(30)

(* saveRegistration and deleteRegistration keep the invariant when the watcher *)
(* passes its own registration on.                                             *)
LEMMA SaveRegPreserves ==
  ASSUME ObsInv, UNCHANGED <<opStream, opWork, opEvents>>,
         NEW stale \in BOOLEAN, NEW k \in OpKeys, NEW reg \in Registrations, NEW next \in WatcherSteps,
         MadeBy(opStream, k, reg), Sent(opEvents, [pc |-> next, reg |-> reg]), SaveReg(stale, k, reg, next)
  PROVE  ObsInv'
<1>1. CASE opRegs[k] # NoReg /\ SameVersion(opRegs[k], reg)
  <2>1. [pc |-> next, reg |-> reg] \in Watchers
        BY ZenonT(30) DEF Watchers
  <2>2. opRegs' = [opRegs EXCEPT ![k] = reg] /\ SetWatcher(stale, k, [pc |-> next, reg |-> reg])
        BY <1>1, ZenonT(30) DEF SaveReg
  <2> QED BY <2>1, <2>2, SetWatcherPreserves, Zenon
<1>2. CASE ~(opRegs[k] # NoReg /\ SameVersion(opRegs[k], reg))
  <2>1. UNCHANGED opRegs /\ SetWatcher(stale, k, Exit(stale))
        BY <1>2, ZenonT(30) DEF SaveReg
  <2>2. Exit(stale) \in Watchers /\ ~Active(Exit(stale)) /\ Sent(opEvents, Exit(stale))
        BY ZenonT(30) DEF Exit, NoWatcher, NoReg, NoState, Watchers, WatcherSteps, Registrations, States, Active, Sent
  <2>3. opRegs' = [opRegs EXCEPT ![k] = opRegs[k]] /\ opRegs[k] \in Registrations
        BY <2>1, ZenonT(30) DEF ObsInv, ObsTypeOK
  <2>4. opRegs[k] # NoReg => MadeBy(opStream, k, opRegs[k])
        BY ZenonT(30) DEF ObsInv
  <2> QED BY <2>1, <2>2, <2>3, <2>4, SetWatcherPreserves, ZenonT(30)
<1> QED BY <1>1, <1>2, ZenonT(30)

LEMMA DeleteRegPreserves ==
  ASSUME ObsInv, UNCHANGED <<opStream, opWork, opEvents>>,
         NEW stale \in BOOLEAN, NEW k \in OpKeys, NEW reg \in Registrations, DeleteReg(stale, k, reg)
  PROVE  ObsInv'
<1>1. \A w \in {NoWatcher, Exit(stale)} : w \in Watchers /\ ~Active(w) /\ Sent(opEvents, w)
      BY SMTT(30) DEF Exit, NoWatcher, NoReg, NoState, Watchers, WatcherSteps, Registrations, States, Active, Sent
<1>2. NoReg \in Registrations /\ opRegs[k] \in Registrations /\ opRegs = [opRegs EXCEPT ![k] = opRegs[k]]
      BY ZenonT(30) DEF NoReg, NoState, Registrations, States, ObsInv, ObsTypeOK
<1>3. opRegs[k] # NoReg => MadeBy(opStream, k, opRegs[k])
      BY ZenonT(30) DEF ObsInv
<1>4. CASE opRegs[k] = NoReg \/ SameVersion(opRegs[k], reg)
  <2>1. opRegs' = [opRegs EXCEPT ![k] = NoReg] /\ SetWatcher(stale, k, NoWatcher)
        BY <1>4, ZenonT(30) DEF DeleteReg
  <2> QED BY <1>1, <1>2, <2>1, SetWatcherPreserves, Zenon
<1>5. CASE ~(opRegs[k] = NoReg \/ SameVersion(opRegs[k], reg))
  <2>1. UNCHANGED opRegs /\ SetWatcher(stale, k, Exit(stale))
        BY <1>5, ZenonT(30) DEF DeleteReg
  <2> QED BY <1>1, <1>2, <1>3, <2>1, SetWatcherPreserves, ZenonT(30)
<1> QED BY <1>4, <1>5, ZenonT(30)

(* Where the watcher of a step stands *)
LEMMA WatcherFacts ==
  ASSUME ObsInv, NEW stale \in BOOLEAN, NEW k \in OpKeys
  PROVE  /\ Watcher(stale, k) \in Watchers /\ Watcher(stale, k).reg \in Registrations
         /\ Active(Watcher(stale, k)) => MadeBy(opStream, k, Watcher(stale, k).reg)
         /\ Sent(opEvents, Watcher(stale, k))
         /\ opRegs[k] \in Registrations /\ opRegs = [opRegs EXCEPT ![k] = opRegs[k]]
         /\ opRegs[k] # NoReg => MadeBy(opStream, k, opRegs[k])
         /\ NoWatcher \in Watchers /\ ~Active(NoWatcher) /\ \A ev : Sent(ev, NoWatcher)
         /\ Exit(stale) \in Watchers /\ ~Active(Exit(stale)) /\ \A ev : Sent(ev, Exit(stale))
<1>1. NoWatcher \in Watchers /\ Exit(stale) \in Watchers
      BY ZenonT(30) DEF Exit, NoWatcher, NoReg, NoState, Watchers, WatcherSteps, Registrations, States
<1>2. NoWatcher.pc \in {"none", "load"} /\ Exit(stale).pc \in {"none", "load"}
      BY ZenonT(30) DEF Exit, NoWatcher
<1>3. Watcher(stale, k) \in {opWatch[k], opStale[k]}
      BY ZenonT(30) DEF Watcher
<1>4. opWatch[k] \in Watchers /\ opStale[k] \in Watchers /\ opRegs[k] \in Registrations
      BY ZenonT(30) DEF ObsInv, ObsTypeOK
<1>5. opRegs = [opRegs EXCEPT ![k] = opRegs[k]]
      BY ZenonT(30) DEF ObsInv, ObsTypeOK
<1>6. Watcher(stale, k).reg \in Registrations
      BY <1>3, <1>4, ZenonT(30) DEF Watchers
<1> QED BY <1>1, <1>2, <1>3, <1>4, <1>5, <1>6, ZenonT(30) DEF ObsInv, Active, Sent

LEMMA WatchStepPreserves ==
  ASSUME ObsInv, NEW stale \in BOOLEAN, NEW k \in OpKeys, WatchStep(stale, k) \/ WatchFails(stale, k)
  PROVE  ObsInv'
<1> DEFINE w == Watcher(stale, k)
<1> USE WatcherFacts
<1>1. CASE WatchLoad(stale, k)
  <2> DEFINE v == IF stale \/ opRegs[k] = NoReg THEN NoWatcher ELSE [pc |-> "observe", reg |-> opRegs[k]]
  <2>1. v \in Watchers
        BY ZenonT(30) DEF Watchers, WatcherSteps
  <2>2. Active(v) => MadeBy(opStream, k, v.reg)
        BY ZenonT(30)
  <2>3. Sent(opEvents, v)
        BY ZenonT(30) DEF Sent
  <2>4. SetWatcher(stale, k, v) /\ UNCHANGED <<opStream, opWork, opEvents, opRegs>>
        BY <1>1, ZenonT(30) DEF WatchLoad, opDisk
  <2> HIDE DEF v
  <2> QED BY <2>1, <2>2, <2>3, <2>4, SetWatcherPreserves, ZenonT(30)
<1>2. CASE Observe(stale, k)
  <2>1. UNCHANGED <<opStream, opWork, opEvents>> /\ w.pc = "observe"
        BY <1>2, ZenonT(30) DEF Observe
  <2>2. Active(w)
        BY <2>1, ZenonT(30) DEF Active
  <2>3. CASE opWork[k] = NoBundle
        BY <1>2, <2>1, <2>3, DeleteRegPreserves, ZenonT(30) DEF Observe
  <2>4. ASSUME UNCHANGED opRegs, SetWatcher(stale, k, Exit(stale)) PROVE ObsInv'
        BY <2>1, <2>4, SetWatcherPreserves, ZenonT(30)
  <2>5. ASSUME NEW s \in States, SaveReg(stale, k, IF w.reg.pending # NoState THEN w.reg
                                                 ELSE [w.reg EXCEPT !.pending = s], "publish")
        PROVE ObsInv'
    <3> DEFINE reg == IF w.reg.pending # NoState THEN w.reg ELSE [w.reg EXCEPT !.pending = s]
    <3>1. reg \in Registrations /\ reg.dec = w.reg.dec /\ reg.gen = w.reg.gen
          BY ZenonT(30) DEF Registrations
    <3>2. MadeBy(opStream, k, reg)
          BY <2>2, <3>1 DEF MadeBy
    <3>3. Sent(opEvents, [pc |-> "publish", reg |-> reg]) /\ "publish" \in WatcherSteps
          BY ZenonT(30) DEF Sent, WatcherSteps
    <3> HIDE DEF reg
    <3>4. SaveReg(stale, k, reg, "publish")
          BY <2>5, ZenonT(30) DEF reg
    <3> QED BY <2>1, <3>1, <3>2, <3>3, <3>4, SaveRegPreserves, ZenonT(30)
  <2>6. opWork[k] # NoBundle => Project(w.reg, opWork[k]) \subseteq States \cup {"error"}
        BY ZenonT(30) DEF Project, States, ObsInv, ObsTypeOK, Bundles, Phases
  <2> QED BY <1>2, <2>3, <2>4, <2>5, <2>6, ZenonT(30) DEF Observe
<1>3. CASE PublishEvent(stale, k)
  <2> DEFINE v == [w EXCEPT !.pc = "published"]
  <2>1. w.pc = "publish" /\ UNCHANGED <<opStream, opWork, opRegs>> /\ SetWatcher(stale, k, v)
        BY <1>3, ZenonT(30) DEF PublishEvent, opDisk
  <2>2. opEvents \subseteq opEvents' /\ (w.reg.pending = "ended" => w.reg.dec \in opEvents')
        BY <1>3, ZenonT(30) DEF PublishEvent
  <2>3. v \in Watchers /\ v.reg = w.reg /\ v.pc = "published"
        BY ZenonT(30) DEF Watchers, WatcherSteps
  <2>4. Active(w)
        BY <2>1, ZenonT(30) DEF Active
  <2>5. Sent(opEvents', v)
        BY <2>2, <2>3, ZenonT(30) DEF Sent
  <2> HIDE DEF v
  <2> QED BY <2>1, <2>2, <2>3, <2>4, <2>5, SetWatcherPreserves, ZenonT(30)
<1>4. CASE RecordPublished(stale, k)
  <2>1. w.pc = "published" /\ UNCHANGED <<opStream, opWork, opEvents>> /\ SaveReg(stale, k, w.reg, "settle")
        BY <1>4, ZenonT(30) DEF RecordPublished
  <2>2. MadeBy(opStream, k, w.reg) /\ "settle" \in WatcherSteps
        BY <2>1, ZenonT(30) DEF Active, WatcherSteps
  <2>3. Sent(opEvents, [pc |-> "settle", reg |-> w.reg])
        BY <2>1, ZenonT(30) DEF Sent
  <2> QED BY <2>1, <2>2, <2>3, SaveRegPreserves, ZenonT(30)
<1>5. CASE Settle(stale, k)
  <2> DEFINE reg == [w.reg EXCEPT !.last = w.reg.pending, !.pending = NoState]
  <2>1. w.pc = "settle" /\ UNCHANGED <<opStream, opWork, opEvents>> /\ SaveReg(stale, k, reg, "observe")
        BY <1>5, ZenonT(30) DEF Settle
  <2>2. reg \in Registrations /\ reg.dec = w.reg.dec /\ reg.gen = w.reg.gen
        BY ZenonT(30) DEF Registrations, States
  <2>3. MadeBy(opStream, k, reg) /\ "observe" \in WatcherSteps
        BY <2>1, <2>2 DEF Active, MadeBy, WatcherSteps
  <2>4. Sent(opEvents, [pc |-> "observe", reg |-> reg])
        BY ZenonT(30) DEF Sent
  <2> HIDE DEF reg
  <2> QED BY <2>1, <2>2, <2>3, <2>4, SaveRegPreserves, ZenonT(30)
<1>6. CASE SettleTerminal(stale, k)
  <2> DEFINE v == [w EXCEPT !.pc = "forget"]
  <2>1. /\ w.pc = "settle" /\ w.reg.pending = "ended" /\ SetWatcher(stale, k, v)
        /\ UNCHANGED <<opStream, opRegs, opEvents>> /\ opWork' = Cleaned(k, w.reg.gen)
        BY <1>6, ZenonT(30) DEF SettleTerminal, opDisk
  <2>2. v \in Watchers /\ v.reg = w.reg /\ v.pc = "forget"
        BY ZenonT(30) DEF Watchers, WatcherSteps
  <2>3. Active(v) /\ MadeBy(opStream, k, v.reg) /\ Sent(opEvents, v)
        BY <2>1, <2>2, ZenonT(30) DEF Active, Sent
  <2>4. \A j \in OpKeys : opWork'[j] \in {opWork[j], NoBundle}
        BY <2>1, ZenonT(30) DEF Cleaned, ObsInv, ObsTypeOK
  <2>5. ObsTypeOK'
        BY <2>1, <2>2, ZenonT(30) DEF Cleaned, ObsInv, ObsTypeOK, Bundles, SetWatcher
  <2>6. \A j \in OpKeys : /\ opWatch'[j] = opWatch[j] \/ (j = k /\ opWatch'[j] = v)
                          /\ opStale'[j] = opStale[j] \/ (j = k /\ opStale'[j] = v)
        BY <2>1, ZenonT(30) DEF ObsInv, ObsTypeOK, SetWatcher
  <2> HIDE DEF v
  <2> QED BY <2>1, <2>3, <2>4, <2>5, <2>6, ZenonT(30) DEF ObsInv
<1>7. CASE ForgetTerminal(stale, k)
      BY <1>7, DeleteRegPreserves, ZenonT(30) DEF ForgetTerminal
<1>8. CASE WatchFails(stale, k)
      BY <1>8, SetWatcherPreserves, ZenonT(30) DEF WatchFails, opDisk
<1> QED BY <1>1, <1>2, <1>3, <1>4, <1>5, <1>6, <1>7, <1>8, ZenonT(30) DEF WatchStep

LEMMA ObsStep == OpTypeOK /\ InFlight /\ ObsInv /\ [OpNext]_opVars => ObsInv'
<1> SUFFICES ASSUME OpTypeOK, InFlight, ObsInv, [OpNext]_opVars PROVE ObsInv'
    BY ZenonT(30)
<1>a. ASSUME UNCHANGED <<opStream, opRegs, opWork, opWatch, opStale, opEvents>> PROVE ObsInv'
      BY <1>a, ZenonT(30) DEF ObsInv, ObsTypeOK
<1>1. CASE ReconcileDecision
  <2> DEFINE n == opWorker.at
             k == opStream[n].key
             b == [gen |-> GenOf(n), dec |-> n, phase |-> "created", pauses |-> 0]
  <2>1. CASE Applies(n)
    <3>1. /\ UNCHANGED <<opStream, opRegs, opWatch, opStale, opEvents>> /\ opWork' = ApplyBundle(n)
          /\ opWorker.pc = "reconcile"
          BY <1>1, <2>1, ZenonT(30) DEF ReconcileDecision
    <3>2. n \in 1..OpLength /\ opStream[n].kind = "bind" /\ k \in OpKeys /\ n \in Nat
          BY <3>1, OpAssumption, SMTT(30) DEF OpTypeOK, InFlight
    <3>3. b \in Bundles /\ MadeBy(opStream, k, b)
          BY <3>2, GenInNat, GenOfIsGenIn, ZenonT(30) DEF MadeBy, Bundles, Phases
    <3> HIDE DEF b
    <3>4. \A j \in OpKeys : opWork'[j] = opWork[j] \/ (j = k /\ opWork'[j] = b)
          BY <3>1, <3>2, ZenonT(30) DEF ApplyBundle, b, ObsInv, ObsTypeOK
    <3>5. opWork' \in [OpKeys -> Bundles]
          BY <3>1, <3>2, <3>3, ZenonT(30) DEF ApplyBundle, b, ObsInv, ObsTypeOK
    <3> QED BY <3>1, <3>3, <3>4, <3>5, ZenonT(30) DEF ObsInv, ObsTypeOK
  <2>2. CASE ~Applies(n)
        BY <1>1, <2>2, <1>a, ZenonT(30) DEF ReconcileDecision
  <2> QED BY <2>1, <2>2, ZenonT(30)
<1>2. CASE Register
  <2> DEFINE n == opWorker.at
             k == opStream[n].key
             old == opRegs[k]
             new == NewRegistration(n)
             reg == opRegs'[k]
  <2>1. n \in 1..OpLength /\ opStream[n].kind = "bind" /\ k \in OpKeys /\ n \in Nat
        BY <1>2, OpAssumption, SMTT(30) DEF Register, OpTypeOK, InFlight
  <2>2. new \in Registrations /\ new.gen = GenIn(opStream, n) /\ new.dec = n
        BY <2>1, GenInNat, GenOfIsGenIn, ZenonT(30) DEF NewRegistration, NoReg, NoState, Registrations, States
  <2>3. old \in Registrations /\ (old # NoReg => MadeBy(opStream, k, old))
        BY <2>1, ZenonT(30) DEF ObsInv, ObsTypeOK
  <2>4. Superseding(old, new) \in Registrations /\ MadeBy(opStream, k, new) /\ MadeBy(opStream, k, Superseding(old, new))
        BY <2>1, <2>2, <2>3, ZenonT(30) DEF Superseding, Registrations, MadeBy
  <2>5. UNCHANGED <<opStream, opWork, opEvents>>
        BY <1>2, ZenonT(30) DEF Register
  <2>6. \E r \in {old, new, Superseding(old, new)} :
           opRegs' = [opRegs EXCEPT ![k] = r] /\ (r = old => old # NoReg \/ UNCHANGED opRegs)
        BY <1>2, <2>1, ZenonT(30) DEF Register, ObsInv, ObsTypeOK
  <2>7. \A j \in OpKeys : \/ opWatch'[j] = opWatch[j]
                          \/ opWatch'[j] \in {NoWatcher, [NoWatcher EXCEPT !.pc = "load"]}
        BY <1>2, <2>1, ZenonT(30) DEF Register, StartWatcher, ObsInv, ObsTypeOK
  <2>8. \A j \in OpKeys : opStale'[j] \in {opStale[j], opWatch[j]}
    <3>1. opStale' = opStale \/ opStale' = [opStale EXCEPT ![k] = opWatch[k]]
          BY <1>2, ZenonT(30) DEF Register
    <3>2. DOMAIN opStale = OpKeys
          BY ZenonT(30) DEF ObsInv, ObsTypeOK
    <3> QED BY <3>1, <3>2, ZenonT(30)
  <2>9. \A v \in {NoWatcher, [NoWatcher EXCEPT !.pc = "load"]} :
           v \in Watchers /\ ~Active(v) /\ Sent(opEvents, v)
        BY DEF NoWatcher, NoReg, NoState, Watchers, WatcherSteps, Registrations, States, Active, Sent
  <2>10. opRegs' \in [OpKeys -> Registrations]
        BY <2>2, <2>3, <2>4, <2>6, ZenonT(30) DEF ObsInv, ObsTypeOK
  <2>11. opWatch' \in [OpKeys -> Watchers] /\ opStale' \in [OpKeys -> Watchers]
    <3>1. DOMAIN opWatch' = OpKeys /\ opWatch' = [j \in OpKeys |-> opWatch'[j]]
          BY <1>2, <2>1, Zenon DEF Register, StartWatcher, ObsInv, ObsTypeOK
    <3>2. DOMAIN opStale' = OpKeys /\ opStale' = [j \in OpKeys |-> opStale'[j]]
          BY <1>2, <2>1, ZenonT(30) DEF Register, ObsInv, ObsTypeOK
    <3>3. \A j \in OpKeys : opWatch'[j] \in Watchers /\ opStale'[j] \in Watchers
          BY <2>7, <2>8, <2>9, ZenonT(30) DEF ObsInv, ObsTypeOK
    <3> QED BY <3>1, <3>2, <3>3, ZenonT(30)
  <2>12. \A j \in OpKeys : opRegs'[j] # NoReg => MadeBy(opStream, j, opRegs'[j])
        BY <2>1, <2>3, <2>4, <2>6, ZenonT(30) DEF ObsInv, ObsTypeOK
  <2>13. \A j \in OpKeys : Active(opWatch'[j]) => MadeBy(opStream, j, opWatch'[j].reg)
        BY <2>7, <2>9, ZenonT(30) DEF ObsInv
  <2>14. \A j \in OpKeys : Active(opStale'[j]) => MadeBy(opStream, j, opStale'[j].reg)
        BY <2>8, ZenonT(30) DEF ObsInv
  <2>15. \A j \in OpKeys : Sent(opEvents, opWatch'[j]) /\ Sent(opEvents, opStale'[j])
        BY <2>7, <2>8, <2>9, ZenonT(30) DEF ObsInv
  <2> QED BY <2>5, <2>10, <2>11, <2>12, <2>13, <2>14, <2>15, ZenonT(30) DEF ObsInv, ObsTypeOK
<1>3. CASE RecoverRegistrations
  <2>1. UNCHANGED <<opStream, opWork, opWatch, opStale, opEvents>>
        BY <1>3, ZenonT(30) DEF RecoverRegistrations
  <2>2. ASSUME NEW k \in OpKeys, opWork[k] # NoBundle
        PROVE  RecoveredFrom(opWork[k]) \in Registrations /\ MadeBy(opStream, k, RecoveredFrom(opWork[k]))
    <3>1. opWork[k].gen \in Nat /\ opWork[k].dec \in Nat /\ MadeBy(opStream, k, opWork[k])
          BY <2>2, ZenonT(30) DEF ObsInv, ObsTypeOK, Bundles
    <3> QED BY <3>1, ZenonT(30) DEF RecoveredFrom, NoReg, NoState, Registrations, States, MadeBy
  <2>3. NoReg \in Registrations
        BY ZenonT(30) DEF NoReg, NoState, Registrations, States
  <2>4. \A k \in OpKeys : opRegs'[k] = IF opWork[k] = NoBundle THEN NoReg
                                       ELSE IF opRegs[k] # NoReg THEN opRegs[k] ELSE RecoveredFrom(opWork[k])
        BY <1>3, ZenonT(30) DEF RecoverRegistrations
  <2>5. opRegs' \in [OpKeys -> Registrations]
        BY <1>3, <2>2, <2>3, ZenonT(30) DEF RecoverRegistrations, ObsInv, ObsTypeOK
  <2> QED BY <2>1, <2>2, <2>4, <2>5, ZenonT(30) DEF ObsInv, ObsTypeOK
<1>4. CASE AcceptRegistrations \/ OperatorCrash
  <2>1. UNCHANGED <<opStream, opRegs, opWork, opEvents>>
        BY <1>4, ZenonT(30) DEF AcceptRegistrations, OperatorCrash, opDisk
  <2>2. \A v \in {NoWatcher, [NoWatcher EXCEPT !.pc = "load"]} :
           v \in Watchers /\ ~Active(v) /\ Sent(opEvents, v)
        BY DEF NoWatcher, NoReg, NoState, Watchers, WatcherSteps, Registrations, States, Active, Sent
  <2>3. \A j \in OpKeys : opWatch'[j] \in {opWatch[j], NoWatcher, [NoWatcher EXCEPT !.pc = "load"]}
        BY <1>4, ZenonT(30) DEF AcceptRegistrations, OperatorCrash
  <2>4. \A j \in OpKeys : opStale'[j] \in {opStale[j], NoWatcher}
        BY <1>4, ZenonT(30) DEF AcceptRegistrations, OperatorCrash
  <2>5. opWatch' \in [OpKeys -> Watchers] /\ opStale' \in [OpKeys -> Watchers]
        BY <1>4, <2>2, ZenonT(30) DEF AcceptRegistrations, OperatorCrash, ObsInv, ObsTypeOK
  <2> QED BY <2>1, <2>2, <2>3, <2>4, <2>5, ZenonT(30) DEF ObsInv, ObsTypeOK
<1>5. ASSUME NEW stale \in BOOLEAN, NEW k \in OpKeys, WatchStep(stale, k) \/ WatchFails(stale, k) PROVE ObsInv'
      BY <1>5, WatchStepPreserves, ZenonT(30)
<1>6. ASSUME NEW k \in OpKeys, JobMoves(k) PROVE ObsInv'
  <2>1. UNCHANGED <<opStream, opRegs, opWatch, opStale, opEvents>>
        BY <1>6, ZenonT(30) DEF JobMoves, opDisk
  <2>2. opWork[k] \in Bundles /\ opWork[k] # NoBundle
        BY <1>6, SMTT(30) DEF JobMoves, NoBundle, ObsInv, ObsTypeOK
  <2>3. /\ opWork' \in [OpKeys -> Bundles]
        /\ \A j \in OpKeys : \/ opWork'[j] = opWork[j]
                             \/ j = k /\ opWork'[j].dec = opWork[j].dec /\ opWork'[j].gen = opWork[j].gen
        BY <1>6, <2>2, SMTT(30) DEF JobMoves, ObsInv, ObsTypeOK, Bundles, Phases
  <2>4. MadeBy(opStream, k, opWork[k])
        BY <2>2, ZenonT(30) DEF ObsInv
  <2>5. MadeBy(opStream, k, opWork'[k])
    <3>1. opWork'[k].dec = opWork[k].dec /\ opWork'[k].gen = opWork[k].gen
          BY <2>3, ZenonT(30)
    <3> QED BY <2>4, <3>1, ZenonT(30) DEF MadeBy
  <2>6. \A j \in OpKeys : opWork'[j] # NoBundle => MadeBy(opStream, j, opWork'[j])
    <3>1. \A j \in OpKeys : j # k => opWork'[j] = opWork[j]
          BY <2>3, ZenonT(30)
    <3>2. \A j \in OpKeys : opWork[j] # NoBundle => MadeBy(opStream, j, opWork[j])
          BY ZenonT(30) DEF ObsInv
    <3> QED BY <2>5, <3>1, <3>2, ZenonT(30)
  <2> QED BY <2>1, <2>3, <2>6, ZenonT(30) DEF ObsInv, ObsTypeOK
<1>7. CASE RunOnce \/ StartDelivery \/ SaveCursor \/ ClearDelivery \/ LoopFails \/ UNCHANGED opVars
      BY <1>7, <1>a, ZenonT(30) DEF RunOnce, StartDelivery, SaveCursor, ClearDelivery, LoopFails, opDisk, opVars
<1> QED BY <1>1, <1>2, <1>3, <1>4, <1>5, <1>6, <1>7, ZenonT(30) DEF OpNext

(* A bundle leaves the backend only after the terminal event of the very      *)
(* decision that made it was sent: no watcher of another generation, late or  *)
(* cancelled, cleans it up (Cleanup, publishSnapshot).                        *)
THEOREM CleanupsAreEarned == OpSpec => CleanupIsEarned
<1>1. OpInit => CursorInv /\ ObsInv
      BY CursorInit, ObsInit, ZenonT(30)
<1>2. CursorInv /\ ObsInv /\ [OpNext]_opVars => (CursorInv /\ ObsInv)'
      BY CursorStep, ObsStep, ZenonT(30) DEF CursorInv
<1>3. ASSUME CursorInv, ObsInv, [OpNext]_opVars, NEW k \in OpKeys, opWork[k] # NoBundle, opWork'[k] = NoBundle
      PROVE  opWork[k].dec \in opEvents
  <2>1. MadeBy(opStream, k, opWork[k]) /\ opWork \in [OpKeys -> Bundles]
        BY <1>3, ZenonT(30) DEF ObsInv, ObsTypeOK
  <2>2. ASSUME NEW stale \in BOOLEAN, NEW j \in OpKeys, SettleTerminal(stale, j)
        PROVE  opWork[k].dec \in opEvents
    <3> DEFINE w == Watcher(stale, j)
    <3>1. w.pc = "settle" /\ w.reg.pending = "ended" /\ opWork' = Cleaned(j, w.reg.gen)
          BY <2>2, ZenonT(30) DEF SettleTerminal
    <3>2. j = k /\ opWork[k].gen = w.reg.gen
          BY <1>3, <2>1, <3>1, ZenonT(30) DEF Cleaned
    <3>3. MadeBy(opStream, k, w.reg) /\ w.reg.dec \in opEvents
          BY <1>3, <3>1, <3>2, WatcherFacts, ZenonT(30) DEF Active, Sent
    <3> QED BY <2>1, <3>2, <3>3, OneDecisionPerGeneration, SMTT(30)
  <2>3. ASSUME NEW j \in OpKeys, JobMoves(j) PROVE FALSE
        BY <1>3, <2>1, <2>3, SMTT(30) DEF JobMoves, NoBundle
  <2>4. CASE ReconcileDecision
        BY <1>3, <2>1, <2>4, SMTT(30) DEF ReconcileDecision, ApplyBundle, NoBundle, CursorInv, OpTypeOK
  <2>5. CASE UNCHANGED opWork
        BY <1>3, <2>5, ZenonT(30)
  <2>6. ASSUME \/ RunOnce \/ StartDelivery \/ Register \/ SaveCursor \/ ClearDelivery \/ LoopFails
               \/ RecoverRegistrations \/ AcceptRegistrations \/ OperatorCrash \/ UNCHANGED opVars
        PROVE  UNCHANGED opWork
        BY <2>6, ZenonT(30) DEF RunOnce, StartDelivery, Register, SaveCursor, ClearDelivery, LoopFails,
                    RecoverRegistrations, AcceptRegistrations, OperatorCrash, opVars
  <2>7. ASSUME NEW stale \in BOOLEAN, NEW j \in OpKeys, WatchStep(stale, j) \/ WatchFails(stale, j),
               ~SettleTerminal(stale, j)
        PROVE  UNCHANGED opWork
        BY <2>7, ZenonT(30) DEF WatchStep, WatchLoad, Observe, PublishEvent, RecordPublished, Settle, ForgetTerminal, WatchFails
  <2> QED BY <1>3, <2>2, <2>3, <2>4, <2>5, <2>6, <2>7, ZenonT(30) DEF OpNext
<1>4. CursorInv /\ ObsInv /\ [OpNext]_opVars =>
        [\A k \in OpKeys : opWork[k] # NoBundle /\ opWork'[k] = NoBundle => opWork[k].dec \in opEvents]_opVars
      BY <1>3, ZenonT(30)
<1> QED BY <1>1, <1>2, <1>4, PTL DEF OpSpec, CleanupIsEarned
=============================================================================

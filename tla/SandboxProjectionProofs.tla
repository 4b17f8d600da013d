----------------------- MODULE SandboxProjectionProofs -----------------------
(***************************************************************************)
(* SandboxProjection for any set of reports, any states they report and    *)
(* any number of generations, repairs, failed checkpoints and restarts.    *)
(*                                                                         *)
(* That an answered observation is fenced is not inductive: what fences it *)
(* changes.  First its identity is in the cursor, or a later revision is;  *)
(* then a later generation replaces both.  Passed says one of the three    *)
(* holds, of the live cursor and of the durable one, because a restart     *)
(* makes the one the other.  The identities the cursor has seen must be of *)
(* its own generation (Known), or a duplicate would be refused without     *)
(* being passed.                                                           *)
(*                                                                         *)
(* Until the first restart the provider's revisions number its log         *)
(* (Numbered), and until the first repair too the cursor stands at one     *)
(* event of that log, the projected sandbox is that event's, and nothing   *)
(* that the watch delivered comes after it (Agreeing).                     *)
(***************************************************************************)
EXTENDS SandboxProjection, TLAPS

Gens == 0..MaxGeneration
Ids == {<<"none", 0>>, <<"bootstrap", 0>>} \cup ({"observation"} \X Reports) \cup ({"provider"} \X Nat)
Names == {"named", "unnamed"}
Boxes == [gen : Gens, st : States, at : Nat, disp : Dispositions, run : Names]
Events == [id : Ids, gen : Gens, rev : Nat, st : States, at : Nat, disp : Dispositions, run : Names]
Cursors == [gen : Gens, rev : Nat, id : Ids, at : Nat, seen : SUBSET Ids]
Statuses == {"unmade", "waiting", "accepted", "done", "refused"}
ReportRecords == [status : Statuses, via : {"rpc", "registry"}, gen : Gens, st : States, at : Nat, rev : Nat]

PjTypeInv ==
  /\ clock \in Nat /\ prov \in Boxes /\ rev \in Nat \ {0} /\ log \in Seq(Events)
  /\ taken \in SUBSET Reports /\ tail \in 0..Len(log)
  /\ report \in [Reports -> ReportRecords]
  /\ box \in Boxes /\ cursor \in Cursors /\ saved \in [box : Boxes, cursor : Cursors]
  /\ list \in [read : {"no", "resource", "sandbox", "startup"}, entry : Boxes]
  /\ spent \in [acts : Nat, resyncs : Nat, faults : Nat, crashes : Nat]

ObservationId(r) == <<"observation", r>>

(* Where the reports, and what the log says of them, stand. *)
ReportsInv ==
  /\ \A r \in Reports :
       /\ report[r].status # "unmade" => report[r].gen >= 1
       /\ report[r].status \in {"accepted", "done"} /\ report[r].via = "rpc" => report[r].rev >= 1
       /\ report[r].status = "accepted" => report[r].via = "rpc"
       /\ r \in taken => report[r].rev >= 1 /\ report[r].status # "unmade"
  /\ \A i \in 1..Len(log) :
       /\ log[i].gen >= 1 /\ log[i].rev >= 1
       /\ \A r \in Reports : log[i].id = ObservationId(r) =>
                               report[r].status # "unmade" /\ log[i].gen = report[r].gen

(* A cursor has seen the event it stands at, and observations of its generation only. *)
Known(c, reports) ==
  /\ c.gen > 0 => c.id \in c.seen
  /\ c.gen = 0 => c.seen = {}
  /\ \A r \in Reports : ObservationId(r) \in c.seen =>
                          reports[r].status # "unmade" /\ reports[r].gen = c.gen

(* Cursor c is past the observation q, which is the r-th report. *)
Passed(c, q, r) ==
  \/ c.gen > q.gen
  \/ c.gen = q.gen /\ (ObservationId(r) \in c.seen \/ c.rev >= q.rev)

Answered(q) == q.status = "done" /\ q.via = "rpc"
Fences(c, reports) == \A r \in Reports : Answered(reports[r]) => Passed(c, reports[r], r)

FenceInv ==
  /\ Known(cursor, report) /\ Fences(cursor, report)
  /\ Known(saved.cursor, report) /\ Fences(saved.cursor, report)
  /\ box.gen <= cursor.gen /\ saved.box.gen <= saved.cursor.gen

(* The event of the log that a cursor stands at. *)
StandsIn(c, events) ==
  c.gen > 0 /\ c.rev # 0 => c.rev - 1 \in 1..Len(events) /\ events[c.rev - 1].id \in c.seen

Numbered ==
  /\ rev = Len(log) + 1
  /\ \A i \in 1..Len(log) : log[i].rev = i + 1
  /\ \A r \in Reports :
       /\ report[r].rev # 0 => /\ report[r].rev - 1 \in 1..Len(log)
                               /\ log[report[r].rev - 1] = Accepted(r, report[r].rev)
       /\ r \notin taken => report[r].rev = 0
  /\ StandsIn(cursor, log) /\ StandsIn(saved.cursor, log)

NumberInv == spent.crashes = 0 => Numbered

(* The Store's projection is that of event m of the log, and of none later. *)
At(c, b, events, m) ==
  /\ m \in 1..Len(events) /\ c.rev = m + 1
  /\ c.gen = events[m].gen /\ b.gen = events[m].gen /\ b.st = events[m].st
  /\ \A x \in c.seen : \E j \in 1..m : x = events[j].id

Ordered(events) ==
  /\ \A i, j \in 1..Len(events) : i <= j => events[i].gen <= events[j].gen
  /\ \A i, j \in 1..Len(events) : events[i].id = events[j].id => i = j

Agreeing ==
  /\ list = NoList /\ Ordered(log)
  /\ \A i \in 1..Len(log) : \/ log[i].id = <<"provider", i>>
                            \/ \E r \in taken : log[i].id = ObservationId(r)
  /\ Len(log) = 0 => prov.gen = 0
  /\ Len(log) > 0 => prov.gen = log[Len(log)].gen /\ prov.st = log[Len(log)].st
  /\ cursor.gen = 0 => box.gen = 0 /\ tail = 0
  /\ cursor.gen > 0 => At(cursor, box, log, cursor.rev - 1) /\ tail <= cursor.rev - 1

AgreeInv == spent.crashes = 0 /\ spent.resyncs = 0 => Agreeing

PjInv == PjTypeInv /\ ReportsInv /\ FenceInv /\ NumberInv /\ AgreeInv


-----------------------------------------------------------------------------
(* A revision given out is never 0, nor is the one after it. *)
LEMMA AboveZero == \A n \in Nat : (n >= 1 => n # 0) /\ n + 1 \in Nat /\ n + 1 >= 1 /\ n + 1 # 0
BY SMT

(* The rules of the cursor. *)

\* An accepted event makes a cursor and a sandbox.
LEMMA NextTypes ==
  ASSUME NEW c \in Cursors, NEW b \in Boxes, NEW e \in Events
  PROVE  nextCursor(c, e) \in Cursors /\ mergedSandbox(b, e) \in Boxes
<1>1. nextCursor(c, e) \in Cursors
      BY DEF nextCursor, Cursors, Events, Gens
<1>2. mergedSandbox(b, e) \in Boxes
      BY DEF mergedSandbox, Boxes, Events
<1> QED BY <1>1, <1>2

\* What the next cursor is, field by field.
LEMMA NextFields ==
  ASSUME NEW c \in Cursors, NEW e \in Events
  PROVE  /\ nextCursor(c, e).gen = e.gen /\ nextCursor(c, e).id = e.id
         /\ c.gen > 0 /\ e.gen = c.gen => nextCursor(c, e).seen = c.seen \cup {e.id}
         /\ ~(c.gen > 0 /\ e.gen = c.gen) => nextCursor(c, e).seen = {e.id}
         /\ e.rev # 0 => nextCursor(c, e).rev = e.rev
         /\ e.rev = 0 /\ c.gen > 0 /\ e.gen = c.gen => nextCursor(c, e).rev = c.rev
BY DEF nextCursor

\* An accepted event leaves behind what was passed.
LEMMA NextPasses ==
  ASSUME NEW c \in Cursors, NEW b \in Boxes, NEW e \in Events, acceptSandboxCursor(c, b, e),
         NEW q \in ReportRecords, NEW r \in Reports, q.gen >= 1, Passed(c, q, r)
  PROVE  Passed(nextCursor(c, e), q, r)
<1>1. c.gen \in Int /\ c.rev \in Int /\ e.gen \in Int /\ e.rev \in Int /\ e.rev >= 0 /\ q.gen \in Int /\ q.rev \in Int
      BY ProjectionAssumption DEF Cursors, Events, ReportRecords, Gens
<1>2. c.gen > 0 /\ e.gen >= c.gen
      BY <1>1 DEF Passed, acceptSandboxCursor
<1>3. CASE e.gen > c.gen
      BY <1>1, <1>2, <1>3, NextFields DEF Passed
<1>4. CASE e.gen = c.gen
  <2>1. nextCursor(c, e).rev >= c.rev
        BY <1>1, <1>2, <1>4, NextFields DEF acceptSandboxCursor, acceptSameGenerationSandboxEvent
  <2>2. nextCursor(c, e).rev \in Int
        BY NextTypes DEF Cursors
  <2> QED BY <1>1, <1>2, <1>4, <2>1, <2>2, NextFields DEF Passed
<1> QED BY <1>1, <1>2, <1>3, <1>4

\* An observation that the Store has handled is passed, accepted or not.
LEMMA HandledIsPassed ==
  ASSUME NEW c \in Cursors, NEW b \in Boxes, NEW reports \in [Reports -> ReportRecords], NEW r \in Reports,
         NEW e \in Events, e.id = ObservationId(r), e.gen = reports[r].gen, e.rev = reports[r].rev,
         e.gen >= 1, e.rev >= 1, Known(c, reports)
  PROVE  /\ acceptSandboxCursor(c, b, e) => Passed(nextCursor(c, e), reports[r], r)
         /\ ~acceptSandboxCursor(c, b, e) => Passed(c, reports[r], r)
<1>1. c.gen \in Int /\ c.rev \in Int /\ e.gen \in Int /\ e.rev \in Int /\ c.gen >= 0
      BY ProjectionAssumption DEF Cursors, Events, Gens
<1>2. Passed(nextCursor(c, e), reports[r], r)
  <2>1. ObservationId(r) \in nextCursor(c, e).seen
        BY NextFields
  <2> QED BY <2>1, NextFields DEF Passed
<1>3. ASSUME ~acceptSandboxCursor(c, b, e)
      PROVE  Passed(c, reports[r], r)
  <2>1. c.gen > 0
        BY <1>3 DEF acceptSandboxCursor
  <2>2. CASE e.gen < c.gen
        BY <1>1, <2>2 DEF Passed
  <2>3. CASE duplicateSandboxEvent(c, e)
        BY <2>1, <2>3 DEF duplicateSandboxEvent, Known, Passed
  <2>4. CASE e.gen = c.gen /\ ~acceptSameGenerationSandboxEvent(c, b, e)
        BY <1>1, <2>4 DEF acceptSameGenerationSandboxEvent, Passed
  <2> QED BY <1>1, <1>3, <2>1, <2>2, <2>3, <2>4 DEF acceptSandboxCursor
<1> QED BY <1>2, <1>3

\* An accepted event keeps the cursor's knowledge to its own generation.
LEMMA NextKnown ==
  ASSUME NEW c \in Cursors, NEW e \in Events, NEW reports \in [Reports -> ReportRecords],
         e.gen >= 1, Known(c, reports),
         \A r \in Reports : e.id = ObservationId(r) => reports[r].status # "unmade" /\ reports[r].gen = e.gen
  PROVE  Known(nextCursor(c, e), reports)
<1>1. e.gen > 0 /\ e.gen # 0
      BY ProjectionAssumption DEF Events, Gens
<1>2. CASE c.gen > 0 /\ e.gen = c.gen
      BY <1>1, <1>2, NextFields DEF Known
<1>3. CASE ~(c.gen > 0 /\ e.gen = c.gen)
      BY <1>1, <1>3, NextFields DEF Known
<1> QED BY <1>2, <1>3

\* What an accepted list entry makes of the cursor.
LEMMA BootstrapFields ==
  ASSUME NEW c \in Cursors, NEW b \in Boxes, b.gen > 0, c.gen > 0 => b.gen >= c.gen
  PROVE  /\ bootstrapCursor(c, b) \in Cursors /\ bootstrapCursor(c, b).gen = b.gen
         /\ c.gen > 0 /\ b.gen = c.gen =>
              /\ bootstrapCursor(c, b).seen = c.seen \cup {c.id} /\ bootstrapCursor(c, b).id = c.id
              /\ bootstrapCursor(c, b).rev = c.rev
         /\ ~(c.gen > 0 /\ b.gen = c.gen) =>
              /\ bootstrapCursor(c, b).seen = {<<"bootstrap", 0>>} /\ bootstrapCursor(c, b).id = <<"bootstrap", 0>>
              /\ bootstrapCursor(c, b).rev = 0
<1> DEFINE fresh == [gen |-> b.gen, rev |-> 0, id |-> <<"bootstrap", 0>>, at |-> 0, seen |-> {}]
           kept == IF c.gen = 0 \/ b.gen > c.gen THEN fresh ELSE c
<1>1. c.gen \in Nat /\ b.gen \in Nat /\ b.at \in Nat
      BY ProjectionAssumption DEF Cursors, Boxes, Gens
<1>2. fresh \in Cursors
      BY DEF Cursors, Boxes, Ids
<1>3. kept \in Cursors
      BY <1>2
<1>4. (c.gen > 0 /\ b.gen = c.gen => kept = c) /\ (~(c.gen > 0 /\ b.gen = c.gen) => kept = fresh) /\ kept.gen = b.gen
      BY <1>1
<1>5. bootstrapCursor(c, b) = [kept EXCEPT !.at = b.at, !.seen = @ \cup {kept.id}]
      BY DEF bootstrapCursor
<1> HIDE DEF kept
<1>6. /\ bootstrapCursor(c, b) \in Cursors /\ bootstrapCursor(c, b).gen = kept.gen
      /\ bootstrapCursor(c, b).seen = kept.seen \cup {kept.id} /\ bootstrapCursor(c, b).id = kept.id
      /\ bootstrapCursor(c, b).rev = kept.rev
      BY <1>1, <1>3, <1>5, ZenonT(30) DEF Cursors
<1> QED BY <1>4, <1>6


-----------------------------------------------------------------------------
(* The two ways the Store's projection changes. *)

\* What holds of the projection after an event was applied to it.
Kept ==
  /\ cursor' \in Cursors /\ box' \in Boxes
  /\ Known(cursor', report) /\ Fences(cursor', report) /\ box'.gen <= cursor'.gen
  /\ cursor'.gen >= cursor.gen
  /\ box' # box /\ box'.gen > 0 => box'.gen >= cursor.gen

LEMMA KeptUnchanged ==
  ASSUME PjTypeInv, FenceInv, UNCHANGED projection
  PROVE  Kept
BY ProjectionAssumption, SMTT(30) DEF PjTypeInv, FenceInv, projection, Kept, Cursors, Gens

LEMMA ProjectKeeps ==
  ASSUME PjTypeInv, ReportsInv, FenceInv, NEW e \in Events, e.gen >= 1, Project(e),
         \A r \in Reports : e.id = ObservationId(r) => report[r].status # "unmade" /\ report[r].gen = e.gen
  PROVE  Kept
<1>1. CASE ~acceptSandboxCursor(cursor, box, e)
      BY <1>1, KeptUnchanged DEF Project
<1>2. CASE acceptSandboxCursor(cursor, box, e)
  <2>1. cursor' = nextCursor(cursor, e) /\ box' = mergedSandbox(box, e)
        BY <1>2 DEF Project
  <2>2. cursor \in Cursors /\ box \in Boxes /\ report \in [Reports -> ReportRecords]
        BY DEF PjTypeInv
  <2>3. cursor' \in Cursors /\ box' \in Boxes
        BY <2>1, <2>2, NextTypes
  <2>4. Known(cursor', report)
        BY <2>1, <2>2, NextKnown DEF FenceInv
  <2>5. Fences(cursor', report)
    <3>1. SUFFICES ASSUME NEW r \in Reports, Answered(report[r])
                   PROVE  Passed(cursor', report[r], r)
          BY DEF Fences
    <3>2. report[r] \in ReportRecords /\ report[r].gen >= 1 /\ Passed(cursor, report[r], r)
          BY <2>2, <3>1, ZenonT(30) DEF ReportsInv, FenceInv, Fences, Answered
    <3> QED BY <1>2, <2>1, <2>2, <3>2, NextPasses
  <2>6. cursor'.gen = e.gen /\ box'.gen = e.gen
        BY <2>1, <2>2, NextFields DEF mergedSandbox
  <2>7. e.gen >= cursor.gen
        BY <1>2, <2>2, ProjectionAssumption DEF acceptSandboxCursor, Cursors, Events, Gens
  <2>8. e.gen \in Int
        BY DEF Events, Gens
  <2> QED BY <2>3, <2>4, <2>5, <2>6, <2>7, <2>8 DEF Kept
<1> QED BY <1>1, <1>2

\* The projection of a list entry is that entry, the disposition apart.
LEMMA MergedDisposition ==
  ASSUME NEW b \in Boxes, NEW e \in Boxes
  PROVE  mergeDurableSandboxDisposition(b, e) \in Boxes /\ mergeDurableSandboxDisposition(b, e).gen = e.gen
<1> DEFINE given == [e EXCEPT !.disp = b.disp]
<1>1. given \in Boxes /\ given.gen = e.gen
      BY DEF Boxes
<1>2. mergeDurableSandboxDisposition(b, e) \in {given, e}
      BY DEF mergeDurableSandboxDisposition
<1> HIDE DEF given
<1> QED BY <1>1, <1>2

\* A repair, too, leaves behind what was passed.
LEMMA ReplaceKeeps ==
  ASSUME PjTypeInv, ReportsInv, FenceInv, NEW entry \in Boxes, Replace(entry)
  PROVE  Kept /\ (StandsIn(cursor, log) => StandsIn(cursor', log))
<1>1. cursor \in Cursors /\ box \in Boxes /\ report \in [Reports -> ReportRecords]
      BY DEF PjTypeInv
<1>2. cursor.gen \in Int /\ cursor.gen >= 0 /\ entry.gen \in Int /\ entry.gen >= 0 /\ box.gen \in Int
      BY <1>1, ProjectionAssumption DEF Cursors, Boxes, Gens
<1>3. CASE entry.gen = 0
  <2>1. box' = NoSandbox /\ cursor' = cursor
        BY <1>3, <1>2 DEF Replace
  <2>2. NoSandbox \in Boxes /\ NoSandbox.gen = 0
        BY ProjectionAssumption DEF NoSandbox, Boxes, Gens, States, Dispositions, Names
  <2> QED BY <1>1, <1>2, <2>1, <2>2 DEF Kept, FenceInv
<1>4. CASE entry.gen > 0 /\ cursor.gen > 0 /\ ~acceptSandboxBootstrap(cursor, box, entry)
  <2>1. UNCHANGED projection
        BY <1>4, <1>2 DEF Replace
  <2> QED BY <2>1, KeptUnchanged DEF projection
<1>5. CASE entry.gen > 0 /\ ~(cursor.gen > 0 /\ ~acceptSandboxBootstrap(cursor, box, entry))
  <2>1. box' = mergeDurableSandboxDisposition(box, entry) /\ cursor' = bootstrapCursor(cursor, entry)
        BY <1>5, <1>2 DEF Replace
  <2>2. cursor.gen > 0 => entry.gen >= cursor.gen
        BY <1>2, <1>5 DEF acceptSandboxBootstrap
  <2>3. box' \in Boxes /\ box'.gen = entry.gen
        BY <1>1, <2>1, MergedDisposition
  <2>4. /\ cursor' \in Cursors /\ cursor'.gen = entry.gen
        /\ cursor.gen > 0 /\ entry.gen = cursor.gen =>
             cursor'.seen = cursor.seen \cup {cursor.id} /\ cursor'.id = cursor.id /\ cursor'.rev = cursor.rev
        /\ ~(cursor.gen > 0 /\ entry.gen = cursor.gen) =>
             cursor'.seen = {<<"bootstrap", 0>>} /\ cursor'.id = <<"bootstrap", 0>> /\ cursor'.rev = 0
        BY <1>1, <1>5, <2>1, <2>2, BootstrapFields
  <2>5. \A r \in Reports : ObservationId(r) # <<"bootstrap", 0>>
        BY DEF ObservationId
  <2>6. Known(cursor', report)
    <3>1. CASE cursor.gen > 0 /\ entry.gen = cursor.gen
          BY <1>2, <1>5, <2>4, <3>1 DEF Known, FenceInv
    <3>2. CASE ~(cursor.gen > 0 /\ entry.gen = cursor.gen)
      <4>1. cursor'.gen # 0 /\ cursor'.seen = {<<"bootstrap", 0>>} /\ cursor'.id = <<"bootstrap", 0>>
            BY <1>2, <1>5, <2>4, <3>2
      <4> QED BY <2>5, <4>1, ZenonT(30) DEF Known
    <3> QED BY <3>1, <3>2
  <2>7. Fences(cursor', report)
    <3>1. SUFFICES ASSUME NEW r \in Reports, Answered(report[r])
                   PROVE  Passed(cursor', report[r], r)
          BY DEF Fences
    <3>2. report[r] \in ReportRecords /\ report[r].gen >= 1 /\ Passed(cursor, report[r], r)
          BY <1>1, <3>1 DEF ReportsInv, FenceInv, Fences, Answered
    <3>3. report[r].gen \in Int
          BY <3>2 DEF ReportRecords, Gens
    <3> QED BY <1>2, <2>2, <2>4, <3>2, <3>3 DEF Passed
  <2>8. StandsIn(cursor, log) => StandsIn(cursor', log)
        BY <1>2, <2>4 DEF StandsIn
  <2> QED BY <1>2, <2>2, <2>3, <2>4, <2>6, <2>7, <2>8 DEF Kept
<1> QED BY <1>2, <1>3, <1>4, <1>5


-----------------------------------------------------------------------------
(* Events of a numbered log. *)

\* The type of an event of the log.
LEMMA LogEvents ==
  ASSUME PjTypeInv, ReportsInv, NEW i \in 1..Len(log)
  PROVE  /\ Len(log) \in Nat /\ i \in Nat /\ log[i] \in Events
         /\ log[i].gen \in Nat /\ log[i].gen >= 1 /\ log[i].rev \in Nat /\ log[i].rev >= 1
         /\ \A r \in Reports : log[i].id = ObservationId(r) =>
                                 report[r].status # "unmade" /\ report[r].gen = log[i].gen
<1>1. Len(log) \in Nat /\ log[i] \in Events
      BY DEF PjTypeInv
<1>2. log[i].gen \in Nat /\ log[i].rev \in Nat
      BY <1>1, ProjectionAssumption DEF Events, Gens
<1> QED BY <1>1, <1>2 DEF ReportsInv

\* The cursor stands at an event of the log after it took one.
LEMMA ProjectStands ==
  ASSUME PjTypeInv, ReportsInv, Numbered, NEW i \in 1..Len(log), Project(log[i])
  PROVE  StandsIn(cursor', log)
<1>1. CASE ~acceptSandboxCursor(cursor, box, log[i])
      BY <1>1 DEF Project, projection, Numbered
<1>2. CASE acceptSandboxCursor(cursor, box, log[i])
  <2>1. cursor' = nextCursor(cursor, log[i])
        BY <1>2 DEF Project
  <2>2. cursor \in Cursors /\ log[i] \in Events /\ log[i].rev = i + 1 /\ i \in Nat
        BY LogEvents DEF PjTypeInv, Numbered
  <2>3. cursor'.rev = i + 1 /\ log[i].id \in cursor'.seen
        BY <2>1, <2>2, NextFields
  <2> QED BY <2>2, <2>3 DEF StandsIn
<1> QED BY <1>1, <1>2

\* Of two events of the log the Store keeps the later, whichever it is given first.
LEMMA ProjectAgreement ==
  ASSUME PjTypeInv, ReportsInv, FenceInv, Numbered, Agreeing, NEW i \in 1..Len(log), Project(log[i])
  PROVE  /\ cursor'.gen > 0 /\ cursor'.rev \in Nat /\ At(cursor', box', log, cursor'.rev - 1)
         /\ i <= cursor'.rev - 1 /\ tail <= cursor'.rev - 1
<1> DEFINE e == log[i]
<1>1. /\ cursor \in Cursors /\ e \in Events /\ e.rev = i + 1 /\ i \in Nat /\ Len(log) \in Nat
      /\ e.gen \in Nat /\ e.gen >= 1 /\ tail \in Nat
      BY LogEvents, SMTT(30) DEF PjTypeInv, Numbered
<1>2. cursor.gen \in Nat /\ cursor.rev \in Nat
      BY <1>1, ProjectionAssumption DEF Cursors, Gens
<1>3. ASSUME acceptSandboxCursor(cursor, box, e), cursor.gen > 0 => cursor.rev - 1 < i
      PROVE  /\ cursor'.gen > 0 /\ cursor'.rev = i + 1 /\ At(cursor', box', log, i)
  <2>1. cursor' = nextCursor(cursor, e) /\ box' = mergedSandbox(box, e)
        BY <1>3 DEF Project
  <2>2. cursor'.gen = e.gen /\ cursor'.rev = i + 1 /\ box'.gen = e.gen /\ box'.st = e.st
        BY <1>1, <2>1, NextFields DEF mergedSandbox
  <2>3. \A x \in cursor'.seen : \E j \in 1..i : x = log[j].id
    <3>1. CASE cursor.gen > 0 /\ e.gen = cursor.gen
      <4>1. cursor'.seen = cursor.seen \cup {e.id}
            BY <1>1, <2>1, <3>1, NextFields
      <4>2. \A x \in cursor.seen : \E j \in 1..(cursor.rev - 1) : x = log[j].id
            BY <3>1, ZenonT(30) DEF Agreeing, At
      <4>3. 1..(cursor.rev - 1) \subseteq 1..i /\ i \in 1..i
            BY <1>1, <1>2, <1>3, <3>1
      <4> QED BY <4>1, <4>2, <4>3
    <3>2. CASE ~(cursor.gen > 0 /\ e.gen = cursor.gen)
      <4>1. cursor'.seen = {e.id} /\ i \in 1..i
            BY <1>1, <2>1, <3>2, NextFields, SMTT(30)
      <4> QED BY <4>1
    <3> QED BY <3>1, <3>2
  <2> QED BY <1>1, <2>2, <2>3 DEF At
<1>4. CASE cursor.gen = 0
  <2>1. acceptSandboxCursor(cursor, box, e)
        BY <1>4 DEF acceptSandboxCursor
  <2>2. tail = 0
        BY <1>4 DEF Agreeing
  <2> QED BY <1>1, <1>3, <1>4, <2>1, <2>2, SMTT(30)
<1>5. CASE cursor.gen > 0
  <2> DEFINE m == cursor.rev - 1
  <2>1. /\ m \in 1..Len(log) /\ cursor.gen = log[m].gen /\ tail <= m
        /\ \A x \in cursor.seen : \E j \in 1..m : x = log[j].id
        BY <1>5, ZenonT(30) DEF Agreeing, At
  <2>2. log[m].id \in cursor.seen /\ cursor.id \in cursor.seen
        BY <1>5, <1>2, <2>1 DEF Numbered, StandsIn, FenceInv, Known
  <2>3. m \in Nat
        BY <2>1, <1>1, SMTT(30)
  <2>4. CASE i <= m
    <3>1. ~acceptSandboxCursor(cursor, box, e)
      <4>1. e.gen <= cursor.gen
            BY <2>1, <2>4 DEF Agreeing, Ordered
      <4>2. i = m => duplicateSandboxEvent(cursor, e)
            BY <2>2 DEF duplicateSandboxEvent
      <4>3. i # m => ~acceptSameGenerationSandboxEvent(cursor, box, e)
            BY <1>1, <1>2, <2>3, <2>4, SMTT(30) DEF acceptSameGenerationSandboxEvent
      <4> QED BY <1>1, <1>2, <1>5, <4>1, <4>2, <4>3, SMTT(30) DEF acceptSandboxCursor
    <3>2. cursor' = cursor /\ box' = box
          BY <3>1 DEF Project, projection
    <3> QED BY <1>1, <1>2, <1>5, <2>1, <2>4, <3>2, ZenonT(30) DEF Agreeing
  <2>5. CASE i > m
    <3>1. e.gen >= cursor.gen
          BY <1>1, <1>2, <2>1, <2>3, <2>5, SMTT(30) DEF Agreeing, Ordered
    <3>2. ~duplicateSandboxEvent(cursor, e)
      <4>1. e.id \notin cursor.seen
        <5>1. SUFFICES ASSUME NEW j \in 1..m, e.id = log[j].id PROVE FALSE
              BY <2>1
        <5>2. j \in 1..Len(log) /\ j # i
              BY <1>1, <2>1, <2>3, <2>5, <5>1
        <5> QED BY <5>1, <5>2 DEF Agreeing, Ordered
      <4> QED BY <2>2, <4>1 DEF duplicateSandboxEvent
    <3>3. acceptSameGenerationSandboxEvent(cursor, box, e)
          BY <1>1, <1>2, <2>3, <2>5 DEF acceptSameGenerationSandboxEvent
    <3>4. acceptSandboxCursor(cursor, box, e)
          BY <3>1, <3>2, <3>3 DEF acceptSandboxCursor
    <3>5. cursor'.gen > 0 /\ cursor'.rev = i + 1 /\ At(cursor', box', log, i)
          BY <1>3, <2>5, <3>4
    <3> QED BY <1>1, <2>1, <2>3, <2>5, <3>5, SMTT(30)
  <2> QED BY <1>1, <2>3, <2>4, <2>5, SMTT(30)
<1> QED BY <1>2, <1>4, <1>5, SMTT(30)


-----------------------------------------------------------------------------
(* Frames. *)

\* A bound used up is counted, and the others are left alone.
LEMMA SpendFacts ==
  ASSUME PjTypeInv
  PROVE  /\ Spend("acts") => /\ spent' \in [acts : Nat, resyncs : Nat, faults : Nat, crashes : Nat]
                             /\ spent'.crashes = spent.crashes /\ spent'.resyncs = spent.resyncs
         /\ Spend("faults") => /\ spent' \in [acts : Nat, resyncs : Nat, faults : Nat, crashes : Nat]
                               /\ spent'.crashes = spent.crashes /\ spent'.resyncs = spent.resyncs
         /\ Spend("resyncs") => /\ spent' \in [acts : Nat, resyncs : Nat, faults : Nat, crashes : Nat]
                                /\ spent'.crashes = spent.crashes /\ spent'.resyncs > 0
         /\ Spend("crashes") => /\ spent' \in [acts : Nat, resyncs : Nat, faults : Nat, crashes : Nat]
                                /\ spent'.crashes = spent.crashes + 1 /\ spent'.crashes > 0
<1>1. spent \in [acts : Nat, resyncs : Nat, faults : Nat, crashes : Nat]
      BY DEF PjTypeInv
<1> QED BY <1>1 DEF Spend

\* A cursor knows of its reports what it knew, as long as they keep their generation.
LEMMA KnownMoves ==
  ASSUME NEW c, NEW f, NEW g, Known(c, f),
         \A r \in Reports : f[r].status # "unmade" => g[r].status # "unmade" /\ g[r].gen = f[r].gen
  PROVE  Known(c, g)
BY DEF Known

\* A cursor passes what it passed, as long as nothing is newly answered.
LEMMA FencesMoves ==
  ASSUME NEW c, NEW f, NEW g, Fences(c, f),
         \A r \in Reports : Answered(g[r]) => Answered(f[r]) /\ g[r].gen = f[r].gen /\ g[r].rev = f[r].rev
  PROVE  Fences(c, g)
<1>1. SUFFICES ASSUME NEW r \in Reports, Answered(g[r])
               PROVE  Passed(c, g[r], r)
      BY DEF Fences
<1>2. Passed(c, f[r], r) /\ g[r].gen = f[r].gen /\ g[r].rev = f[r].rev
      BY <1>1 DEF Fences
<1> QED BY <1>2 DEF Passed

\* What a changed status, or revision, leaves of a report.
LEMMA StatusFields ==
  ASSUME NEW q \in ReportRecords, NEW s \in Statuses, NEW n \in Nat
  PROVE  /\ LET p == [q EXCEPT !.status = s]
            IN p.status = s /\ p.via = q.via /\ p.gen = q.gen /\ p.st = q.st /\ p.at = q.at /\ p.rev = q.rev
         /\ LET p == [q EXCEPT !.status = s, !.rev = n]
            IN p.status = s /\ p.via = q.via /\ p.gen = q.gen /\ p.st = q.st /\ p.at = q.at /\ p.rev = n
BY ZenonT(30) DEF ReportRecords

\* The event of an observation.
LEMMA AcceptedEvent ==
  ASSUME PjTypeInv, NEW r \in Reports, NEW n \in Nat
  PROVE  /\ Accepted(r, n) \in Events /\ Accepted(r, n).id = ObservationId(r)
         /\ Accepted(r, n).gen = report[r].gen /\ Accepted(r, n).rev = n /\ Accepted(r, n).st = report[r].st
<1>1. report[r] \in ReportRecords
      BY DEF PjTypeInv
<1> QED BY <1>1 DEF Accepted, Events, ReportRecords, Ids, Dispositions, Names, ObservationId

\* The initial state.
LEMMA ProjectionInit == Init => PjInv
<1> SUFFICES ASSUME Init PROVE PjInv
    BY ZenonT(30)
<1>1. NoSandbox \in Boxes /\ NoCursor \in Cursors /\ Unmade \in ReportRecords
      BY ProjectionAssumption DEF NoSandbox, NoCursor, Unmade, Boxes, Cursors, ReportRecords, Gens, States,
         Dispositions, Names, Ids, Statuses
<1>2. saved.box = NoSandbox /\ saved.cursor = NoCursor /\ saved \in [box : Boxes, cursor : Cursors]
      BY <1>1 DEF Init, Durable
<1>3. PjTypeInv
      BY <1>1, <1>2, SMTT(30) DEF Init, PjTypeInv, NoList
<1>4. ReportsInv
      BY SMTT(30) DEF Init, ReportsInv, Unmade
<1>5. FenceInv
      BY <1>2, SMTT(30) DEF Init, FenceInv, Known, Fences, Answered, NoCursor, NoSandbox, Unmade
<1>6. NumberInv
      BY <1>2, SMTT(30) DEF Init, NumberInv, Numbered, StandsIn, NoCursor, Unmade
<1>7. AgreeInv
      BY DEF Init, AgreeInv, Agreeing, Ordered, NoCursor, NoSandbox
<1> QED BY <1>3, <1>4, <1>5, <1>6, <1>7 DEF PjInv


-----------------------------------------------------------------------------
(* The steps. *)

LEMMA ReportStep ==
  ASSUME PjInv, NEW r \in Reports, Report(r)
  PROVE  PjInv'
<1>1. PICK via \in {"rpc", "registry"}, g \in 1..MaxGeneration, s \in ReportStates :
        /\ report[r].status = "unmade" /\ clock' = clock + 1
        /\ report' = [report EXCEPT ![r] =
             [status |-> "waiting", via |-> via, gen |-> g, st |-> s, at |-> clock', rev |-> 0]]
        /\ UNCHANGED <<provider, tail, projection, saved, list, spent>>
      BY Zenon DEF Report
<1> DEFINE q == [status |-> "waiting", via |-> via, gen |-> g, st |-> s, at |-> clock', rev |-> 0]
<1>2. prov' = prov /\ rev' = rev /\ log' = log /\ taken' = taken /\ tail' = tail /\ box' = box /\ cursor' = cursor
      /\ saved' = saved /\ list' = list /\ spent' = spent
      BY <1>1, ZenonT(30) DEF provider, projection
<1>3. PjTypeInv /\ ReportsInv /\ FenceInv /\ NumberInv /\ AgreeInv
      BY ZenonT(30) DEF PjInv
<1>4. clock' \in Nat /\ q \in ReportRecords
      BY <1>1, <1>3, ProjectionAssumption DEF PjTypeInv, ReportRecords, Statuses, Gens
<1>5. /\ report' \in [Reports -> ReportRecords] /\ report'[r] = q
      /\ \A p \in Reports : p # r => report'[p] = report[p]
      BY <1>1, <1>3, <1>4, ZenonT(30) DEF PjTypeInv
<1>6. r \notin taken /\ (\A i \in 1..Len(log) : log[i].id # ObservationId(r)) /\ ~Answered(report[r])
      BY <1>1, <1>3, ZenonT(30) DEF ReportsInv, Answered
<1>7. PjTypeInv'
      BY <1>2, <1>3, <1>4, <1>5, ZenonT(30) DEF PjTypeInv
<1>8. ReportsInv'
      BY <1>2, <1>3, <1>5, <1>6, <1>1, SMTT(30) DEF ReportsInv
<1>9. FenceInv'
  <2>1. \A p \in Reports : /\ report[p].status # "unmade" => report'[p].status # "unmade" /\ report'[p].gen = report[p].gen
                           /\ Answered(report'[p]) => /\ Answered(report[p]) /\ report'[p].gen = report[p].gen
                                                      /\ report'[p].rev = report[p].rev
        BY <1>1, <1>5, ZenonT(30) DEF Answered
  <2>2. \A c \in {cursor, saved.cursor} : Known(c, report') /\ Fences(c, report')
        BY <1>3, <2>1, KnownMoves, FencesMoves, SMTT(30) DEF FenceInv
  <2> QED BY <1>2, <1>3, <2>2, ZenonT(30) DEF FenceInv
<1>10. NumberInv'
  <2>1. SUFFICES ASSUME Numbered PROVE Numbered'
        BY <1>2, <1>3, ZenonT(30) DEF NumberInv
  <2>2. \A p \in Reports : p # r => \A n : Accepted(p, n)' = Accepted(p, n)
        BY <1>5, ZenonT(30) DEF Accepted
  <2>3. report'[r].rev = 0
        BY <1>5, SMTT(30)
  <2> QED BY <1>2, <1>5, <2>1, <2>2, <2>3, SMTT(30) DEF Numbered
<1>11. AgreeInv'
      BY <1>2, <1>3, ZenonT(30) DEF AgreeInv, Agreeing
<1> QED BY <1>7, <1>8, <1>9, <1>10, <1>11, ZenonT(30) DEF PjInv

\* Of the r-th report only the status changes, and nothing of the others.
StatusOnly(r, s) ==
  /\ report' \in [Reports -> ReportRecords] /\ report'[r].status = s
  /\ \A p \in Reports : p # r => report'[p] = report[p]
  /\ \A p \in Reports : /\ report'[p].via = report[p].via /\ report'[p].gen = report[p].gen
                        /\ report'[p].st = report[p].st /\ report'[p].at = report[p].at
                        /\ report'[p].rev = report[p].rev

LEMMA StatusUpdate ==
  ASSUME PjTypeInv, NEW r \in Reports, NEW s \in Statuses, report' = [report EXCEPT ![r].status = s]
  PROVE  StatusOnly(r, s)
<1>1. report \in [Reports -> ReportRecords] /\ report[r] \in ReportRecords
      BY ZenonT(30) DEF PjTypeInv
<1>2. [report[r] EXCEPT !.status = s] \in ReportRecords
      BY <1>1, ZenonT(30) DEF ReportRecords
<1>3. report'[r] = [report[r] EXCEPT !.status = s] /\ report' \in [Reports -> ReportRecords]
      /\ \A p \in Reports : p # r => report'[p] = report[p]
      BY <1>1, <1>2, ZenonT(30)
<1>4. /\ report'[r].status = s /\ report'[r].via = report[r].via /\ report'[r].gen = report[r].gen
      /\ report'[r].st = report[r].st /\ report'[r].at = report[r].at /\ report'[r].rev = report[r].rev
      BY <1>1, <1>3, StatusFields, SMTT(30)
<1> QED BY <1>3, <1>4, ZenonT(30) DEF StatusOnly

\* A report that only moves on, to a status its revision allows, disturbs nothing.
LEMMA StatusStep ==
  ASSUME PjInv, NEW r \in Reports, NEW s \in {"accepted", "done", "refused"},
         report[r].status = "waiting", StatusOnly(r, s),
         s = "accepted" => r \in taken /\ report[r].via = "rpc", s = "done" => report[r].via # "rpc",
         UNCHANGED <<clock, provider, tail, projection, saved, list, spent>>
  PROVE  PjInv'
<1>1. clock' = clock /\ prov' = prov /\ rev' = rev /\ log' = log /\ taken' = taken /\ tail' = tail /\ box' = box
      /\ cursor' = cursor /\ saved' = saved /\ list' = list /\ spent' = spent
      BY ZenonT(30) DEF provider, projection
<1>2. PjTypeInv /\ ReportsInv /\ FenceInv /\ NumberInv /\ AgreeInv
      BY ZenonT(30) DEF PjInv
<1>4. /\ report' \in [Reports -> ReportRecords] /\ report'[r].status = s
      /\ \A p \in Reports : p # r => report'[p] = report[p]
      /\ \A p \in Reports : /\ report'[p].via = report[p].via /\ report'[p].gen = report[p].gen
                            /\ report'[p].st = report[p].st /\ report'[p].at = report[p].at
                            /\ report'[p].rev = report[p].rev
      BY ZenonT(30) DEF StatusOnly
<1>5. PjTypeInv'
      BY <1>1, <1>2, <1>4, ZenonT(30) DEF PjTypeInv
<1>6. ReportsInv'
      BY <1>1, <1>2, <1>4, ZenonT(30) DEF ReportsInv
<1>7. FenceInv'
  <2>1. \A p \in Reports : /\ report[p].status # "unmade" => report'[p].status # "unmade" /\ report'[p].gen = report[p].gen
                           /\ Answered(report'[p]) => /\ Answered(report[p]) /\ report'[p].gen = report[p].gen
                                                      /\ report'[p].rev = report[p].rev
        BY <1>4, ZenonT(30) DEF Answered
  <2>2. Known(cursor, report') /\ Known(saved.cursor, report')
        BY <1>2, <2>1, KnownMoves, SMTT(30) DEF FenceInv
  <2>3. Fences(cursor, report') /\ Fences(saved.cursor, report')
        BY <1>2, <2>1, FencesMoves, SMTT(30) DEF FenceInv
  <2> QED BY <1>1, <1>2, <2>2, <2>3, ZenonT(30) DEF FenceInv
<1>8. NumberInv'
  <2>1. SUFFICES ASSUME Numbered PROVE Numbered'
        BY <1>1, <1>2, ZenonT(30) DEF NumberInv
  <2>2. \A p \in Reports : \A n : Accepted(p, n)' = Accepted(p, n)
        BY <1>4, ZenonT(30) DEF Accepted
  <2> QED BY <1>1, <1>4, <2>1, <2>2, SMTT(30) DEF Numbered
<1>9. AgreeInv'
      BY <1>1, <1>2, ZenonT(30) DEF AgreeInv, Agreeing
<1> QED BY <1>5, <1>6, <1>7, <1>8, <1>9, ZenonT(30) DEF PjInv


\* One event more: where it is, and what stays.
LEMMA AppendFacts ==
  ASSUME PjTypeInv, NEW e \in Events, log' = Append(log, e)
  PROVE  /\ log' \in Seq(Events) /\ Len(log) \in Nat /\ Len(log') = Len(log) + 1 /\ log'[Len(log) + 1] = e
         /\ \A i \in 1..Len(log) : log'[i] = log[i] /\ i \in 1..Len(log')
         /\ \A i \in 1..Len(log') : i \in 1..Len(log) \/ i = Len(log) + 1
         /\ \A c : StandsIn(c, log) => StandsIn(c, log')
<1>1. log \in Seq(Events)
      BY ZenonT(30) DEF PjTypeInv
<1>2. /\ log' \in Seq(Events) /\ Len(log) \in Nat /\ Len(log') = Len(log) + 1 /\ log'[Len(log) + 1] = e
      /\ \A i \in 1..Len(log) : log'[i] = log[i]
      BY <1>1, SMTT(30)
<1>3. /\ \A i \in 1..Len(log) : i \in 1..Len(log')
      /\ \A i \in 1..Len(log') : i \in 1..Len(log) \/ i = Len(log) + 1
      BY <1>2, SMTT(30)
<1>4. \A c : StandsIn(c, log) => StandsIn(c, log')
      BY <1>2, <1>3, ZenonT(30) DEF StandsIn
<1> QED BY <1>2, <1>3, <1>4, ZenonT(30)

\* An event that the provider publishes is the last of an ordered log.
LEMMA AppendAgrees ==
  ASSUME PjTypeInv, ReportsInv, Agreeing, NEW e \in Events, log' = Append(log, e), e.gen >= 1,
         prov.gen > 0 => e.gen >= prov.gen, prov'.gen = e.gen, prov'.st = e.st,
         \A i \in 1..Len(log) : log[i].id # e.id, taken \subseteq taken',
         e.id = <<"provider", Len(log) + 1>> \/ (\E r \in taken' : e.id = ObservationId(r)),
         UNCHANGED <<tail, box, cursor, list>>
  PROVE  Agreeing'
<1>1. /\ Len(log) \in Nat /\ Len(log') = Len(log) + 1 /\ log'[Len(log) + 1] = e
      /\ \A i \in 1..Len(log) : log'[i] = log[i] /\ i \in 1..Len(log')
      /\ \A i \in 1..Len(log') : i \in 1..Len(log) \/ i = Len(log) + 1
      BY AppendFacts, ZenonT(30)
<1>2. \A i \in 1..Len(log) : log[i].gen <= e.gen
  <2>1. SUFFICES ASSUME NEW i \in 1..Len(log) PROVE log[i].gen <= e.gen
        BY ZenonT(30)
  <2>2. i \in Nat /\ i <= Len(log) /\ Len(log) \in 1..Len(log) /\ Len(log) > 0
        BY <1>1
  <2>3. log[i].gen <= log[Len(log)].gen /\ prov.gen = log[Len(log)].gen
        BY <2>2, ZenonT(30) DEF Agreeing, Ordered
  <2>4. log[i].gen \in Nat /\ log[Len(log)].gen \in Nat /\ log[Len(log)].gen >= 1 /\ e.gen \in Int
        BY <2>2, LogEvents, SMTT(30) DEF Events, Gens
  <2> QED BY <2>3, <2>4, SMTT(30)
<1>3. Ordered(log')
  <2>1. ASSUME NEW i \in 1..Len(log'), NEW j \in 1..Len(log'), i <= j
        PROVE  log'[i].gen <= log'[j].gen
    <3>1. CASE j \in 1..Len(log)
      <4>1. i \in 1..Len(log)
            BY <1>1, <2>1, <3>1, SMTT(30)
      <4> QED BY <1>1, <2>1, <3>1, <4>1, ZenonT(30) DEF Agreeing, Ordered
    <3>2. CASE j = Len(log) + 1 /\ i \in 1..Len(log)
          BY <1>1, <1>2, <3>2, ZenonT(30)
    <3>3. CASE j = Len(log) + 1 /\ i = Len(log) + 1
      <4>1. e.gen \in Int
            BY DEF Events, Gens
      <4> QED BY <1>1, <3>3, <4>1, SMTT(30)
    <3> QED BY <1>1, <3>1, <3>2, <3>3, ZenonT(30)
  <2>2. ASSUME NEW i \in 1..Len(log'), NEW j \in 1..Len(log'), log'[i].id = log'[j].id
        PROVE  i = j
    <3>1. CASE i \in 1..Len(log) /\ j \in 1..Len(log)
          BY <1>1, <2>2, <3>1, ZenonT(30) DEF Agreeing, Ordered
    <3>2. CASE i = Len(log) + 1 \/ j = Len(log) + 1
          BY <1>1, <2>2, <3>2, ZenonT(30)
    <3> QED BY <1>1, <3>1, <3>2, ZenonT(30)
  <2> QED BY <2>1, <2>2, ZenonT(30) DEF Ordered
<1>4. \A i \in 1..Len(log') : \/ log'[i].id = <<"provider", i>>
                              \/ \E r \in taken' : log'[i].id = ObservationId(r)
  <2>1. SUFFICES ASSUME NEW i \in 1..Len(log')
                 PROVE  \/ log'[i].id = <<"provider", i>>
                        \/ \E r \in taken' : log'[i].id = ObservationId(r)
        BY ZenonT(30)
  <2>2. CASE i \in 1..Len(log)
        BY <1>1, <2>2, ZenonT(30) DEF Agreeing
  <2>3. CASE i = Len(log) + 1
        BY <1>1, <2>3, ZenonT(30)
  <2> QED BY <1>1, <2>2, <2>3, ZenonT(30)
<1>5. cursor.gen > 0 => At(cursor, box, log', cursor.rev - 1) /\ tail <= cursor.rev - 1
  <2>1. SUFFICES ASSUME cursor.gen > 0 PROVE At(cursor, box, log', cursor.rev - 1) /\ tail <= cursor.rev - 1
        BY ZenonT(30)
  <2> DEFINE m == cursor.rev - 1
  <2>2. At(cursor, box, log, m) /\ tail <= m
        BY <2>1, ZenonT(30) DEF Agreeing
  <2>3. m \in 1..Len(log) /\ 1..m \subseteq 1..Len(log)
        BY <1>1, <2>2, SMTT(30) DEF At
  <2>4. \A j \in 1..m : log'[j] = log[j]
        BY <1>1, <2>3, ZenonT(30)
  <2> HIDE DEF m
  <2>5. At(cursor, box, log', m)
    <3>1. \A x \in cursor.seen : \E j \in 1..m : x = log'[j].id
          BY <2>2, <2>4, ZenonT(30) DEF At
    <3> QED BY <1>1, <2>2, <2>3, <3>1, ZenonT(30) DEF At
  <2> QED BY <2>2, <2>5, ZenonT(30) DEF m
<1>6. Len(log') # 0 /\ Len(log') > 0 /\ log'[Len(log')] = e
      BY <1>1, SMTT(30)
<1> QED BY <1>3, <1>4, <1>5, <1>6, ZenonT(30) DEF Agreeing


\* The provider accepts an observation.
LEMMA ObservedStep ==
  ASSUME PjInv, NEW r \in Reports, NEW s \in {"accepted", "done"}, report[r].status = "waiting",
         s = "accepted" => report[r].via = "rpc", s = "done" => report[r].via # "rpc",
         r \notin taken, observable(prov, Accepted(r, 0)),
         clock' = clock + 1, rev' = rev + 1, prov' = observedSandbox(prov, Accepted(r, rev'), clock'),
         taken' = taken \cup {r}, log' = Append(log, Accepted(r, rev')),
         report' \in [Reports -> ReportRecords], \A p \in Reports : p # r => report'[p] = report[p],
         report'[r].status = s, report'[r].via = report[r].via, report'[r].gen = report[r].gen,
         report'[r].st = report[r].st, report'[r].at = report[r].at, report'[r].rev = rev',
         UNCHANGED <<tail, projection, saved, list, spent>>
  PROVE  PjInv'
<1> DEFINE e == Accepted(r, rev')
<1>1. tail' = tail /\ box' = box /\ cursor' = cursor /\ saved' = saved /\ list' = list /\ spent' = spent
      BY ZenonT(30) DEF projection
<1>2. PjTypeInv /\ ReportsInv /\ FenceInv /\ NumberInv /\ AgreeInv
      BY ZenonT(30) DEF PjInv
<1>3. rev' \in Nat /\ rev' >= 1 /\ rev' # 0 /\ clock' \in Nat
      BY <1>2, SMTT(30) DEF PjTypeInv
<1>4. /\ e \in Events /\ e.id = ObservationId(r) /\ e.gen = report[r].gen /\ e.rev = rev' /\ e.st = report[r].st
      /\ e.gen >= 1
      BY <1>2, <1>3, AcceptedEvent, ZenonT(30) DEF ReportsInv
<1>5. /\ log' \in Seq(Events) /\ Len(log) \in Nat /\ Len(log') = Len(log) + 1 /\ log'[Len(log) + 1] = e
      /\ \A i \in 1..Len(log) : log'[i] = log[i] /\ i \in 1..Len(log')
      /\ \A i \in 1..Len(log') : i \in 1..Len(log) \/ i = Len(log) + 1
      /\ \A c : StandsIn(c, log) => StandsIn(c, log')
      BY <1>2, <1>4, AppendFacts, ZenonT(30)
<1>6. prov' \in Boxes /\ prov'.gen = e.gen /\ prov'.st = e.st
      BY <1>2, <1>3, <1>4, ZenonT(30) DEF observedSandbox, Boxes, Events, PjTypeInv, Names
<1> HIDE DEF e
<1>7. PjTypeInv'
  <2>1. tail' \in 0..Len(log')
        BY <1>1, <1>2, <1>5 DEF PjTypeInv
  <2>2. taken' \in SUBSET Reports /\ rev' \in Nat \ {0}
        BY <1>2, <1>3, ZenonT(30) DEF PjTypeInv
  <2> QED BY <1>1, <1>2, <1>3, <1>5, <1>6, <2>1, <2>2, ZenonT(30) DEF PjTypeInv
<1>8. ReportsInv'
  <2>1. \A p \in Reports : /\ report'[p].status # "unmade" => report'[p].gen >= 1
                           /\ report'[p].status \in {"accepted", "done"} /\ report'[p].via = "rpc" => report'[p].rev >= 1
                           /\ report'[p].status = "accepted" => report'[p].via = "rpc"
                           /\ p \in taken' => report'[p].rev >= 1 /\ report'[p].status # "unmade"
        BY <1>2, <1>3, ZenonT(30) DEF ReportsInv
  <2>2. ASSUME NEW i \in 1..Len(log')
        PROVE  /\ log'[i].gen >= 1 /\ log'[i].rev >= 1
               /\ \A p \in Reports : log'[i].id = ObservationId(p) =>
                                       report'[p].status # "unmade" /\ log'[i].gen = report'[p].gen
    <3>1. CASE i \in 1..Len(log)
          BY <1>2, <1>5, <3>1, ZenonT(30) DEF ReportsInv
    <3>2. CASE i = Len(log) + 1
      <4>1. \A p \in Reports : ObservationId(r) = ObservationId(p) => p = r
            BY ZenonT(30) DEF ObservationId
      <4> QED BY <1>3, <1>4, <1>5, <3>2, <4>1, ZenonT(30)
    <3> QED BY <1>5, <3>1, <3>2, ZenonT(30)
  <2> QED BY <2>1, <2>2, ZenonT(30) DEF ReportsInv
<1>9. FenceInv'
  <2>1. \A p \in Reports : /\ report[p].status # "unmade" => report'[p].status # "unmade" /\ report'[p].gen = report[p].gen
                           /\ Answered(report'[p]) => /\ Answered(report[p]) /\ report'[p].gen = report[p].gen
                                                      /\ report'[p].rev = report[p].rev
        BY ZenonT(30) DEF Answered
  <2>2. Known(cursor, report') /\ Known(saved.cursor, report')
        BY <1>2, <2>1, KnownMoves, SMTT(30) DEF FenceInv
  <2>3. Fences(cursor, report') /\ Fences(saved.cursor, report')
        BY <1>2, <2>1, FencesMoves, SMTT(30) DEF FenceInv
  <2> QED BY <1>1, <1>2, <2>2, <2>3, ZenonT(30) DEF FenceInv
<1>10. NumberInv'
  <2>1. SUFFICES ASSUME Numbered PROVE Numbered'
        BY <1>1, <1>2, ZenonT(30) DEF NumberInv
  <2>2. \A p \in Reports : \A n : Accepted(p, n)' = Accepted(p, n)
        BY ZenonT(30) DEF Accepted
  <2>3. rev' = Len(log') + 1 /\ rev' - 1 = Len(log')
        BY <1>5, <2>1, SMTT(30) DEF Numbered
  <2>4. \A i \in 1..Len(log') : log'[i].rev = i + 1
        BY <1>4, <1>5, <2>1, <2>3, ZenonT(30) DEF Numbered
  <2>5. ASSUME NEW p \in Reports
        PROVE  /\ report'[p].rev # 0 => /\ report'[p].rev - 1 \in 1..Len(log')
                                        /\ log'[report'[p].rev - 1] = Accepted(p, report'[p].rev)
               /\ p \notin taken' => report'[p].rev = 0
    <3>1. CASE p = r
          BY <1>5, <2>3, <3>1, SMTT(30) DEF e
    <3>2. CASE p # r
      <4>1. report'[p] = report[p]
            BY <3>2, ZenonT(30)
      <4>2. /\ report[p].rev # 0 => /\ report[p].rev - 1 \in 1..Len(log)
                                    /\ log[report[p].rev - 1] = Accepted(p, report[p].rev)
            /\ p \notin taken => report[p].rev = 0
            BY <2>1, ZenonT(30) DEF Numbered
      <4> QED BY <1>5, <4>1, <4>2, ZenonT(30)
    <3> QED BY <3>1, <3>2, ZenonT(30)
  <2>6. StandsIn(cursor, log') /\ StandsIn(saved.cursor, log')
        BY <1>5, <2>1, ZenonT(30) DEF Numbered
  <2> QED BY <1>1, <2>2, <2>3, <2>4, <2>5, <2>6, ZenonT(30) DEF Numbered
<1>11. AgreeInv'
  <2>1. SUFFICES ASSUME Agreeing PROVE Agreeing'
        BY <1>1, <1>2, ZenonT(30) DEF AgreeInv
  <2>2. prov.gen > 0 => e.gen >= prov.gen
    <3>1. Accepted(r, 0).gen = report[r].gen
          BY ZenonT(30) DEF Accepted
    <3> QED BY <1>4, <3>1, ZenonT(30) DEF observable
  <2>3. \A i \in 1..Len(log) : log[i].id # e.id
    <3>1. <<"provider", Len(log)>> # ObservationId(r) /\ \A i : <<"provider", i>> # ObservationId(r)
          BY ZenonT(30) DEF ObservationId
    <3>2. \A p \in taken : ObservationId(p) # ObservationId(r)
          BY ZenonT(30) DEF ObservationId
    <3> QED BY <1>4, <2>1, <3>1, <3>2, ZenonT(30) DEF Agreeing
  <2>4. log' = Append(log, e) /\ r \in taken' /\ taken \subseteq taken'
        BY ZenonT(30) DEF e
  <2> QED BY <1>1, <1>2, <1>4, <1>6, <2>1, <2>2, <2>3, <2>4, AppendAgrees, ZenonT(30)
<1> QED BY <1>7, <1>8, <1>9, <1>10, <1>11, ZenonT(30) DEF PjInv

LEMMA ObserveStep ==
  ASSUME PjInv, NEW r \in Reports, ObserveSandbox(r)
  PROVE  PjInv'
<1> DEFINE next == IF report[r].via = "rpc" THEN "accepted" ELSE "done"
<1>1. PjTypeInv /\ report[r] \in ReportRecords /\ report \in [Reports -> ReportRecords] /\ report[r].status = "waiting"
      BY ZenonT(30) DEF PjInv, PjTypeInv, ObserveSandbox
<1>2. /\ next \in {"accepted", "done"} /\ next \in Statuses /\ "refused" \in Statuses
      /\ next = "accepted" => report[r].via = "rpc"
      /\ next = "done" => report[r].via # "rpc"
      BY ZenonT(30) DEF Statuses
<1>3. UNCHANGED <<tail, projection, saved, list, spent>>
      BY ZenonT(30) DEF ObserveSandbox
<1>4. CASE r \in taken /\ report' = [report EXCEPT ![r].status = next] /\ UNCHANGED <<clock, provider>>
  <2>1. StatusOnly(r, next)
        BY <1>1, <1>2, <1>4, StatusUpdate, Zenon
  <2> HIDE DEF next
  <2> QED BY <1>1, <1>2, <1>3, <1>4, <2>1, StatusStep, ZenonT(30)
<1>5. CASE report' = [report EXCEPT ![r].status = "refused"] /\ UNCHANGED <<clock, provider>>
  <2>1. StatusOnly(r, "refused")
        BY <1>1, <1>2, <1>5, StatusUpdate, Zenon
  <2> QED BY <1>1, <1>3, <1>5, <2>1, StatusStep, ZenonT(30)
<1>6. CASE /\ r \notin taken /\ observable(prov, Accepted(r, 0))
           /\ clock' = clock + 1 /\ rev' = rev + 1
           /\ prov' = observedSandbox(prov, Accepted(r, rev'), clock')
           /\ taken' = taken \cup {r}
           /\ log' = Append(log, Accepted(r, rev'))
           /\ report' = [report EXCEPT ![r].status = next, ![r].rev = rev']
  <2>1. rev' \in Nat
        BY <1>1, <1>6, SMTT(30) DEF PjTypeInv
  <2>2. [report[r] EXCEPT !.status = next, !.rev = rev'] \in ReportRecords
        BY <1>1, <1>2, <2>1, Zenon DEF ReportRecords
  <2>3. report'[r] = [report[r] EXCEPT !.status = next, !.rev = rev'] /\ report' \in [Reports -> ReportRecords]
        /\ \A p \in Reports : p # r => report'[p] = report[p]
        BY <1>1, <1>6, <2>2, ZenonT(30)
  <2> HIDE DEF next
  <2>4. /\ report'[r].status = next /\ report'[r].via = report[r].via /\ report'[r].gen = report[r].gen
        /\ report'[r].st = report[r].st /\ report'[r].at = report[r].at /\ report'[r].rev = rev'
        BY <1>1, <1>2, <2>1, <2>3, StatusFields, SMTT(30)
  <2> QED BY <1>1, <1>2, <1>3, <1>6, <2>3, <2>4, ObservedStep, ZenonT(30)
<1> QED BY <1>4, <1>5, <1>6, ZenonT(30) DEF ObserveSandbox


\* The RPC applies its event and answers, or fails to save and is sent again.
LEMMA ProjectStep ==
  ASSUME PjInv, NEW r \in Reports, ProjectObservation(r)
  PROVE  PjInv'
<1> DEFINE e == Accepted(r, report[r].rev)
<1>1. /\ report[r].status = "accepted" /\ Project(e) /\ UNCHANGED <<clock, provider, tail, list>>
      /\ \/ /\ saved' = [box |-> box', cursor |-> cursor'] /\ UNCHANGED spent
            /\ report' = [report EXCEPT ![r].status = "done"]
         \/ /\ Spend("faults") /\ UNCHANGED saved
            /\ report' = [report EXCEPT ![r].status = "waiting"]
      BY ZenonT(30) DEF ProjectObservation, Upset
<1>2. clock' = clock /\ prov' = prov /\ rev' = rev /\ log' = log /\ taken' = taken /\ tail' = tail /\ list' = list
      BY <1>1, ZenonT(30) DEF provider
<1>3. PjTypeInv /\ ReportsInv /\ FenceInv /\ NumberInv /\ AgreeInv
      BY ZenonT(30) DEF PjInv
<1>4. /\ report[r] \in ReportRecords /\ report \in [Reports -> ReportRecords] /\ report[r].rev \in Nat
      /\ report[r].rev >= 1 /\ report[r].gen >= 1 /\ report[r].via = "rpc"
      BY <1>1, <1>3, ZenonT(30) DEF PjTypeInv, ReportsInv, ReportRecords
<1>5. e \in Events /\ e.id = ObservationId(r) /\ e.gen = report[r].gen /\ e.rev = report[r].rev
      BY <1>3, <1>4, AcceptedEvent, ZenonT(30)
<1>6. \A p \in Reports : e.id = ObservationId(p) => report[p].status # "unmade" /\ report[p].gen = e.gen
      BY <1>1, <1>5 DEF ObservationId
<1> HIDE DEF e
<1>7. Kept
      BY <1>1, <1>3, <1>4, <1>5, <1>6, ProjectKeeps, ZenonT(30)
<1>8. PICK s \in {"done", "waiting"} : StatusOnly(r, s)
  <2>1. {"done", "waiting"} \subseteq Statuses
        BY ZenonT(30) DEF Statuses
  <2> QED BY <1>1, <1>3, <2>1, StatusUpdate, ZenonT(30)
<1>9. /\ report' \in [Reports -> ReportRecords] /\ report'[r].status = s
      /\ \A p \in Reports : p # r => report'[p] = report[p]
      /\ \A p \in Reports : /\ report'[p].via = report[p].via /\ report'[p].gen = report[p].gen
                            /\ report'[p].st = report[p].st /\ report'[p].at = report[p].at
                            /\ report'[p].rev = report[p].rev
      BY <1>8, ZenonT(30) DEF StatusOnly
<1>10. /\ spent' \in [acts : Nat, resyncs : Nat, faults : Nat, crashes : Nat]
       /\ spent'.crashes = spent.crashes /\ spent'.resyncs = spent.resyncs
      BY <1>1, <1>3, SpendFacts, ZenonT(30) DEF PjTypeInv
<1>11. \/ saved' = [box |-> box', cursor |-> cursor'] /\ saved'.box = box' /\ saved'.cursor = cursor'
       \/ saved' = saved /\ report'[r].status = "waiting"
  <2>1. CASE saved' = [box |-> box', cursor |-> cursor']
        BY <2>1, ZenonT(30)
  <2>2. CASE saved' = saved /\ report' = [report EXCEPT ![r].status = "waiting"]
    <3>1. "waiting" \in Statuses
          BY ZenonT(30) DEF Statuses
    <3>2. StatusOnly(r, "waiting")
          BY <1>3, <2>2, <3>1, StatusUpdate, ZenonT(30)
    <3> QED BY <2>2, <3>2, ZenonT(30) DEF StatusOnly
  <2> QED BY <1>1, <2>1, <2>2, ZenonT(30)
<1>12. PjTypeInv'
  <2>1. saved' \in [box : Boxes, cursor : Cursors]
        BY <1>3, <1>7, <1>11, ZenonT(30) DEF PjTypeInv, Kept
  <2> QED BY <1>2, <1>3, <1>7, <1>9, <1>10, <2>1, ZenonT(30) DEF PjTypeInv, Kept
<1>13. ReportsInv'
      BY <1>1, <1>2, <1>3, <1>4, <1>9, ZenonT(30) DEF ReportsInv
<1>14. FenceInv'
  <2>1. \A p \in Reports : report[p].status # "unmade" => report'[p].status # "unmade" /\ report'[p].gen = report[p].gen
        BY <1>9, ZenonT(30)
  <2>2. Known(cursor', report')
        BY <1>7, <2>1, KnownMoves, ZenonT(30) DEF Kept
  <2>3. Fences(cursor', report')
    <3>1. SUFFICES ASSUME NEW p \in Reports, Answered(report'[p])
                   PROVE  Passed(cursor', report'[p], p)
          BY ZenonT(30) DEF Fences
    <3>2. CASE p # r
          BY <1>7, <1>9, <3>1, <3>2, ZenonT(30) DEF Kept, Fences
    <3>3. CASE p = r
      <4>1. cursor \in Cursors /\ box \in Boxes /\ Known(cursor, report)
            BY <1>3, ZenonT(30) DEF PjTypeInv, FenceInv
      <4>2. /\ acceptSandboxCursor(cursor, box, e) => Passed(nextCursor(cursor, e), report[r], r)
            /\ ~acceptSandboxCursor(cursor, box, e) => Passed(cursor, report[r], r)
            BY <1>4, <1>5, <4>1, HandledIsPassed, ZenonT(30)
      <4>3. Passed(cursor', report[r], r)
            BY <1>1, <4>2, ZenonT(30) DEF Project, projection
      <4> QED BY <1>9, <3>3, <4>3, ZenonT(30) DEF Passed
    <3> QED BY <3>2, <3>3, ZenonT(30)
  <2>4. CASE saved'.box = box' /\ saved'.cursor = cursor'
        BY <1>7, <2>2, <2>3, <2>4, ZenonT(30) DEF FenceInv, Kept
  <2>5. CASE saved' = saved /\ report'[r].status = "waiting"
    <3>1. \A p \in Reports : Answered(report'[p]) => /\ Answered(report[p]) /\ report'[p].gen = report[p].gen
                                                     /\ report'[p].rev = report[p].rev
          BY <1>9, <2>5, ZenonT(30) DEF Answered
    <3>2. Known(saved.cursor, report')
          BY <1>3, <2>1, KnownMoves, ZenonT(30) DEF FenceInv
    <3>3. Fences(saved.cursor, report')
          BY <1>3, <3>1, FencesMoves, ZenonT(30) DEF FenceInv
    <3> QED BY <1>3, <1>7, <2>2, <2>3, <2>5, <3>2, <3>3, ZenonT(30) DEF FenceInv, Kept
  <2> QED BY <1>11, <2>4, <2>5, ZenonT(30)
<1>15. Numbered => report[r].rev - 1 \in 1..Len(log) /\ e = log[report[r].rev - 1]
      BY <1>4, AboveZero, ZenonT(30) DEF Numbered, e
<1>16. NumberInv'
  <2>1. SUFFICES ASSUME Numbered PROVE Numbered'
        BY <1>3, <1>10, ZenonT(30) DEF NumberInv
  <2>2. StandsIn(cursor', log)
        BY <1>1, <1>3, <1>15, <2>1, ProjectStands, ZenonT(30)
  <2>3. StandsIn(saved'.cursor, log)
        BY <1>11, <2>1, <2>2, ZenonT(30) DEF Numbered
  <2>4. \A p \in Reports : \A n : Accepted(p, n)' = Accepted(p, n)
        BY <1>9, ZenonT(30) DEF Accepted
  <2>5. ASSUME NEW p \in Reports
        PROVE  /\ report'[p].rev # 0 => /\ report'[p].rev - 1 \in 1..Len(log)
                                        /\ log[report'[p].rev - 1] = Accepted(p, report'[p].rev)
               /\ p \notin taken => report'[p].rev = 0
        BY <1>9, <2>1, ZenonT(30) DEF Numbered
  <2> QED BY <1>2, <2>1, <2>2, <2>3, <2>4, <2>5, ZenonT(30) DEF Numbered
<1>17. AgreeInv'
  <2>1. SUFFICES ASSUME Agreeing, Numbered PROVE Agreeing'
        BY <1>3, <1>10, ZenonT(30) DEF AgreeInv, NumberInv
  <2>2. cursor'.gen > 0 /\ At(cursor', box', log, cursor'.rev - 1) /\ tail <= cursor'.rev - 1
        BY <1>1, <1>3, <1>15, <2>1, ProjectAgreement, ZenonT(30)
  <2>3. cursor'.gen # 0
        BY <2>2
  <2> QED BY <1>2, <2>1, <2>2, <2>3, ZenonT(30) DEF Agreeing
<1> QED BY <1>12, <1>13, <1>14, <1>16, <1>17, ZenonT(30) DEF PjInv


\* The provider applies an action of a plan.
LEMMA ActionStep ==
  ASSUME PjInv, executeAction
  PROVE  PjInv'
<1>1. PICK outcome \in Outcomes :
        /\ Spend("acts") /\ clock' = clock + 1 /\ rev' = rev + 1
        /\ prov' = [prov EXCEPT !.gen = outcome.gen, !.st = outcome.st, !.at = clock']
        /\ log' = Append(log, [id |-> <<"provider", Len(log) + 1>>, gen |-> outcome.gen,
                               rev |-> rev', st |-> outcome.st, at |-> clock',
                               disp |-> prov.disp, run |-> "unnamed"])
        /\ UNCHANGED <<taken, tail, report, projection, saved, list>>
      BY Zenon DEF executeAction
<1> DEFINE e == [id |-> <<"provider", Len(log) + 1>>, gen |-> outcome.gen, rev |-> rev', st |-> outcome.st,
                 at |-> clock', disp |-> prov.disp, run |-> "unnamed"]
<1>2. /\ taken' = taken /\ tail' = tail /\ report' = report /\ box' = box /\ cursor' = cursor
      /\ saved' = saved /\ list' = list
      BY <1>1, ZenonT(30) DEF projection
<1>3. PjTypeInv /\ ReportsInv /\ FenceInv /\ NumberInv /\ AgreeInv
      BY ZenonT(30) DEF PjInv
<1>4. /\ outcome.gen \in Gens /\ outcome.gen \in Nat /\ outcome.gen >= 1 /\ outcome.st \in States
      /\ prov.gen > 0 => outcome.gen >= prov.gen
  <2>1. prov.gen \in 0..MaxGeneration /\ MaxGeneration \in Nat \ {0}
        BY <1>3, ProjectionAssumption, ZenonT(30) DEF PjTypeInv, Boxes, Gens
  <2>2. \/ outcome = [gen |-> 1, st |-> "BOUND"] /\ prov.gen = 0
        \/ outcome = [gen |-> prov.gen, st |-> "PAUSED"] /\ prov.gen > 0
        \/ outcome = [gen |-> prov.gen, st |-> "RUNNING"] /\ prov.gen > 0
        \/ outcome = [gen |-> prov.gen, st |-> "TERMINATED"] /\ prov.gen > 0
        \/ outcome = [gen |-> prov.gen + 1, st |-> "BOUND"] /\ prov.gen \in 1..(MaxGeneration - 1)
        BY ZenonT(30) DEF Outcomes
  <2> QED BY <2>1, <2>2 DEF Gens, States
<1>5. rev' \in Nat /\ rev' >= 1 /\ rev' # 0 /\ clock' \in Nat
      BY <1>1, <1>3, AboveZero, ZenonT(30) DEF PjTypeInv
<1>6. Len(log) \in Nat /\ prov \in Boxes
      BY <1>3 DEF PjTypeInv
<1>7. e \in Events /\ e.id = <<"provider", Len(log) + 1>> /\ e.gen = outcome.gen /\ e.rev = rev' /\ e.st = outcome.st
      BY <1>4, <1>5, <1>6 DEF Events, Ids, Boxes, Names
<1>8. log' = Append(log, e)
      BY <1>1, ZenonT(30)
<1> HIDE DEF e
<1>9. /\ log' \in Seq(Events) /\ Len(log) \in Nat /\ Len(log') = Len(log) + 1 /\ log'[Len(log) + 1] = e
      /\ \A i \in 1..Len(log) : log'[i] = log[i] /\ i \in 1..Len(log')
      /\ \A i \in 1..Len(log') : i \in 1..Len(log) \/ i = Len(log) + 1
      /\ \A c : StandsIn(c, log) => StandsIn(c, log')
      BY <1>3, <1>7, <1>8, AppendFacts, ZenonT(30)
<1>10. prov' \in Boxes /\ prov'.gen = e.gen /\ prov'.st = e.st
      BY <1>1, <1>4, <1>5, <1>6, <1>7, Zenon DEF Boxes
<1>11. /\ spent' \in [acts : Nat, resyncs : Nat, faults : Nat, crashes : Nat]
       /\ spent'.crashes = spent.crashes /\ spent'.resyncs = spent.resyncs
      BY <1>1, <1>3, SpendFacts, ZenonT(30)
<1>12. \A r \in Reports : e.id # ObservationId(r)
      BY <1>7, SMTT(30) DEF ObservationId
<1>13. PjTypeInv'
      BY <1>2, <1>3, <1>5, <1>9, <1>10, <1>11, SMTT(30) DEF PjTypeInv
<1>14. ReportsInv'
  <2>1. ASSUME NEW i \in 1..Len(log')
        PROVE  /\ log'[i].gen >= 1 /\ log'[i].rev >= 1
               /\ \A p \in Reports : log'[i].id = ObservationId(p) =>
                                       report[p].status # "unmade" /\ log'[i].gen = report[p].gen
    <3>1. CASE i \in 1..Len(log)
          BY <1>3, <1>9, <3>1, ZenonT(30) DEF ReportsInv
    <3>2. CASE i = Len(log) + 1
          BY <1>4, <1>5, <1>7, <1>9, <1>12, <3>2, ZenonT(30)
    <3> QED BY <1>9, <3>1, <3>2, ZenonT(30)
  <2> QED BY <1>2, <1>3, <2>1, ZenonT(30) DEF ReportsInv
<1>15. FenceInv'
      BY <1>2, <1>3, ZenonT(30) DEF FenceInv
<1>16. NumberInv'
  <2>1. SUFFICES ASSUME Numbered PROVE Numbered'
        BY <1>11, <1>3, ZenonT(30) DEF NumberInv
  <2>2. \A p \in Reports : \A n : Accepted(p, n)' = Accepted(p, n)
        BY <1>2, ZenonT(30) DEF Accepted
  <2>3. rev' = Len(log') + 1
        BY <1>1, <1>9, <2>1, ZenonT(30) DEF Numbered
  <2>4. \A i \in 1..Len(log') : log'[i].rev = i + 1
        BY <1>7, <1>9, <2>1, <2>3, ZenonT(30) DEF Numbered
  <2>5. ASSUME NEW p \in Reports
        PROVE  /\ report[p].rev # 0 => /\ report[p].rev - 1 \in 1..Len(log')
                                       /\ log'[report[p].rev - 1] = Accepted(p, report[p].rev)
               /\ p \notin taken => report[p].rev = 0
        BY <1>9, <2>1, ZenonT(30) DEF Numbered
  <2>6. StandsIn(cursor, log') /\ StandsIn(saved.cursor, log')
        BY <1>9, <2>1, ZenonT(30) DEF Numbered
  <2> QED BY <1>2, <2>2, <2>3, <2>4, <2>5, <2>6, ZenonT(30) DEF Numbered
<1>17. AgreeInv'
  <2>1. SUFFICES ASSUME Agreeing PROVE Agreeing'
        BY <1>11, <1>3, ZenonT(30) DEF AgreeInv
  <2>2. \A i \in 1..Len(log) : log[i].id # e.id
    <3>1. \A i \in 1..Len(log) : <<"provider", i>> # <<"provider", Len(log) + 1>>
          BY <1>6
    <3>2. \A p \in taken : ObservationId(p) # e.id
          BY <1>3, <1>12, ZenonT(30) DEF PjTypeInv
    <3> QED BY <1>7, <2>1, <3>1, <3>2, Zenon DEF Agreeing
  <2>3. e.gen >= 1 /\ (prov.gen > 0 => e.gen >= prov.gen) /\ taken \subseteq taken'
        BY <1>2, <1>4, <1>7, ZenonT(30)
  <2> QED BY <1>2, <1>3, <1>7, <1>8, <1>10, <2>1, <2>2, <2>3, AppendAgrees, ZenonT(30)
<1> QED BY <1>13, <1>14, <1>15, <1>16, <1>17, ZenonT(30) DEF PjInv


\* The watch delivers the next event of the log.
LEMMA DeliverStep ==
  ASSUME PjInv, Deliver
  PROVE  PjInv'
<1> DEFINE i == tail + 1
<1>1. /\ tail < Len(log) /\ tail' = tail + 1 /\ Project(log[i])
      /\ UNCHANGED <<clock, provider, report, saved, list, spent>>
      BY ZenonT(30) DEF Deliver
<1>2. /\ clock' = clock /\ prov' = prov /\ rev' = rev /\ log' = log /\ taken' = taken
      /\ report' = report /\ saved' = saved /\ list' = list /\ spent' = spent
      BY <1>1, ZenonT(30) DEF provider
<1>3. PjTypeInv /\ ReportsInv /\ FenceInv /\ NumberInv /\ AgreeInv
      BY ZenonT(30) DEF PjInv
<1>4. Len(log) \in Nat /\ tail \in Nat /\ i \in 1..Len(log) /\ tail' \in 0..Len(log)
      BY <1>1, <1>3, SMTT(30) DEF PjTypeInv
<1> HIDE DEF i
<1>5. Kept
      BY <1>1, <1>3, <1>4, LogEvents, ProjectKeeps, ZenonT(30)
<1>6. PjTypeInv'
      BY <1>2, <1>3, <1>4, <1>5, ZenonT(30) DEF PjTypeInv, Kept
<1>7. ReportsInv'
      BY <1>2, <1>3, ZenonT(30) DEF ReportsInv
<1>8. FenceInv'
      BY <1>2, <1>3, <1>5, ZenonT(30) DEF FenceInv, Kept
<1>9. NumberInv'
  <2>1. SUFFICES ASSUME Numbered PROVE Numbered'
        BY <1>2, <1>3, ZenonT(30) DEF NumberInv
  <2>2. StandsIn(cursor', log)
        BY <1>1, <1>3, <1>4, <2>1, ProjectStands, ZenonT(30)
  <2>3. \A p \in Reports : \A n : Accepted(p, n)' = Accepted(p, n)
        BY <1>2, ZenonT(30) DEF Accepted
  <2> QED BY <1>2, <2>1, <2>2, <2>3, ZenonT(30) DEF Numbered
<1>10. AgreeInv'
  <2>1. SUFFICES ASSUME Agreeing, Numbered PROVE Agreeing'
        BY <1>2, <1>3, ZenonT(30) DEF AgreeInv, NumberInv
  <2>2. cursor'.gen > 0 /\ At(cursor', box', log, cursor'.rev - 1) /\ i <= cursor'.rev - 1
        BY <1>1, <1>3, <1>4, <2>1, ProjectAgreement, ZenonT(30)
  <2>3. cursor'.gen # 0 /\ tail' <= cursor'.rev - 1
        BY <1>1, <2>2 DEF i
  <2> QED BY <1>2, <2>1, <2>2, <2>3, ZenonT(30) DEF Agreeing
<1> QED BY <1>6, <1>7, <1>8, <1>9, <1>10, ZenonT(30) DEF PjInv

\* Other work of the scheduler checkpoints the Store.
LEMMA CheckpointStep ==
  ASSUME PjInv, Checkpoint
  PROVE  PjInv'
<1>1. saved' = Durable /\ UNCHANGED <<clock, provider, tail, report, projection, list, spent>>
      BY ZenonT(30) DEF Checkpoint
<1>2. /\ clock' = clock /\ prov' = prov /\ rev' = rev /\ log' = log /\ taken' = taken /\ tail' = tail
      /\ report' = report /\ box' = box /\ cursor' = cursor /\ list' = list /\ spent' = spent
      BY <1>1, ZenonT(30) DEF provider, projection
<1>3. PjTypeInv /\ ReportsInv /\ FenceInv /\ NumberInv /\ AgreeInv
      BY ZenonT(30) DEF PjInv
<1>4. saved'.box = box /\ saved'.cursor = cursor /\ saved' \in [box : Boxes, cursor : Cursors]
      BY <1>1, <1>3, ZenonT(30) DEF Durable, PjTypeInv
<1>5. PjTypeInv' /\ ReportsInv'
      BY <1>2, <1>3, <1>4, ZenonT(30) DEF PjTypeInv, ReportsInv
<1>6. FenceInv'
      BY <1>2, <1>3, <1>4, ZenonT(30) DEF FenceInv
<1>7. NumberInv'
  <2>1. \A p \in Reports : \A n : Accepted(p, n)' = Accepted(p, n)
        BY <1>2, ZenonT(30) DEF Accepted
  <2> QED BY <1>2, <1>3, <1>4, <2>1, ZenonT(30) DEF NumberInv, Numbered
<1>8. AgreeInv'
      BY <1>2, <1>3, ZenonT(30) DEF AgreeInv, Agreeing
<1> QED BY <1>5, <1>6, <1>7, <1>8, ZenonT(30) DEF PjInv

\* A repair reads the provider's list.
LEMMA ListStep ==
  ASSUME PjInv, ListSandboxes
  PROVE  PjInv'
<1>1. Spend("resyncs") /\ UNCHANGED <<clock, provider, tail, report, projection, saved>>
      BY ZenonT(30) DEF ListSandboxes, Upset
<1>2. PICK loop \in {"resource", "sandbox"} : list' = [read |-> loop, entry |-> prov]
      BY ZenonT(30) DEF ListSandboxes
<1>3. /\ clock' = clock /\ prov' = prov /\ rev' = rev /\ log' = log /\ taken' = taken /\ tail' = tail
      /\ report' = report /\ box' = box /\ cursor' = cursor /\ saved' = saved
      BY <1>1, ZenonT(30) DEF provider, projection
<1>4. PjTypeInv /\ ReportsInv /\ FenceInv /\ NumberInv
      BY ZenonT(30) DEF PjInv
<1>5. /\ spent' \in [acts : Nat, resyncs : Nat, faults : Nat, crashes : Nat]
      /\ spent'.crashes = spent.crashes /\ spent'.resyncs > 0
      BY <1>1, <1>4, SpendFacts, ZenonT(30)
<1>6. PjTypeInv' /\ ReportsInv' /\ FenceInv'
      BY <1>2, <1>3, <1>4, <1>5, ZenonT(30) DEF PjTypeInv, ReportsInv, FenceInv
<1>7. NumberInv'
  <2>1. \A p \in Reports : \A n : Accepted(p, n)' = Accepted(p, n)
        BY <1>3, ZenonT(30) DEF Accepted
  <2> QED BY <1>3, <1>4, <1>5, <2>1, ZenonT(30) DEF NumberInv, Numbered
<1>8. AgreeInv'
      BY <1>5, SMTT(30) DEF AgreeInv
<1> QED BY <1>6, <1>7, <1>8, ZenonT(30) DEF PjInv

\* A repair applies what it read, and saves it, or fails to.
LEMMA RepairStep ==
  ASSUME PjInv, ReplaceProjectedSandboxes
  PROVE  PjInv'
<1>1. /\ list.read # "no" /\ UNCHANGED <<clock, provider, report>>
      /\ \/ /\ Replace(list.entry) /\ UNCHANGED spent /\ list' = NoList
            /\ saved' = IF box' # box THEN [box |-> box', cursor |-> cursor'] ELSE saved
            /\ tail' = IF list.read = "resource" THEN tail ELSE 0
         \/ Replace(list.entry) /\ Spend("faults") /\ list' = NoList /\ UNCHANGED <<saved, tail>>
         \/ UNCHANGED <<projection, saved, list, tail>> /\ Spend("faults")
      BY ZenonT(30) DEF ReplaceProjectedSandboxes, Upset
<1>2. /\ clock' = clock /\ prov' = prov /\ rev' = rev /\ log' = log /\ taken' = taken /\ report' = report
      BY <1>1, ZenonT(30) DEF provider
<1>3. PjTypeInv /\ ReportsInv /\ FenceInv /\ NumberInv /\ AgreeInv
      BY ZenonT(30) DEF PjInv
<1>4. /\ spent' \in [acts : Nat, resyncs : Nat, faults : Nat, crashes : Nat]
      /\ spent'.crashes = spent.crashes /\ spent'.resyncs = spent.resyncs
      BY <1>1, <1>3, SpendFacts, ZenonT(30) DEF PjTypeInv
<1>5. Kept /\ (StandsIn(cursor, log) => StandsIn(cursor', log))
  <2>1. CASE UNCHANGED projection
        BY <1>3, <2>1, KeptUnchanged, ZenonT(30) DEF projection
  <2>2. CASE Replace(list.entry)
    <3>1. list.entry \in Boxes
          BY <1>3, ZenonT(30) DEF PjTypeInv
    <3> QED BY <1>3, <2>2, <3>1, ReplaceKeeps, ZenonT(30)
  <2> QED BY <1>1, <2>1, <2>2, ZenonT(30)
<1>6. \/ saved' = [box |-> box', cursor |-> cursor'] /\ saved'.box = box' /\ saved'.cursor = cursor'
      \/ saved' = saved
      BY <1>1, SMTT(30)
<1>7. saved' \in [box : Boxes, cursor : Cursors]
      BY <1>3, <1>5, <1>6, ZenonT(30) DEF PjTypeInv, Kept
<1>8. list' \in {NoList, list} /\ NoList \in [read : {"no", "resource", "sandbox", "startup"}, entry : Boxes]
  <2>1. NoSandbox \in Boxes
        BY ProjectionAssumption DEF NoSandbox, Boxes, Gens, States, Dispositions, Names
  <2> QED BY <1>1, <2>1, ZenonT(30) DEF NoList
<1>9. tail' \in {tail, 0}
      BY <1>1, ZenonT(30)
<1>10. PjTypeInv'
  <2>1. tail' \in 0..Len(log)
        BY <1>3, <1>9, SMTT(30) DEF PjTypeInv
  <2> QED BY <1>2, <1>3, <1>4, <1>5, <1>7, <1>8, <2>1, ZenonT(30) DEF PjTypeInv, Kept
<1>11. ReportsInv'
      BY <1>2, <1>3, ZenonT(30) DEF ReportsInv
<1>12. FenceInv'
      BY <1>2, <1>3, <1>5, <1>6, ZenonT(30) DEF FenceInv, Kept
<1>13. NumberInv'
  <2>1. SUFFICES ASSUME Numbered PROVE Numbered'
        BY <1>3, <1>4, ZenonT(30) DEF NumberInv
  <2>2. StandsIn(cursor', log) /\ StandsIn(saved'.cursor, log)
        BY <1>5, <1>6, <2>1, ZenonT(30) DEF Numbered
  <2>3. \A p \in Reports : \A n : Accepted(p, n)' = Accepted(p, n)
        BY <1>2, ZenonT(30) DEF Accepted
  <2> QED BY <1>2, <2>1, <2>2, <2>3, ZenonT(30) DEF Numbered
<1>14. AgreeInv'
  <2>1. ~Agreeing
        BY <1>1, SMTT(30) DEF Agreeing, NoList
  <2> QED BY <1>3, <1>4, <2>1, ZenonT(30) DEF AgreeInv
<1> QED BY <1>10, <1>11, <1>12, <1>13, <1>14, ZenonT(30) DEF PjInv


\* The scheduler restarts: the durable projection becomes the projection, and the
\* provider's log and revisions start over.
LEMMA RestartStep ==
  ASSUME PjInv, Crash
  PROVE  PjInv'
<1>1. /\ Spend("crashes") /\ clock' = clock + 1 /\ rev' = 1 /\ log' = <<>> /\ taken' = {} /\ tail' = 0
      /\ box' = saved.box /\ cursor' = saved.cursor /\ saved' = saved /\ list' = [read |-> "startup", entry |-> prov']
      BY ZenonT(30) DEF Crash, Upset
<1>2. PjTypeInv /\ ReportsInv /\ FenceInv
      BY ZenonT(30) DEF PjInv
<1>3. /\ spent' \in [acts : Nat, resyncs : Nat, faults : Nat, crashes : Nat] /\ spent'.crashes > 0
      BY <1>1, <1>2, SpendFacts, ZenonT(30)
<1>4. clock' \in Nat
      BY <1>1, <1>2 DEF PjTypeInv
<1>5. prov' \in Boxes
  <2>1. NoSandbox \in Boxes
        BY ProjectionAssumption DEF NoSandbox, Boxes, Gens, States, Dispositions, Names
  <2>2. [NoSandbox EXCEPT !.gen = prov.gen, !.st = "BOUND", !.at = clock'] \in Boxes
        BY <1>2, <1>4, <2>1, Zenon DEF PjTypeInv, Boxes, States
  <2>3. prov' \in {NoSandbox, [NoSandbox EXCEPT !.gen = prov.gen, !.st = "BOUND", !.at = clock']}
        BY ZenonT(30) DEF Crash
  <2> QED BY <2>1, <2>2, <2>3, ZenonT(30)
<1>6. \A p \in Reports : /\ report'[p] \in ReportRecords
                         /\ report'[p].via = report[p].via /\ report'[p].gen = report[p].gen
                         /\ report'[p].rev = report[p].rev
                         /\ report'[p].status = report[p].status
                              \/ (report[p].status = "accepted" /\ report'[p].status = "waiting")
                         /\ report'[p].status # "accepted"
  <2>1. SUFFICES ASSUME NEW p \in Reports
                 PROVE  /\ report'[p] \in ReportRecords
                        /\ report'[p].via = report[p].via /\ report'[p].gen = report[p].gen
                        /\ report'[p].rev = report[p].rev
                        /\ report'[p].status = report[p].status
                             \/ (report[p].status = "accepted" /\ report'[p].status = "waiting")
                        /\ report'[p].status # "accepted"
        BY ZenonT(30)
  <2> DEFINE again == [report[p] EXCEPT !.status = "waiting"]
  <2>2. report'[p] = IF report[p].status = "accepted" THEN again ELSE report[p]
        BY ZenonT(30) DEF Crash
  <2>3. report[p] \in ReportRecords
        BY <1>2, ZenonT(30) DEF PjTypeInv
  <2>4. /\ again \in ReportRecords /\ again.status = "waiting" /\ again.via = report[p].via
        /\ again.gen = report[p].gen /\ again.rev = report[p].rev
        BY <2>3, ZenonT(30) DEF ReportRecords, Statuses
  <2> HIDE DEF again
  <2> QED BY <2>2, <2>3, <2>4, ZenonT(30)
<1>7. report' \in [Reports -> ReportRecords]
  <2>1. \E f : report' = [r \in Reports |-> f[r]]
    <3>1. report' = [r \in Reports |-> report'[r]]
          BY ZenonT(30) DEF Crash
    <3> QED BY <3>1, ZenonT(30)
  <2> QED BY <1>6, <2>1, ZenonT(30)
<1>8. PjTypeInv'
  <2>1. /\ saved.box \in Boxes /\ saved.cursor \in Cursors
        /\ saved' \in [box : Boxes, cursor : Cursors]
        BY <1>1, <1>2, ZenonT(30) DEF PjTypeInv
  <2>2. list' \in [read : {"no", "resource", "sandbox", "startup"}, entry : Boxes]
        BY <1>1, <1>5, ZenonT(30)
  <2>3. log' \in Seq(Events) /\ tail' \in 0..Len(log') /\ taken' \in SUBSET Reports /\ rev' \in Nat \ {0}
        BY <1>1, SMTT(30)
  <2> QED BY <1>1, <1>3, <1>4, <1>5, <1>7, <2>1, <2>2, <2>3, ZenonT(30) DEF PjTypeInv
<1>9. ReportsInv'
  <2>1. \A i \in 1..Len(log') : FALSE
        BY <1>1, SMTT(30)
  <2> QED BY <1>1, <1>2, <1>6, <2>1, ZenonT(30) DEF ReportsInv
<1>10. FenceInv'
  <2>1. \A p \in Reports : /\ report[p].status # "unmade" => report'[p].status # "unmade" /\ report'[p].gen = report[p].gen
                           /\ Answered(report'[p]) => /\ Answered(report[p]) /\ report'[p].gen = report[p].gen
                                                      /\ report'[p].rev = report[p].rev
        BY <1>6, ZenonT(30) DEF Answered
  <2>2. Known(saved.cursor, report')
        BY <1>2, <2>1, KnownMoves, SMTT(30) DEF FenceInv
  <2>3. Fences(saved.cursor, report')
        BY <1>2, <2>1, FencesMoves, SMTT(30) DEF FenceInv
  <2> QED BY <1>1, <1>2, <2>2, <2>3, ZenonT(30) DEF FenceInv
<1>11. NumberInv' /\ AgreeInv'
      BY <1>3 DEF NumberInv, AgreeInv
<1> QED BY <1>8, <1>9, <1>10, <1>11, ZenonT(30) DEF PjInv

LEMMA ProjectionStep == PjInv /\ [Next]_vars => PjInv'
<1> SUFFICES ASSUME PjInv, [Next]_vars PROVE PjInv'
    BY ZenonT(30)
<1>1. CASE UNCHANGED vars
  <2>1. /\ clock' = clock /\ prov' = prov /\ rev' = rev /\ log' = log /\ taken' = taken /\ tail' = tail /\ saved' = saved
        /\ report' = report /\ box' = box /\ cursor' = cursor /\ list' = list /\ spent' = spent
        BY <1>1, ZenonT(30) DEF vars
  <2>2. \A p \in Reports : \A n : Accepted(p, n)' = Accepted(p, n)
        BY <2>1, ZenonT(30) DEF Accepted
  <2>3. PjTypeInv' /\ ReportsInv' /\ FenceInv'
        BY <2>1, ZenonT(30) DEF PjInv, PjTypeInv, ReportsInv, FenceInv
  <2>4. NumberInv' /\ AgreeInv'
        BY <2>1, <2>2, ZenonT(30) DEF PjInv, NumberInv, Numbered, AgreeInv, Agreeing
  <2> QED BY <2>3, <2>4, ZenonT(30) DEF PjInv
<1>2. ASSUME NEW r \in Reports, Report(r) \/ ObserveSandbox(r) \/ ProjectObservation(r)
      PROVE  PjInv'
      BY <1>2, ReportStep, ObserveStep, ProjectStep, ZenonT(30)
<1>3. CASE executeAction
      BY <1>3, ActionStep, ZenonT(30)
<1>4. CASE Deliver
      BY <1>4, DeliverStep, ZenonT(30)
<1>5. CASE Checkpoint
      BY <1>5, CheckpointStep, ZenonT(30)
<1>6. CASE ListSandboxes
      BY <1>6, ListStep, ZenonT(30)
<1>7. CASE ReplaceProjectedSandboxes
      BY <1>7, RepairStep, ZenonT(30)
<1>8. CASE Crash
      BY <1>8, RestartStep, ZenonT(30)
<1> QED BY <1>1, <1>2, <1>3, <1>4, <1>5, <1>6, <1>7, <1>8, ZenonT(30) DEF Next

\* What the projection's steps rest on holds in every behaviour, for every number of
\* reports, generations, repairs, failed checkpoints and restarts.
THEOREM ProjectionInvariant == Spec => []PjInv
<1> QED BY ProjectionInit, ProjectionStep, PTL DEF Spec


-----------------------------------------------------------------------------
(* What follows. *)

\* Every variable has its type and no cursor trails the sandbox it is the cursor of, so
\* Restore never refuses the projection it finds (validateAndRestoreProviderProjection).
THEOREM ProjectionTypeCorrect == Spec => []ProjectionTypeOK
<1>1. PjInv => ProjectionTypeOK
  <2> SUFFICES ASSUME PjInv PROVE ProjectionTypeOK
      BY ZenonT(30)
  <2>1. PjTypeInv /\ box.gen <= cursor.gen /\ saved.box.gen <= saved.cursor.gen
        BY ZenonT(30) DEF PjInv, FenceInv
  <2>2. \A b \in {prov, box, saved.box, list.entry} : b \in Boxes
        BY <2>1, ZenonT(30) DEF PjTypeInv
  <2>3. \A b \in Boxes : b.gen \in 0..MaxGeneration /\ b.st \in States /\ b.disp \in Dispositions
        BY ZenonT(30) DEF Boxes, Gens
  <2>4. rev \in Nat \ {0} /\ tail \in 0..Len(log) /\ cursor.gen \in 0..MaxGeneration
        BY <2>1, ZenonT(30) DEF PjTypeInv, Cursors, Gens
  <2>5. \A r \in Reports : report[r].status \in {"unmade", "waiting", "accepted", "done", "refused"}
        BY <2>1, ZenonT(30) DEF PjTypeInv, ReportRecords, Statuses
  <2> QED BY <2>1, <2>2, <2>3, <2>4, <2>5, ZenonT(30) DEF ProjectionTypeOK
<1> QED BY <1>1, ProjectionInvariant, PTL

\* An observation whose RPC was answered is fenced by the cursor a crash would restore:
\* ObserveSandbox answers only after a checkpoint that is past the observation, and no
\* event, repair, failed checkpoint or restart brings an earlier cursor back. A revision
\* that a restarted provider used again is the one exception.
THEOREM AcknowledgedAlwaysSettled == Spec => []AcknowledgedIsSettled
<1>1. PjInv => AcknowledgedIsSettled
  <2>1. SUFFICES ASSUME PjInv, NEW r \in Reports, report[r].status = "done", report[r].via = "rpc",
                        acceptSandboxCursor(saved.cursor, saved.box, Accepted(r, report[r].rev))
                 PROVE  /\ spent.crashes > 0
                        /\ saved.cursor.gen = report[r].gen /\ saved.cursor.rev = report[r].rev
        BY ZenonT(30) DEF AcknowledgedIsSettled
  <2> DEFINE c == saved.cursor
             e == Accepted(r, report[r].rev)
  <2>2. PjTypeInv /\ ReportsInv /\ FenceInv /\ NumberInv
        BY <2>1, ZenonT(30) DEF PjInv
  <2>3. /\ c \in Cursors /\ c.gen \in Nat /\ c.rev \in Nat /\ report[r].gen \in Nat /\ report[r].rev \in Nat
        /\ report[r].rev >= 1 /\ report[r].gen >= 1 /\ spent.crashes \in Nat
    <3>1. c \in Cursors /\ spent.crashes \in Nat
          BY <2>2, ZenonT(30) DEF PjTypeInv
    <3>2. c.gen \in Nat /\ c.rev \in Nat
          BY <3>1, ProjectionAssumption DEF Cursors, Gens
    <3>3. report[r] \in ReportRecords
          BY <2>2, Zenon DEF PjTypeInv
    <3>4. report[r].rev \in Nat /\ report[r].gen \in Gens
          BY <3>3, ZenonT(30) DEF ReportRecords
    <3>5. report[r].rev >= 1 /\ report[r].gen >= 1
          BY <2>1, <2>2, ZenonT(30) DEF ReportsInv
    <3> QED BY <3>1, <3>2, <3>4, <3>5, ProjectionAssumption DEF Gens
  <2>4. e.id = ObservationId(r) /\ e.gen = report[r].gen /\ e.rev = report[r].rev
        BY <2>2, <2>3, AcceptedEvent, ZenonT(30)
  <2>5. Passed(c, report[r], r)
        BY <2>1, <2>2, ZenonT(30) DEF FenceInv, Fences, Answered
  <2>6. acceptSandboxCursor(c, saved.box, e)
        BY <2>1, ZenonT(30)
  <2> HIDE DEF c, e
  <2>7. c.gen = e.gen /\ ObservationId(r) \notin c.seen /\ c.rev >= e.rev
        BY <2>3, <2>4, <2>5, <2>6, SMTT(30) DEF Passed, acceptSandboxCursor, duplicateSandboxEvent
  <2>8. c.rev = e.rev
        BY <2>3, <2>4, <2>6, <2>7, SMTT(30) DEF acceptSandboxCursor, acceptSameGenerationSandboxEvent
  <2>9. spent.crashes # 0
    <3>1. SUFFICES ASSUME Numbered PROVE FALSE
          BY <2>2, ZenonT(30) DEF NumberInv
    <3>2. log[report[r].rev - 1] = e
          BY <2>3, <3>1, AboveZero, ZenonT(30) DEF Numbered, e
    <3>3. log[c.rev - 1].id \in c.seen
          BY <2>3, <2>4, <2>7, <2>8, <3>1, SMTT(30) DEF Numbered, StandsIn, c
    <3> QED BY <2>4, <2>7, <2>8, <3>2, <3>3, ZenonT(30)
  <2> QED BY <2>3, <2>4, <2>7, <2>8, <2>9, SMTT(30) DEF c
<1> QED BY <1>1, ProjectionInvariant, PTL

\* Once everything the provider published is delivered the Store has the sandbox as the
\* provider has it, in whatever order RPC and watch applied the events and whichever
\* checkpoints failed, until a first repair or restart.
THEOREM ProjectionAlwaysAgrees == Spec => []ProjectionAgrees
<1>1. PjInv => ProjectionAgrees
  <2>1. SUFFICES ASSUME PjInv, Quiet, spent.resyncs = 0, spent.crashes = 0
                 PROVE  box.gen = prov.gen /\ (prov.gen > 0 => box.st = prov.st)
        BY ZenonT(30) DEF ProjectionAgrees
  <2>2. PjTypeInv /\ Agreeing /\ tail = Len(log)
        BY <2>1, ZenonT(30) DEF PjInv, AgreeInv, Quiet
  <2>3. Len(log) \in Nat /\ cursor.gen \in Nat /\ cursor.rev \in Nat
        BY <2>2, ProjectionAssumption, SMTT(30) DEF PjTypeInv, Cursors, Gens
  <2>4. CASE cursor.gen = 0
        BY <2>2, <2>4, SMTT(30) DEF Agreeing
  <2>5. CASE cursor.gen > 0
    <3>1. cursor.rev - 1 = Len(log) /\ Len(log) > 0
          BY <2>2, <2>3, <2>5, SMTT(30) DEF Agreeing, At
    <3>2. box.gen = log[Len(log)].gen /\ box.st = log[Len(log)].st
          BY <2>2, <2>5, <3>1, ZenonT(30) DEF Agreeing, At
    <3> QED BY <2>2, <3>1, <3>2, ZenonT(30) DEF Agreeing
  <2> QED BY <2>3, <2>4, <2>5, SMTT(30)
<1> QED BY <1>1, ProjectionInvariant, PTL

\* The Store never projects a generation older than any it has seen, whatever the RPC,
\* the watch and the repairs bring late or twice; only a restart goes back, to the
\* checkpoint.
THEOREM ProjectionNeverGoesBack == Spec => ProjectionAdvances
<1>1. ASSUME PjInv, [Next]_vars, spent'.crashes = spent.crashes
      PROVE  /\ cursor'.gen >= cursor.gen
             /\ box' # box /\ box'.gen > 0 => box'.gen >= cursor.gen
  <2>1. PjTypeInv /\ ReportsInv /\ FenceInv
        BY <1>1, ZenonT(30) DEF PjInv
  <2>2. SUFFICES Kept
        BY ZenonT(30) DEF Kept
  <2>3. CASE UNCHANGED projection
        BY <2>1, <2>3, KeptUnchanged, ZenonT(30)
  <2>4. ASSUME NEW r \in Reports, ProjectObservation(r)
        PROVE  Kept
    <3>1. report[r].status = "accepted" /\ Project(Accepted(r, report[r].rev))
          BY <2>4, ZenonT(30) DEF ProjectObservation
    <3>2. report[r].rev \in Nat /\ report[r].gen >= 1
          BY <2>1, <3>1, ZenonT(30) DEF PjTypeInv, ReportsInv, ReportRecords
    <3>3. /\ Accepted(r, report[r].rev) \in Events /\ Accepted(r, report[r].rev).id = ObservationId(r)
          /\ Accepted(r, report[r].rev).gen = report[r].gen
          BY <2>1, <3>2, AcceptedEvent, ZenonT(30)
    <3>4. \A p \in Reports : ObservationId(r) = ObservationId(p) => p = r
          BY ZenonT(30) DEF ObservationId
    <3> QED BY <2>1, <3>1, <3>2, <3>3, <3>4, ProjectKeeps, ZenonT(30)
  <2>5. CASE Deliver
    <3>1. tail + 1 \in 1..Len(log) /\ Project(log[tail + 1])
          BY <2>1, <2>5, SMTT(30) DEF Deliver, PjTypeInv
    <3> QED BY <2>1, <3>1, LogEvents, ProjectKeeps, ZenonT(30)
  <2>6. CASE ReplaceProjectedSandboxes
    <3>1. list.entry \in Boxes
          BY <2>1, ZenonT(30) DEF PjTypeInv
    <3>2. CASE Replace(list.entry)
          BY <2>1, <3>1, <3>2, ReplaceKeeps, ZenonT(30)
    <3> QED BY <2>3, <2>6, <3>2, ZenonT(30) DEF ReplaceProjectedSandboxes
  <2>7. CASE Crash
    <3>1. spent'.crashes = spent.crashes + 1
          BY <2>1, <2>7, SpendFacts, ZenonT(30) DEF Crash, Upset
    <3>2. spent.crashes \in Nat
          BY <2>1, ZenonT(30) DEF PjTypeInv
    <3> QED BY <1>1, <3>1, <3>2
  <2>8. ASSUME NEW r \in Reports, Report(r) \/ ObserveSandbox(r)
        PROVE  UNCHANGED projection
    <3>1. CASE Report(r)
          BY <3>1, Zenon DEF Report
    <3>2. CASE ObserveSandbox(r)
          BY <3>2, Zenon DEF ObserveSandbox
    <3> QED BY <2>8, <3>1, <3>2, ZenonT(30)
  <2>9. CASE executeAction \/ Checkpoint \/ ListSandboxes \/ UNCHANGED vars
    <3>1. UNCHANGED projection
          BY <2>9, Zenon DEF executeAction, Checkpoint, ListSandboxes, vars, projection
    <3> QED BY <2>3, <3>1, ZenonT(30)
  <2> QED BY <1>1, <2>3, <2>4, <2>5, <2>6, <2>7, <2>8, <2>9, ZenonT(30) DEF Next
<1> QED BY <1>1, ProjectionInvariant, PTL DEF Spec, ProjectionAdvances
=============================================================================

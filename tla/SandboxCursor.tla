--------------------------- MODULE SandboxCursor ---------------------------
(* The fencing rules of the Store's provider projection, as operators on records:    *)
(* which sandbox events and which entries of a provider list the Store accepts       *)
(* (scheduler-go/state/provider_projection.go), and which observations a provider    *)
(* accepts (scheduler-go/provider/mock_types.go).                                    *)
(*                                                                                   *)
(*   sandbox  [gen, st, at, disp, run]   gen = 0 when there is none                  *)
(*   event    [id, gen, rev, st, at, disp, run]                                      *)
(*   cursor   [gen, rev, id, at, seen]   gen = 0 when there is none                  *)
(*                                                                                   *)
(* at is a time, rev a provider revision, disp the run-retirement attribute of the   *)
(* semantic context ("none", "true" or "false") and run says whether the record      *)
(* names its Run. Every provider event has an event id, so the idempotency-key       *)
(* fallback of duplicateSandboxEvent never decides and is left out.                  *)
EXTENDS Integers

States == {"REQUESTED", "BOUND", "RUNNING", "PAUSED", "SLEEPING", "FAILED", "TERMINATED"}

Dispositions == {"none", "true", "false"}

Rank == [REQUESTED |-> 1, BOUND |-> 2, RUNNING |-> 3, PAUSED |-> 4, SLEEPING |-> 5,
         FAILED |-> 6, TERMINATED |-> 7]

NoSandbox == [gen |-> 0, st |-> "REQUESTED", at |-> 0, disp |-> "none", run |-> "unnamed"]

NoCursor == [gen |-> 0, rev |-> 0, id |-> <<"none", 0>>, at |-> 0, seen |-> {}]

terminalRuntimeState(s) == s \in {"TERMINATED", "FAILED"}

runtimeStateRegresses(current, next) ==
  /\ ~(current \in {"PAUSED", "SLEEPING"} /\ next = "RUNNING")
  /\ Rank[next] < Rank[current]

duplicateSandboxEvent(cursor, event) ==
  event.id = cursor.id \/ event.id \in cursor.seen

(* Mutant of acceptSameGenerationSandboxEvent: the source's time fences every event.  *)
acceptSameGenerationByTime(cursor, sandbox, event) ==
  /\ event.at > cursor.at
  /\ sandbox.gen = 0 \/ ~runtimeStateRegresses(sandbox.st, event.st)

(* Events of one generation are ordered by the provider revision; at the same         *)
(* revision by their time, and then they may not regress the state.                   *)
acceptSameGenerationSandboxEvent(cursor, sandbox, event) ==
  \/ event.rev > 0 /\ (cursor.rev = 0 \/ event.rev > cursor.rev)
  \/ /\ event.rev = 0 \/ event.rev = cursor.rev
     /\ event.at > cursor.at
     /\ sandbox.gen = 0 \/ ~runtimeStateRegresses(sandbox.st, event.st)

acceptSandboxCursor(cursor, sandbox, event) ==
  cursor.gen > 0 =>
    /\ event.gen >= cursor.gen
    /\ ~duplicateSandboxEvent(cursor, event)
    /\ event.gen = cursor.gen => acceptSameGenerationSandboxEvent(cursor, sandbox, event)

(* The cursor after an accepted event; the identities seen survive in a generation.   *)
nextCursor(cursor, event) ==
  LET same == cursor.gen > 0 /\ event.gen = cursor.gen
  IN [gen  |-> event.gen,
      rev  |-> IF same /\ event.rev = 0 THEN cursor.rev ELSE event.rev,
      id   |-> event.id,
      at   |-> event.at,
      seen |-> (IF same THEN cursor.seen ELSE {}) \cup {event.id}]

(* The sandbox after an accepted event: what the event does not say is kept.          *)
mergedSandbox(current, event) ==
  [gen  |-> event.gen,
   st   |-> event.st,
   at   |-> event.at,
   disp |-> IF event.disp # "none" \/ event.gen # current.gen THEN event.disp ELSE current.disp,
   run  |-> IF event.run # "unnamed" THEN event.run ELSE current.run]

acceptSandboxBootstrap(cursor, sandbox, incoming) ==
  \/ incoming.gen > cursor.gen
  \/ /\ incoming.gen = cursor.gen
     /\ incoming.at > cursor.at
     /\ sandbox.gen = 0 \/ ~runtimeStateRegresses(sandbox.st, incoming.st)

(* The retirement attribute of the projected sandbox survives a terminal read-back    *)
(* of the same generation and the same Run that carries none.                         *)
mergeDurableSandboxDisposition(current, incoming) ==
  IF /\ current.gen > 0 /\ current.gen = incoming.gen
     /\ current.run # "unnamed" /\ current.run = incoming.run
     /\ terminalRuntimeState(current.st) /\ terminalRuntimeState(incoming.st)
     /\ incoming.disp = "none" /\ current.disp # "none"
  THEN [incoming EXCEPT !.disp = current.disp]
  ELSE incoming

(* The cursor after an accepted list entry.                                           *)
bootstrapCursor(cursor, incoming) ==
  LET kept == IF cursor.gen = 0 \/ incoming.gen > cursor.gen
              THEN [gen |-> incoming.gen, rev |-> 0, id |-> <<"bootstrap", 0>>,
                    at |-> 0, seen |-> {}]
              ELSE cursor
  IN [kept EXCEPT !.at = incoming.at, !.seen = @ \cup {kept.id}]

(* ProjectSandboxObservation: a provider refuses an observation of an older           *)
(* generation, and one that regresses the state of its own generation.                *)
observable(sandbox, event) ==
  sandbox.gen > 0 =>
    /\ event.gen >= sandbox.gen
    /\ event.gen = sandbox.gen => ~runtimeStateRegresses(sandbox.st, event.st)

observedSandbox(sandbox, event, now) ==
  [gen  |-> event.gen, st |-> event.st, at |-> now, run |-> "unnamed",
   disp |-> IF event.disp # "none" THEN event.disp ELSE sandbox.disp]
=============================================================================

------------------------------ MODULE JobStore ------------------------------
(***************************************************************************)
(* The Job Controller's repository (job-controller-go/state) and the watch *)
(* and page readers above it: FileRepository.Update mutates a copy, writes *)
(* the journal, then the snapshot, and only then swaps the copy in and     *)
(* delivers its events to the watchers; a slow watcher is cut off and      *)
(* reconnects from its last cursor (service.Server.WatchJobEvents).        *)
(*                                                                         *)
(* The repository's content is its event log: an event is the run it is    *)
(* about, its sequence number is its position.  Jobs, runs, operations and *)
(* idempotency records are committed in the same copy and add nothing to   *)
(* the argument.  Writing a file is atomic (temporary file, fsync, rename),*)
(* but the call may fail after the rename (fsync of the directory).        *)
(***************************************************************************)
EXTENDS Integers, Sequences, SequencesExt

CONSTANTS LogRuns,      \* runs events are about
          AnyRun,       \* the empty run filter
          WatchSlack,   \* watchBufferSlack
          PageLimit,    \* normalizeLimit of a reader's limit
          MaxLog,       \* bound: events in the log
          MaxDiskFaults,\* bound: failed writes
          MaxLogCrashes    \* bound: crashes of the controller

VARIABLES logMem,       \* MemoryRepository.events, what readers see
          logJournal,   \* journal.gob: the authority on restart
          logSnapshot,  \* snapshot.gob: the fallback
          logUpdate,    \* the Update in progress: step and working copy
          logWatch,     \* the watch: filter, buffer, open, reason, cursor, received
          logPage,      \* a reader of pages: filter, next offset, received
          logFaults, logCrashes
logVars == <<logMem, logJournal, logSnapshot, logUpdate, logWatch, logPage, logFaults, logCrashes>>

NoFile == <<"absent">>
NoStoreUpdate == [step |-> "none", work |-> <<>>]
EventFilters == LogRuns \cup {AnyRun}

(* matchesTarget; filteredEventsLocked with the sequence numbers kept *)
MatchesTarget(event, filter) == filter = AnyRun \/ event = filter
FilteredEvents(log, filter, floor) ==
  LET numbered == [i \in DOMAIN log |-> [seq |-> i, run |-> log[i]]]
  IN SelectSeq(numbered, LAMBDA e : e.seq > floor /\ MatchesTarget(e.run, filter))

NoWatch(filter, cursor, got) ==
  [filter |-> filter, open |-> FALSE, buf |-> <<>>, cap |-> 0, lagged |-> FALSE,
   cursor |-> cursor, got |-> got]

JsInit ==
  /\ logMem = <<>> /\ logJournal = NoFile /\ logSnapshot = NoFile
  /\ logUpdate = NoStoreUpdate
  /\ logWatch \in {NoWatch(f, 0, <<>>) : f \in EventFilters}
  /\ logPage \in {[filter |-> f, offset |-> 0, got |-> <<>>] : f \in EventFilters}
  /\ logFaults = 0 /\ logCrashes = 0

(* Update runs its callback on a copy; a callback that fails leaves no trace. *)
UpdateBegin(events) ==
  /\ logUpdate.step = "none" /\ Len(logMem) + Len(events) <= MaxLog
  /\ logUpdate' = [step |-> "journal", work |-> logMem \o events]
  /\ UNCHANGED <<logMem, logJournal, logSnapshot, logWatch, logPage, logFaults, logCrashes>>

(* persist: the journal first; its failure fails the Update, renamed or not *)
WriteJournal ==
  /\ logUpdate.step = "journal"
  /\ \/ /\ logJournal' = logUpdate.work
        /\ logUpdate' = [logUpdate EXCEPT !.step = "snapshot"]
        /\ UNCHANGED logFaults
     \/ /\ logFaults < MaxDiskFaults /\ logFaults' = logFaults + 1
        /\ logJournal' \in {logJournal, logUpdate.work}
        /\ logUpdate' = NoStoreUpdate
  /\ UNCHANGED <<logMem, logSnapshot, logWatch, logPage, logCrashes>>

(* persist: the snapshot's failure is ignored *)
WriteSnapshot ==
  /\ logUpdate.step = "snapshot"
  /\ \/ logSnapshot' = logUpdate.work /\ UNCHANGED logFaults
     \/ logFaults < MaxDiskFaults /\ logFaults' = logFaults + 1 /\ UNCHANGED logSnapshot
  /\ logUpdate' = [logUpdate EXCEPT !.step = "swap"]
  /\ UNCHANGED <<logMem, logJournal, logWatch, logPage, logCrashes>>

(* mutated: an event that does not fit is dropped and the watch goes on *)
DeliverDropping(w, event) ==
  IF w.open /\ Len(w.buf) < w.cap THEN [w EXCEPT !.buf = Append(@, event)] ELSE w

(* deliverLocked, once per new matching event: a full buffer ends the watch *)
DeliverLocked(w, event) ==
  IF ~w.open THEN w
  ELSE IF Len(w.buf) < w.cap THEN [w EXCEPT !.buf = Append(@, event)]
  ELSE [w EXCEPT !.open = FALSE, !.lagged = TRUE]

(* replaceStateLocked, then the deliveries, under one lock *)
ReplaceState ==
  /\ logUpdate.step = "swap"
  /\ logMem' = logUpdate.work
  /\ logWatch' = FoldLeft(DeliverLocked, logWatch,
                          FilteredEvents(logUpdate.work, logWatch.filter, Len(logMem)))
  /\ logUpdate' = NoStoreUpdate
  /\ UNCHANGED <<logJournal, logSnapshot, logPage, logFaults, logCrashes>>

-----------------------------------------------------------------------------
(* Watch from the client's last cursor: the backlog fills the buffer, which   *)
(* has WatchSlack more places.                                                *)
Watch ==
  /\ ~logWatch.open /\ logWatch.buf = <<>>
  /\ LET backlog == FilteredEvents(logMem, logWatch.filter, logWatch.cursor)
     IN logWatch' = [logWatch EXCEPT !.open = TRUE, !.lagged = FALSE, !.buf = backlog,
                                     !.cap = Len(backlog) + WatchSlack]
  /\ UNCHANGED <<logMem, logJournal, logSnapshot, logUpdate, logPage, logFaults, logCrashes>>

(* WatchJobEvents sends the next event, of a closed channel too, and remembers *)
(* its cursor; the client has it.                                              *)
SendEvent ==
  /\ logWatch.buf # <<>>
  /\ logWatch' = [logWatch EXCEPT !.buf = Tail(@), !.cursor = Head(logWatch.buf).seq,
                                  !.got = Append(@, Head(logWatch.buf))]
  /\ UNCHANGED <<logMem, logJournal, logSnapshot, logUpdate, logPage, logFaults, logCrashes>>

(* The stream ends: cancelled, failed, or lagged after the buffer is drained. *)
EndStream ==
  /\ logWatch.open \/ logWatch.lagged
  /\ logWatch' = NoWatch(logWatch.filter, logWatch.cursor, logWatch.got)
  /\ UNCHANGED <<logMem, logJournal, logSnapshot, logUpdate, logPage, logFaults, logCrashes>>

(* paginate: the token is an offset into the matching events *)
PageOf(all, start) ==
  SubSeq(all, start + 1, IF start + PageLimit > Len(all) THEN Len(all) ELSE start + PageLimit)

(* ListEvents, one page *)
ListEvents ==
  LET page == PageOf(FilteredEvents(logMem, logPage.filter, 0), logPage.offset)
  IN /\ page # <<>>
     /\ logPage' = [logPage EXCEPT !.offset = @ + Len(page), !.got = @ \o page]
     /\ UNCHANGED <<logMem, logJournal, logSnapshot, logUpdate, logWatch, logFaults, logCrashes>>

(* A crash at any step; restore reads the journal, else the snapshot.  The    *)
(* client keeps what it received.                                             *)
StoreCrash ==
  LET file == IF logJournal # NoFile THEN logJournal ELSE logSnapshot
  IN /\ logCrashes < MaxLogCrashes /\ logCrashes' = logCrashes + 1
     /\ logMem' = IF file = NoFile THEN <<>> ELSE file
     /\ logUpdate' = NoStoreUpdate
     /\ logWatch' = NoWatch(logWatch.filter, logWatch.cursor, logWatch.got)
     /\ UNCHANGED <<logJournal, logSnapshot, logPage, logFaults>>

JsNext ==
  \/ \E n \in 1..2 : \E events \in [1..n -> LogRuns] : UpdateBegin(events)
  \/ WriteJournal \/ WriteSnapshot \/ ReplaceState
  \/ Watch \/ SendEvent \/ EndStream \/ ListEvents \/ StoreCrash

-----------------------------------------------------------------------------
OnDisk == IF logJournal = NoFile THEN <<>> ELSE logJournal

(* What a watch client was sent, over all its connections, is every matching *)
(* event of the durable log up to its cursor, once and in order; so is what  *)
(* a page reader was answered (Update, Watch, deliverLocked, ListEvents).    *)
ReadersSawTheLog ==
  /\ logWatch.got = SelectSeq(FilteredEvents(OnDisk, logWatch.filter, 0),
                              LAMBDA e : e.seq <= logWatch.cursor)
  /\ logPage.got = SubSeq(FilteredEvents(OnDisk, logPage.filter, 0), 1, logPage.offset)
=============================================================================

----------------------------- MODULE EdgeStatus ------------------------------
(***************************************************************************)
(* Who watches an edge site: GET /edge-status of api/portal.py and the two *)
(* edge collectors of api/metrics.py.  Every answer opens both SQLite      *)
(* files anew and takes a snapshot of each, one SELECT after the other,    *)
(* while the ingestion service, the approval API and the bridge write      *)
(* them; here those may call the methods of the buffers at any time.       *)
(*                                                                         *)
(* Opening EdgeCommandBuffer adds the column replay_attempts to a file     *)
(* made before there was one: it looks, and then alters the table, in two  *)
(* statements that no transaction joins.                                   *)
(***************************************************************************)
EXTENDS Integers, Sequences, FiniteSets

CONSTANTS Reading,     \* events an edge site may buffer
          Handoffs,    \* ids a command may be queued under
          MaxBuffered, \* edge_buffer_max_events
          ReplaySize,  \* edge_replay_batch_size
          Watcher,     \* whoever takes snapshots: Prometheus, the portal
          MaxCalls     \* bound: calls of the writers, and reads that fail

ASSUME EdgeStatusAssumption == MaxBuffered \in Nat \ {0} /\ ReplaySize \in Nat \ {0}

VARIABLES buffer, batch, counters, connectivity, evictions, evicted,
          commands, tally, \* the command queue
          column,          \* queued_commands has column replay_attempts
          edgeOn,          \* edge_mode_enabled, as the processes started
          calls,           \* calls so far
          watcher          \* what each watcher has read so far

Events == INSTANCE EdgeEventBuffer WITH
  Event <- Reading, MaxEvents <- MaxBuffered, BatchSize <- ReplaySize,
  totals <- counters, status <- connectivity

Queue == INSTANCE EdgeCommandBuffer WITH
  Command <- Handoffs, ReplayBatchSize <- ReplaySize, queue <- commands, totals <- tally

eventFile == <<buffer, batch, counters, connectivity, evictions, evicted>>
queueFile == <<commands, tally>>
fileVars == <<eventFile, queueFile, column>>
edgeVars == <<fileVars, edgeOn, calls, watcher>>

Nothing == [buffered |-> 0, replayed |-> 0, failures |-> 0, depth |-> 0, status |-> "unknown",
            commandDepth |-> 0, commandsQueued |-> 0, commandsReplayed |-> 0,
            commandFailures |-> 0, eventsUp |-> FALSE, commandsUp |-> FALSE]

NewWatcher == [pc |-> "idle", what |-> "none", hasColumn |-> FALSE, since |-> 0,
               shown |-> Nothing, last |-> Nothing, clashes |-> 0, answer |-> 0]

EdgeStatusInit ==
  /\ Events!BufferInit /\ Queue!QueueInit
  /\ column \in BOOLEAN /\ edgeOn \in BOOLEAN
  /\ calls = 0
  /\ watcher = [w \in Watcher |-> NewWatcher]

-----------------------------------------------------------------------------
(* The writers.                                                            *)

Call == edgeOn /\ calls < MaxCalls /\ calls' = calls + 1 /\ UNCHANGED edgeOn

\* The service has one thread: it buffers nothing while it replays.
IngestionCalls ==
  /\ Call
  /\ \/ \E e \in Reading : batch = Events!NoBatch /\ Events!AddEvent(e, "offline")
     \/ batch = Events!NoBatch /\ buffer # <<>> /\ Events!SelectBatch
     \/ batch = Events!NoBatch /\ Events!MarkConnectivity("online")
  /\ UNCHANGED <<queueFile, column, watcher>>

ReplayGoesOn ==
  /\ \/ batch.done < batch.size /\ Events!RowDeleted
     \/ batch # Events!NoBatch /\ batch.done = batch.size /\ Events!CommitDeletions(FALSE, "online")
     \/ batch.done < batch.size /\ Events!CommitDeletions(TRUE, "degraded")
     \/ batch # Events!NoBatch /\ Events!Rollback
  /\ UNCHANGED <<queueFile, column, edgeOn, calls, watcher>>

\* Whoever calls the queue has opened it.
QueueCalls ==
  /\ Call
  /\ \/ \E c \in Handoffs : Queue!Enqueue(c, Queue!IsQueued(c))
     \/ \E i \in DOMAIN Queue!Oldest(ReplaySize) : Queue!RecordReplaySuccess(commands[i])
     \/ commands # <<>> /\ Queue!RecordReplayFailure
  /\ column' = TRUE
  /\ UNCHANGED <<eventFile, watcher>>

-----------------------------------------------------------------------------
(* The watchers.                                                           *)

\* Mutant: the total is read before the rows are counted.
Steps_TotalFirst(what) ==
  <<"event state", "event count", "look", "alter", "queued", "count", "replayed", "failures">>

\* The statements of an answer, in order.  A scrape opens a file when it
\* comes to it, the portal opens both first.
Steps(what) ==
  IF what = "scrape"
  THEN <<"event state", "event count", "look", "alter", "count", "queued", "replayed", "failures">>
  ELSE <<"look", "alter", "event state", "event count", "count", "queued", "replayed", "failures">>

\* Where a watcher goes from a step: the next, or done.
After(what, step) ==
  LET here == CHOOSE i \in DOMAIN Steps(what) : Steps(what)[i] = step
  IN  IF here = Len(Steps(what)) THEN "done" ELSE Steps(what)[here + 1]

Reached(w, step) == watcher[w].pc = step

Continue(w, w2) ==
  watcher' = [watcher EXCEPT ![w] =
    [w2 EXCEPT !.pc = After(watcher[w].what, watcher[w].pc),
               !.answer = IF After(watcher[w].what, watcher[w].pc) = "done" THEN 200 ELSE 0]]

Show(w, shown) == Continue(w, [watcher[w] EXCEPT !.shown = shown])

\* With edge mode off there is nothing to read, and the answer says so.
Watch(w) ==
  /\ Reached(w, "idle")
  /\ \E what \in {"scrape", "portal"} :
       watcher' = [watcher EXCEPT ![w] =
         [@ EXCEPT !.what = what, !.since = calls, !.answer = IF edgeOn THEN 0 ELSE 200,
                   !.pc = IF edgeOn THEN Steps(what)[1] ELSE "done",
                   !.shown = [Nothing EXCEPT !.eventsUp = edgeOn, !.commandsUp = edgeOn,
                                !.status = IF edgeOn THEN "unknown" ELSE "disabled"]]]
  /\ UNCHANGED <<fileVars, edgeOn, calls>>

\* EdgeEventBuffer.snapshot: the state in one SELECT; the rows are counted
\* through another connection.
ReadEventState(w) ==
  /\ Reached(w, "event state")
  /\ Show(w, [watcher[w].shown EXCEPT !.buffered = counters.buffered,
                !.replayed = counters.replayed, !.failures = counters.failures,
                !.status = connectivity])
  /\ UNCHANGED <<fileVars, edgeOn, calls>>

ReadEventCount(w) ==
  /\ Reached(w, "event count")
  /\ Show(w, [watcher[w].shown EXCEPT !.depth = Len(buffer)])
  /\ UNCHANGED <<fileVars, edgeOn, calls>>

\* Mutant: the columns are looked up once and for all.
SeesColumn_Once(w) == watcher[w].clashes = 0 /\ column

SeesColumn(w) == column

LookAtSchema(w) ==
  /\ Reached(w, "look")
  /\ Continue(w, [watcher[w] EXCEPT !.hasColumn = SeesColumn(w)])
  /\ UNCHANGED <<fileVars, edgeOn, calls>>

EventsUnread(w) ==
  watcher' = [watcher EXCEPT ![w] = [@ EXCEPT !.pc = "look",
    !.shown = [Nothing EXCEPT !.commandsUp = TRUE]]]

CommandsUnread(w) ==
  watcher' = [watcher EXCEPT ![w] = [@ EXCEPT !.pc = "done", !.answer = 200,
    !.shown = [watcher[w].shown EXCEPT !.commandsUp = FALSE, !.commandDepth = 0,
                 !.commandsQueued = 0, !.commandsReplayed = 0]]]

PortalFails(w) ==
  watcher' = [watcher EXCEPT ![w] = [@ EXCEPT !.pc = "done", !.answer = 500, !.shown = Nothing]]

Unread(w) ==
  IF watcher[w].what = "portal" THEN PortalFails(w)
  ELSE IF watcher[w].pc \in {"event state", "event count"} THEN EventsUnread(w)
  ELSE CommandsUnread(w)

\* ALTER TABLE fails when the column has come meanwhile.
AddColumn(w) ==
  /\ Reached(w, "alter")
  /\ watcher[w].hasColumn \/ ~column
  /\ Continue(w, watcher[w])
  /\ column' = TRUE
  /\ UNCHANGED <<eventFile, queueFile, edgeOn, calls>>

Clash(w) ==
  IF watcher[w].what = "portal"
  THEN watcher' = [watcher EXCEPT ![w] = [@ EXCEPT !.pc = "done", !.answer = 500,
                     !.shown = Nothing, !.clashes = watcher[w].clashes + 1]]
  ELSE watcher' = [watcher EXCEPT ![w] = [@ EXCEPT !.pc = "done", !.answer = 200,
                     !.shown.commandsUp = FALSE, !.clashes = watcher[w].clashes + 1]]

ColumnClashes(w) ==
  /\ Reached(w, "alter") /\ ~watcher[w].hasColumn /\ column
  /\ Clash(w)
  /\ UNCHANGED <<fileVars, edgeOn, calls>>

\* EdgeCommandBuffer.snapshot: the rows, then one counter after the other.
ReadCommandCount(w) ==
  /\ Reached(w, "count")
  /\ Show(w, [watcher[w].shown EXCEPT !.commandDepth = Len(commands)])
  /\ UNCHANGED <<fileVars, edgeOn, calls>>

ReadQueued(w) ==
  /\ Reached(w, "queued")
  /\ Show(w, [watcher[w].shown EXCEPT !.commandsQueued = tally.queued])
  /\ UNCHANGED <<fileVars, edgeOn, calls>>

ReadCommandsReplayed(w) ==
  /\ Reached(w, "replayed")
  /\ Show(w, [watcher[w].shown EXCEPT !.commandsReplayed = tally.replayed])
  /\ UNCHANGED <<fileVars, edgeOn, calls>>

ReadFailures(w) ==
  /\ Reached(w, "failures")
  /\ Show(w, [watcher[w].shown EXCEPT !.commandFailures = tally.failures])
  /\ UNCHANGED <<fileVars, edgeOn, calls>>

\* A file that is locked or cannot be read.
ReadingFails(w) ==
  /\ watcher[w].pc \notin {"idle", "done"}
  /\ Call
  /\ Unread(w)
  /\ UNCHANGED fileVars

\* The next answer; what was last shown of a file is kept for comparison.
Again(w) ==
  /\ Reached(w, "done")
  /\ LET s == watcher[w].shown
         kept == watcher[w].last
         events == IF s.eventsUp THEN s ELSE kept
         queue == IF s.commandsUp THEN s ELSE kept
     IN  watcher' = [watcher EXCEPT ![w] = [NewWatcher EXCEPT !.clashes = watcher[w].clashes,
           !.last = [queue EXCEPT !.buffered = events.buffered, !.replayed = events.replayed,
                       !.failures = events.failures, !.depth = 0, !.commandDepth = 0,
                       !.status = "unknown", !.eventsUp = FALSE, !.commandsUp = FALSE]]]
  /\ UNCHANGED <<fileVars, edgeOn, calls>>

WatcherStep(w) ==
  \/ Watch(w) \/ ReadEventState(w) \/ ReadEventCount(w) \/ LookAtSchema(w) \/ AddColumn(w)
  \/ ColumnClashes(w) \/ ReadCommandCount(w) \/ ReadQueued(w) \/ ReadCommandsReplayed(w)
  \/ ReadFailures(w) \/ ReadingFails(w) \/ Again(w)

EdgeStatusNext ==
  IngestionCalls \/ ReplayGoesOn \/ QueueCalls \/ \E w \in Watcher : WatcherStep(w)

-----------------------------------------------------------------------------
Complete(w) == Reached(w, "done") /\ watcher[w].answer = 200 /\ edgeOn

\* A torn snapshot still makes sense: the queue is never shown deeper than
\* the total it was filled by, because the rows are counted first, and depth
\* and totals are apart by no more than was written while they were read;
\* when nothing was, they add up.  (EdgeCommandBuffer.snapshot)
DepthWithinTotals ==
  \A w \in Watcher : Complete(w) /\ watcher[w].shown.commandsUp =>
    LET s == watcher[w].shown
        meanwhile == calls - watcher[w].since
        apart == s.commandDepth - (s.commandsQueued - s.commandsReplayed)
    IN  /\ s.commandDepth <= s.commandsQueued
        /\ apart \in (0 - meanwhile)..meanwhile

\* Upgrading the queue file costs a watcher one answer at most: whoever
\* meets another in the middle of it succeeds the next time.
\* (EdgeCommandBuffer._ensure_schema)
ClashesOnce == \A w \in Watcher : watcher[w].clashes <= 1
=============================================================================

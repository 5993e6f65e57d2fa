---------------------------- MODULE EdgeIngestion ----------------------------
(***************************************************************************)
(* services/ingestion.py: the consumer of canonical.event.raised that      *)
(* writes events to the central Postgres store and, in edge mode, keeps    *)
(* them in an EdgeEventBuffer while the store is away.                     *)
(*                                                                         *)
(* The Kafka partition is the constant Topic with a produced mark; the     *)
(* consumer has a position, advanced when the client hands a message over, *)
(* and a committed offset, advanced by auto-commit inside poll and by      *)
(* close().  The steps of one loop iteration are separate actions, so that *)
(* the store can go away and the process can die between any two of them.  *)
(***************************************************************************)
EXTENDS EdgeEventBuffer

CONSTANTS Ignored,   \* a message that is not an "event.raised"
          Topic,     \* the partition: an event id or Ignored per message
          Rejected,  \* events whose INSERT the central store always refuses
          Modes,     \* values edge_mode_enabled may be deployed with
          MaxFaults  \* bound: crashes, stop signals and local disk errors

ASSUME IngestionAssumption ==
  /\ Topic \in Seq(Event \cup {Ignored})
  /\ Ignored \notin Event
  /\ Rejected \subseteq Event
  /\ Modes \subseteq BOOLEAN
  /\ MaxFaults \in Nat

VARIABLES edgeMode,   \* edge_mode_enabled of this deployment
          produced,   \* messages published so far
          position,   \* messages handed to the loop so far
          committed,  \* committed offset of group agent-ingestion
          pc,         \* where the loop is
          conn,       \* the psycopg2 connection: "none", "live" or "broken"
          probeDue,   \* time.time() >= next_connectivity_probe_at
          stopping,   \* shutdown_requested
          central,    \* the central store answers
          events,     \* rows of table events
          firstWrites,\* history: events in the order they became rows
          dropped,    \* history: events given up outside the buffer
          faults      \* faults so far

kafkaVars  == <<produced, position, committed>>
loopVars   == <<pc, conn, probeDue, stopping>>
storeVars  == <<central, events, firstWrites>>
vars == <<bufferVars, kafkaVars, loopVars, storeVars, dropped, faults, edgeMode>>

Locations == {"stopped", "poll", "received", "route", "replay", "store"}

Init ==
  /\ BufferInit
  /\ edgeMode \in Modes
  /\ produced = 0 /\ position = 0 /\ committed = 0
  /\ pc = "stopped" /\ conn = "none" /\ probeDue = TRUE /\ stopping = FALSE
  /\ central = TRUE /\ events = {} /\ firstWrites = <<>>
  /\ dropped = {} /\ faults = 0

Current == Topic[position]

-----------------------------------------------------------------------------
(* The central store: INSERT ... ON CONFLICT (event_id) DO NOTHING.        *)

CanStore(e) == central /\ conn = "live" /\ e \notin Rejected

Insert(e) ==
  /\ events' = events \cup {e}
  /\ firstWrites' = IF e \in events THEN firstWrites ELSE Append(firstWrites, e)

\* store_event succeeds.
Stored(e) == CanStore(e) /\ Insert(e) /\ UNCHANGED central

\* store_event gives up after its retries, all on the same connection:
\* refused, or committed by a server that was lost before it answered.
StoreFails(e) ==
  \/ ~CanStore(e) /\ UNCHANGED storeVars
  \/ CanStore(e) /\ Insert(e) /\ central' = FALSE

-----------------------------------------------------------------------------
(* The environment.                                                        *)

Publish ==
  /\ produced < Len(Topic)
  /\ produced' = produced + 1
  /\ UNCHANGED <<bufferVars, position, committed, loopVars, storeVars, dropped, faults>>

CentralGoesDown ==
  /\ central
  /\ central' = FALSE
  /\ conn' = IF conn = "live" THEN "broken" ELSE conn
  /\ UNCHANGED <<bufferVars, kafkaVars, pc, probeDue, stopping, events, firstWrites, dropped, faults>>

CentralComesBack ==
  /\ ~central
  /\ central' = TRUE
  /\ UNCHANGED <<bufferVars, kafkaVars, loopVars, events, firstWrites, dropped, faults>>

ProbeIntervalElapses ==
  /\ ~probeDue
  /\ probeDue' = TRUE
  /\ UNCHANGED <<bufferVars, kafkaVars, pc, conn, stopping, storeVars, dropped, faults>>

\* The process is killed: the next one resumes from the committed offset.
Crash ==
  /\ faults < MaxFaults /\ pc # "stopped"
  /\ pc' = "stopped" /\ conn' = "none"
  /\ position' = committed
  /\ faults' = faults + 1
  /\ Rollback
  /\ UNCHANGED <<produced, committed, probeDue, stopping, storeVars, dropped>>

\* SIGINT or SIGTERM only sets a flag; the loop looks at it after the next message.
StopSignal ==
  /\ faults < MaxFaults /\ pc # "stopped" /\ ~stopping
  /\ stopping' = TRUE
  /\ faults' = faults + 1
  /\ UNCHANGED <<bufferVars, kafkaVars, pc, conn, probeDue, storeVars, dropped>>

-----------------------------------------------------------------------------
(* Start-up and the Kafka client.                                          *)

\* _connect_edge_central
ConnectEdge ==
  \/ central /\ conn' = "live" /\ MarkConnectivity("online")
  \/ ~central /\ conn' = "none" /\ MarkConnectivity("offline")

Start ==
  /\ pc = "stopped"
  /\ IF edgeMode THEN ConnectEdge
                 ELSE central /\ conn' = "live" /\ UNCHANGED bufferVars
  /\ pc' = "poll" /\ probeDue' = TRUE /\ stopping' = FALSE
  /\ UNCHANGED <<kafkaVars, storeVars, dropped, faults>>

AutoCommit ==
  /\ pc = "poll" /\ committed < position
  /\ committed' = position
  /\ UNCHANGED <<bufferVars, produced, position, loopVars, storeVars, dropped, faults>>

Poll ==
  /\ pc = "poll" /\ ~stopping /\ position < produced
  /\ position' = position + 1
  /\ pc' = IF Topic[position + 1] = Ignored THEN "poll" ELSE "received"
  /\ UNCHANGED <<bufferVars, produced, committed, conn, probeDue, stopping, storeVars, dropped, faults>>

\* Leaving the loop with message m in hand: cons.close() commits past it.
ExitAfter(m) ==
  /\ committed' = position'
  /\ dropped' = dropped \cup ({m} \cap Event)
  /\ pc' = "stopped" /\ conn' = "none"

\* The break on shutdown_requested: the message just polled is not handled.
StopOnNextMessage ==
  /\ pc = "poll" /\ stopping /\ position < produced
  /\ position' = position + 1
  /\ ExitAfter(Topic[position + 1])
  /\ UNCHANGED <<bufferVars, produced, probeDue, stopping, storeVars, faults>>

-----------------------------------------------------------------------------
(* Without edge mode: store, or log the failure and go on.                 *)

\* Mutant: the failed event is not reported.
StoreDirect_Unlogged ==
  /\ pc = "received" /\ ~edgeMode
  /\ \/ Stored(Current) /\ UNCHANGED conn
     \/ StoreFails(Current) /\ conn' = IF central' THEN conn ELSE "broken"
  /\ pc' = "poll"
  /\ UNCHANGED <<bufferVars, kafkaVars, probeDue, stopping, dropped, faults>>

StoreDirect ==
  /\ pc = "received" /\ ~edgeMode
  /\ \/ Stored(Current) /\ UNCHANGED <<conn, dropped>>
     \/ /\ StoreFails(Current)
        /\ conn' = IF central' THEN conn ELSE "broken"
        /\ dropped' = dropped \cup {Current}
  /\ pc' = "poll"
  /\ UNCHANGED <<bufferVars, kafkaVars, probeDue, stopping, faults>>

-----------------------------------------------------------------------------
(* Edge mode: probe, replay the backlog, then store or buffer.             *)

ProbeCentral ==
  /\ pc = "received" /\ edgeMode
  /\ IF conn = "none" /\ probeDue
     THEN ConnectEdge /\ probeDue' = central
     ELSE UNCHANGED <<bufferVars, conn, probeDue>>
  /\ pc' = "route"
  /\ UNCHANGED <<kafkaVars, stopping, storeVars, dropped, faults>>

StartReplay ==
  /\ pc = "route" /\ conn # "none" /\ buffer # <<>>
  /\ SelectBatch
  /\ pc' = "replay"
  /\ UNCHANGED <<kafkaVars, conn, probeDue, stopping, storeVars, dropped, faults>>

ReplayRow ==
  /\ pc = "replay" /\ batch.done < batch.size
  /\ Stored(NextRow)
  /\ RowDeleted
  /\ UNCHANGED <<kafkaVars, loopVars, dropped, faults>>

\* The batch stops, the deletions so far are kept and the connection is given up.
ReplayFails ==
  /\ pc = "replay" /\ batch.done < batch.size
  /\ StoreFails(NextRow)
  /\ CommitDeletions(TRUE, "degraded")
  /\ conn' = "none" /\ probeDue' = FALSE /\ pc' = "route"
  /\ UNCHANGED <<kafkaVars, stopping, dropped, faults>>

\* Mutant: one batch per message, without the loop around replay().
ReplayBatchDone_OneBatch ==
  /\ pc = "replay" /\ batch.done = batch.size
  /\ CommitDeletions(FALSE, "online")
  /\ pc' = "store"
  /\ UNCHANGED <<kafkaVars, conn, probeDue, stopping, storeVars, dropped, faults>>

ReplayBatchDone ==
  /\ pc = "replay" /\ batch.done = batch.size
  /\ CommitDeletions(FALSE, "online")
  /\ pc' = "route"
  /\ UNCHANGED <<kafkaVars, conn, probeDue, stopping, storeVars, dropped, faults>>

\* Mutant: a live event does not wait for the backlog.
RouteToStore_Overtake ==
  /\ pc = "route" /\ conn # "none"
  /\ pc' = "store"
  /\ UNCHANGED <<bufferVars, kafkaVars, conn, probeDue, stopping, storeVars, dropped, faults>>

RouteToStore ==
  /\ pc = "route" /\ conn # "none" /\ buffer = <<>>
  /\ pc' = "store"
  /\ UNCHANGED <<bufferVars, kafkaVars, conn, probeDue, stopping, storeVars, dropped, faults>>

BufferOffline ==
  /\ pc = "route" /\ conn = "none"
  /\ AddEvent(Current, "offline")
  /\ pc' = "poll"
  /\ UNCHANGED <<kafkaVars, conn, probeDue, stopping, storeVars, dropped, faults>>

StoreLive ==
  /\ pc = "store"
  /\ Stored(Current)
  /\ MarkConnectivity("online")
  /\ pc' = "poll"
  /\ UNCHANGED <<kafkaVars, conn, probeDue, stopping, dropped, faults>>

StoreLiveFails ==
  /\ pc = "store"
  /\ StoreFails(Current)
  /\ AddEvent(Current, "degraded")
  /\ conn' = "none" /\ probeDue' = FALSE /\ pc' = "poll"
  /\ UNCHANGED <<kafkaVars, stopping, dropped, faults>>

\* The local disk refuses the insert: the outer handler exits the process.
BufferWriteFails ==
  /\ faults < MaxFaults
  /\ \/ pc = "route" /\ conn = "none"
     \/ pc = "store" /\ ~CanStore(Current)
  /\ UNCHANGED position
  /\ ExitAfter(Current)
  /\ faults' = faults + 1
  /\ UNCHANGED <<bufferVars, produced, probeDue, stopping, storeVars>>

-----------------------------------------------------------------------------
LoopStep ==
  \/ Start \/ Poll \/ StopOnNextMessage \/ StoreDirect \/ ProbeCentral
  \/ StartReplay \/ ReplayRow \/ ReplayFails \/ ReplayBatchDone
  \/ RouteToStore \/ BufferOffline \/ StoreLive \/ StoreLiveFails

Environment ==
  \/ Publish \/ CentralGoesDown \/ CentralComesBack \/ ProbeIntervalElapses
  \/ AutoCommit \/ Crash \/ StopSignal \/ BufferWriteFails

\* edge_mode_enabled is read once, when the process starts.
Deployed(Step) == Step /\ UNCHANGED edgeMode

Next == Deployed(LoopStep \/ Environment)

Spec == Init /\ [][Next]_vars

(***************************************************************************)
(* The loop runs whenever it can, messages keep arriving and the probe     *)
(* interval passes.  Nothing is assumed of the central store: a property   *)
(* that needs it says so.                                                  *)
(***************************************************************************)
FairSpec ==
  /\ Spec
  /\ WF_vars(Deployed(LoopStep))
  /\ WF_vars(Deployed(Publish))
  /\ WF_vars(Deployed(ProbeIntervalElapses))

-----------------------------------------------------------------------------
TypeOK ==
  /\ BufferTypeOK
  /\ produced \in 0..Len(Topic)
  /\ position \in 0..produced
  /\ committed \in 0..position
  /\ pc \in Locations
  /\ conn \in {"none", "live", "broken"}
  /\ probeDue \in BOOLEAN /\ stopping \in BOOLEAN /\ central \in BOOLEAN
  /\ events \in SUBSET Event
  /\ firstWrites \in Seq(Event)
  /\ dropped \in SUBSET Event
  /\ faults \in 0..MaxFaults
  /\ edgeMode \in Modes

InFlight == pc \in {"received", "route", "replay", "store"}

\* The messages the loop has finished with.
Handled == 1 .. (IF InFlight THEN position - 1 ELSE position)

\* Whatever crashes, reconnections and half-done replays happen in between,
\* an event the loop has finished with is in the central store or in the
\* local buffer, unless the buffer overflowed or the message was given up at
\* an exit (or, without edge mode, after a failed store).
NothingForgotten ==
  \A i \in Handled :
    Topic[i] \in Event => Topic[i] \in events \cup Held \cup evicted \cup dropped

\* First occurrence of e in the topic.
FirstSeen(e) == CHOOSE i \in 1..Len(Topic) : Topic[i] = e /\ \A j \in 1..(i - 1) : Topic[j] # e

\* The backlog is drained before a live event is stored, so as long as nothing
\* was lost events become rows in the order they were raised, across
\* redeliveries, partial batches and reconnections.
RaisedOrder ==
  evicted = {} /\ dropped = {} =>
    \A i, j \in 1..Len(firstWrites) :
      i < j => FirstSeen(firstWrites[i]) < FirstSeen(firstWrites[j])

\* From the moment the central store is up for good, and unless the service is
\* stopped, an edge site whose backlog holds nothing the store refuses empties it
\* at the next message that finds a probe due, however many batches that takes.
\* (A connection broken unnoticed costs one more message.)
BacklogDrains ==
  [](edgeMode /\ buffer # <<>> /\ Held \cap Rejected = {} /\ probeDue
       /\ conn # "broken" /\ pc = "poll" /\ position < Len(Topic) /\ []central
     => <>(buffer = <<>> \/ stopping \/ pc = "stopped"))

\* "Graceful shutdown handling" (ingestion.py:94): stopping on a signal gives up
\* no message, every one below the offset it commits is kept somewhere.
GracefulStopKeepsMessages ==
  [][pc = "poll" /\ pc' = "stopped" /\ stopping /\ faults' = faults =>
       \A i \in 1..committed' :
         Topic[i] \in Event => Topic[i] \in events' \cup Held' \cup evicted']_vars

-----------------------------------------------------------------------------
(* What the service promises of each event, as module StoreAndForward.     *)

Fate(e) == IF e \in events THEN "delivered"
           ELSE IF e \in Held THEN "held"
           ELSE IF e \in evicted \cup dropped THEN "lost" ELSE "unseen"

Abstract == INSTANCE StoreAndForward WITH fate <- [e \in Event |-> Fate(e)]

\* Every run of the service is a run of the abstract store-and-forward relay.
StoreAndForwardSpec == Abstract!Spec
=============================================================================

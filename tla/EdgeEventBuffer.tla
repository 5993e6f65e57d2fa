--------------------------- MODULE EdgeEventBuffer ---------------------------
(***************************************************************************)
(* The SQLite buffer an edge site keeps while the central store is away:   *)
(* class EdgeEventBuffer of runner/edge_agent.py.  Every operator below is *)
(* one method (or one branch of one), that is one SQLite transaction; the  *)
(* service that calls them is module EdgeIngestion.                        *)
(*                                                                         *)
(* A row is the event it carries; rows are kept in id order.  While        *)
(* replay() runs its transaction is open: batch says how many rows it      *)
(* selected and how many it has deleted so far, and buffer is what another *)
(* connection, or a restart, would still see.                              *)
(***************************************************************************)
EXTENDS Integers, Sequences, FiniteSets

CONSTANTS Event,      \* event ids
          MaxEvents,  \* edge_buffer_max_events
          BatchSize   \* edge_replay_batch_size

ASSUME BufferAssumption == MaxEvents \in Nat \ {0} /\ BatchSize \in Nat \ {0}

VARIABLES buffer,    \* committed rows of buffered_events, oldest first
          batch,     \* [size, done] of the open replay transaction
          totals,    \* the runtime_state counters
          status,    \* runtime_state.connectivity_status
          evictions, \* history: number of rows _prune_if_needed deleted
          evicted    \* history: the events of those rows

bufferVars == <<buffer, batch, totals, status, evictions, evicted>>

NoBatch == [size |-> 0, done |-> 0]

SmallerOf(a, b) == IF a < b THEN a ELSE b
LargerOf(a, b)  == IF a > b THEN a ELSE b

Overflow(rows) == LargerOf(0, Len(rows) - MaxEvents + 1)

\* The events another connection would find in buffered_events.
Held == {buffer[i] : i \in 1..Len(buffer)}

BufferInit ==
  /\ buffer = <<>>
  /\ batch = NoBatch
  /\ totals = [buffered |-> 0, replayed |-> 0, failures |-> 0]
  /\ status = "unknown"
  /\ evictions = 0
  /\ evicted = {}

MarkConnectivity(s) ==
  /\ status' = s
  /\ UNCHANGED <<buffer, batch, totals, evictions, evicted>>

\* buffer_event: prune, insert, count and report s in one transaction.
AddEvent(e, s) ==
  LET cut == Overflow(buffer)
  IN /\ buffer' = Append(SubSeq(buffer, cut + 1, Len(buffer)), e)
     /\ evictions' = evictions + cut
     /\ evicted' = evicted \cup {buffer[i] : i \in 1..cut}
     /\ totals' = [totals EXCEPT !.buffered = @ + 1]
     /\ status' = s
     /\ UNCHANGED batch

(***************************************************************************)
(* replay(): select a batch, store its rows one after the other, delete    *)
(* each one stored; the deletions become durable in ONE commit, at the end *)
(* of the batch or at the first row the central store refuses.             *)
(***************************************************************************)
SelectBatch ==
  /\ batch' = [size |-> SmallerOf(BatchSize, Len(buffer)), done |-> 0]
  /\ UNCHANGED <<buffer, totals, status, evictions, evicted>>

NextRow == buffer[batch.done + 1]

RowDeleted ==
  /\ batch' = [batch EXCEPT !.done = @ + 1]
  /\ UNCHANGED <<buffer, totals, status, evictions, evicted>>

\* Mutants: the whole batch is deleted, or counted, wherever it stopped.
CommitDeletions_WholeBatch(failed, s) ==
  /\ buffer' = SubSeq(buffer, batch.size + 1, Len(buffer))
  /\ totals' = [totals EXCEPT !.replayed = @ + batch.size,
                              !.failures = @ + (IF failed THEN 1 ELSE 0)]
  /\ batch' = NoBatch
  /\ status' = s
  /\ UNCHANGED <<evictions, evicted>>

CommitDeletions_CountAll(failed, s) ==
  /\ buffer' = SubSeq(buffer, batch.done + 1, Len(buffer))
  /\ totals' = [totals EXCEPT !.replayed = @ + batch.size,
                              !.failures = @ + (IF failed THEN 1 ELSE 0)]
  /\ batch' = NoBatch
  /\ status' = s
  /\ UNCHANGED <<evictions, evicted>>

CommitDeletions(failed, s) ==
  /\ buffer' = SubSeq(buffer, batch.done + 1, Len(buffer))
  /\ totals' = [totals EXCEPT !.replayed = @ + batch.done,
                              !.failures = @ + (IF failed THEN 1 ELSE 0)]
  /\ batch' = NoBatch
  /\ status' = s
  /\ UNCHANGED <<evictions, evicted>>

\* The process dies: SQLite rolls the open transaction back.
Rollback ==
  /\ batch' = NoBatch
  /\ UNCHANGED <<buffer, totals, status, evictions, evicted>>

-----------------------------------------------------------------------------
Statuses == {"unknown", "online", "offline", "degraded"}

BufferTypeOK ==
  /\ buffer \in Seq(Event)
  /\ batch \in [size : Nat, done : Nat]
  /\ totals \in [buffered : Nat, replayed : Nat, failures : Nat]
  /\ status \in Statuses
  /\ evictions \in Nat
  /\ evicted \in SUBSET Event

\* The counters the portal and the metrics endpoint show account for every
\* row: each one ever buffered was replayed, was pruned, or is still there.
\* A counter committed apart from its rows would break this after a crash.
Accounting == totals.buffered = totals.replayed + evictions + Len(buffer)

\* Pruning before each insert keeps the table within edge_buffer_max_events.
BufferBounded == Len(buffer) <= MaxEvents

\* An open replay transaction only names rows that are there.
BatchWithinBuffer == batch.done <= batch.size /\ batch.size <= Len(buffer)
=============================================================================

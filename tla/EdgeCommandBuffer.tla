-------------------------- MODULE EdgeCommandBuffer --------------------------
(***************************************************************************)
(* The SQLite queue of CMMS handoffs an edge site could not deliver: class *)
(* EdgeCommandBuffer of runner/edge_command_buffer.py.  The approval API   *)
(* writes it, the work-order bridge drains it, each through a connection   *)
(* of its own.                                                             *)
(*                                                                         *)
(* A row is the id its command was queued under (a UNIQUE column); rows    *)
(* are kept in id order.  Payloads, timestamps and last_error are left     *)
(* out: nothing branches on them.                                          *)
(***************************************************************************)
EXTENDS Integers, Sequences, FiniteSets, SequencesExt

CONSTANTS Command,        \* the ids a command can be queued under
          ReplayBatchSize \* edge_replay_batch_size

ASSUME CommandAssumption == ReplayBatchSize \in Nat \ {0}

VARIABLES queue, \* rows of queued_commands, oldest first
          totals \* the runtime_state counters

queueVars == <<queue, totals>>

QueueInit ==
  /\ queue = <<>>
  /\ totals = [queued |-> 0, replayed |-> 0, failures |-> 0]

IsQueued(c) == \E i \in 1..Len(queue) : queue[i] = c

(***************************************************************************)
(* enqueue_command looks the id up in autocommit mode and only then opens  *)
(* its write transaction, so the row may come or go in between.  found is  *)
(* what the look-up saw: an UPDATE of a row that has gone changes nothing, *)
(* an INSERT of an id that has arrived breaks the UNIQUE constraint.       *)
(***************************************************************************)
EnqueueUpdate_Counts == \* mutant: queueing an id again is counted again
  /\ totals' = [totals EXCEPT !.queued = @ + 1]
  /\ UNCHANGED queue

EnqueueUpdate == UNCHANGED queueVars

EnqueueInsert(c) ==
  /\ ~IsQueued(c)
  /\ queue' = Append(queue, c)
  /\ totals' = [totals EXCEPT !.queued = @ + 1]

Enqueue(c, found) == IF found THEN EnqueueUpdate ELSE EnqueueInsert(c)

EnqueueClashes(c, found) == ~found /\ IsQueued(c)

\* list_queued_commands: the oldest rows, up to the batch size.
Oldest(n) == SubSeq(queue, 1, IF n < Len(queue) THEN n ELSE Len(queue))

RecordReplayFailure ==
  /\ totals' = [totals EXCEPT !.failures = @ + 1]
  /\ UNCHANGED queue

\* record_replay_success counts whether or not the row was still there.
RecordReplaySuccess(c) ==
  /\ queue' = IF IsQueued(c)
              THEN RemoveAt(queue, CHOOSE i \in 1..Len(queue) : queue[i] = c)
              ELSE queue
  /\ totals' = [totals EXCEPT !.replayed = @ + 1]

-----------------------------------------------------------------------------

QueueTypeOK ==
  /\ queue \in Seq(Command)
  /\ totals \in [queued : Nat, replayed : Nat, failures : Nat]

\* The counters the portal shows explain the backlog exactly, and no id is
\* queued twice: every command ever queued is waiting or was replayed once.
\* (enqueue_command, record_replay_success)
CommandAccounting ==
  /\ totals.queued = totals.replayed + Len(queue)
  /\ \A i, j \in 1..Len(queue) : queue[i] = queue[j] => i = j
=============================================================================

------------------------------- MODULE WoBridge ------------------------------
(***************************************************************************)
(* services/wo_bridge.py: the consumer of canonical.recommendation.created *)
(* that hands every recommendation over to the CMMS and, in edge mode,     *)
(* first replays the handoffs the approval API has queued.                 *)
(*                                                                         *)
(* As in EdgeIngestion, position is advanced when the Kafka client hands a *)
(* message over and committed by auto-commit inside poll and by close().   *)
(* The queue is looked at only when a message arrives.  An exception that  *)
(* is not the CMMS's (Postgres, SQLite), or a live message whose handoff   *)
(* fails, leaves the loop through its finally block: nothing restarts the  *)
(* service but its operator.                                               *)
(***************************************************************************)
EXTENDS PmApproval

CONSTANT Topic \* the partition: the proposal each message recommends

ASSUME BridgeAssumption == Topic \in Seq(Proposal)

VARIABLES pc,        \* where the loop is
          position,  \* messages handed to the loop so far
          committed, \* committed offset of group agent-wo-bridge
          left,      \* tries left for the live message
          todo,      \* ids of the commands selected for this replay
          wo,        \* the order the last call returned
          read       \* the proposal row as the bridge read it

kafkaVars == <<position, committed>>
handVars == <<left, todo, wo, read>>
bridgeVars == <<pc, kafkaVars, handVars>>
vars == <<sharedVars, req, bridgeVars>>

Places == {"poll", "list", "replay", "persist", "read", "write", "dequeue",
           "read failed", "write failed", "live", "persist live", "stopped"}

BridgeInit ==
  /\ pc = "poll" /\ position = 0 /\ committed = 0
  /\ left = 0 /\ todo = <<>> /\ wo = NoOrder /\ read = NoRow

AutoCommit ==
  /\ pc = "poll" /\ committed < position
  /\ committed' = position
  /\ UNCHANGED <<sharedVars, req, pc, position, handVars>>

Poll ==
  /\ pc = "poll" /\ position < Len(Topic)
  /\ position' = position + 1
  /\ pc' = IF EdgeMode /\ queue # <<>> THEN "list" ELSE "live"
  /\ left' = RetryAttempts
  /\ UNCHANGED <<sharedVars, req, committed, todo, wo, read>>

-----------------------------------------------------------------------------
(* _replay_edge_command_queue.                                             *)

Command1 == Head(todo)

List ==
  /\ pc = "list"
  /\ todo' = Oldest(ReplayBatchSize)
  /\ pc' = "replay"
  /\ UNCHANGED <<sharedVars, req, kafkaVars, left, wo, read>>

ReplayDone ==
  /\ pc = "replay" /\ todo = <<>>
  /\ pc' = "live"
  /\ UNCHANGED <<sharedVars, req, kafkaVars, handVars>>

ReplayOk ==
  /\ pc = "replay" /\ todo # <<>>
  /\ CreateOrder(RecommendationOf(Command1))
  /\ wo' = NextOrder(RecommendationOf(Command1))
  /\ pc' = "persist"
  /\ UNCHANGED <<queueVars, row, workorders, healthy, faults, req, kafkaVars, left, todo, read>>

PersistReplayed ==
  /\ pc = "persist"
  /\ PersistWorkOrder(wo)
  /\ pc' = "read"
  /\ UNCHANGED <<queueVars, row, orders, healthy, faults, req, kafkaVars, handVars>>

(***************************************************************************)
(* update_proposal_handoff_status reads the row by its key, and writes     *)
(* back what it read with one more attempt: two statements, no row lock.   *)
(* Under an id that is not the row's key it finds nothing and does nothing.*)
(***************************************************************************)
FoundBy(id) == IF IsRowKey(id) THEN row[RecommendationOf(id)] ELSE NoRow

ReadRow(write, skip) ==
  /\ read' = FoundBy(Command1)
  /\ pc' = IF read'.status = "absent" THEN skip ELSE write
  /\ UNCHANGED <<sharedVars, req, kafkaVars, left, todo, wo>>

ReadReplayed == pc = "read" /\ ReadRow("write", "dequeue")

WithAttempt(r, state) ==
  [r EXCEPT !.attempts = Append(@, [by |-> Bridge, state |-> state])]

WriteReplayed ==
  /\ pc = "write"
  /\ UpdateProposal(Command1,
       [WithAttempt(read, "success") EXCEPT !.status = "approved", !.wo = wo])
  /\ read' = NoRow
  /\ pc' = "dequeue"
  /\ UNCHANGED <<queueVars, workorders, orders, healthy, faults, req, kafkaVars, left, todo, wo>>

Dequeue_CountOnly == \* mutant: the replayed command stays in the queue
  /\ pc = "dequeue"
  /\ totals' = [totals EXCEPT !.replayed = @ + 1]
  /\ todo' = Tail(todo) /\ wo' = NoOrder
  /\ pc' = "replay"
  /\ UNCHANGED <<queue, storeVars, faults, req, kafkaVars, left, read>>

Dequeue ==
  /\ pc = "dequeue"
  /\ RecordReplaySuccess(Command1)
  /\ todo' = Tail(todo) /\ wo' = NoOrder
  /\ pc' = "replay"
  /\ UNCHANGED <<storeVars, faults, req, kafkaVars, left, read>>

ReplayFails_Dequeues == \* mutant: a command that failed is taken off as well
  /\ pc = "replay" /\ todo # <<>>
  /\ \E how \in CmmsFailures : CallFails(RecommendationOf(Command1), how)
  /\ RecordReplaySuccess(Command1)
  /\ pc' = "read failed"
  /\ UNCHANGED <<row, workorders, healthy, faults, req, kafkaVars, handVars>>

ReplayFails ==
  /\ pc = "replay" /\ todo # <<>>
  /\ \E how \in CmmsFailures : CallFails(RecommendationOf(Command1), how)
  /\ RecordReplayFailure
  /\ pc' = "read failed"
  /\ UNCHANGED <<row, workorders, healthy, faults, req, kafkaVars, handVars>>

ReadFailed == pc = "read failed" /\ ReadRow("write failed", "live")

\* The row keeps its status and its order; the rest of the batch waits.
WriteFailed ==
  /\ pc = "write failed"
  /\ UpdateProposal(Command1, WithAttempt(read, "queued-offline"))
  /\ read' = NoRow
  /\ pc' = "live"
  /\ UNCHANGED <<queueVars, workorders, orders, healthy, faults, req, kafkaVars, left, todo, wo>>

-----------------------------------------------------------------------------
(* The live message, and the ways out of the loop.                         *)

Live == Topic[position]

LiveOk ==
  /\ pc = "live"
  /\ CreateOrder(Live)
  /\ wo' = NextOrder(Live)
  /\ pc' = "persist live"
  /\ UNCHANGED <<queueVars, row, workorders, healthy, faults, req, kafkaVars, left, todo, read>>

PersistLive ==
  /\ pc = "persist live"
  /\ PersistWorkOrder(wo)
  /\ pc' = "poll"
  /\ todo' = <<>> /\ wo' = NoOrder
  /\ UNCHANGED <<queueVars, row, orders, healthy, faults, req, kafkaVars, left, read>>

LiveFails ==
  /\ pc = "live"
  /\ \E how \in CmmsFailures :
       /\ CallFails(Live, how)
       /\ how # "garbled" /\ left > 1
  /\ left' = left - 1
  /\ UNCHANGED <<queueVars, row, workorders, healthy, faults, req, pc, kafkaVars, todo, wo, read>>

\* The process ends: what it held is gone.
Stop ==
  /\ pc' = "stopped"
  /\ left' = 0 /\ todo' = <<>> /\ wo' = NoOrder /\ read' = NoRow

\* Leaving through finally: cons.close() commits the message in hand.
LiveGivesUp ==
  /\ pc = "live"
  /\ \E how \in CmmsFailures :
       /\ CallFails(Live, how)
       /\ how = "garbled" \/ left = 1
  /\ committed' = position
  /\ Stop
  /\ UNCHANGED <<queueVars, row, workorders, healthy, faults, req, position>>

BridgeErrors ==
  /\ pc \notin {"poll", "live", "stopped"}
  /\ SomethingFails
  /\ committed' = position
  /\ Stop
  /\ UNCHANGED <<queueVars, storeVars, req, position>>

Killed ==
  /\ pc # "stopped"
  /\ SomethingFails
  /\ Stop
  /\ UNCHANGED <<queueVars, storeVars, req, kafkaVars>>

\* The operator starts the service again.
Restart ==
  /\ pc = "stopped"
  /\ position' = committed
  /\ pc' = "poll"
  /\ UNCHANGED <<sharedVars, req, committed, handVars>>

LoopStep ==
  \/ Poll \/ List \/ ReplayDone \/ ReplayOk \/ PersistReplayed \/ ReadReplayed
  \/ WriteReplayed \/ Dequeue \/ ReplayFails \/ ReadFailed \/ WriteFailed
  \/ LiveOk \/ PersistLive \/ LiveFails \/ LiveGivesUp

BridgeNext == LoopStep \/ AutoCommit \/ BridgeErrors \/ Killed \/ Restart
=============================================================================

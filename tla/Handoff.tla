------------------------------- MODULE Handoff -------------------------------
(***************************************************************************)
(* The approval API and the work-order bridge together: two writers of     *)
(* pm_proposals and workorders, the queue between them, one CMMS.          *)
(***************************************************************************)
EXTENDS WoBridge

Init == ApprovalInit /\ BridgeInit

ApiStep ==
  /\ \/ \E r \in Request : HandleRequest(r)
     \/ \E p \in Proposal : Analyze(p)
  /\ UNCHANGED bridgeVars

Heal == Recover /\ UNCHANGED bridgeVars

Next == ApiStep \/ Heal \/ BridgeNext

Spec == Init /\ [][Next]_vars

(***************************************************************************)
(* The loop runs whenever it can; requests need not come or finish, the    *)
(* CMMS need not recover, and nobody need restart the bridge.              *)
(***************************************************************************)
FairSpec == Spec /\ WF_vars(LoopStep)

-----------------------------------------------------------------------------

TypeOK ==
  /\ ApprovalTypeOK
  /\ pc \in Places
  /\ position \in 0..Len(Topic) /\ committed \in 0..position
  /\ left \in 0..RetryAttempts
  /\ todo \in Seq(Command)
  /\ wo \in Order \cup {NoOrder}
  /\ read \in Row

Replaying ==
  pc \in {"replay", "persist", "read", "write", "dequeue"}

\* What the bridge is replaying is the front of the queue, in queue order,
\* whatever the API queues meanwhile: no command is replayed before one
\* queued earlier, and the row deleted is the row replayed.
\* (list_queued_commands, record_replay_success)
ReplaysFront == Replaying => IsPrefix(todo, queue)

\* A command leaves the queue only when an order for its proposal exists in
\* the CMMS and in table workorders.  (_replay_edge_command_queue)
DequeuedHandedOff ==
  [][\A i \in 1..Len(queue) :
       (\E j \in 1..Len(queue') : queue'[j] = queue[i])
       \/ (wo \in workorders /\ Exists(wo) /\ wo[1] = RecommendationOf(queue[i]))]_vars

\* The messages it takes until the i-th command of the queue is replayed:
\* every message starts with the replay of one batch.
BatchesTo(i) == (i + ReplayBatchSize - 1) \div ReplayBatchSize

\* With the CMMS back for good and as many messages still to come as there
\* are batches up to it, a queued command is replayed unless the bridge
\* stops.  (wo_bridge, _replay_edge_command_queue)
QueueDrains ==
  \A c \in Command :
    (/\ healthy
     /\ \E i \in 1..Len(queue) :
          queue[i] = c /\ position + BatchesTo(i) <= Len(Topic))
      ~> (~IsQueued(c) \/ pc = "stopped")

-----------------------------------------------------------------------------
(* What the repository says of the handoff.                                *)

\* A proposal the API answers is "already queued" is in the queue.
\* (approve_proposal's 202)
QueuedIsQueued ==
  \A p \in Proposal : row[p].status = "queued-offline" =>
    \E c \in Command : RecommendationOf(c) = p /\ IsQueued(c)
=============================================================================

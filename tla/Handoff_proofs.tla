---------------------------- MODULE Handoff_proofs ----------------------------
(***************************************************************************)
(* Proofs about the handoff: any number of proposals, approve requests and *)
(* messages, edge mode or not, any limits, failures and number of faults.  *)
(***************************************************************************)
EXTENDS Handoff, SequenceTheorems, FiniteSetTheorems, TLAPS

USE CommandAssumption, HandoffAssumption, ApprovalAssumption, BridgeAssumption

(***************************************************************************)
(* Types.  A try is counted down only where one is left, and what is       *)
(* stored as an order is one.                                              *)
(***************************************************************************)

Replayed == {"persist", "read", "write", "dequeue", "read failed", "write failed"}

InHand ==
  /\ \A r \in Request :
       /\ req[r].pc \in {"guarded", "submit"} => req[r].left >= 1
       /\ req[r].pc = "persist" => req[r].wo \in Order
  /\ pc \notin {"poll", "stopped"} => left >= 1 /\ position >= 1
  /\ pc \in {"persist", "persist live"} => wo \in Order
  /\ pc \in Replayed => todo # <<>>

Typed == TypeOK /\ InHand

\* The proposal a command or a message names is one.
LEMMA IdTyped ==
  ASSUME NEW c \in Id
  PROVE  RecommendationOf(c) \in Proposal /\ IsRowKey(c) \in BOOLEAN
  BY DEF Id, RecommendationOf, IsRowKey

\* The thread of a request that has not begun, or has been answered, is one.
LEMMA IdleTyped == Idle \in Thread /\ Idle.pc = "idle" /\ [Idle EXCEPT !.pc = "done"] \in Thread
<1>1. (CHOOSE c \in Command : TRUE) \in Command
  OBVIOUS
<1>2. <<>> \in Seq(Attempt)
  OBVIOUS
<1>3. QED BY <1>1, <1>2 DEF Idle, Thread

\* An attempt of a request or of the bridge.
LEMMA AttemptTyped ==
  ASSUME NEW a \in Seq(Attempt), NEW b \in Request \cup {Bridge},
         NEW s \in {"success", "failure", "queued-offline"}
  PROVE  /\ Append(a, [by |-> b, state |-> s]) \in Seq(Attempt)
         /\ Len(Append(a, [by |-> b, state |-> s])) >= 1
  BY DEF Attempt

\* UPDATE pm_proposals writes a typed row.
LEMMA UpdateTyped ==
  ASSUME row \in [Proposal -> Row], NEW id \in Id, NEW q \in Row, UpdateProposal(id, q)
  PROVE  row' \in [Proposal -> Row]
  BY IdTyped DEF UpdateProposal

\* _upsert_proposal leaves a typed row.
LEMMA UpsertTyped ==
  ASSUME row \in [Proposal -> Row], NEW p \in Proposal, UpsertProposal(p)
  PROVE  row' \in [Proposal -> Row]
<1>1. ASSUME NEW q \in Row
      PROVE [q EXCEPT !.status = IF @ = "absent" THEN "pending" ELSE @] \in Row
  BY DEF Row, Statuses
<1>2. QED BY <1>1 DEF UpsertProposal

\* A CMMS call leaves a count of orders per recommendation.
LEMMA CallTyped ==
  ASSUME orders \in [Proposal -> Nat], NEW p \in Proposal
  PROVE  /\ CreateOrder(p) => orders' \in [Proposal -> Nat]
         /\ \A how : CallFails(p, how) => orders' \in [Proposal -> Nat]
         /\ NextOrder(p) \in Order
  BY DEF CreateOrder, CallFails, NextOrder, Order

\* The queue's counters stay counters.
LEMMA TotalsTyped ==
  ASSUME NEW t \in [queued : Nat, replayed : Nat, failures : Nat]
  PROVE  /\ [t EXCEPT !.queued = @ + 1] \in [queued : Nat, replayed : Nat, failures : Nat]
         /\ [t EXCEPT !.replayed = @ + 1] \in [queued : Nat, replayed : Nat, failures : Nat]
         /\ [t EXCEPT !.failures = @ + 1] \in [queued : Nat, replayed : Nat, failures : Nat]
  OBVIOUS

\* Taking one command off leaves a sequence of commands.
LEMMA RemoveAtTyped ==
  ASSUME NEW s \in Seq(Command), NEW i \in 1..Len(s)
  PROVE  RemoveAt(s, i) \in Seq(Command)
  BY DEF RemoveAt

\* Every write to the queue keeps it typed.
LEMMA QueueTyped ==
  ASSUME QueueTypeOK, NEW c \in Command
  PROVE  /\ EnqueueUpdate => QueueTypeOK'
         /\ EnqueueInsert(c) => QueueTypeOK'
         /\ RecordReplayFailure => QueueTypeOK'
         /\ RecordReplaySuccess(c) => QueueTypeOK'
<1>1. EnqueueUpdate => QueueTypeOK'
  BY DEF EnqueueUpdate, queueVars, QueueTypeOK
<1>2. EnqueueInsert(c) => QueueTypeOK'
  <2>1. Append(queue, c) \in Seq(Command)
    BY DEF QueueTypeOK
  <2>2. QED BY <2>1, TotalsTyped DEF EnqueueInsert, QueueTypeOK
<1>3. RecordReplayFailure => QueueTypeOK'
  BY TotalsTyped DEF RecordReplayFailure, QueueTypeOK
<1>4. ASSUME RecordReplaySuccess(c) PROVE QueueTypeOK'
  <2>1. totals' \in [queued : Nat, replayed : Nat, failures : Nat]
    BY <1>4, TotalsTyped DEF RecordReplaySuccess, QueueTypeOK
  <2>2. CASE IsQueued(c)
    <3> DEFINE i == CHOOSE i \in 1..Len(queue) : queue[i] = c
    <3>1. i \in 1..Len(queue)
      BY <2>2 DEF IsQueued
    <3>2. queue' = RemoveAt(queue, i)
      BY <1>4, <2>2 DEF RecordReplaySuccess
    <3>3. QED BY <2>1, <3>1, <3>2, RemoveAtTyped DEF QueueTypeOK
  <2>3. CASE ~IsQueued(c)
    BY <1>4, <2>1, <2>3 DEF RecordReplaySuccess, QueueTypeOK
  <2>4. QED BY <2>2, <2>3
<1>5. QED BY <1>1, <1>2, <1>3, <1>4

\* Relabelling the last attempt leaves a history of attempts.
LEMMA AsQueuedTyped ==
  ASSUME NEW a \in Seq(Attempt)
  PROVE  AsQueued(a) \in Seq(Attempt)
<1>1. CASE a = <<>>
  <2>1. DOMAIN a = {} /\ DOMAIN AsQueued(a) = DOMAIN a
    BY <1>1 DEF AsQueued
  <2>2. AsQueued(a) = [i \in DOMAIN a |-> AsQueued(a)[i]]
    BY DEF AsQueued
  <2>3. AsQueued(a) \in [1..0 -> Attempt]
    BY <2>1, <2>2
  <2>4. QED BY <2>3, SeqDef
<1>2. CASE a # <<>>
  <2> DEFINE last == [a[Len(a)] EXCEPT !.state = "queued-offline"]
  <2>1. Len(a) \in 1..Len(a) /\ a[Len(a)] \in Attempt
    BY <1>2
  <2>2. last \in Attempt
    BY <2>1 DEF Attempt
  <2>3. AsQueued(a) = [a EXCEPT ![Len(a)] = last]
    BY DEF AsQueued
  <2> HIDE DEF last
  <2>4. QED BY <2>1, <2>2, <2>3, ExceptSeq
<1>3. QED BY <1>1, <1>2

-----------------------------------------------------------------------------

\* What an API step must show: the thread it moves stays typed, with a try
\* left wherever one will be counted and an order wherever one is stored.
LEMMA ThreadMoves ==
  ASSUME req \in [Request -> Thread], InHand, UNCHANGED bridgeVars,
         NEW r \in Request, NEW q \in Thread, req' = [req EXCEPT ![r] = q],
         q.pc \in {"guarded", "submit"} => q.left >= 1,
         q.pc = "persist" => q.wo \in Order
  PROVE  req' \in [Request -> Thread] /\ InHand'
  BY DEF InHand, bridgeVars, kafkaVars, handVars

\* The initial state is well typed.
LEMMA InitTyped == Init => Typed
<1> SUFFICES ASSUME Init PROVE Typed
  OBVIOUS
<1>1. NoRow \in Row
  BY DEF NoRow, Row, Statuses
<1>2. ApprovalTypeOK
  <2>1. QueueTypeOK
    BY DEF Init, ApprovalInit, QueueInit, QueueTypeOK
  <2>2. row \in [Proposal -> Row] /\ workorders \subseteq Order /\ orders \in [Proposal -> Nat] /\ healthy \in BOOLEAN
    BY <1>1 DEF Init, ApprovalInit, StoreInit
  <2>3. req \in [Request -> Thread] /\ faults \in 0..MaxFaults
    BY IdleTyped DEF Init, ApprovalInit
  <2>4. QED BY <2>1, <2>2, <2>3 DEF ApprovalTypeOK
<1>3. TypeOK
  BY <1>1, <1>2 DEF Init, BridgeInit, TypeOK, Places
<1>4. InHand
  BY IdleTyped DEF Init, ApprovalInit, BridgeInit, InHand, Replayed
<1>5. QED BY <1>3, <1>4 DEF Typed

\* A new request: its thread has at least one try.
LEMMA BeginTyped ==
  ASSUME Typed, UNCHANGED bridgeVars, NEW r \in Request, NEW id \in Command,
         NEW existing \in Row, NEW admin \in BOOLEAN, Begin(r, id, existing, admin)
  PROVE  req' \in [Request -> Thread] /\ InHand'
<1>1. req \in [Request -> Thread] /\ InHand
  BY DEF Typed, TypeOK, ApprovalTypeOK
<1>2. CASE MayHandOff(existing, admin)
  <2> DEFINE n == Tries(MaxAttempts - Len(existing.attempts))
             q == [req[r] EXCEPT !.pc = "guarded", !.id = id, !.left = n]
  <2>1. Len(existing.attempts) \in Nat /\ Len(existing.attempts) < MaxAttempts
    BY <1>2 DEF MayHandOff, Row
  <2>2. n \in Nat /\ n >= 1
    BY <2>1 DEF Tries
  <2> HIDE DEF n
  <2>3. q \in Thread /\ q.left >= 1 /\ q.pc = "guarded"
    BY <1>1, <2>2 DEF Thread, Running
  <2>4. req' = [req EXCEPT ![r] = q]
    BY <1>2, <1>1 DEF Begin, n
  <2> HIDE DEF q
  <2>5. QED BY <1>1, <2>3, <2>4, ThreadMoves
<1>3. CASE ~MayHandOff(existing, admin)
  <2>1. req' = [req EXCEPT ![r] = [Idle EXCEPT !.pc = "done"]]
    BY <1>3 DEF Begin, Answer
  <2>2. [Idle EXCEPT !.pc = "done"].pc = "done"
    BY DEF Idle
  <2>3. QED BY <1>1, <2>1, <2>2, IdleTyped, ThreadMoves
<1>4. QED BY <1>2, <1>3

\* A request answered leaves an empty thread.
LEMMA AnswerTyped ==
  ASSUME Typed, UNCHANGED bridgeVars, NEW r \in Request, Answer(r)
  PROVE  req' \in [Request -> Thread] /\ InHand'
<1>1. req \in [Request -> Thread] /\ InHand
  BY DEF Typed, TypeOK, ApprovalTypeOK
<1>2. [Idle EXCEPT !.pc = "done"].pc = "done"
  BY DEF Idle
<1>3. QED BY <1>1, <1>2, IdleTyped, ThreadMoves DEF Answer

\* A request that only goes on to another place stays typed.
LEMMA GoToTyped ==
  ASSUME Typed, UNCHANGED bridgeVars, NEW r \in Request,
         NEW place \in Running \ {"guarded", "submit", "persist"}, GoTo(r, place)
  PROVE  req' \in [Request -> Thread] /\ InHand'
<1>1. req \in [Request -> Thread] /\ InHand
  BY DEF Typed, TypeOK, ApprovalTypeOK
<1> DEFINE q == [req[r] EXCEPT !.pc = place]
<1>2. q \in Thread /\ q.pc = place
  BY <1>1 DEF Thread
<1>3. req' = [req EXCEPT ![r] = q]
  BY DEF GoTo
<1> HIDE DEF q
<1>4. QED BY <1>1, <1>2, <1>3, ThreadMoves

\* One step of a request.
LEMMA RequestTyped ==
  ASSUME Typed, NEW r \in Request, HandleRequest(r), UNCHANGED bridgeVars
  PROVE  ApprovalTypeOK' /\ InHand'
<1>1. /\ QueueTypeOK /\ row \in [Proposal -> Row] /\ workorders \subseteq Order
      /\ orders \in [Proposal -> Nat] /\ healthy \in BOOLEAN /\ faults \in 0..MaxFaults
      /\ req \in [Request -> Thread] /\ InHand
  BY DEF Typed, TypeOK, ApprovalTypeOK
<1>2. /\ req[r] \in Thread /\ req[r].id \in Command /\ req[r].id \in Id
      /\ ProposalOf(r) \in Proposal /\ req[r].left \in Nat /\ req[r].wo \in Order \cup {NoOrder}
      /\ req[r].base \in Seq(Attempt) /\ req[r].mine \in Seq(Attempt)
  BY <1>1, IdTyped DEF Thread, ProposalOf
<1>3. SomethingFails => faults' \in 0..MaxFaults
  BY <1>1 DEF SomethingFails
<1>4. UNCHANGED queueVars => QueueTypeOK'
  BY <1>1 DEF queueVars, QueueTypeOK
<1>5. ASSUME NEW status \in Statuses, NEW order \in Order \cup {NoOrder},
             NEW attempts \in Seq(Attempt), Record(r, status, order, attempts)
      PROVE  row' \in [Proposal -> Row]
  <2>1. req[r].base \o attempts \in Seq(Attempt)
    BY <1>2
  <2> DEFINE q == [status |-> status, wo |-> order, attempts |-> req[r].base \o attempts]
  <2>2. q \in Row
    BY <2>1 DEF Row
  <2>3. UpdateProposal(req[r].id, q)
    BY <1>5 DEF Record
  <2> HIDE DEF q
  <2>4. QED BY <1>1, <1>2, <2>2, <2>3, UpdateTyped
<1>6. CASE Arrive(r)
  <2>1. PICK id \in Command, admin \in BOOLEAN : Begin(r, id, row[RecommendationOf(id)], admin)
    BY <1>6 DEF Arrive
  <2>2. row[RecommendationOf(id)] \in Row
    BY <1>1, IdTyped
  <2>3. QED BY <1>1, <1>4, <1>6, <2>1, <2>2, BeginTyped DEF Arrive, sharedVars, storeVars, ApprovalTypeOK
<1>7. CASE ArriveUnread(r)
  <2>1. PICK id \in Command, admin \in BOOLEAN : Begin(r, id, NoRow, admin)
    BY <1>7 DEF ArriveUnread
  <2>2. NoRow \in Row
    BY DEF NoRow, Row, Statuses
  <2>3. QED BY <1>1, <1>3, <1>4, <1>7, <2>1, <2>2, BeginTyped DEF ArriveUnread, storeVars, ApprovalTypeOK
<1>8. CASE Upsert(r)
  <2> DEFINE q == [req[r] EXCEPT !.pc = "submit", !.base = row[ProposalOf(r)].attempts]
  <2>1. At(r, "guarded") /\ req[r].left >= 1 /\ row[ProposalOf(r)].attempts \in Seq(Attempt)
    BY <1>1, <1>2, <1>8 DEF Upsert, At, InHand, Row
  <2>2. q \in Thread /\ q.left >= 1 /\ q.pc = "submit"
    BY <1>2, <2>1 DEF Thread, Running
  <2>3. req' = [req EXCEPT ![r] = q]
    BY <1>1, <1>8 DEF Upsert
  <2> HIDE DEF q
  <2>4. req' \in [Request -> Thread] /\ InHand'
    BY <1>1, <2>2, <2>3, ThreadMoves
  <2>5. row' \in [Proposal -> Row]
    BY <1>1, <1>2, <1>8, UpsertTyped DEF Upsert
  <2>6. QED BY <1>1, <1>4, <1>8, <2>4, <2>5 DEF Upsert, ApprovalTypeOK
<1>9. CASE SubmitOk(r)
  <2> DEFINE a == Append(req[r].mine, [by |-> r, state |-> "success"])
             o == NextOrder(ProposalOf(r))
             q == [req[r] EXCEPT !.pc = "persist", !.wo = o, !.mine = a]
  <2>1. a \in Seq(Attempt) /\ o \in Order /\ orders' \in [Proposal -> Nat]
    BY <1>1, <1>2, <1>9, AttemptTyped, CallTyped DEF SubmitOk
  <2> HIDE DEF a, o
  <2>2. q \in Thread /\ q.pc = "persist" /\ q.wo \in Order
    BY <1>2, <2>1 DEF Thread, Running
  <2>3. req' = [req EXCEPT ![r] = q]
    BY <1>1, <1>9 DEF SubmitOk, a, o
  <2> HIDE DEF q
  <2>4. req' \in [Request -> Thread] /\ InHand'
    BY <1>1, <2>2, <2>3, ThreadMoves
  <2>5. QED BY <1>1, <1>4, <1>9, <2>1, <2>4 DEF SubmitOk, ApprovalTypeOK
<1>10. CASE SubmitFails(r)
  <2>1. PICK how \in CmmsFailures :
          /\ CallFails(ProposalOf(r), how)
          /\ req' = [req EXCEPT ![r].pc = AfterFailure(r, how), ![r].left = @ - 1,
                       ![r].mine = Append(@, [by |-> r, state |-> "failure"])]
    BY <1>10 DEF SubmitFails
  <2> DEFINE a == Append(req[r].mine, [by |-> r, state |-> "failure"])
             place == AfterFailure(r, how)
             n == req[r].left - 1
             q == [req[r] EXCEPT !.pc = place, !.left = n, !.mine = a]
  <2>2. a \in Seq(Attempt) /\ orders' \in [Proposal -> Nat] /\ req[r].left >= 1
    BY <1>1, <1>2, <1>10, <2>1, AttemptTyped, CallTyped DEF SubmitFails, At, InHand
  <2>3. /\ place \in Running \ {"guarded", "persist"}
        /\ place = "submit" => req[r].left > 1
    BY DEF AfterFailure, Running
  <2> HIDE DEF a, place
  <2>4. n \in Nat
    BY <1>2, <2>2
  <2> HIDE DEF n
  <2>5. q \in Thread /\ q.pc = place /\ q.left = n
    BY <1>2, <2>2, <2>3, <2>4 DEF Thread
  <2>6. req' = [req EXCEPT ![r] = q]
    BY <1>1, <2>1 DEF a, place, n
  <2> HIDE DEF q
  <2>7. place = "submit" => n >= 1
    BY <1>2, <2>3 DEF n
  <2>8. req' \in [Request -> Thread] /\ InHand'
    BY <1>1, <2>3, <2>5, <2>6, <2>7, ThreadMoves
  <2>9. QED BY <1>1, <1>4, <1>10, <2>2, <2>8 DEF SubmitFails, ApprovalTypeOK
<1>11. CASE Persist(r)
  <2>1. req' \in [Request -> Thread] /\ InHand'
    BY <1>11, GoToTyped DEF Persist, Running
  <2>2. workorders' \subseteq Order
    BY <1>1, <1>11 DEF Persist, PersistWorkOrder, At, InHand
  <2>3. QED BY <1>1, <1>2, <1>4, <1>11, <2>1, <2>2 DEF Persist, ApprovalTypeOK
<1>12. CASE Approve(r)
  <2>1. row' \in [Proposal -> Row]
    BY <1>2, <1>5, <1>12 DEF Approve, Statuses
  <2>2. QED BY <1>1, <1>4, <1>12, <2>1, AnswerTyped DEF Approve, ApprovalTypeOK
<1>13. CASE MarkPending(r)
  <2>1. row' \in [Proposal -> Row]
    BY <1>2, <1>5, <1>13 DEF MarkPending, Statuses
  <2>2. QED BY <1>1, <1>4, <1>13, <2>1, AnswerTyped DEF MarkPending, ApprovalTypeOK
<1>14. CASE LookUp(r)
  <2> DEFINE f == IsQueued(req[r].id)
             q == [req[r] EXCEPT !.pc = "enqueue", !.found = f]
  <2>1. f \in BOOLEAN
    BY DEF IsQueued
  <2> HIDE DEF f
  <2>2. q \in Thread /\ q.pc = "enqueue"
    BY <1>2, <2>1 DEF Thread, Running
  <2>3. req' = [req EXCEPT ![r] = q]
    BY <1>1, <1>14 DEF LookUp, f
  <2> HIDE DEF q
  <2>4. req' \in [Request -> Thread] /\ InHand'
    BY <1>1, <2>2, <2>3, ThreadMoves
  <2>5. QED BY <1>1, <1>4, <1>14, <2>4 DEF LookUp, sharedVars, storeVars, ApprovalTypeOK
<1>15. CASE EnqueueCommand(r)
  <2>1. QueueTypeOK'
    BY <1>1, <1>2, <1>15, QueueTyped DEF EnqueueCommand, Enqueue
  <2>2. req' \in [Request -> Thread] /\ InHand'
    BY <1>15, GoToTyped DEF EnqueueCommand, Running
  <2>3. QED BY <1>1, <1>15, <2>1, <2>2 DEF EnqueueCommand, storeVars, ApprovalTypeOK
<1>16. CASE EnqueueCommandClashes(r)
  <2>1. req' \in [Request -> Thread] /\ InHand'
    BY <1>16, GoToTyped DEF EnqueueCommandClashes, Running
  <2>2. QED BY <1>1, <1>4, <1>16, <2>1 DEF EnqueueCommandClashes, sharedVars, storeVars, ApprovalTypeOK
<1>17. CASE MarkQueued(r)
  <2>1. row' \in [Proposal -> Row]
    BY <1>2, <1>5, <1>17, AsQueuedTyped DEF MarkQueued, Statuses
  <2>2. QED BY <1>1, <1>4, <1>17, <2>1, AnswerTyped DEF MarkQueued, ApprovalTypeOK
<1>18. CASE QueueingFails(r)
  <2>1. req' \in [Request -> Thread] /\ InHand'
    BY <1>18, GoToTyped DEF QueueingFails, Running
  <2>2. QED BY <1>1, <1>3, <1>4, <1>18, <2>1 DEF QueueingFails, storeVars, ApprovalTypeOK
<1>19. CASE Abort(r)
  BY <1>1, <1>3, <1>4, <1>19, AnswerTyped DEF Abort, storeVars, ApprovalTypeOK
<1>20. QED BY <1>6, <1>7, <1>8, <1>9, <1>10, <1>11, <1>12, <1>13, <1>14, <1>15, <1>16,
              <1>17, <1>18, <1>19 DEF HandleRequest

-----------------------------------------------------------------------------

\* One step of the bridge's loop on a command.
LEMMA ReplayTyped ==
  ASSUME Typed,
         \/ ReplayOk \/ PersistReplayed \/ ReadReplayed \/ WriteReplayed
         \/ Dequeue \/ ReplayFails \/ ReadFailed \/ WriteFailed
  PROVE  Typed'
<1>1. /\ ApprovalTypeOK /\ InHand /\ position \in 0..Len(Topic) /\ committed \in 0..position
      /\ left \in 0..RetryAttempts /\ todo \in Seq(Command) /\ wo \in Order \cup {NoOrder}
      /\ read \in Row /\ QueueTypeOK /\ row \in [Proposal -> Row]
      /\ orders \in [Proposal -> Nat] /\ workorders \subseteq Order
      /\ req \in [Request -> Thread] /\ healthy \in BOOLEAN /\ faults \in 0..MaxFaults
  BY DEF Typed, TypeOK, ApprovalTypeOK
<1>2. todo # <<>> /\ left >= 1 /\ position >= 1
  BY <1>1 DEF InHand, Replayed, ReplayOk, PersistReplayed, ReadReplayed, WriteReplayed,
       Dequeue, ReplayFails, ReadFailed, WriteFailed
<1>3. /\ Command1 \in Command /\ Command1 \in Id /\ RecommendationOf(Command1) \in Proposal
      /\ Tail(todo) \in Seq(Command)
  BY <1>1, <1>2, IdTyped DEF Command1
<1>4. NoRow \in Row /\ FoundBy(Command1) \in Row
  BY <1>1, <1>3 DEF NoRow, Row, Statuses, FoundBy
<1>5. \A s \in {"success", "queued-offline"} : WithAttempt(read, s) \in Row
  <2>1. ASSUME NEW s \in {"success", "queued-offline"} PROVE WithAttempt(read, s) \in Row
    <3> DEFINE a == Append(read.attempts, [by |-> Bridge, state |-> s])
    <3>1. a \in Seq(Attempt)
      BY <1>1, AttemptTyped DEF Row
    <3> HIDE DEF a
    <3>2. [read EXCEPT !.attempts = a] \in Row
      BY <1>1, <3>1 DEF Row
    <3>3. QED BY <3>2 DEF WithAttempt, a
  <2>2. QED BY <2>1
<1>6. /\ UNCHANGED queueVars => QueueTypeOK'
      /\ UNCHANGED <<req, kafkaVars>> /\ pc' \notin {"poll", "stopped", "persist live"} /\ left' = left
         /\ (pc' = "persist" => wo' \in Order) /\ (pc' \in Replayed => todo' # <<>>) => InHand'
  BY <1>1, <1>2 DEF queueVars, QueueTypeOK, InHand, kafkaVars
<1>7. CASE ReplayOk
  <2>1. wo' \in Order /\ orders' \in [Proposal -> Nat]
    BY <1>1, <1>3, <1>7, CallTyped DEF ReplayOk
  <2>2. InHand'
    BY <1>2, <1>6, <1>7, <2>1 DEF ReplayOk, Replayed
  <2>3. QED BY <1>1, <1>6, <1>7, <2>1, <2>2 DEF ReplayOk, kafkaVars, Typed, TypeOK, ApprovalTypeOK, Places
<1>8. CASE PersistReplayed
  <2>1. workorders' \subseteq Order
    BY <1>1, <1>8 DEF PersistReplayed, PersistWorkOrder, InHand
  <2>2. InHand'
    BY <1>2, <1>6, <1>8 DEF PersistReplayed, handVars
  <2>3. QED BY <1>1, <1>6, <1>8, <2>1, <2>2 DEF PersistReplayed, kafkaVars, handVars, Typed, TypeOK, ApprovalTypeOK, Places
<1>9. CASE ReadReplayed \/ ReadFailed
  <2>1. /\ read' \in Row /\ pc' \in {"write", "dequeue", "write failed", "live"}
        /\ UNCHANGED <<sharedVars, req, kafkaVars, left, todo, wo>>
    BY <1>4, <1>9 DEF ReadReplayed, ReadFailed, ReadRow
  <2>2. InHand'
    BY <1>2, <1>6, <2>1
  <2>3. QED BY <1>1, <1>6, <2>1, <2>2 DEF sharedVars, storeVars, kafkaVars, Typed, TypeOK, ApprovalTypeOK, Places
<1>10. CASE WriteReplayed
  <2> DEFINE q == [WithAttempt(read, "success") EXCEPT !.status = "approved", !.wo = wo]
  <2>1. q \in Row
    BY <1>1, <1>5 DEF Row, Statuses
  <2>2. UpdateProposal(Command1, q)
    BY <1>10 DEF WriteReplayed
  <2> HIDE DEF q
  <2>3. row' \in [Proposal -> Row]
    BY <1>1, <1>3, <2>1, <2>2, UpdateTyped
  <2>4. InHand'
    BY <1>2, <1>6, <1>10 DEF WriteReplayed
  <2>5. QED BY <1>1, <1>4, <1>6, <1>10, <2>3, <2>4 DEF WriteReplayed, kafkaVars, Typed, TypeOK, ApprovalTypeOK, Places
<1>11. CASE Dequeue
  <2>1. QueueTypeOK'
    BY <1>1, <1>3, <1>11, QueueTyped DEF Dequeue
  <2>2. InHand'
    BY <1>2, <1>6, <1>11 DEF Dequeue, Replayed
  <2>3. QED BY <1>1, <1>3, <1>11, <2>1, <2>2 DEF Dequeue, storeVars, kafkaVars, Typed, TypeOK, ApprovalTypeOK, Places
<1>12. CASE ReplayFails
  <2>1. QueueTypeOK' /\ orders' \in [Proposal -> Nat]
    BY <1>1, <1>3, <1>12, QueueTyped, CallTyped DEF ReplayFails
  <2>2. InHand'
    BY <1>2, <1>6, <1>12 DEF ReplayFails, handVars
  <2>3. QED BY <1>1, <1>12, <2>1, <2>2 DEF ReplayFails, kafkaVars, handVars, Typed, TypeOK, ApprovalTypeOK, Places
<1>13. CASE WriteFailed
  <2>1. row' \in [Proposal -> Row]
    BY <1>1, <1>3, <1>5, <1>13, UpdateTyped DEF WriteFailed
  <2>2. InHand'
    BY <1>2, <1>6, <1>13 DEF WriteFailed, Replayed
  <2>3. QED BY <1>1, <1>4, <1>6, <1>13, <2>1, <2>2 DEF WriteFailed, kafkaVars, Typed, TypeOK, ApprovalTypeOK, Places
<1>14. QED BY <1>7, <1>8, <1>9, <1>10, <1>11, <1>12, <1>13

\* Every other step of the bridge.
LEMMA LoopTyped ==
  ASSUME Typed,
         \/ Poll \/ List \/ ReplayDone \/ LiveOk \/ PersistLive \/ LiveFails \/ LiveGivesUp
         \/ AutoCommit \/ BridgeErrors \/ Killed \/ Restart
  PROVE  Typed'
<1>1. /\ ApprovalTypeOK /\ InHand /\ position \in 0..Len(Topic) /\ committed \in 0..position
      /\ left \in 0..RetryAttempts /\ todo \in Seq(Command) /\ wo \in Order \cup {NoOrder}
      /\ read \in Row /\ QueueTypeOK /\ row \in [Proposal -> Row] /\ pc \in Places
      /\ orders \in [Proposal -> Nat] /\ workorders \subseteq Order
      /\ req \in [Request -> Thread] /\ healthy \in BOOLEAN /\ faults \in 0..MaxFaults
      /\ Len(Topic) \in Nat
  BY DEF Typed, TypeOK, ApprovalTypeOK
<1>2. UNCHANGED queueVars => QueueTypeOK'
  BY <1>1 DEF queueVars, QueueTypeOK
<1>3. NoRow \in Row /\ <<>> \in Seq(Command)
  BY DEF NoRow, Row, Statuses
<1>4. pc = "live" => Live \in Proposal
  BY <1>1 DEF Live, InHand
<1>5. ASSUME UNCHANGED <<sharedVars, req>> PROVE ApprovalTypeOK'
  BY <1>1, <1>2, <1>5 DEF sharedVars, storeVars, ApprovalTypeOK
<1>6. ASSUME Stop, UNCHANGED req
      PROVE  /\ InHand' /\ pc' \in Places /\ left' \in 0..RetryAttempts
             /\ todo' \in Seq(Command) /\ wo' \in Order \cup {NoOrder} /\ read' \in Row
  <2>1. InHand'
    BY <1>1, <1>6 DEF Stop, InHand, Replayed
  <2>2. pc' \in Places /\ left' \in 0..RetryAttempts /\ wo' \in Order \cup {NoOrder}
    BY <1>6 DEF Stop, Places
  <2>3. QED BY <1>3, <1>6, <2>1, <2>2 DEF Stop
<1>7. CASE Poll
  BY <1>1, <1>5, <1>7 DEF Poll, InHand, Replayed, Typed, TypeOK, Places
<1>8. CASE List
  <2>1. Oldest(ReplayBatchSize) \in Seq(Command)
    BY <1>1 DEF Oldest, QueueTypeOK
  <2>2. QED BY <1>1, <1>5, <1>8, <2>1 DEF List, kafkaVars, InHand, Replayed, Typed, TypeOK, Places
<1>9. CASE ReplayDone
  BY <1>1, <1>5, <1>9 DEF ReplayDone, kafkaVars, handVars, InHand, Replayed, Typed, TypeOK, Places
<1>10. CASE LiveOk
  <2>1. wo' \in Order /\ orders' \in [Proposal -> Nat]
    BY <1>1, <1>4, <1>10, CallTyped DEF LiveOk
  <2>2. InHand'
    BY <1>1, <1>10, <2>1 DEF LiveOk, kafkaVars, InHand, Replayed
  <2>3. QED BY <1>1, <1>2, <1>10, <2>1, <2>2 DEF LiveOk, kafkaVars, Typed, TypeOK, ApprovalTypeOK, Places
<1>11. CASE PersistLive
  <2>1. workorders' \subseteq Order /\ InHand'
    BY <1>1, <1>11 DEF PersistLive, PersistWorkOrder, InHand, Replayed
  <2>2. QED BY <1>1, <1>2, <1>3, <1>11, <2>1 DEF PersistLive, kafkaVars, Typed, TypeOK, ApprovalTypeOK, Places
<1>12. CASE LiveFails
  <2>1. orders' \in [Proposal -> Nat]
    BY <1>1, <1>4, <1>12, CallTyped DEF LiveFails
  <2>2. InHand' /\ left' \in 0..RetryAttempts
    BY <1>1, <1>12 DEF LiveFails, kafkaVars, InHand, Replayed
  <2>3. QED BY <1>1, <1>2, <1>12, <2>1, <2>2 DEF LiveFails, kafkaVars, Typed, TypeOK, ApprovalTypeOK
<1>13. CASE LiveGivesUp
  <2>1. orders' \in [Proposal -> Nat]
    BY <1>1, <1>4, <1>13, CallTyped DEF LiveGivesUp
  <2>2. QED BY <1>1, <1>2, <1>6, <1>13, <2>1 DEF LiveGivesUp, Typed, TypeOK, ApprovalTypeOK
<1>14. CASE AutoCommit
  BY <1>1, <1>5, <1>14 DEF AutoCommit, handVars, InHand, Replayed, Typed, TypeOK
<1>15. CASE BridgeErrors
  BY <1>1, <1>2, <1>6, <1>15 DEF BridgeErrors, SomethingFails, storeVars, Typed, TypeOK, ApprovalTypeOK
<1>16. CASE Killed
  BY <1>1, <1>2, <1>6, <1>16 DEF Killed, SomethingFails, storeVars, kafkaVars, Typed, TypeOK, ApprovalTypeOK
<1>17. CASE Restart
  BY <1>1, <1>5, <1>17 DEF Restart, handVars, InHand, Replayed, Typed, TypeOK, Places
<1>18. QED BY <1>7, <1>8, <1>9, <1>10, <1>11, <1>12, <1>13, <1>14, <1>15, <1>16, <1>17

\* Every step keeps the types.
LEMMA StepTyped == Typed /\ [Next]_vars => Typed'
<1> SUFFICES ASSUME Typed, [Next]_vars PROVE Typed'
  OBVIOUS
<1>1. /\ ApprovalTypeOK /\ InHand /\ position \in 0..Len(Topic) /\ committed \in 0..position
      /\ left \in 0..RetryAttempts /\ todo \in Seq(Command) /\ wo \in Order \cup {NoOrder}
      /\ read \in Row /\ QueueTypeOK /\ row \in [Proposal -> Row] /\ pc \in Places
      /\ orders \in [Proposal -> Nat] /\ workorders \subseteq Order
      /\ req \in [Request -> Thread] /\ healthy \in BOOLEAN /\ faults \in 0..MaxFaults
  BY DEF Typed, TypeOK, ApprovalTypeOK
<1>2. UNCHANGED queueVars => QueueTypeOK'
  BY <1>1 DEF queueVars, QueueTypeOK
<1>3. ASSUME UNCHANGED bridgeVars, ApprovalTypeOK', InHand' PROVE Typed'
  BY <1>1, <1>3 DEF bridgeVars, kafkaVars, handVars, Typed, TypeOK
<1>4. ASSUME UNCHANGED <<bridgeVars, req>> PROVE InHand'
  BY <1>1, <1>4 DEF bridgeVars, kafkaVars, handVars, InHand
<1>5. CASE ApiStep
  <2>1. ASSUME NEW r \in Request, HandleRequest(r) PROVE Typed'
    BY <1>3, <1>5, <2>1, RequestTyped DEF ApiStep
  <2>2. ASSUME NEW p \in Proposal, Analyze(p) PROVE Typed'
    <3>1. row' \in [Proposal -> Row]
      BY <1>1, <2>2, UpsertTyped DEF Analyze
    <3>2. ApprovalTypeOK'
      BY <1>1, <1>2, <2>2, <3>1 DEF Analyze, ApprovalTypeOK
    <3>3. QED BY <1>3, <1>4, <1>5, <2>2, <3>2 DEF ApiStep, Analyze
  <2>3. QED BY <1>5, <2>1, <2>2 DEF ApiStep
<1>6. CASE Heal
  <2>1. ApprovalTypeOK'
    BY <1>1, <1>2, <1>6 DEF Heal, Recover, CmmsRecovers, ApprovalTypeOK
  <2>2. QED BY <1>3, <1>4, <1>6, <2>1 DEF Heal, Recover
<1>7. CASE BridgeNext
  BY <1>7, ReplayTyped, LoopTyped DEF BridgeNext, LoopStep
<1>8. CASE UNCHANGED vars
  <2>1. ApprovalTypeOK'
    BY <1>1, <1>2, <1>8 DEF vars, sharedVars, storeVars, ApprovalTypeOK
  <2>2. QED BY <1>3, <1>4, <1>8, <2>1 DEF vars
<1>9. QED BY <1>5, <1>6, <1>7, <1>8 DEF Next

\* Every state is well typed, and no thread or loop counts down a try it has
\* not got or stores an order it has not got.
THEOREM TypeCorrect == Spec => []TypeOK
<1>1. Typed => TypeOK
  BY DEF Typed
<1>2. QED BY <1>1, InitTyped, StepTyped, PTL DEF Spec

-----------------------------------------------------------------------------
(***************************************************************************)
(* The queue.  Its counters explain it only because the row taken off is   *)
(* the one replayed: record_replay_success counts whether or not it was    *)
(* there.  It is, since the bridge works on the front of the queue and     *)
(* nobody else takes rows off.                                             *)
(***************************************************************************)

QueueInv == CommandAccounting /\ ReplaysFront

\* What it is to be a prefix, element by element.
LEMMA PrefixDef ==
  ASSUME NEW S, NEW s \in Seq(S), NEW t \in Seq(S)
  PROVE  IsPrefix(s, t) <=> Len(s) <= Len(t) /\ \A i \in 1..Len(s) : s[i] = t[i]
<1>1. ASSUME Len(s) <= Len(t)
      PROVE  /\ SubSeq(s, 1, Len(s)) \in Seq(S) /\ Len(SubSeq(s, 1, Len(s))) = Len(s)
             /\ \A i \in 1..Len(s) : SubSeq(s, 1, Len(s))[i] = s[i]
             /\ SubSeq(t, 1, Len(s)) \in Seq(S) /\ Len(SubSeq(t, 1, Len(s))) = Len(s)
             /\ \A i \in 1..Len(s) : SubSeq(t, 1, Len(s))[i] = t[i]
  BY <1>1
<1>2. ASSUME IsPrefix(s, t)
      PROVE  Len(s) <= Len(t) /\ \A i \in 1..Len(s) : s[i] = t[i]
  <2>1. Len(s) <= Len(t) /\ SubSeq(s, 1, Len(s)) = SubSeq(t, 1, Len(s))
    BY <1>2 DEF IsPrefix
  <2>2. QED BY <1>1, <2>1
<1>3. ASSUME Len(s) <= Len(t), \A i \in 1..Len(s) : s[i] = t[i]
      PROVE  IsPrefix(s, t)
  <2>1. SubSeq(s, 1, Len(s)) = SubSeq(t, 1, Len(s))
    BY <1>1, <1>3, SeqEqual
  <2>2. QED BY <1>3, <2>1 DEF IsPrefix
<1>4. QED BY <1>2, <1>3

\* Steps that leave the rows and the replayed batch alone.
LEMMA QueueKept ==
  ASSUME QueueInv, queue' = queue, todo' = todo, Replaying' => Replaying,
         totals'.queued = totals.queued, totals'.replayed = totals.replayed
  PROVE  QueueInv'
  BY DEF QueueInv, CommandAccounting, ReplaysFront

\* A command queued goes to the end, and only once.
LEMMA InsertKeeps ==
  ASSUME Typed, QueueInv, NEW c \in Command, EnqueueInsert(c), UNCHANGED <<pc, todo>>
  PROVE  QueueInv'
<1>1. queue \in Seq(Command) /\ todo \in Seq(Command) /\ totals.queued \in Nat /\ totals.replayed \in Nat
  BY DEF Typed, TypeOK, ApprovalTypeOK, QueueTypeOK
<1>2. /\ queue' = Append(queue, c) /\ queue' \in Seq(Command) /\ Len(queue') = Len(queue) + 1
      /\ \A i \in 1..Len(queue) : queue'[i] = queue[i]
      /\ queue'[Len(queue) + 1] = c
      /\ \A i \in 1..Len(queue) : queue[i] # c
  BY <1>1 DEF EnqueueInsert, IsQueued
<1>3. totals'.queued = totals.queued + 1 /\ totals'.replayed = totals.replayed
  BY <1>1 DEF EnqueueInsert, Typed, TypeOK, ApprovalTypeOK, QueueTypeOK
<1>4. CommandAccounting'
  <2>1. \A i, j \in 1..Len(queue) : queue[i] = queue[j] => i = j
    BY DEF QueueInv, CommandAccounting
  <2>2. \A i, j \in 1..Len(queue') : queue'[i] = queue'[j] => i = j
    BY <1>1, <1>2, <2>1
  <2>3. totals.queued = totals.replayed + Len(queue)
    BY DEF QueueInv, CommandAccounting
  <2>4. QED BY <1>1, <1>2, <1>3, <2>2, <2>3, SMTT(30) DEF CommandAccounting
<1>5. ASSUME Replaying' PROVE IsPrefix(todo, queue')
  <2>1. IsPrefix(todo, queue)
    BY <1>5 DEF Replaying, QueueInv, ReplaysFront
  <2>2. Len(todo) <= Len(queue) /\ \A i \in 1..Len(todo) : todo[i] = queue[i]
    BY <1>1, <2>1, PrefixDef
  <2>3. Len(todo) <= Len(queue') /\ \A i \in 1..Len(todo) : todo[i] = queue'[i]
    BY <1>1, <1>2, <2>2
  <2>4. QED BY <1>1, <1>2, <2>3, PrefixDef
<1>6. QED BY <1>4, <1>5 DEF QueueInv, ReplaysFront

\* The command replayed is the first one queued, and it is what goes.
LEMMA DequeueTakesFirst ==
  ASSUME Typed, QueueInv, Dequeue
  PROVE  /\ queue # <<>> /\ queue[1] = Command1 /\ queue' = Tail(queue)
         /\ QueueInv'
<1>1. /\ queue \in Seq(Command) /\ todo \in Seq(Command) /\ totals.queued \in Nat /\ totals.replayed \in Nat
      /\ todo # <<>>
  BY DEF Typed, TypeOK, ApprovalTypeOK, QueueTypeOK, InHand, Replayed, Dequeue
<1>2. /\ Len(todo) <= Len(queue) /\ \A i \in 1..Len(todo) : todo[i] = queue[i]
      /\ \A i, j \in 1..Len(queue) : queue[i] = queue[j] => i = j
      /\ totals.queued = totals.replayed + Len(queue)
  <2>1. IsPrefix(todo, queue)
    BY DEF Dequeue, Replaying, QueueInv, ReplaysFront
  <2>2. QED BY <1>1, <2>1, PrefixDef DEF QueueInv, CommandAccounting
<1>3. Len(todo) >= 1 /\ Len(queue) >= 1 /\ 1 \in 1..Len(queue) /\ queue[1] = Command1
  BY <1>1, <1>2 DEF Command1
<1>4. IsQueued(Command1)
  BY <1>3 DEF IsQueued
<1>5. (CHOOSE i \in 1..Len(queue) : queue[i] = Command1) = 1
  BY <1>2, <1>3
<1>6. queue' = RemoveAt(queue, 1) /\ totals'.replayed = totals.replayed + 1 /\ totals'.queued = totals.queued
  <2>1. queue' = RemoveAt(queue, 1)
    BY <1>4, <1>5 DEF Dequeue, RecordReplaySuccess
  <2>2. totals \in [queued : Nat, replayed : Nat, failures : Nat]
    BY DEF Typed, TypeOK, ApprovalTypeOK, QueueTypeOK
  <2>3. QED BY <2>1, <2>2 DEF Dequeue, RecordReplaySuccess
<1>7. queue' = Tail(queue)
  <2>1. /\ SubSeq(queue, 1, 0) = <<>> /\ SubSeq(queue, 2, Len(queue)) = Tail(queue)
        /\ Tail(queue) \in Seq(Command)
    BY <1>1, <1>3, SubSeqEmpty, TailIsSubSeq
  <2>2. <<>> \o Tail(queue) = Tail(queue)
    BY <2>1, ConcatEmptySeq
  <2>3. QED BY <1>1, <1>6, <2>1, <2>2 DEF RemoveAt
<1>8. /\ queue' \in Seq(Command) /\ Len(queue') = Len(queue) - 1
      /\ \A i \in 1..Len(queue') : queue'[i] = queue[i + 1]
      /\ Tail(todo) \in Seq(Command) /\ Len(Tail(todo)) = Len(todo) - 1
      /\ \A i \in 1..Len(Tail(todo)) : Tail(todo)[i] = todo[i + 1]
  BY <1>1, <1>3, <1>7
<1>9. CommandAccounting'
  <2>1. totals'.queued = totals'.replayed + Len(queue')
    <3>1. /\ totals'.queued = totals.queued /\ totals'.replayed = totals.replayed + 1
          /\ totals.queued = totals.replayed + Len(queue) /\ Len(queue') = Len(queue) - 1
      BY <1>2, <1>6, <1>8
    <3>2. totals.replayed \in Nat /\ Len(queue) \in Nat
      BY <1>1
    <3>3. QED BY <3>1, <3>2
  <2>2. ASSUME NEW i \in 1..Len(queue'), NEW j \in 1..Len(queue'), queue'[i] = queue'[j] PROVE i = j
    <3>1. i + 1 \in 1..Len(queue) /\ j + 1 \in 1..Len(queue) /\ queue[i + 1] = queue[j + 1]
      BY <1>1, <1>8, <2>2
    <3>2. QED BY <1>2, <3>1
  <2>3. QED BY <2>1, <2>2 DEF CommandAccounting
<1>10. IsPrefix(todo', queue')
  <2>1. todo' = Tail(todo)
    BY DEF Dequeue
  <2>2. Len(Tail(todo)) <= Len(queue') /\ \A i \in 1..Len(Tail(todo)) : Tail(todo)[i] = queue'[i]
    BY <1>1, <1>2, <1>8
  <2>3. QED BY <1>8, <2>1, <2>2, PrefixDef
<1>11. QED BY <1>3, <1>7, <1>9, <1>10 DEF QueueInv, ReplaysFront

\* A batch selected is the front of the queue.
LEMMA ListTakesFront ==
  ASSUME Typed, QueueInv, List
  PROVE  QueueInv'
<1>1. queue \in Seq(Command) /\ Len(queue) \in Nat
  BY DEF Typed, TypeOK, ApprovalTypeOK, QueueTypeOK
<1> DEFINE n == IF ReplayBatchSize < Len(queue) THEN ReplayBatchSize ELSE Len(queue)
<1>2. n \in Nat /\ n <= Len(queue) /\ todo' = SubSeq(queue, 1, n) /\ UNCHANGED queueVars
  BY <1>1 DEF List, Oldest, sharedVars
<1> HIDE DEF n
<1>3. /\ todo' \in Seq(Command) /\ Len(todo') = n
      /\ \A i \in 1..Len(todo') : todo'[i] = queue[i]
  BY <1>1, <1>2
<1>4. IsPrefix(todo', queue)
  BY <1>1, <1>2, <1>3, PrefixDef
<1>5. QED BY <1>2, <1>4 DEF queueVars, QueueInv, CommandAccounting, ReplaysFront

\* Every step keeps the queue explained and the replayed batch at its front.
LEMMA StepQueueInv == Typed /\ QueueInv /\ [Next]_vars => QueueInv'
<1> SUFFICES ASSUME Typed, QueueInv, [Next]_vars PROVE QueueInv'
  OBVIOUS
<1>1. ASSUME UNCHANGED <<queueVars, pc, todo>> PROVE QueueInv'
  BY <1>1, QueueKept DEF queueVars, Replaying
<1>2. ASSUME NEW r \in Request, HandleRequest(r), UNCHANGED bridgeVars PROVE QueueInv'
  <2>1. CASE EnqueueCommand(r)
    <3>1. req[r].id \in Command
      BY DEF Typed, TypeOK, ApprovalTypeOK, Thread
    <3>2. CASE req[r].found
      BY <1>1, <1>2, <2>1, <3>2 DEF EnqueueCommand, Enqueue, EnqueueUpdate, bridgeVars, handVars
    <3>3. CASE ~req[r].found
      BY <1>2, <2>1, <3>1, <3>3, InsertKeeps DEF EnqueueCommand, Enqueue, bridgeVars, handVars
    <3>4. QED BY <3>2, <3>3
  <2>2. CASE ~EnqueueCommand(r)
    <3>1. UNCHANGED queueVars
      BY <1>2, <2>2 DEF HandleRequest, Arrive, ArriveUnread, Upsert, SubmitOk, SubmitFails, Persist,
           Approve, MarkPending, LookUp, EnqueueCommandClashes, MarkQueued, QueueingFails, Abort, sharedVars
    <3>2. QED BY <1>1, <1>2, <3>1 DEF bridgeVars, handVars
  <2>3. QED BY <2>1, <2>2
<1>3. CASE ApiStep
  BY <1>1, <1>2, <1>3 DEF ApiStep, Analyze, bridgeVars, handVars
<1>4. CASE Heal
  BY <1>1, <1>4 DEF Heal, Recover, bridgeVars, handVars
<1>5. CASE ReplayOk \/ PersistReplayed \/ ReadReplayed \/ WriteReplayed
  BY <1>5, QueueKept DEF ReplayOk, PersistReplayed, ReadReplayed, WriteReplayed, ReadRow, Replaying,
       queueVars, sharedVars, handVars
<1>6. CASE ReplayDone \/ ReadFailed \/ WriteFailed \/ LiveOk \/ LiveFails \/ Poll
  BY <1>6, QueueKept DEF ReplayDone, ReadFailed, WriteFailed, LiveOk, LiveFails, Poll, ReadRow, Replaying,
       queueVars, sharedVars, handVars
<1>7. CASE ReplayFails
  <2>1. totals \in [queued : Nat, replayed : Nat, failures : Nat]
    BY DEF Typed, TypeOK, ApprovalTypeOK, QueueTypeOK
  <2>2. QED BY <1>7, <2>1, QueueKept DEF ReplayFails, RecordReplayFailure, Replaying, handVars
<1>8. CASE PersistLive \/ LiveGivesUp \/ BridgeErrors \/ Killed
  BY <1>8 DEF PersistLive, LiveGivesUp, BridgeErrors, Killed, Stop, queueVars, Replaying,
       QueueInv, CommandAccounting, ReplaysFront
<1>9. CASE AutoCommit \/ Restart
  BY <1>9, QueueKept DEF AutoCommit, Restart, Replaying, queueVars, sharedVars, handVars
<1>10. CASE UNCHANGED vars
  BY <1>1, <1>10 DEF vars, sharedVars, bridgeVars, handVars
<1>11. QED BY <1>3, <1>4, <1>5, <1>6, <1>7, <1>8, <1>9, <1>10, DequeueTakesFirst, ListTakesFront
            DEF Next, BridgeNext, LoopStep

\* The queue starts empty.
LEMMA InitQueueInv == Init => QueueInv
  BY DEF Init, ApprovalInit, QueueInit, BridgeInit, QueueInv, CommandAccounting, ReplaysFront, Replaying

\* What is said of the queue holds in every reachable state.
THEOREM QueueInvariance == Spec => [](Typed /\ QueueInv)
  BY InitTyped, StepTyped, InitQueueInv, StepQueueInv, PTL DEF Spec

\* The queue's counters explain its length, and no command is queued twice.
THEOREM CommandsAccountedFor == Spec => []CommandAccounting
<1>1. QueueInv => CommandAccounting
  BY DEF QueueInv
<1>2. QED BY <1>1, QueueInvariance, PTL

\* The bridge replays the front of the queue, whatever is queued meanwhile.
THEOREM ReplayIsInOrder == Spec => []ReplaysFront
<1>1. QueueInv => ReplaysFront
  BY DEF QueueInv
<1>2. QED BY <1>1, QueueInvariance, PTL

-----------------------------------------------------------------------------
(***************************************************************************)
(* The orders.  Nothing takes an order or a row of workorders away, so an  *)
(* order seen to exist before the row of its proposal is written exists    *)
(* when it is: in the thread or the bridge that carries it, and in a row   *)
(* the bridge has read and writes back.                                    *)
(***************************************************************************)

Made(o, p, made) == o \in Order /\ o[2] <= made[o[1]] /\ o[1] = p

Filed(o, p, made, filed) == Made(o, p, made) /\ o \in filed

ApprovedFiled ==
  \A p \in Proposal : row[p].status = "approved" => Filed(row[p].wo, p, orders, workorders)

RequestOrders ==
  \A r \in Request :
    /\ req[r].pc = "persist" => Made(req[r].wo, RecommendationOf(req[r].id), orders)
    /\ req[r].pc = "approve" => Filed(req[r].wo, RecommendationOf(req[r].id), orders, workorders)

BridgeOrders ==
  /\ pc = "persist" => Made(wo, RecommendationOf(Command1), orders)
  /\ pc \in {"read", "write", "dequeue"} => Filed(wo, RecommendationOf(Command1), orders, workorders)
  /\ pc \in {"write", "write failed"} /\ read.status = "approved" =>
       Filed(read.wo, RecommendationOf(Command1), orders, workorders)

OrderInv == ApprovedFiled /\ RequestOrders /\ BridgeOrders

Grows ==
  /\ orders' \in [Proposal -> Nat] /\ workorders \subseteq workorders'
  /\ \A p \in Proposal : orders[p] <= orders'[p]

\* An order made, or filed, remains so when orders are only made and filed.
LEMMA StillThere ==
  ASSUME NEW a \in [Proposal -> Nat], NEW b \in [Proposal -> Nat],
         \A p \in Proposal : a[p] <= b[p], NEW f, NEW g, f \subseteq g, NEW o, NEW p
  PROVE  /\ Made(o, p, a) => Made(o, p, b)
         /\ Filed(o, p, a, f) => Filed(o, p, b, g)
<1>1. Made(o, p, a) => Made(o, p, b)
  <2>1. ASSUME Made(o, p, a) PROVE o[1] \in Proposal /\ o[2] \in Nat
    BY <2>1 DEF Made, Order
  <2>2. QED BY <2>1 DEF Made
<1>2. QED BY <1>1 DEF Filed

\* A new order is one.
LEMMA NewOrderMade ==
  ASSUME orders \in [Proposal -> Nat], NEW p \in Proposal, CreateOrder(p)
  PROVE  Made(NextOrder(p), p, orders') /\ \A q \in Proposal : orders[q] <= orders'[q]
  BY DEF CreateOrder, NextOrder, Made, Order

\* A call that fails takes no order away.
LEMMA CallGrows ==
  ASSUME orders \in [Proposal -> Nat], NEW p \in Proposal, NEW how, CallFails(p, how)
  PROVE  \A q \in Proposal : orders[q] <= orders'[q]
  BY NewOrderMade DEF CallFails

\* The same of a step.
LEMMA StillThereAfter ==
  ASSUME Typed, Grows
  PROVE  \A o, p : /\ Made(o, p, orders) => Made(o, p, orders')
                   /\ Filed(o, p, orders, workorders) => Filed(o, p, orders', workorders')
<1>1. /\ orders \in [Proposal -> Nat] /\ orders' \in [Proposal -> Nat]
      /\ workorders \subseteq workorders' /\ \A p \in Proposal : orders[p] <= orders'[p]
  BY DEF Typed, TypeOK, ApprovalTypeOK, Grows
<1>2. QED BY <1>1, StillThere

\* What does not change goes on holding.
LEMMA OrdersKept ==
  ASSUME Typed, OrderInv, Grows
  PROVE  /\ row' = row => ApprovedFiled'
         /\ req' = req => RequestOrders'
         /\ UNCHANGED <<pc, todo, wo, read>> => BridgeOrders'
<1>1. row' = row => ApprovedFiled'
  BY StillThereAfter DEF OrderInv, ApprovedFiled
<1>2. req' = req => RequestOrders'
  BY StillThereAfter DEF OrderInv, RequestOrders
<1>3. UNCHANGED <<pc, todo, wo, read>> => BridgeOrders'
  <2> SUFFICES ASSUME UNCHANGED <<pc, todo, wo, read>> PROVE BridgeOrders'
    OBVIOUS
  <2> DEFINE c == RecommendationOf(Command1)
  <2>1. c' = c
    BY DEF Command1, RecommendationOf
  <2>2. /\ pc = "persist" => Made(wo, c, orders)
        /\ pc \in {"read", "write", "dequeue"} => Filed(wo, c, orders, workorders)
        /\ pc \in {"write", "write failed"} /\ read.status = "approved" =>
             Filed(read.wo, c, orders, workorders)
    BY DEF OrderInv, BridgeOrders
  <2> HIDE DEF c
  <2>3. /\ pc' = "persist" => Made(wo', c, orders')
        /\ pc' \in {"read", "write", "dequeue"} => Filed(wo', c, orders', workorders')
        /\ pc' \in {"write", "write failed"} /\ read'.status = "approved" =>
             Filed(read'.wo, c, orders', workorders')
    BY <2>2, StillThereAfter
  <2>4. QED BY <2>1, <2>3 DEF BridgeOrders, c
<1>4. QED BY <1>1, <1>2, <1>3

\* One thread moves.
LEMMA RequestMoves ==
  ASSUME Typed, OrderInv, Grows, NEW r \in Request,
         \A o \in Request \ {r} : req'[o] = req[o],
         req'[r].pc = "persist" => Made(req'[r].wo, RecommendationOf(req'[r].id), orders'),
         req'[r].pc = "approve" => Filed(req'[r].wo, RecommendationOf(req'[r].id), orders', workorders')
  PROVE  RequestOrders'
<1>1. ASSUME NEW o \in Request
      PROVE  /\ req[o].pc = "persist" => Made(req[o].wo, RecommendationOf(req[o].id), orders')
             /\ req[o].pc = "approve" => Filed(req[o].wo, RecommendationOf(req[o].id), orders', workorders')
  BY <1>1, StillThereAfter DEF OrderInv, RequestOrders
<1>2. ASSUME NEW o \in Request \ {r}
      PROVE  /\ req'[o].pc = "persist" => Made(req'[o].wo, RecommendationOf(req'[o].id), orders')
             /\ req'[o].pc = "approve" => Filed(req'[o].wo, RecommendationOf(req'[o].id), orders', workorders')
  BY <1>1, <1>2
<1>3. QED BY <1>2 DEF RequestOrders

\* A proposal's row is written, with an order if it says approved.
LEMMA UpdateFiled ==
  ASSUME Typed, ApprovedFiled, UNCHANGED <<orders, workorders>>,
         NEW id \in Id, NEW q \in Row, UpdateProposal(id, q),
         q.status = "approved" => Filed(q.wo, RecommendationOf(id), orders, workorders)
  PROVE  ApprovedFiled'
<1>1. row \in [Proposal -> Row] /\ RecommendationOf(id) \in Proposal
  BY IdTyped DEF Typed, TypeOK, ApprovalTypeOK
<1>2. ASSUME NEW p \in Proposal PROVE row'[p] = row[p] \/ (row'[p] = q /\ p = RecommendationOf(id))
  BY <1>1 DEF UpdateProposal
<1>3. QED BY <1>2 DEF ApprovedFiled

\* _upsert_proposal makes no proposal approved.
LEMMA UpsertFiled ==
  ASSUME Typed, ApprovedFiled, UNCHANGED <<orders, workorders>>, NEW p \in Proposal, UpsertProposal(p)
  PROVE  ApprovedFiled'
<1>1. row \in [Proposal -> Row] /\ \A q \in Proposal : row[q] \in Row
  BY DEF Typed, TypeOK, ApprovalTypeOK
<1>2. ASSUME NEW q \in Proposal, row'[q].status = "approved"
      PROVE  row[q].status = "approved" /\ row'[q].wo = row[q].wo
  <2>1. CASE q = p
    BY <1>1, <1>2, <2>1 DEF UpsertProposal, Row
  <2>2. CASE q # p
    BY <1>1, <1>2, <2>2 DEF UpsertProposal
  <2>3. QED BY <2>1, <2>2
<1>3. QED BY <1>2 DEF ApprovedFiled

\* The steps that neither make an order nor file one.
LEMMA NothingMadeGrows ==
  ASSUME Typed, UNCHANGED <<orders, workorders>>
  PROVE  Grows
  BY DEF Typed, TypeOK, ApprovalTypeOK, Grows

\* Every step of a request keeps what is said of orders.
LEMMA RequestStepOrders ==
  ASSUME Typed, OrderInv, NEW r \in Request, HandleRequest(r), UNCHANGED bridgeVars
  PROVE  OrderInv'
<1>1. /\ orders \in [Proposal -> Nat] /\ req \in [Request -> Thread] /\ req[r] \in Thread
      /\ req[r].id \in Id /\ RecommendationOf(req[r].id) \in Proposal
      /\ req[r].base \in Seq(Attempt) /\ req[r].mine \in Seq(Attempt)
      /\ req[r].wo \in Order \cup {NoOrder}
      /\ UNCHANGED <<pc, todo, wo, read>>
  BY IdTyped DEF Typed, TypeOK, ApprovalTypeOK, Thread, bridgeVars, handVars
<1>2. ASSUME Grows, ApprovedFiled', RequestOrders' PROVE OrderInv'
  BY <1>1, <1>2, OrdersKept DEF OrderInv
<1>3. ASSUME Grows, \A o \in Request \ {r} : req'[o] = req[o], req'[r].pc \notin {"persist", "approve"}
      PROVE  RequestOrders'
  BY <1>3, RequestMoves
<1>4. ASSUME Answer(r)
      PROVE  (\A o \in Request \ {r} : req'[o] = req[o]) /\ req'[r].pc \notin {"persist", "approve"}
  <2>1. req' = [req EXCEPT ![r] = [Idle EXCEPT !.pc = "done"]] /\ [Idle EXCEPT !.pc = "done"].pc = "done"
    BY <1>4 DEF Answer, Idle
  <2>2. QED BY <1>1, <2>1
<1>5. ASSUME NEW place, GoTo(r, place)
      PROVE  /\ \A o \in Request \ {r} : req'[o] = req[o]
             /\ req'[r].pc = place /\ req'[r].wo = req[r].wo /\ req'[r].id = req[r].id
  BY <1>1, <1>5 DEF GoTo, Thread
<1>6. ASSUME NEW status \in {"pending", "queued-offline"}, NEW attempts \in Seq(Attempt),
             Record(r, status, NoOrder, attempts), UNCHANGED <<orders, workorders>>
      PROVE  ApprovedFiled'
  <2> DEFINE q == [status |-> status, wo |-> NoOrder, attempts |-> req[r].base \o attempts]
  <2>1. q \in Row /\ q.status # "approved" /\ UpdateProposal(req[r].id, q)
    BY <1>1, <1>6 DEF Record, Row, Statuses
  <2> HIDE DEF q
  <2>2. QED BY <1>1, <1>6, <2>1, UpdateFiled DEF OrderInv
<1>7. CASE Arrive(r) \/ ArriveUnread(r)
  <2>1. UNCHANGED <<row, orders, workorders>>
    BY <1>7 DEF Arrive, ArriveUnread, sharedVars, storeVars
  <2>2. PICK id, existing, admin : Begin(r, id, existing, admin)
    BY <1>7 DEF Arrive, ArriveUnread
  <2>3. (\A o \in Request \ {r} : req'[o] = req[o]) /\ req'[r].pc \notin {"persist", "approve"}
    <3>1. CASE MayHandOff(existing, admin)
      BY <1>1, <2>2, <3>1 DEF Begin, Thread
    <3>2. CASE ~MayHandOff(existing, admin)
      BY <1>4, <2>2, <3>2 DEF Begin
    <3>3. QED BY <3>1, <3>2
  <2>4. QED BY <1>2, <1>3, <2>1, <2>3, NothingMadeGrows, OrdersKept
<1>8. CASE Upsert(r)
  <2>1. UNCHANGED <<orders, workorders>> /\ ApprovedFiled'
    BY <1>1, <1>8, UpsertFiled DEF Upsert, ProposalOf, OrderInv
  <2>2. (\A o \in Request \ {r} : req'[o] = req[o]) /\ req'[r].pc \notin {"persist", "approve"}
    BY <1>1, <1>8 DEF Upsert, Thread
  <2>3. QED BY <1>2, <1>3, <2>1, <2>2, NothingMadeGrows
<1>9. CASE SubmitOk(r)
  <2>1. /\ Made(NextOrder(ProposalOf(r)), RecommendationOf(req[r].id), orders') /\ Grows
        /\ row' = row
    <3>1. CreateOrder(ProposalOf(r)) /\ row' = row /\ workorders' = workorders
      BY <1>9 DEF SubmitOk
    <3>2. orders' \in [Proposal -> Nat]
      BY <1>1, <3>1, CallTyped DEF ProposalOf
    <3>3. QED BY <1>1, <3>1, <3>2, NewOrderMade DEF ProposalOf, Grows
  <2> DEFINE o1 == NextOrder(ProposalOf(r))
  <2>2. /\ \A o \in Request \ {r} : req'[o] = req[o]
        /\ req'[r].pc = "persist" /\ req'[r].wo = o1 /\ req'[r].id = req[r].id
    BY <1>1, <1>9 DEF SubmitOk, Thread
  <2> HIDE DEF o1
  <2>3. Made(req'[r].wo, RecommendationOf(req'[r].id), orders')
    BY <2>1, <2>2 DEF o1
  <2>4. RequestOrders'
    BY <2>1, <2>2, <2>3, RequestMoves
  <2>5. QED BY <1>2, <2>1, <2>4, OrdersKept
<1>10. CASE SubmitFails(r)
  <2>1. PICK how \in CmmsFailures :
          /\ CallFails(ProposalOf(r), how)
          /\ req' = [req EXCEPT ![r].pc = AfterFailure(r, how), ![r].left = @ - 1,
                       ![r].mine = Append(@, [by |-> r, state |-> "failure"])]
    BY <1>10 DEF SubmitFails
  <2>2. Grows /\ row' = row
    BY <1>1, <1>10, <2>1, CallTyped, CallGrows DEF SubmitFails, ProposalOf, Grows
  <2> DEFINE place == AfterFailure(r, how)
  <2>3. place \notin {"persist", "approve"}
    BY DEF AfterFailure
  <2> HIDE DEF place
  <2>4. (\A o \in Request \ {r} : req'[o] = req[o]) /\ req'[r].pc = place
    BY <1>1, <2>1 DEF place, Thread
  <2>5. QED BY <1>2, <1>3, <2>2, <2>3, <2>4, OrdersKept
<1>11. CASE Persist(r)
  <2>1. Made(req[r].wo, RecommendationOf(req[r].id), orders)
    BY <1>11 DEF Persist, At, OrderInv, RequestOrders
  <2>2. orders' = orders /\ row' = row /\ workorders' = workorders \cup {req[r].wo} /\ Grows
    BY <1>1, <1>11 DEF Persist, PersistWorkOrder, Grows
  <2>3. Filed(req[r].wo, RecommendationOf(req[r].id), orders', workorders')
    BY <2>1, <2>2 DEF Filed
  <2>4. /\ \A o \in Request \ {r} : req'[o] = req[o]
        /\ req'[r].pc = "approve" /\ req'[r].wo = req[r].wo /\ req'[r].id = req[r].id
    BY <1>5, <1>11 DEF Persist
  <2>5. RequestOrders'
    BY <2>2, <2>3, <2>4, RequestMoves
  <2>6. QED BY <1>2, <2>2, <2>5, OrdersKept
<1>12. CASE Approve(r)
  <2> DEFINE q == [status |-> "approved", wo |-> req[r].wo, attempts |-> req[r].base \o req[r].mine]
  <2>1. /\ q \in Row /\ UpdateProposal(req[r].id, q) /\ UNCHANGED <<orders, workorders>>
        /\ q.wo = req[r].wo
    BY <1>1, <1>12 DEF Approve, Record, Row, Statuses
  <2>2. Filed(req[r].wo, RecommendationOf(req[r].id), orders, workorders)
    BY <1>12 DEF Approve, At, OrderInv, RequestOrders
  <2> HIDE DEF q
  <2>3. ApprovedFiled'
    BY <1>1, <2>1, <2>2, UpdateFiled DEF OrderInv
  <2>4. QED BY <1>2, <1>3, <1>4, <1>12, <2>1, <2>3, NothingMadeGrows DEF Approve
<1>13. CASE MarkPending(r)
  <2>1. UNCHANGED <<orders, workorders>> /\ ApprovedFiled'
    BY <1>1, <1>6, <1>13 DEF MarkPending
  <2>2. QED BY <1>2, <1>3, <1>4, <1>13, <2>1, NothingMadeGrows DEF MarkPending
<1>14. CASE MarkQueued(r)
  <2>1. UNCHANGED <<orders, workorders>> /\ ApprovedFiled'
    BY <1>1, <1>6, <1>14, AsQueuedTyped DEF MarkQueued
  <2>2. QED BY <1>2, <1>3, <1>4, <1>14, <2>1, NothingMadeGrows DEF MarkQueued
<1>15. CASE LookUp(r)
  <2>1. (\A o \in Request \ {r} : req'[o] = req[o]) /\ req'[r].pc = "enqueue"
    BY <1>1, <1>15 DEF LookUp, Thread
  <2>2. UNCHANGED <<row, orders, workorders>>
    BY <1>15 DEF LookUp, sharedVars, storeVars
  <2>3. QED BY <1>2, <1>3, <2>1, <2>2, NothingMadeGrows, OrdersKept
<1>16. CASE EnqueueCommand(r) \/ EnqueueCommandClashes(r) \/ QueueingFails(r)
  <2>1. UNCHANGED <<row, orders, workorders>>
    BY <1>16 DEF EnqueueCommand, EnqueueCommandClashes, QueueingFails, sharedVars, storeVars
  <2>2. PICK place \in {"mark queued", "mark pending"} : GoTo(r, place)
    BY <1>16 DEF EnqueueCommand, EnqueueCommandClashes, QueueingFails
  <2>3. (\A o \in Request \ {r} : req'[o] = req[o]) /\ req'[r].pc = place
    BY <1>5, <2>2
  <2>4. RequestOrders'
    BY <1>3, <2>1, <2>3, NothingMadeGrows
  <2>5. QED BY <1>2, <2>1, <2>4, NothingMadeGrows, OrdersKept
<1>17. CASE Abort(r)
  <2>1. UNCHANGED <<row, orders, workorders>>
    BY <1>17 DEF Abort, storeVars
  <2>2. QED BY <1>2, <1>3, <1>4, <1>17, <2>1, NothingMadeGrows, OrdersKept DEF Abort
<1>18. QED BY <1>7, <1>8, <1>9, <1>10, <1>11, <1>12, <1>13, <1>14, <1>15, <1>16, <1>17 DEF HandleRequest

\* So does every step of the bridge.
LEMMA BridgeStepOrders ==
  ASSUME Typed, OrderInv, BridgeNext
  PROVE  OrderInv'
<1>1. /\ orders \in [Proposal -> Nat] /\ todo \in Seq(Command) /\ read \in Row
      /\ row \in [Proposal -> Row] /\ wo \in Order \cup {NoOrder} /\ position \in 0..Len(Topic)
  BY DEF Typed, TypeOK, ApprovalTypeOK
<1>2. ASSUME Grows, ApprovedFiled', BridgeOrders', UNCHANGED req PROVE OrderInv'
  BY <1>2, OrdersKept DEF OrderInv
<1>3. ASSUME Grows, UNCHANGED <<row, req>>,
             pc' \notin {"persist", "read", "write", "dequeue", "write failed"}
      PROVE  OrderInv'
  BY <1>2, <1>3, OrdersKept DEF BridgeOrders
<1>4. /\ todo # <<>> => Command1 \in Id /\ RecommendationOf(Command1) \in Proposal
      /\ pc \in Replayed => todo # <<>>
      /\ pc \notin {"poll", "stopped"} => position >= 1
  <2>1. todo # <<>> => Command1 \in Id
    BY <1>1 DEF Command1
  <2>2. (pc \in Replayed => todo # <<>>) /\ (pc \notin {"poll", "stopped"} => position >= 1)
    BY DEF Typed, InHand
  <2>3. QED BY <2>1, <2>2, IdTyped
<1>5. pc = "live" => Live \in Proposal
  BY <1>1, <1>4 DEF Live
<1>6. CASE \/ Poll \/ List \/ ReplayDone \/ Dequeue \/ AutoCommit \/ BridgeErrors \/ Killed \/ Restart
  <2>1. UNCHANGED <<row, orders, workorders, req>>
    BY <1>6 DEF Poll, List, ReplayDone, Dequeue, AutoCommit, BridgeErrors, Killed, Restart, sharedVars, storeVars
  <2>2. pc' \notin {"persist", "read", "write", "dequeue", "write failed"}
    BY <1>6 DEF Poll, List, ReplayDone, Dequeue, AutoCommit, BridgeErrors, Killed, Restart, Stop
  <2>3. QED BY <1>3, <2>1, <2>2, NothingMadeGrows
<1>7. CASE ReplayFails \/ LiveFails \/ LiveGivesUp
  <2>1. PICK p \in Proposal, how \in CmmsFailures : CallFails(p, how)
    <3>1. CASE ReplayFails
      <4>1. RecommendationOf(Command1) \in Proposal
        BY <1>4, <3>1 DEF ReplayFails
      <4>2. QED BY <3>1, <4>1 DEF ReplayFails
    <3>2. CASE LiveFails \/ LiveGivesUp
      <4>1. Live \in Proposal
        BY <1>5, <3>2 DEF LiveFails, LiveGivesUp
      <4>2. QED BY <3>2, <4>1 DEF LiveFails, LiveGivesUp
    <3>3. QED BY <1>7, <3>1, <3>2
  <2>2. UNCHANGED <<row, workorders, req>> /\ pc' \in {"read failed", "live", "stopped"}
    BY <1>7 DEF ReplayFails, LiveFails, LiveGivesUp, Stop
  <2>3. Grows
    BY <1>1, <2>1, <2>2, CallTyped, CallGrows DEF Grows
  <2>4. QED BY <1>3, <2>2, <2>3
<1>8. CASE LiveOk
  <2>1. Live \in Proposal
    BY <1>5, <1>8 DEF LiveOk
  <2>2. Grows /\ UNCHANGED <<row, req>> /\ pc' = "persist live"
    BY <1>1, <1>8, <2>1, CallTyped, NewOrderMade DEF LiveOk, Grows
  <2>3. QED BY <1>3, <2>2
<1>9. CASE PersistLive
  <2>1. /\ UNCHANGED <<row, req, orders>> /\ pc' = "poll"
        /\ workorders' = workorders \cup {wo}
    BY <1>9 DEF PersistLive, PersistWorkOrder
  <2>2. Grows
    BY <1>1, <2>1 DEF Grows
  <2>3. QED BY <1>3, <2>1, <2>2
<1>10. CASE ReplayOk
  <2>1. RecommendationOf(Command1) \in Proposal /\ CreateOrder(RecommendationOf(Command1))
    BY <1>4, <1>10 DEF ReplayOk
  <2>2. Grows /\ UNCHANGED <<row, req, todo>> /\ Made(wo', RecommendationOf(Command1), orders')
    BY <1>1, <1>10, <2>1, CallTyped, NewOrderMade DEF ReplayOk, Grows
  <2>3. BridgeOrders'
    BY <1>10, <2>2 DEF ReplayOk, BridgeOrders, Command1
  <2>4. QED BY <1>2, <2>2, <2>3, OrdersKept
<1>11. CASE PersistReplayed
  <2>1. Made(wo, RecommendationOf(Command1), orders)
    BY <1>11 DEF PersistReplayed, OrderInv, BridgeOrders
  <2>2. /\ orders' = orders /\ workorders' = workorders \cup {wo} /\ Grows
        /\ UNCHANGED <<row, req, todo, wo>> /\ pc' = "read"
    BY <1>1, <1>11 DEF PersistReplayed, PersistWorkOrder, handVars, Grows
  <2>3. Filed(wo, RecommendationOf(Command1), orders', workorders')
    BY <2>1, <2>2 DEF Filed
  <2>4. BridgeOrders'
    BY <2>2, <2>3 DEF BridgeOrders, Command1
  <2>5. QED BY <1>2, <2>2, <2>4, OrdersKept
<1>12. CASE ReadReplayed \/ ReadFailed
  <2>1. /\ UNCHANGED <<row, orders, workorders, req, todo, wo>> /\ read' = FoundBy(Command1)
        /\ pc \in Replayed /\ pc' \in {"write", "dequeue", "write failed", "live"}
        /\ pc' \in {"write", "dequeue"} => pc = "read"
    BY <1>12 DEF ReadReplayed, ReadFailed, ReadRow, sharedVars, storeVars, Replayed
  <2>2. pc = "read" => Filed(wo, RecommendationOf(Command1), orders, workorders)
    BY DEF OrderInv, BridgeOrders
  <2>3. read'.status = "approved" => Filed(read'.wo, RecommendationOf(Command1), orders, workorders)
    BY <1>4, <2>1 DEF FoundBy, NoRow, OrderInv, ApprovedFiled
  <2>4. BridgeOrders'
    BY <2>1, <2>2, <2>3 DEF BridgeOrders, Command1
  <2>5. QED BY <1>2, <2>1, <2>4, NothingMadeGrows, OrdersKept
<1>13. CASE WriteReplayed
  <2> DEFINE q == [WithAttempt(read, "success") EXCEPT !.status = "approved", !.wo = wo]
  <2>1. Filed(wo, RecommendationOf(Command1), orders, workorders) /\ pc \in Replayed
    BY <1>13 DEF WriteReplayed, OrderInv, BridgeOrders, Replayed
  <2>2. q \in Row /\ q.wo = wo
    <3>1. Append(read.attempts, [by |-> Bridge, state |-> "success"]) \in Seq(Attempt)
      BY <1>1, AttemptTyped DEF Row
    <3>2. wo \in Order
      BY <2>1 DEF Filed, Made
    <3>3. QED BY <1>1, <3>1, <3>2 DEF WithAttempt, Row, Statuses
  <2>3. UpdateProposal(Command1, q) /\ UNCHANGED <<orders, workorders, req, todo, wo>> /\ pc' = "dequeue"
    BY <1>13 DEF WriteReplayed
  <2> HIDE DEF q
  <2>4. ApprovedFiled'
    BY <1>4, <2>1, <2>2, <2>3, UpdateFiled DEF OrderInv
  <2>5. BridgeOrders'
    BY <2>1, <2>3 DEF BridgeOrders, Command1
  <2>6. QED BY <1>2, <2>3, <2>4, <2>5, NothingMadeGrows
<1>14. CASE WriteFailed
  <2> DEFINE q == WithAttempt(read, "queued-offline")
  <2>1. q \in Row /\ q.wo = read.wo /\ q.status = read.status
    <3>1. Append(read.attempts, [by |-> Bridge, state |-> "queued-offline"]) \in Seq(Attempt)
      BY <1>1, AttemptTyped DEF Row
    <3>2. QED BY <1>1, <3>1 DEF WithAttempt, Row
  <2>2. /\ UpdateProposal(Command1, q) /\ UNCHANGED <<orders, workorders, req>>
        /\ pc' = "live" /\ pc = "write failed"
    BY <1>14 DEF WriteFailed
  <2>3. q.status = "approved" => Filed(q.wo, RecommendationOf(Command1), orders, workorders)
    BY <2>1, <2>2 DEF OrderInv, BridgeOrders
  <2> HIDE DEF q
  <2>4. ApprovedFiled'
    BY <1>4, <2>1, <2>2, <2>3, UpdateFiled DEF OrderInv, Replayed
  <2>5. BridgeOrders'
    BY <2>2 DEF BridgeOrders
  <2>6. QED BY <1>2, <2>2, <2>4, <2>5, NothingMadeGrows
<1>15. QED BY <1>6, <1>7, <1>8, <1>9, <1>10, <1>11, <1>12, <1>13, <1>14 DEF BridgeNext, LoopStep

\* So does every step.
LEMMA StepOrderInv == Typed /\ OrderInv /\ [Next]_vars => OrderInv'
<1> SUFFICES ASSUME Typed, OrderInv, [Next]_vars PROVE OrderInv'
  OBVIOUS
<1>1. CASE ApiStep
  <2>1. ASSUME NEW p \in Proposal, Analyze(p), UNCHANGED bridgeVars PROVE OrderInv'
    BY <2>1, UpsertFiled, NothingMadeGrows, OrdersKept DEF Analyze, OrderInv, bridgeVars, handVars
  <2>2. QED BY <1>1, <2>1, RequestStepOrders DEF ApiStep
<1>2. CASE Heal
  BY <1>2, NothingMadeGrows, OrdersKept DEF Heal, Recover, OrderInv, bridgeVars, handVars
<1>3. CASE UNCHANGED vars
  BY <1>3, NothingMadeGrows, OrdersKept DEF vars, sharedVars, storeVars, bridgeVars, handVars, OrderInv
<1>4. QED BY <1>1, <1>2, <1>3, BridgeStepOrders DEF Next

\* At first nothing is approved or in hand.
LEMMA InitOrderInv == Init => OrderInv
<1> SUFFICES ASSUME Init PROVE OrderInv
  OBVIOUS
<1>1. ApprovedFiled
  BY DEF Init, ApprovalInit, StoreInit, NoRow, ApprovedFiled
<1>2. RequestOrders
  BY IdleTyped DEF Init, ApprovalInit, RequestOrders
<1>3. BridgeOrders
  BY DEF Init, BridgeInit, BridgeOrders
<1>4. QED BY <1>1, <1>2, <1>3 DEF OrderInv

\* The three invariants together hold in every reachable state.
THEOREM OrderInvariance == Spec => [](Typed /\ QueueInv /\ OrderInv)
  BY InitTyped, StepTyped, InitQueueInv, StepQueueInv, InitOrderInv, StepOrderInv, PTL DEF Spec

\* A proposal shown as approved has an order the CMMS made for it, filed in
\* workorders, whatever fails, dies or overlaps.
THEOREM ApprovedAlwaysHasOrder == Spec => []ApprovedHasOrder
<1>1. ApprovedFiled => ApprovedHasOrder
  BY DEF ApprovedFiled, Filed, Made, ApprovedHasOrder, Exists
<1>2. QED BY <1>1, OrderInvariance, PTL DEF OrderInv

\* A command leaves the queue only when it has been handed over.
THEOREM OnlyHandedOffLeave == Spec => DequeuedHandedOff
<1> DEFINE Leaves == \A i \in 1..Len(queue) :
       (\E j \in 1..Len(queue') : queue'[j] = queue[i])
       \/ (wo \in workorders /\ Exists(wo) /\ wo[1] = RecommendationOf(queue[i]))
<1>1. Typed /\ QueueInv /\ OrderInv /\ [Next]_vars => [Leaves]_vars
  <2> SUFFICES ASSUME Typed, QueueInv, OrderInv, Next PROVE Leaves
    OBVIOUS
  <2>1. queue \in Seq(Command)
    BY DEF Typed, TypeOK, ApprovalTypeOK, QueueTypeOK
  <2>2. CASE Dequeue
    <3>1. queue # <<>> /\ queue[1] = Command1 /\ queue' = Tail(queue)
      BY <2>2, DequeueTakesFirst
    <3>2. wo \in workorders /\ Exists(wo) /\ wo[1] = RecommendationOf(queue[1])
      BY <2>2, <3>1 DEF Dequeue, OrderInv, BridgeOrders, Filed, Made, Exists
    <3>3. ASSUME NEW i \in 1..Len(queue), i # 1
          PROVE  i - 1 \in 1..Len(queue') /\ queue'[i - 1] = queue[i]
      BY <2>1, <3>1, <3>3
    <3>4. QED BY <3>2, <3>3
  <2>3. CASE ~Dequeue
    <3>1. queue' = queue \/ \E c : queue' = Append(queue, c)
      BY <2>3 DEF Next, ApiStep, HandleRequest, Analyze, Heal, Recover, BridgeNext, LoopStep,
           Arrive, ArriveUnread, Upsert, SubmitOk, SubmitFails, Persist, Approve, MarkPending, LookUp,
           EnqueueCommand, Enqueue, EnqueueUpdate, EnqueueInsert, EnqueueCommandClashes, MarkQueued,
           QueueingFails, Abort, Poll, List, ReplayDone, ReplayOk, PersistReplayed, ReadReplayed,
           WriteReplayed, ReplayFails, RecordReplayFailure, ReadFailed, WriteFailed, ReadRow, LiveOk,
           PersistLive, LiveFails, LiveGivesUp, AutoCommit, BridgeErrors, Killed, Restart,
           sharedVars, queueVars
    <3>2. ASSUME NEW i \in 1..Len(queue) PROVE i \in 1..Len(queue') /\ queue'[i] = queue[i]
      BY <2>1, <3>1
    <3>3. QED BY <3>2
  <2>4. QED BY <2>2, <2>3
<1>2. QED BY <1>1, OrderInvariance, PTL DEF Spec, DequeuedHandedOff

-----------------------------------------------------------------------------
(***************************************************************************)
(* Requests one at a time, and a bridge that writes no row: outside edge   *)
(* mode nothing is queued, and without messages nothing is replayed.  What *)
(* a request read of its row is then what the row holds when it is written.*)
(***************************************************************************)

InTurn == ApiThreads = 1 /\ (EdgeMode => Topic = <<>>)

Queueing == {"lookup", "enqueue", "mark queued"}

\* At most one request is being handled.
Alone ==
  \A r, s \in Request : req[r].pc \in Running /\ req[s].pc \in Running => r = s

BaseCurrent ==
  \A r \in Request :
    req[r].pc \in Running \ {"guarded"} => req[r].base = row[ProposalOf(r)].attempts

BridgeAside ==
  /\ Topic = <<>> => pc \in {"poll", "stopped"}
  /\ ~EdgeMode => /\ queue = <<>> /\ pc \in {"poll", "live", "persist live", "stopped"}
                  /\ \A r \in Request : req[r].pc \notin Queueing

SequentialInv == Alone /\ BaseCurrent /\ BridgeAside

\* What a step of a request may do to its thread and to the rows.
Begins(r) ==
  /\ req[r].pc = "idle" /\ row' = row
  /\ Cardinality({o \in Request : req[o].pc \in Running}) < ApiThreads
  /\ req'[r].pc = "guarded"

Returns(r) == req'[r].pc \notin Running /\ row' = row

UpsertsRow(r) ==
  /\ req[r].pc = "guarded" /\ req'[r].pc = "submit" /\ req'[r].id = req[r].id
  /\ req'[r].base = row[ProposalOf(r)].attempts
  /\ UpsertProposal(ProposalOf(r))

Proceeds(r) ==
  /\ req[r].pc \in Running \ {"guarded"} /\ req'[r].pc \in Running \ {"guarded"}
  /\ req'[r].id = req[r].id /\ req'[r].base = req[r].base /\ row' = row
  /\ req'[r].pc \in Queueing => EdgeMode \/ req[r].pc \in Queueing

Records(r) ==
  /\ req[r].pc \in Running \ {"guarded"} /\ req'[r].pc \notin Running
  /\ \E status \in Statuses, order \in Order \cup {NoOrder}, attempts \in Seq(Attempt) :
       Record(r, status, order, attempts)

\* Every step of a request does one of these, and leaves the others alone.
LEMMA ThreadStep ==
  ASSUME Typed, NEW r \in Request, HandleRequest(r)
  PROVE  /\ \A o \in Request \ {r} : req'[o] = req[o]
         /\ Begins(r) \/ Returns(r) \/ UpsertsRow(r) \/ Proceeds(r) \/ Records(r)
<1>1. /\ req \in [Request -> Thread] /\ req[r] \in Thread /\ req[r].mine \in Seq(Attempt)
      /\ req[r].wo \in Order \cup {NoOrder}
  BY DEF Typed, TypeOK, ApprovalTypeOK, Thread
<1>2. ASSUME Answer(r)
      PROVE  (\A o \in Request \ {r} : req'[o] = req[o]) /\ req'[r].pc = "done"
  <2>1. req' = [req EXCEPT ![r] = [Idle EXCEPT !.pc = "done"]] /\ [Idle EXCEPT !.pc = "done"].pc = "done"
    BY <1>2 DEF Answer, Idle
  <2> QED
    BY <1>1, <2>1
<1>3. ASSUME NEW place, GoTo(r, place)
      PROVE  /\ \A o \in Request \ {r} : req'[o] = req[o]
             /\ req'[r].pc = place /\ req'[r].id = req[r].id /\ req'[r].base = req[r].base
  BY <1>1, <1>3 DEF GoTo, Thread
<1>4. ASSUME NEW id, NEW existing, NEW admin, Begin(r, id, existing, admin)
      PROVE  /\ \A o \in Request \ {r} : req'[o] = req[o]
             /\ req'[r].pc \in {"guarded", "done"}
  <2>1. CASE MayHandOff(existing, admin)
    BY <1>1, <1>4, <2>1 DEF Begin, Thread
  <2>2. CASE ~MayHandOff(existing, admin)
    BY <1>2, <1>4, <2>2 DEF Begin
  <2> QED
    BY <2>1, <2>2
<1>5. CASE Arrive(r)
  BY <1>4, <1>5 DEF Arrive, At, Begins, Returns, sharedVars, storeVars, Running
<1>6. CASE ArriveUnread(r)
  BY <1>4, <1>6 DEF ArriveUnread, At, Begins, Returns, storeVars, Running
<1>7. CASE Upsert(r)
  BY <1>1, <1>7 DEF Upsert, At, UpsertsRow, Thread
<1>8. CASE SubmitOk(r)
  BY <1>1, <1>8 DEF SubmitOk, At, Proceeds, Thread, Running, Queueing
<1>9. CASE SubmitFails(r)
  <2>1. PICK how \in CmmsFailures :
          req' = [req EXCEPT ![r].pc = AfterFailure(r, how), ![r].left = @ - 1,
                    ![r].mine = Append(@, [by |-> r, state |-> "failure"])]
    BY <1>9 DEF SubmitFails
  <2>2. /\ AfterFailure(r, how) \in Running \ {"guarded"}
        /\ AfterFailure(r, how) \in Queueing => EdgeMode
    BY DEF AfterFailure, Running, Queueing
  <2>3. /\ \A o \in Request \ {r} : req'[o] = req[o]
        /\ req'[r].pc = AfterFailure(r, how) /\ req'[r].id = req[r].id
        /\ req'[r].base = req[r].base
    BY <1>1, <2>1 DEF Thread
  <2>4. req[r].pc = "submit" /\ row' = row
    BY <1>9 DEF SubmitFails, At
  <2> QED
    BY <2>2, <2>3, <2>4 DEF Proceeds, Running
<1>10. CASE Persist(r)
  <2>1. GoTo(r, "approve") /\ req[r].pc = "persist" /\ row' = row
    BY <1>10 DEF Persist, At
  <2>2. /\ \A o \in Request \ {r} : req'[o] = req[o]
        /\ req'[r].pc = "approve" /\ req'[r].id = req[r].id /\ req'[r].base = req[r].base
    BY <1>3, <2>1
  <2> QED
    BY <2>1, <2>2 DEF Proceeds, Running, Queueing
<1>11. CASE Approve(r)
  BY <1>1, <1>2, <1>11 DEF Approve, At, Records, Running, Statuses
<1>12. CASE MarkPending(r)
  BY <1>1, <1>2, <1>12 DEF MarkPending, At, Records, Running, Statuses
<1>13. CASE LookUp(r)
  BY <1>1, <1>13 DEF LookUp, At, Proceeds, Thread, Running, Queueing, sharedVars, storeVars
<1>14. CASE EnqueueCommand(r)
  <2>1. GoTo(r, "mark queued") /\ req[r].pc = "enqueue" /\ row' = row
    BY <1>14 DEF EnqueueCommand, At, storeVars
  <2>2. /\ \A o \in Request \ {r} : req'[o] = req[o]
        /\ req'[r].pc = "mark queued" /\ req'[r].id = req[r].id /\ req'[r].base = req[r].base
    BY <1>3, <2>1
  <2> QED
    BY <2>1, <2>2 DEF Proceeds, Running, Queueing
<1>15. CASE EnqueueCommandClashes(r)
  <2>1. GoTo(r, "mark pending") /\ req[r].pc = "enqueue" /\ row' = row
    BY <1>15 DEF EnqueueCommandClashes, At, sharedVars, storeVars
  <2>2. /\ \A o \in Request \ {r} : req'[o] = req[o]
        /\ req'[r].pc = "mark pending" /\ req'[r].id = req[r].id /\ req'[r].base = req[r].base
    BY <1>3, <2>1
  <2> QED
    BY <2>1, <2>2 DEF Proceeds, Running, Queueing
<1>16. CASE MarkQueued(r)
  <2>1. AsQueued(req[r].mine) \in Seq(Attempt)
    BY <1>1, AsQueuedTyped
  <2> QED
    BY <1>2, <2>1, <1>16 DEF MarkQueued, At, Records, Running, Statuses
<1>17. CASE QueueingFails(r)
  <2>1. GoTo(r, "mark pending") /\ req[r].pc \in Queueing /\ row' = row
    BY <1>17 DEF QueueingFails, Queueing, storeVars
  <2>2. /\ \A o \in Request \ {r} : req'[o] = req[o]
        /\ req'[r].pc = "mark pending" /\ req'[r].id = req[r].id /\ req'[r].base = req[r].base
    BY <1>3, <2>1
  <2> QED
    BY <2>1, <2>2 DEF Proceeds, Running, Queueing
<1>18. CASE Abort(r)
  BY <1>2, <1>18 DEF Abort, Returns, Running, storeVars
<1> QED
  BY <1>5, <1>6, <1>7, <1>8, <1>9, <1>10, <1>11, <1>12, <1>13, <1>14, <1>15, <1>16,
     <1>17, <1>18 DEF HandleRequest

\* The row and the thread of a request hold histories of attempts.
LEMMA HistoriesTyped ==
  ASSUME Typed
  PROVE  /\ row \in [Proposal -> Row] /\ \A p \in Proposal : row[p].attempts \in Seq(Attempt)
         /\ \A o \in Request : req[o].id \in Id /\ ProposalOf(o) \in Proposal
<1>1. row \in [Proposal -> Row] /\ req \in [Request -> Thread] /\ Command \subseteq Id
  BY DEF Typed, TypeOK, ApprovalTypeOK
<1>2. ASSUME NEW p \in Proposal PROVE row[p].attempts \in Seq(Attempt)
  <2>1. row[p] \in Row
    BY <1>1
  <2> QED
    BY <2>1 DEF Row
<1>3. ASSUME NEW o \in Request PROVE req[o].id \in Id /\ ProposalOf(o) \in Proposal
  <2>1. req[o] \in Thread
    BY <1>1
  <2>2. req[o].id \in Id
    BY <1>1, <2>1 DEF Thread
  <2> QED
    BY <2>2, IdTyped DEF ProposalOf
<1> QED
  BY <1>1, <1>2, <1>3

\* A request begins only when no other is being handled.
LEMMA NobodyRuns ==
  ASSUME ApiThreads = 1, Alone,
         Cardinality({o \in Request : req[o].pc \in Running}) < ApiThreads
  PROVE  \A o \in Request : req[o].pc \notin Running
<1> SUFFICES ASSUME NEW o \in Request, req[o].pc \in Running PROVE FALSE
  OBVIOUS
<1>1. {s \in Request : req[s].pc \in Running} = {o}
  BY DEF Alone
<1>2. Cardinality({o}) = 1
  BY FS_Singleton
<1>3. Cardinality({s \in Request : req[s].pc \in Running}) < 1
  BY Zenon
<1>4. ~ 1 < 1
  OBVIOUS
<1> QED
  BY <1>1, <1>2, <1>3, <1>4, Zenon

\* Requests stay one at a time.
LEMMA StillAlone ==
  ASSUME Typed, ApiThreads = 1, Alone, NEW r \in Request, HandleRequest(r)
  PROVE  Alone'
<1>1. /\ \A o \in Request \ {r} : req'[o] = req[o]
      /\ Begins(r) \/ Returns(r) \/ UpsertsRow(r) \/ Proceeds(r) \/ Records(r)
  BY ThreadStep
<1>2. CASE Begins(r)
  <2>1. \A o \in Request : req[o].pc \notin Running
    BY <1>2, NobodyRuns DEF Begins
  <2> QED
    BY <1>1, <2>1 DEF Alone
<1>3. CASE Returns(r) \/ Records(r)
  BY <1>1, <1>3 DEF Alone, Returns, Records
<1>4. CASE UpsertsRow(r) \/ Proceeds(r)
  <2>1. req[r].pc \in Running
    BY <1>4 DEF UpsertsRow, Proceeds, Running
  <2> QED
    BY <1>1, <2>1 DEF Alone
<1> QED
  BY <1>1, <1>2, <1>3, <1>4

\* _upsert_proposal leaves the attempts of every row.
LEMMA UpsertKeepsAttempts ==
  ASSUME Typed, NEW p \in Proposal, UpsertProposal(p)
  PROVE  \A q \in Proposal : row'[q].attempts = row[q].attempts
<1>1. row \in [Proposal -> Row] /\ row[p] \in Row
  BY DEF Typed, TypeOK, ApprovalTypeOK
<1>2. row' = [row EXCEPT ![p] = [row[p] EXCEPT !.status =
                                   IF row[p].status = "absent" THEN "pending" ELSE row[p].status]]
  BY <1>1 DEF UpsertProposal
<1> DEFINE new == [row[p] EXCEPT !.status =
                     IF row[p].status = "absent" THEN "pending" ELSE row[p].status]
<1>3. new.attempts = row[p].attempts
  BY <1>1 DEF Row
<1> HIDE DEF new
<1>4. row' = [row EXCEPT ![p] = new]
  BY <1>2 DEF new
<1> QED
  BY <1>1, <1>3, <1>4

\* A history continued by more attempts is longer.
LEMMA Continued ==
  ASSUME NEW a \in Seq(Attempt), NEW b \in Seq(Attempt)
  PROVE  IsPrefix(a, a) /\ IsPrefix(a, a \o b)
<1>1. /\ a \o b \in Seq(Attempt) /\ Len(a) <= Len(a \o b) /\ Len(a) <= Len(a)
      /\ \A i \in 1 .. Len(a) : (a \o b)[i] = a[i]
  OBVIOUS
<1> QED
  BY <1>1, PrefixDef

\* With the row as it read it, the request that writes it adds to its history.
LEMMA RecordContinues ==
  ASSUME Typed, NEW r \in Request, req[r].base = row[ProposalOf(r)].attempts,
         NEW status \in Statuses, NEW order \in Order \cup {NoOrder},
         NEW attempts \in Seq(Attempt), Record(r, status, order, attempts)
  PROVE  \A p \in Proposal : IsPrefix(row[p].attempts, row'[p].attempts)
<1>1. /\ row \in [Proposal -> Row] /\ \A p \in Proposal : row[p].attempts \in Seq(Attempt)
      /\ req[r].id \in Id
  BY HistoriesTyped
<1>2. ProposalOf(r) \in Proposal
  BY HistoriesTyped
<1>3. ASSUME NEW p \in Proposal
      PROVE  \/ row'[p] = row[p]
             \/ row'[p].attempts = row[p].attempts \o attempts
  <2> DEFINE q == [status |-> status, wo |-> order, attempts |-> req[r].base \o attempts]
  <2>1. row'[p] = row[p] \/ (row'[p] = q /\ p = ProposalOf(r))
    BY <1>1, <1>2 DEF Record, UpdateProposal, ProposalOf
  <2> QED
    BY <2>1
<1> QED
  BY <1>1, <1>3, Continued

\* What a request step does to the histories, and to what threads read of them.
LEMMA HistoryStep ==
  ASSUME Typed, SequentialInv, ApiThreads = 1, NEW r \in Request, HandleRequest(r)
  PROVE  /\ \A p \in Proposal : IsPrefix(row[p].attempts, row'[p].attempts)
         /\ BaseCurrent'
<1>1. /\ \A o \in Request \ {r} : req'[o] = req[o]
      /\ Begins(r) \/ Returns(r) \/ UpsertsRow(r) \/ Proceeds(r) \/ Records(r)
  BY ThreadStep
<1>2. /\ row \in [Proposal -> Row] /\ \A p \in Proposal : row[p].attempts \in Seq(Attempt)
      /\ \A o \in Request : ProposalOf(o) \in Proposal
  BY HistoriesTyped
<1>3. Alone /\ BaseCurrent
  BY DEF SequentialInv
<1>4. CASE Begins(r) \/ Returns(r)
  <2>1. row' = row /\ req'[r].pc \notin Running \ {"guarded"}
    BY <1>4 DEF Begins, Returns
  <2>2. BaseCurrent'
    BY <1>1, <1>3, <2>1 DEF BaseCurrent, ProposalOf
  <2> QED
    BY <1>2, <2>1, <2>2, Continued
<1>5. CASE UpsertsRow(r)
  <2>1. \A p \in Proposal : row'[p].attempts = row[p].attempts
    BY <1>2, <1>5, UpsertKeepsAttempts DEF UpsertsRow
  <2>2. req'[r].base = row'[ProposalOf(r)].attempts /\ ProposalOf(r)' = ProposalOf(r)
    BY <1>2, <1>5, <2>1 DEF UpsertsRow, ProposalOf
  <2>3. ASSUME NEW o \in Request \ {r}, req'[o].pc \in Running \ {"guarded"}
        PROVE  req'[o].base = row'[ProposalOf(o)'].attempts
    BY <1>1, <1>2, <1>3, <2>1, <2>3 DEF BaseCurrent, ProposalOf
  <2>4. BaseCurrent'
    BY <2>2, <2>3 DEF BaseCurrent
  <2> QED
    BY <1>2, <2>1, <2>4, Continued
<1>6. CASE Proceeds(r)
  <2>1. row' = row
    BY <1>6 DEF Proceeds
  <2>2. BaseCurrent'
    BY <1>1, <1>3, <1>6 DEF BaseCurrent, Proceeds, ProposalOf
  <2> QED
    BY <1>2, <2>1, <2>2, Continued
<1>7. CASE Records(r)
  <2>1. req[r].base = row[ProposalOf(r)].attempts
    BY <1>3, <1>7 DEF Records, BaseCurrent
  <2>2. \A o \in Request : req'[o].pc \notin Running
    BY <1>1, <1>3, <1>7 DEF Records, Alone
  <2>3. BaseCurrent'
    BY <2>2 DEF BaseCurrent
  <2>4. \A p \in Proposal : IsPrefix(row[p].attempts, row'[p].attempts)
    BY <1>7, <2>1, RecordContinues DEF Records
  <2> QED
    BY <2>3, <2>4
<1> QED
  BY <1>1, <1>4, <1>5, <1>6, <1>7

\* The bridge stays aside.
LEMMA BridgeStaysAside ==
  ASSUME Typed, BridgeAside, InTurn, BridgeNext
  PROVE  /\ row' = row /\ req' = req /\ BridgeAside'
         /\ Topic = <<>> => orders' = orders
<1>1. /\ Topic = <<>> => ~ position < Len(Topic)
  BY DEF Typed, TypeOK
<1>2. CASE Topic = <<>>
  <2>1. pc \in {"poll", "stopped"}
    BY <1>2 DEF BridgeAside
  <2>2. AutoCommit \/ BridgeErrors \/ Killed \/ Restart
    BY <1>1, <1>2, <2>1 DEF BridgeNext, LoopStep, Poll, List, ReplayDone, ReplayOk, PersistReplayed,
       ReadReplayed, WriteReplayed, Dequeue, ReplayFails, ReadFailed, WriteFailed, LiveOk,
       PersistLive, LiveFails, LiveGivesUp
  <2> QED
    BY <1>2, <2>1, <2>2 DEF AutoCommit, BridgeErrors, Killed, Restart, Stop, sharedVars, storeVars,
       queueVars, BridgeAside
<1>3. CASE Topic # <<>>
  <2>1. ~EdgeMode /\ queue = <<>> /\ pc \in {"poll", "live", "persist live", "stopped"}
    BY <1>3 DEF InTurn, BridgeAside
  <2>2. \/ AutoCommit \/ BridgeErrors \/ Killed \/ Restart
        \/ Poll \/ LiveOk \/ PersistLive \/ LiveFails \/ LiveGivesUp
    BY <2>1 DEF BridgeNext, LoopStep, List, ReplayDone, ReplayOk, PersistReplayed,
       ReadReplayed, WriteReplayed, Dequeue, ReplayFails, ReadFailed, WriteFailed
  <2>3. row' = row /\ req' = req /\ queue' = queue
    BY <2>2 DEF AutoCommit, BridgeErrors, Killed, Restart, Poll, LiveOk, PersistLive, LiveFails,
       LiveGivesUp, Stop, sharedVars, storeVars, queueVars
  <2>4. pc' \in {"poll", "live", "persist live", "stopped"}
    BY <2>1, <2>2 DEF AutoCommit, BridgeErrors, Killed, Restart, Poll, LiveOk, PersistLive, LiveFails,
       LiveGivesUp, Stop
  <2> QED
    BY <1>3, <2>1, <2>3, <2>4 DEF BridgeAside
<1> QED
  BY <1>2, <1>3

\* A request queues nothing outside edge mode.
LEMMA NothingQueued ==
  ASSUME Typed, BridgeAside, NEW r \in Request, HandleRequest(r), UNCHANGED bridgeVars
  PROVE  BridgeAside'
<1>1. pc' = pc
  BY DEF bridgeVars
<1>2. CASE EdgeMode
  BY <1>1, <1>2 DEF BridgeAside
<1>3. CASE ~EdgeMode
  <2>1. queue = <<>> /\ \A o \in Request : req[o].pc \notin Queueing
    BY <1>3 DEF BridgeAside
  <2>2. queue' = queue
    BY <2>1 DEF HandleRequest, Arrive, ArriveUnread, Upsert, SubmitOk, SubmitFails, Persist,
       Approve, MarkPending, LookUp, EnqueueCommand, EnqueueCommandClashes, MarkQueued,
       QueueingFails, Abort, sharedVars, queueVars, Queueing, At
  <2>3. /\ \A o \in Request \ {r} : req'[o] = req[o]
        /\ Begins(r) \/ Returns(r) \/ UpsertsRow(r) \/ Proceeds(r) \/ Records(r)
    BY ThreadStep
  <2>4. req'[r].pc \notin Queueing
    BY <1>3, <2>1, <2>3 DEF Begins, Returns, UpsertsRow, Proceeds, Records, Queueing, Running
  <2> QED
    BY <1>1, <1>3, <2>1, <2>2, <2>3, <2>4 DEF BridgeAside
<1> QED
  BY <1>2, <1>3

\* Every step keeps the invariant and every history.
LEMMA SequentialStep ==
  ASSUME InTurn, Typed, SequentialInv, [Next]_vars
  PROVE  /\ SequentialInv'
         /\ \A p \in Proposal : IsPrefix(row[p].attempts, row'[p].attempts)
<1>1. /\ ApiThreads = 1 /\ Alone /\ BaseCurrent /\ BridgeAside
      /\ \A p \in Proposal : row[p].attempts \in Seq(Attempt)
  BY HistoriesTyped DEF InTurn, SequentialInv
<1>2. ASSUME req' = req, \A p \in Proposal : row'[p].attempts = row[p].attempts
      PROVE  /\ Alone' /\ BaseCurrent'
             /\ \A p \in Proposal : IsPrefix(row[p].attempts, row'[p].attempts)
  <2>1. Alone'
    BY <1>1, <1>2 DEF Alone
  <2>2. ASSUME NEW o \in Request, req[o].pc \in Running \ {"guarded"}
        PROVE  req[o].base = row'[ProposalOf(o)].attempts
    BY <1>1, <1>2, <2>2, HistoriesTyped DEF BaseCurrent
  <2>3. BaseCurrent'
    BY <1>2, <2>2 DEF BaseCurrent, ProposalOf
  <2> QED
    BY <1>1, <1>2, <2>1, <2>3, Continued
<1>3. CASE \E r \in Request : HandleRequest(r) /\ UNCHANGED bridgeVars
  BY <1>1, <1>3, StillAlone, HistoryStep, NothingQueued DEF SequentialInv
<1>4. ASSUME NEW p \in Proposal, Analyze(p), UNCHANGED bridgeVars
      PROVE  /\ SequentialInv'
             /\ \A q \in Proposal : IsPrefix(row[q].attempts, row'[q].attempts)
  <2>1. req' = req /\ queue' = queue /\ pc' = pc /\ \A q \in Proposal : row'[q].attempts = row[q].attempts
    BY <1>4, UpsertKeepsAttempts DEF Analyze, queueVars, bridgeVars
  <2>2. BridgeAside'
    BY <1>1, <2>1 DEF BridgeAside
  <2> QED
    BY <1>2, <2>1, <2>2 DEF SequentialInv
<1>5. CASE Heal \/ UNCHANGED vars
  <2>1. req' = req /\ queue' = queue /\ pc' = pc /\ row' = row
    BY <1>5 DEF Heal, Recover, queueVars, bridgeVars, vars, sharedVars, storeVars
  <2>2. BridgeAside'
    BY <1>1, <2>1 DEF BridgeAside
  <2> QED
    BY <1>2, <2>1, <2>2 DEF SequentialInv
<1>6. CASE BridgeNext
  BY <1>1, <1>2, <1>6, BridgeStaysAside DEF SequentialInv
<1> QED
  BY <1>3, <1>4, <1>5, <1>6 DEF Next, ApiStep

\* At first no request is being handled.
LEMMA InitSequential == Init => SequentialInv
<1> SUFFICES ASSUME Init PROVE SequentialInv
  OBVIOUS
<1>1. \A r \in Request : req[r].pc = "idle"
  BY IdleTyped DEF Init, ApprovalInit
<1>2. Alone /\ BaseCurrent
  BY <1>1 DEF Alone, BaseCurrent, Running
<1>3. BridgeAside
  BY <1>1 DEF BridgeAside, Init, ApprovalInit, QueueInit, BridgeInit, Queueing
<1> QED
  BY <1>2, <1>3 DEF SequentialInv

\* With requests handled one at a time, and outside edge mode or without
\* messages, no attempt once recorded is ever lost from approval_attempts,
\* whatever fails or dies.  (approve_proposal)
THEOREM HistoryAlwaysKept ==
  ASSUME ApiThreads = 1, EdgeMode => Topic = <<>>
  PROVE  Spec => HistoryKept
<1> DEFINE Kept == \A p \in Proposal : IsPrefix(row[p].attempts, row'[p].attempts)
<1>1. InTurn
  BY DEF InTurn
<1>2. Typed /\ SequentialInv /\ [Next]_vars => SequentialInv' /\ [Kept]_approvalVars
  BY <1>1, SequentialStep
<1> HIDE DEF Kept
<1>3. Spec => []SequentialInv
  BY <1>2, InitSequential, InitTyped, StepTyped, PTL DEF Spec
<1>4. Spec => [][Kept]_approvalVars
  BY <1>2, <1>3, InitTyped, StepTyped, PTL DEF Spec
<1> QED
  BY <1>4 DEF HistoryKept, Kept

-----------------------------------------------------------------------------
(* An approval is final: no request that runs is for an approved proposal. *)

NoneApproved ==
  \A r \in Request : req[r].pc \in Running => row[ProposalOf(r)].status # "approved"

\* A request touches the row and the orders of its own proposal only, and
\* of none before it has begun.
LEMMA OwnProposalOnly ==
  ASSUME Typed, NEW r \in Request, HandleRequest(r),
         NEW p \in Proposal, p # ProposalOf(r) \/ req[r].pc \notin Running
  PROVE  row'[p] = row[p] /\ orders'[p] = orders[p]
<1>1. /\ row \in [Proposal -> Row] /\ orders \in [Proposal -> Nat]
      /\ ProposalOf(r) = RecommendationOf(req[r].id)
  BY DEF Typed, TypeOK, ApprovalTypeOK, ProposalOf
<1>2. CASE req[r].pc \notin Running
  <2>1. row' = row /\ orders' = orders
    BY <1>2 DEF HandleRequest, Arrive, ArriveUnread, Upsert, SubmitOk, SubmitFails, Persist,
       Approve, MarkPending, LookUp, EnqueueCommand, EnqueueCommandClashes, MarkQueued,
       QueueingFails, Abort, sharedVars, storeVars, Running, At
  <2> QED
    BY <2>1
<1>3. CASE p # ProposalOf(r)
  <2>1. ASSUME NEW q, UpdateProposal(req[r].id, q) PROVE row'[p] = row[p]
    BY <1>1, <1>3, <2>1 DEF UpdateProposal
  <2>2. ASSUME UpsertProposal(ProposalOf(r)) PROVE row'[p] = row[p]
    BY <1>1, <1>3, <2>2 DEF UpsertProposal
  <2>3. ASSUME CreateOrder(ProposalOf(r)) PROVE orders'[p] = orders[p]
    BY <1>1, <1>3, <2>3 DEF CreateOrder
  <2>4. CASE Upsert(r)
    BY <2>2, <2>4 DEF Upsert
  <2>5. CASE SubmitOk(r)
    BY <2>3, <2>5 DEF SubmitOk
  <2>6. CASE SubmitFails(r)
    BY <2>3, <2>6 DEF SubmitFails, CallFails
  <2>7. CASE Approve(r) \/ MarkPending(r) \/ MarkQueued(r)
    BY <2>1, <2>7 DEF Approve, MarkPending, MarkQueued, Record
  <2>8. CASE \/ Arrive(r) \/ ArriveUnread(r) \/ Persist(r) \/ LookUp(r) \/ EnqueueCommand(r)
             \/ EnqueueCommandClashes(r) \/ QueueingFails(r) \/ Abort(r)
    <3>1. row' = row /\ orders' = orders
      BY <2>8 DEF Arrive, ArriveUnread, Persist, LookUp, EnqueueCommand, EnqueueCommandClashes,
         QueueingFails, Abort, sharedVars, storeVars
    <3> QED
      BY <3>1
  <2> QED
    BY <2>4, <2>5, <2>6, <2>7, <2>8 DEF HandleRequest
<1> QED
  BY <1>2, <1>3

\* Begun with the row as it was read, a request is for one not approved.
LEMMA BegunUnapproved ==
  ASSUME Typed, OrderInv, ReadsFail = FALSE, NEW r \in Request, HandleRequest(r), Begins(r)
  PROVE  row[ProposalOf(r)'].status # "approved"
<1>1. /\ req \in [Request -> Thread] /\ ApprovedFiled /\ Command \subseteq Id
  BY DEF Typed, TypeOK, ApprovalTypeOK, OrderInv
<1>2. ~ ArriveUnread(r)
  BY DEF ArriveUnread
<1>3. Arrive(r)
  BY <1>2 DEF HandleRequest, Begins, At, Upsert, SubmitOk, SubmitFails, Persist, Approve,
     MarkPending, LookUp, EnqueueCommand, EnqueueCommandClashes, MarkQueued, QueueingFails,
     Abort, Running
<1>4. PICK id \in Command, admin \in BOOLEAN : Begin(r, id, row[RecommendationOf(id)], admin)
  BY <1>3 DEF Arrive
<1>5. MayHandOff(row[RecommendationOf(id)], admin)
  <2> SUFFICES ASSUME Answer(r) PROVE FALSE
    BY <1>4 DEF Begin
  <2>1. req' = [req EXCEPT ![r] = [Idle EXCEPT !.pc = "done"]] /\ [Idle EXCEPT !.pc = "done"].pc = "done"
    BY DEF Answer, Idle
  <2> QED
    BY <1>1, <2>1 DEF Begins
<1>6. req'[r].id = id
  <2>1. req' = [req EXCEPT ![r].pc = "guarded", ![r].id = id,
                 ![r].left = Tries(MaxAttempts - Len(row[RecommendationOf(id)].attempts))]
    BY <1>4, <1>5 DEF Begin
  <2> QED
    BY <1>1, <2>1 DEF Thread
<1>7. RecommendationOf(id) \in Proposal
  BY <1>1, IdTyped
<1>8. row[RecommendationOf(id)].status # "approved"
  <2>1. row[RecommendationOf(id)].status = "approved" => row[RecommendationOf(id)].wo \in Order
    BY <1>1, <1>7 DEF ApprovedFiled, Filed, Made
  <2>2. NoOrder \notin Order
    OBVIOUS
  <2> QED
    BY <1>5, <2>1, <2>2 DEF MayHandOff
<1> QED
  BY <1>6, <1>8 DEF ProposalOf

\* _upsert_proposal approves nothing.
LEMMA UpsertApprovesNothing ==
  ASSUME Typed, NEW p \in Proposal, UpsertProposal(p), NEW q \in Proposal
  PROVE  row'[q].status = "approved" => row'[q] = row[q]
<1>1. row \in [Proposal -> Row] /\ row[p] \in Row
  BY DEF Typed, TypeOK, ApprovalTypeOK
<1>2. row' = [row EXCEPT ![p] = [row[p] EXCEPT !.status =
                                   IF row[p].status = "absent" THEN "pending" ELSE row[p].status]]
  BY <1>1 DEF UpsertProposal
<1>3. CASE q # p
  BY <1>1, <1>2, <1>3
<1>4. CASE q = p /\ row[p].status = "absent"
  <2>1. row'[q] = [row[p] EXCEPT !.status = "pending"]
    BY <1>1, <1>2, <1>4
  <2>2. [row[p] EXCEPT !.status = "pending"].status = "pending"
    BY <1>1 DEF Row
  <2>3. row'[q].status = "pending"
    BY <2>1, <2>2
  <2> QED
    BY <2>3
<1>5. CASE q = p /\ row[p].status # "absent"
  <2>1. row'[q] = [row[p] EXCEPT !.status = row[p].status]
    BY <1>1, <1>2, <1>5
  <2>2. [row[p] EXCEPT !.status = row[p].status] = row[p]
    BY <1>1 DEF Row
  <2> QED
    BY <1>5, <2>1, <2>2
<1> QED
  BY <1>3, <1>4, <1>5

\* Every step leaves the approved proposals alone.
LEMMA FinalStep ==
  ASSUME ApiThreads = 1, Topic = <<>>, ReadsFail = FALSE,
         Typed, OrderInv, SequentialInv, NoneApproved, [Next]_vars
  PROVE  /\ NoneApproved'
         /\ \A p \in Proposal : row[p].status = "approved" =>
              row'[p] = row[p] /\ orders'[p] = orders[p]
<1>1. Alone /\ BridgeAside /\ \A o \in Request : ProposalOf(o) \in Proposal
  BY HistoriesTyped DEF SequentialInv
<1>2. InTurn
  BY DEF InTurn
<1>3. ASSUME NEW r \in Request, HandleRequest(r)
      PROVE  /\ NoneApproved'
             /\ \A p \in Proposal : row[p].status = "approved" =>
                  row'[p] = row[p] /\ orders'[p] = orders[p]
  <2>1. /\ \A o \in Request \ {r} : req'[o] = req[o]
        /\ Begins(r) \/ Returns(r) \/ UpsertsRow(r) \/ Proceeds(r) \/ Records(r)
    BY <1>3, ThreadStep
  <2>2. \A p \in Proposal : row[p].status = "approved" =>
          row'[p] = row[p] /\ orders'[p] = orders[p]
    BY <1>3, OwnProposalOnly DEF NoneApproved
  <2>3. \A s \in Request : req'[s].pc \in Running /\ req'[r].pc \in Running => s = r
    BY <1>1, <1>3, StillAlone DEF Alone
  <2>4. CASE Returns(r) \/ Records(r)
    <3>1. \A s \in Request : req'[s].pc \in Running => req[s] = req'[s] /\ s # r
      BY <2>1, <2>4 DEF Returns, Records
    <3>2. ASSUME NEW s \in Request, req'[s].pc \in Running
          PROVE  row'[ProposalOf(s)'].status # "approved"
      <4>1. CASE Returns(r)
        BY <1>1, <3>1, <3>2, <4>1 DEF Returns, NoneApproved, ProposalOf
      <4>2. CASE Records(r)
        BY <1>1, <3>1, <3>2, <4>2 DEF Records, Alone
      <4> QED
        BY <2>4, <4>1, <4>2
    <3> QED
      BY <2>2, <3>2 DEF NoneApproved
  <2>5. CASE Begins(r)
    <3>1. row'[ProposalOf(r)'].status # "approved"
      BY <1>3, <2>5, BegunUnapproved DEF Begins
    <3>2. req'[r].pc \in Running
      BY <2>5 DEF Begins, Running
    <3> QED
      BY <2>2, <2>3, <3>1, <3>2 DEF NoneApproved
  <2>6. CASE UpsertsRow(r) \/ Proceeds(r)
    <3>1. /\ req[r].pc \in Running /\ req'[r].pc \in Running /\ ProposalOf(r)' = ProposalOf(r)
          /\ UpsertProposal(ProposalOf(r)) \/ row' = row
      BY <2>6 DEF UpsertsRow, Proceeds, Running, ProposalOf
    <3>2. row'[ProposalOf(r)].status # "approved"
      BY <1>1, <3>1, UpsertApprovesNothing DEF NoneApproved
    <3> QED
      BY <2>2, <2>3, <3>1, <3>2 DEF NoneApproved
  <2> QED
    BY <2>1, <2>4, <2>5, <2>6
<1>4. ASSUME NEW p \in Proposal, Analyze(p)
      PROVE  /\ NoneApproved'
             /\ \A q \in Proposal : row[q].status = "approved" =>
                  row'[q] = row[q] /\ orders'[q] = orders[q]
  <2>1. /\ UpsertProposal(p) /\ req' = req /\ orders' = orders /\ row[p].status = "absent"
        /\ row \in [Proposal -> Row]
    BY <1>4 DEF Analyze, Typed, TypeOK, ApprovalTypeOK
  <2>2. \A q \in Proposal : q # p => row'[q] = row[q]
    BY <2>1 DEF UpsertProposal
  <2>3. ASSUME NEW o \in Request, req[o].pc \in Running
        PROVE  row'[ProposalOf(o)].status # "approved"
    BY <1>1, <2>1, <2>3, UpsertApprovesNothing DEF NoneApproved
  <2>4. NoneApproved'
    BY <2>1, <2>3 DEF NoneApproved, ProposalOf
  <2> QED
    BY <2>1, <2>2, <2>4
<1>5. ASSUME row' = row, req' = req, orders' = orders
      PROVE  /\ NoneApproved'
             /\ \A p \in Proposal : row[p].status = "approved" =>
                  row'[p] = row[p] /\ orders'[p] = orders[p]
  BY <1>5 DEF NoneApproved, ProposalOf
<1>6. CASE Heal \/ UNCHANGED vars
  BY <1>5, <1>6 DEF Heal, Recover, vars, sharedVars, storeVars
<1>7. CASE BridgeNext
  BY <1>1, <1>2, <1>5, <1>7, BridgeStaysAside
<1> QED
  BY <1>3, <1>4, <1>6, <1>7 DEF Next, ApiStep

\* With requests handled one at a time, their reads answered and no message
\* to the bridge, an approved proposal keeps its status and its order, and
\* the CMMS is not asked for another, whatever else fails or dies.
\* (approve_proposal)
THEOREM ApprovalIsFinal ==
  ASSUME ApiThreads = 1, Topic = <<>>, ReadsFail = FALSE
  PROVE  Spec => ApprovalFinal
<1> DEFINE Final == \A p \in Proposal : row[p].status = "approved" =>
                      row'[p] = row[p] /\ orders'[p] = orders[p]
<1>1. InTurn
  BY DEF InTurn
<1>2. Init => NoneApproved
  BY IdleTyped DEF Init, ApprovalInit, NoneApproved, Running
<1>3. Typed /\ SequentialInv /\ [Next]_vars => SequentialInv'
  BY <1>1, SequentialStep
<1>4. Typed /\ OrderInv /\ SequentialInv /\ NoneApproved /\ [Next]_vars => NoneApproved' /\ Final
  BY FinalStep
<1>5. [Final]_approvalVars => [\A p \in Proposal : row[p].status = "approved" =>
       /\ row'[p].status = "approved" /\ row'[p].wo = row[p].wo
       /\ orders'[p] = orders[p]]_approvalVars
  OBVIOUS
<1> HIDE DEF Final
<1>6. Spec => [](Typed /\ OrderInv /\ SequentialInv /\ NoneApproved)
  BY <1>2, <1>3, <1>4, InitSequential, OrderInvariance, PTL DEF Spec
<1>7. Spec => [][Final]_approvalVars
  BY <1>4, <1>6, PTL DEF Spec
<1> QED
  BY <1>5, <1>7, PTL DEF ApprovalFinal
=============================================================================

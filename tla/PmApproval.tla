----------------------------- MODULE PmApproval ------------------------------
(***************************************************************************)
(* POST /proposals/{proposal_id}/approve of api/pm_advisor.py, and the     *)
(* handoff it runs: submit_work_order_with_retry of cmms/adapter.py and    *)
(* process_recommendation of services/wo_bridge.py.                        *)
(*                                                                         *)
(* FastAPI runs the handler in a thread pool, so requests interleave; each *)
(* SQL transaction, each CMMS call and each step on the edge queue is an   *)
(* action.  Nothing locks the proposal's row: what a request read of it    *)
(* lives in the request until it writes the row back.                      *)
(***************************************************************************)
EXTENDS EdgeCommandBuffer, HandoffStore

CONSTANTS Request,       \* approve requests
          Bridge,        \* the other writer of approval_attempts
          ApiThreads,    \* approve requests handled at the same time
          EdgeMode,      \* edge_mode_enabled
          MaxAttempts,   \* pm_handoff_max_attempts_per_proposal
          RetryAttempts, \* pm_handoff_retry_attempts
          ReadsFail,     \* the read of pm_proposals may be what fails
          MaxFaults      \* bound: database and disk errors, deaths of a process

ASSUME ApprovalAssumption ==
  /\ Command \subseteq Id /\ Command # {}
  /\ Bridge \notin Request
  /\ ApiThreads \in Nat \ {0}
  /\ EdgeMode \in BOOLEAN /\ ReadsFail \in BOOLEAN
  /\ MaxAttempts \in Nat \ {0}    \* _proposal_attempt_limit: max(1, ...)
  /\ RetryAttempts \in Nat \ {0}  \* max(1, ...) where it is used
  /\ MaxFaults \in Nat

VARIABLES req,   \* the requests, each with what its thread holds
          faults \* faults so far

sharedVars == <<queueVars, storeVars, faults>>
approvalVars == <<sharedVars, req>>

Attempt == [by : Request \cup {Bridge},
            state : {"success", "failure", "queued-offline"}]

Row == [status : Statuses, wo : Order \cup {NoOrder}, attempts : Seq(Attempt)]

Running == {"guarded", "submit", "persist", "approve",
            "lookup", "enqueue", "mark queued", "mark pending"}

Thread == [pc : Running \cup {"idle", "done"}, id : Command, left : Nat,
           base : Seq(Attempt), mine : Seq(Attempt), wo : Order \cup {NoOrder},
           found : BOOLEAN]

Idle == [pc |-> "idle", id |-> CHOOSE c \in Command : TRUE, left |-> 0,
         base |-> <<>>, mine |-> <<>>, wo |-> NoOrder, found |-> FALSE]

ApprovalInit ==
  /\ QueueInit
  /\ StoreInit
  /\ req = [r \in Request |-> Idle]
  /\ faults = 0

SomethingFails ==
  /\ faults < MaxFaults
  /\ faults' = faults + 1

At(r, place) == req[r].pc = place

ProposalOf(r) == RecommendationOf(req[r].id)

GoTo(r, place) == req' = [req EXCEPT ![r].pc = place]

\* The handler returns, with whatever answer: what its thread held is gone.
Answer(r) == req' = [req EXCEPT ![r] = [Idle EXCEPT !.pc = "done"]]

Tries(remaining) ==
  IF EdgeMode THEN 1
  ELSE IF RetryAttempts < remaining THEN RetryAttempts ELSE remaining

-----------------------------------------------------------------------------
(* The checks at the top of approve_proposal, on the row as it was read.   *)

MayHandOff_Unguarded(existing, admin) == \* mutant: an approval is not reused
  /\ existing.status # "queued-offline"
  /\ Len(existing.attempts) < MaxAttempts

MayHandOff_OneMore(existing, admin) == \* mutant: the limit is off by one
  /\ existing.status \notin {"approved", "queued-offline"}
  /\ Len(existing.attempts) <= MaxAttempts

MayHandOff(existing, admin) ==
  /\ ~(existing.status = "approved" /\ existing.wo # NoOrder) \* 200, reused
  /\ existing.status # "queued-offline"                       \* 202, reused
  /\ Len(existing.attempts) < MaxAttempts                     \* else 409
  /\ existing.attempts = <<>> \/ existing.status = "approved" \/ admin \* else 403

Begin(r, id, existing, admin) ==
  IF MayHandOff(existing, admin)
  THEN req' = [req EXCEPT ![r].pc = "guarded", ![r].id = id,
                 ![r].left = Tries(MaxAttempts - Len(existing.attempts))]
  ELSE Answer(r)

Arrive(r) ==
  /\ At(r, "idle")
  /\ Cardinality({o \in Request : req[o].pc \in Running}) < ApiThreads
  /\ \E id \in Command, admin \in BOOLEAN :
       Begin(r, id, row[RecommendationOf(id)], admin)
  /\ UNCHANGED sharedVars

\* A failed read of pm_proposals is taken for a proposal nobody approved.
ArriveUnread(r) ==
  /\ At(r, "idle")
  /\ Cardinality({o \in Request : req[o].pc \in Running}) < ApiThreads
  /\ ReadsFail /\ SomethingFails
  /\ \E id \in Command, admin \in BOOLEAN : Begin(r, id, NoRow, admin)
  /\ UNCHANGED <<queueVars, storeVars>>

-----------------------------------------------------------------------------
(* The handoff.                                                            *)

Upsert_ForgetsHistory(r) == \* mutant: the row's attempts are not carried on
  /\ At(r, "guarded")
  /\ UpsertProposal(ProposalOf(r))
  /\ req' = [req EXCEPT ![r].pc = "submit"]
  /\ UNCHANGED <<queueVars, workorders, orders, healthy, faults>>

Upsert(r) ==
  /\ At(r, "guarded")
  /\ UpsertProposal(ProposalOf(r))
  /\ req' = [req EXCEPT ![r].pc = "submit", ![r].base = row[ProposalOf(r)].attempts]
  /\ UNCHANGED <<queueVars, workorders, orders, healthy, faults>>

SubmitOk(r) ==
  /\ At(r, "submit")
  /\ CreateOrder(ProposalOf(r))
  /\ req' = [req EXCEPT ![r].pc = "persist", ![r].wo = NextOrder(ProposalOf(r)),
               ![r].mine = Append(@, [by |-> r, state |-> "success"])]
  /\ UNCHANGED <<queueVars, row, workorders, healthy, faults>>

AfterFailure(r, how) ==
  IF how = "garbled" THEN "mark pending"
  ELSE IF req[r].left > 1 THEN "submit"
  ELSE IF EdgeMode THEN "lookup" ELSE "mark pending"

SubmitFails(r) ==
  /\ At(r, "submit")
  /\ \E how \in CmmsFailures :
       /\ CallFails(ProposalOf(r), how)
       /\ req' = [req EXCEPT ![r].pc = AfterFailure(r, how), ![r].left = @ - 1,
                    ![r].mine = Append(@, [by |-> r, state |-> "failure"])]
  /\ UNCHANGED <<queueVars, row, workorders, healthy, faults>>

Persist_Skipped(r) == \* mutant: the order is not written to workorders
  /\ At(r, "persist")
  /\ GoTo(r, "approve")
  /\ UNCHANGED sharedVars

Persist(r) ==
  /\ At(r, "persist")
  /\ PersistWorkOrder(req[r].wo)
  /\ GoTo(r, "approve")
  /\ UNCHANGED <<queueVars, row, orders, healthy, faults>>

Record(r, status, wo, attempts) ==
  UpdateProposal(req[r].id,
    [status |-> status, wo |-> wo, attempts |-> req[r].base \o attempts])

Approve(r) ==
  /\ At(r, "approve")
  /\ Record(r, "approved", req[r].wo, req[r].mine)
  /\ Answer(r)
  /\ UNCHANGED <<queueVars, workorders, orders, healthy, faults>>

\* Outside edge mode, or when the order may exist but cannot be read, or
\* when queueing did not work: the proposal goes back to pending.
MarkPending(r) ==
  /\ At(r, "mark pending")
  /\ Record(r, "pending", NoOrder, req[r].mine)
  /\ Answer(r)
  /\ UNCHANGED <<queueVars, workorders, orders, healthy, faults>>

-----------------------------------------------------------------------------
(* _queue_offline_handoff: the command first, then the proposal's row.     *)

LookUp(r) ==
  /\ At(r, "lookup")
  /\ req' = [req EXCEPT ![r].pc = "enqueue", ![r].found = IsQueued(req[r].id)]
  /\ UNCHANGED sharedVars

EnqueueCommand(r) ==
  /\ At(r, "enqueue")
  /\ Enqueue(req[r].id, req[r].found)
  /\ GoTo(r, "mark queued")
  /\ UNCHANGED <<storeVars, faults>>

EnqueueCommandClashes(r) ==
  /\ At(r, "enqueue")
  /\ EnqueueClashes(req[r].id, req[r].found)
  /\ GoTo(r, "mark pending")
  /\ UNCHANGED sharedVars

\* The last attempt of this request is rewritten as a queued one.
AsQueued(attempts) ==
  [attempts EXCEPT ![Len(attempts)].state = "queued-offline"]

MarkQueued(r) ==
  /\ At(r, "mark queued")
  /\ Record(r, "queued-offline", NoOrder, AsQueued(req[r].mine))
  /\ Answer(r)
  /\ UNCHANGED <<queueVars, workorders, orders, healthy, faults>>

\* The queue or the row cannot be written; the command may be queued.
QueueingFails(r) ==
  /\ req[r].pc \in {"lookup", "enqueue", "mark queued"}
  /\ SomethingFails
  /\ GoTo(r, "mark pending")
  /\ UNCHANGED <<queueVars, storeVars>>

-----------------------------------------------------------------------------
(* A database error the handler does not catch, or the death of the API.   *)

Abort(r) ==
  /\ req[r].pc \in Running
  /\ SomethingFails
  /\ Answer(r)
  /\ UNCHANGED <<queueVars, storeVars>>

HandleRequest(r) ==
  \/ Arrive(r) \/ ArriveUnread(r) \/ Upsert(r)
  \/ SubmitOk(r) \/ SubmitFails(r) \/ Persist(r) \/ Approve(r) \/ MarkPending(r)
  \/ LookUp(r) \/ EnqueueCommand(r) \/ EnqueueCommandClashes(r)
  \/ MarkQueued(r) \/ QueueingFails(r) \/ Abort(r)

\* POST /advisor/analyze persists a proposal before anybody approves it; on
\* a row that is there it changes nothing kept here.
Analyze(p) ==
  /\ row[p].status = "absent"
  /\ UpsertProposal(p)
  /\ UNCHANGED <<queueVars, workorders, orders, healthy, req, faults>>

Recover ==
  /\ CmmsRecovers
  /\ UNCHANGED <<queueVars, row, workorders, orders, req, faults>>

ApprovalNext ==
  \/ \E r \in Request : HandleRequest(r)
  \/ \E p \in Proposal : Analyze(p)
  \/ Recover

ApprovalSpec == ApprovalInit /\ [][ApprovalNext]_approvalVars

-----------------------------------------------------------------------------
(* Properties of every interleaving.                                       *)

ApprovalTypeOK ==
  /\ QueueTypeOK
  /\ row \in [Proposal -> Row]
  /\ workorders \subseteq Order
  /\ orders \in [Proposal -> Nat]
  /\ healthy \in BOOLEAN
  /\ faults \in 0..MaxFaults
  /\ req \in [Request -> Thread]

Exists(o) == o \in Order /\ o[2] <= orders[o[1]]

\* A proposal is never shown as approved without an order the CMMS made for
\* it and the outcome reports can find: process_recommendation stores the
\* order before _update_proposal_status writes the status.
ApprovedHasOrder ==
  \A p \in Proposal : row[p].status = "approved" =>
    /\ row[p].wo \in workorders
    /\ Exists(row[p].wo) /\ row[p].wo[1] = p

(***************************************************************************)
(* Properties of requests handled one after the other outside edge mode;   *)
(* what is left of them when requests overlap is for the runs to show.     *)
(***************************************************************************)

\* An attempt once recorded stays in the proposal's approval_attempts.
HistoryKept ==
  [][\A p \in Proposal : IsPrefix(row[p].attempts, row'[p].attempts)]_approvalVars

\* An approved proposal keeps its status and its order, and approving it
\* again calls the CMMS no more.
ApprovalFinal ==
  [][\A p \in Proposal : row[p].status = "approved" =>
       /\ row'[p].status = "approved" /\ row'[p].wo = row[p].wo
       /\ orders'[p] = orders[p]]_approvalVars

\* However often a proposal is approved, the CMMS makes one order for it.
OneOrder == \A p \in Proposal : orders[p] <= 1
=============================================================================

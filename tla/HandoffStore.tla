---------------------------- MODULE HandoffStore -----------------------------
(***************************************************************************)
(* What the approval API and the work-order bridge share besides the edge  *)
(* queue: tables pm_proposals and workorders in Postgres, and the CMMS     *)
(* behind a CMMSAdapter.  Every operator is one SQL transaction or one     *)
(* HTTP call.                                                              *)
(*                                                                         *)
(* A work order is <<p, n>>: the n-th the CMMS made for recommendation p,  *)
(* since Maximo makes a new one for every POST.  (The mock backend derives *)
(* the id from the recommendation, so it never makes a second.)  Both      *)
(* adapters fill in an id whenever the recommendation has one, so the      *)
(* code's branch for a call that succeeds without one has no counterpart.  *)
(***************************************************************************)
EXTENDS Integers, Sequences, FiniteSets

CONSTANTS Proposal,     \* recommendations an RCA run has proposed
          NoOrder,      \* work_order_id is NULL
          CmmsFailures  \* the ways a call may fail before the CMMS recovers

Order == Proposal \X (Nat \ {0})

ASSUME HandoffAssumption ==
  /\ CmmsFailures \subseteq {"refused", "lost", "garbled"}
  /\ NoOrder \notin Order

VARIABLES row,        \* pm_proposals: status, work order, approval_attempts
          workorders, \* wo_ids in table workorders
          orders,     \* how many orders the CMMS holds for a recommendation
          healthy     \* no call to the CMMS fails from now on

storeVars == <<row, workorders, orders, healthy>>

Statuses == {"absent", "pending", "queued-offline", "approved"}

NoRow == [status |-> "absent", wo |-> NoOrder, attempts |-> <<>>]

StoreInit ==
  /\ row = [p \in Proposal |-> NoRow]
  /\ workorders = {}
  /\ orders = [p \in Proposal |-> 0]
  /\ healthy = FALSE

-----------------------------------------------------------------------------
(* The CMMS.                                                               *)

NextOrder(p) == <<p, orders[p] + 1>>

CreateOrder(p) == orders' = [orders EXCEPT ![p] = @ + 1]

(***************************************************************************)
(* A call fails: refused before the CMMS acted; lost, the order is made    *)
(* but the answer times out; garbled, the order is made and the answer is  *)
(* not what the adapter can read (CMMSPayloadError, which is not retried). *)
(***************************************************************************)
CallFails(p, how) ==
  /\ ~healthy /\ how \in CmmsFailures
  /\ IF how = "refused" THEN UNCHANGED orders ELSE CreateOrder(p)

CmmsRecovers ==
  /\ ~healthy
  /\ healthy' = TRUE

-----------------------------------------------------------------------------
(* Postgres.                                                               *)

\* A proposal is addressed by its recommendation id, which is the key of
\* its row, or by the id of the run that produced it, which is not.
Id == Proposal \X {"recommendation", "run"}

RecommendationOf(id) == id[1]
IsRowKey(id) == id[2] = "recommendation"

\* _upsert_proposal leaves status, work order and attempts of a row alone.
UpsertProposal(p) ==
  row' = [row EXCEPT ![p].status = IF @ = "absent" THEN "pending" ELSE @]

\* UPDATE pm_proposals ... WHERE proposal_id = id.
UpdateProposal(id, r) ==
  LET p == RecommendationOf(id)
  IN row' = IF IsRowKey(id) /\ row[p].status # "absent"
            THEN [row EXCEPT ![p] = r] ELSE row

PersistWorkOrder(o) == workorders' = workorders \cup {o}
=============================================================================

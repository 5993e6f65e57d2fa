---------------------------- MODULE ProposalViews ----------------------------
(***************************************************************************)
(* What the API shows of a row of pm_proposals, computed in three places:  *)
(* the proposal endpoints (api/pm_advisor.py), the CMMS section of the     *)
(* outcomes report (api/outcomes.py) and the CMMS gauges                   *)
(* (api/metrics.py).                                                       *)
(*                                                                         *)
(* A row has a status, a work order or NoWorkOrder, the handoff_state of   *)
(* each entry of metadata.approval_attempts, oldest first, and that of     *)
(* metadata.approval, or NoState: every writer sets both, but rows of      *)
(* before approval_attempts existed have only the second.                  *)
(***************************************************************************)
EXTENDS Integers, FiniteSets, SequencesExt

CONSTANTS NoWorkOrder, NoState,
          AttemptCeiling \* pm_handoff_max_attempts_per_proposal, at least 1

-----------------------------------------------------------------------------
(* api/pm_advisor.py *)

\* _approval_attempts: newest first; metadata.approval stands in when the
\* list is missing or empty.
ApprovalAttempts(row) ==
  IF row.attempts # <<>> THEN Reverse(row.attempts)
  ELSE IF row.approval # NoState THEN <<row.approval>> ELSE <<>>

AttemptsRemaining(row) ==
  LET count == Len(ApprovalAttempts(row))
  IN  IF count < AttemptCeiling THEN AttemptCeiling - count ELSE 0

RetryAllowed(row) ==
  row.status \notin {"approved", "queued-offline"} /\ AttemptsRemaining(row) > 0

\* admin_retry_required of _proposal_with_retry_fields.
AdminRetryRequired(row) ==
  /\ ApprovalAttempts(row) # <<>>
  /\ row.status \notin {"approved", "queued-offline"}

SmallerNumber(a, b) == IF a < b THEN a ELSE b

\* Mutant: the next page starts one entry late.
HistoryPage_Gap(attempts, page, size) ==
  LET start == (page - 1) * (size + 1)
  IN  [attempts |-> SubSeq(attempts, start + 1, SmallerNumber(start + size, Len(attempts))),
       more |-> start + size < Len(attempts)]

\* _history_page, of the attempts newest first.
HistoryPage(attempts, page, size) ==
  LET start == (page - 1) * size
  IN  [attempts |-> SubSeq(attempts, start + 1, SmallerNumber(start + size, Len(attempts))),
       more |-> start + size < Len(attempts)]

-----------------------------------------------------------------------------
(* api/outcomes.py *)

\* _proposal_attempt_count.  No attempts is a row without the list: whoever
\* stores an approval also adds to the list, so none lies beside an empty one.
AttemptCount(row) ==
  IF row.attempts # <<>> THEN Len(row.attempts)
  ELSE IF row.approval # NoState THEN 1 ELSE 0

\* _proposal_handoff_state: a handoff that is queued counts as pending.
HandoffState(row) ==
  IF row.approval \in {"success", "pending", "failure"} THEN row.approval
  ELSE IF row.status = "approved" /\ row.wo # NoWorkOrder THEN "success"
  ELSE "pending"

Gauges == {"success", "pending", "failure", "admin_retry_required", "limit_reached"}

Raises_PastLimit(row, gauge) == \* mutant: the limit is off by one
  CASE gauge = "admin_retry_required" -> row.status # "approved" /\ AttemptCount(row) > 0
    [] gauge = "limit_reached" -> row.status # "approved" /\ AttemptCount(row) > AttemptCeiling
    [] OTHER -> HandoffState(row) = gauge

\* Which counters of a bucket a row raises (_update_cmms_bucket).
Raises(row, gauge) ==
  CASE gauge = "admin_retry_required" -> row.status # "approved" /\ AttemptCount(row) > 0
    [] gauge = "limit_reached" -> row.status # "approved" /\ AttemptCount(row) >= AttemptCeiling
    [] OTHER -> HandoffState(row) = gauge

\* A bucket over the rows rowOf[p], p \in ps.
CmmsBucket(rowOf, ps) ==
  [g \in Gauges |-> Cardinality({p \in ps : Raises(rowOf[p], g)})]

\* One bucket for each key the rows fall under.
CmmsBreakdown(rowOf, ps, keyOf) ==
  [k \in {keyOf[p] : p \in ps} |-> CmmsBucket(rowOf, {p \in ps : keyOf[p] = k})]

\* _update_backend_metrics: the totals and rates of a backend.
BackendMetrics(rowOf, ps) ==
  LET Count(state) == Cardinality({p \in ps : HandoffState(rowOf[p]) = state})
  IN  [total |-> Cardinality(ps), success |-> Count("success"),
       terminal |-> Count("success") + Count("failure")]

\* cmms_handoff_backlog_total of api/metrics.py.
Backlog(bucket) == bucket["pending"] + bucket["failure"]
=============================================================================

-------------------------- MODULE WorkOrderLifecycle --------------------------
(***************************************************************************)
(* One row of table workorders: persist_work_order of                      *)
(* services/wo_bridge.py, run by the approval API and by the bridge for    *)
(* the same wo_id.  That is the usual case: the mock backend derives the   *)
(* id from the recommendation, and Maximo's adapter falls back to the      *)
(* recommendation's id when the answer names no order.                     *)
(*                                                                         *)
(* A handoff is three steps: the CMMS answers, the row is read, the row is *)
(* written from what was read and what was answered.  The two statements   *)
(* are one transaction but READ COMMITTED, and nothing locks the row, so   *)
(* writers interleave between them.                                        *)
(*                                                                         *)
(* A timestamp is the number of the call whose answer brought it, and 0    *)
(* when there is none (NULL).  A status stands for its class: DRAFT for    *)
(* REGRESSIVE_WORK_ORDER_STATUSES, COMP for TERMINAL_WORK_ORDER_STATUSES,  *)
(* WAPPR for all others.                                                   *)
(***************************************************************************)
EXTENDS Integers

CONSTANTS Writer,  \* API threads and the bridge
          Answers, \* what a call may return: a status and which dates it has
          MaxCalls \* bound: calls answered

Status == {"DRAFT", "WAPPR", "COMP"}

Answer == [status : Status, created : BOOLEAN, dated : BOOLEAN, finished : BOOLEAN]

ASSUME LifecycleAssumption ==
  /\ Answers \subseteq Answer
  /\ MaxCalls \in Nat

VARIABLES row,    \* the order's row
          calls,  \* calls answered so far
          writer  \* what each writer holds of its handoff

vars == <<row, calls, writer>>

Phases == {"created", "active", "handoff-complete", "completed"}

Absent == [status |-> "absent", created |-> 0, handoff |-> 0, completed |-> 0,
           before |-> "absent", phase |-> "none"]

RowSet == [status : Status \cup {"absent"}, created : Nat, handoff : Nat, completed : Nat,
           before : Status \cup {"absent"}, phase : Phases \cup {"none"}]

Result == [status : Status, created : Nat, handoff : Nat, completed : Nat]

NoResult == [status |-> "DRAFT", created |-> 0, handoff |-> 0, completed |-> 0]

WriterSet == [pc : {"idle", "answered", "read"}, new : Result, seen : RowSet]

Resting == [pc |-> "idle", new |-> NoResult, seen |-> Absent]

Init ==
  /\ row = Absent
  /\ calls = 0
  /\ writer = [w \in Writer |-> Resting]

-----------------------------------------------------------------------------
(* The answer, normalised: normalize_work_order_result.                    *)

Terminal(status) == status = "COMP"
Regressive(status) == status = "DRAFT"

When(given, t) == IF given THEN t ELSE 0

\* created_at stands in for a missing statusdate, and statusdate for the
\* completion date of an order whose status is terminal.
Normalized(a, t) ==
  [status |-> a.status,
   created |-> When(a.created, t),
   handoff |-> When(a.dated \/ a.created, t),
   completed |-> When(a.finished \/ (Terminal(a.status) /\ a.dated), t)]

-----------------------------------------------------------------------------
(* The merge.                                                              *)

First(old, new) == IF old # 0 THEN old ELSE new

\* The status read stays: a completed order is not reopened by an answer
\* that says nothing of completion, nor an order handed over taken back.
KeepsStatus_DatedOnly(seen, new) == \* mutant: a terminal status without a date is not protected
  \/ seen.completed # 0 /\ ~Terminal(new.status) /\ new.completed = 0
  \/ seen.handoff # 0 /\ new.handoff = 0 /\ Regressive(new.status)

KeepsStatus(seen, new) ==
  \/ seen.completed # 0 /\ ~Terminal(new.status) /\ new.completed = 0
  \/ Terminal(seen.status) /\ ~Terminal(new.status) /\ new.completed = 0
  \/ seen.handoff # 0 /\ new.handoff = 0 /\ Regressive(new.status)

MergedStatus(seen, new) ==
  IF KeepsStatus(seen, new) THEN seen.status ELSE new.status

Phase(status, handoff, completed) ==
  CASE completed # 0 \/ Terminal(status) -> "completed"
    [] ~(completed # 0 \/ Terminal(status)) /\ handoff # 0 -> "handoff-complete"
    [] OTHER -> IF Regressive(status) THEN "created" ELSE "active"

PhaseOf(r) == Phase(r.status, r.handoff, r.completed)

Merged(seen, new) ==
  [status |-> MergedStatus(seen, new),
   created |-> First(seen.created, new.created),
   handoff |-> First(seen.handoff, new.handoff),
   completed |-> First(seen.completed, new.completed)]

Upserted_LastDate(r, seen, m) == \* mutant: COALESCE(EXCLUDED.x, workorders.x)
  [status |-> m.status,
   created |-> First(m.created, r.created),
   handoff |-> First(m.handoff, r.handoff),
   completed |-> First(m.completed, r.completed),
   before |-> seen.status, phase |-> PhaseOf(m)]

Upserted_NoCompletion(r, seen, m) == \* mutant: completed_at is not among the columns set
  [status |-> m.status,
   created |-> First(r.created, m.created),
   handoff |-> First(r.handoff, m.handoff),
   completed |-> r.completed,
   before |-> seen.status, phase |-> PhaseOf(m)]

\* INSERT ... ON CONFLICT (wo_id) DO UPDATE: dates and phase differ, for
\* the dates are COALESCEd with the row as it is now, and the phase, in
\* the metadata, was computed from the row as it was read.
Upserted(r, seen, m) ==
  [status |-> m.status,
   created |-> First(r.created, m.created),
   handoff |-> First(r.handoff, m.handoff),
   completed |-> First(r.completed, m.completed),
   before |-> seen.status,
   phase |-> PhaseOf(m)]

-----------------------------------------------------------------------------

Answered(w) ==
  /\ writer[w].pc = "idle" /\ calls < MaxCalls
  /\ calls' = calls + 1
  /\ \E a \in Answers :
       writer' = [writer EXCEPT ![w].pc = "answered", ![w].new = Normalized(a, calls')]
  /\ UNCHANGED row

Read(w) ==
  /\ writer[w].pc = "answered"
  /\ writer' = [writer EXCEPT ![w].pc = "read", ![w].seen = row]
  /\ UNCHANGED <<row, calls>>

Write(w) ==
  /\ writer[w].pc = "read"
  /\ row' = Upserted(row, writer[w].seen, Merged(writer[w].seen, writer[w].new))
  /\ writer' = [writer EXCEPT ![w] = Resting]
  /\ UNCHANGED calls

\* The database fails, or the process dies: the transaction leaves nothing.
Abandon(w) ==
  /\ writer[w].pc # "idle"
  /\ writer' = [writer EXCEPT ![w] = Resting]
  /\ UNCHANGED <<row, calls>>

Next == \E w \in Writer : Answered(w) \/ Read(w) \/ Write(w) \/ Abandon(w)

Spec == Init /\ [][Next]_vars

-----------------------------------------------------------------------------

TypeOK ==
  /\ row \in RowSet
  /\ calls \in 0..MaxCalls
  /\ writer \in [Writer -> WriterSet]

Completed(r) == r.completed # 0 \/ Terminal(r.status)

\* A date once in the row stays, however the writers interleave: the lead
\* times and MTTR of the outcome reports do not move with each redelivery.
\* (persist_work_order's COALESCE of the row's date before its own)
FirstDateKept ==
  [][/\ row.created # 0 => row'.created = row.created
     /\ row.handoff # 0 => row'.handoff = row.handoff
     /\ row.completed # 0 => row'.completed = row.completed]_vars

\* An order with a creation date has a handoff date, or no report could
\* measure its lead time.  (normalize_work_order_result's fallback, kept
\* by the merge of two writers' dates)
HandoffDated == row.created # 0 => row.handoff # 0

\* The recorded phase never claims more than the columns show, whatever
\* the row that it was computed from: "completed" has a terminal status
\* or a completion date, "handoff-complete" a handoff date.
\* (persist_work_order)
PhaseClaimsNoMore ==
  /\ row.phase = "completed" => Completed(row)
  /\ row.phase = "handoff-complete" => row.handoff # 0

\* A write whose read is still current leaves the phase the columns imply.
\* (_lifecycle_phase over the merged columns)
FreshPhase ==
  [][\A w \in Writer : Write(w) /\ writer[w].seen = row => row'.phase = PhaseOf(row')]_vars

\* A write whose read is still current never reopens a completed order, and
\* changes its status only on an answer that speaks of completion again; one
\* that is handed over is not made less.  (_merged_status)
FreshNeverReopens ==
  [][\A w \in Writer : Write(w) /\ writer[w].seen = row =>
       /\ Completed(row) =>
            /\ row'.phase = "completed"
            /\ row'.status = row.status \/ Terminal(row'.status) \/ writer[w].new.completed # 0
       /\ row.handoff # 0 => row'.phase \in {"handoff-complete", "completed"}]_vars
=============================================================================

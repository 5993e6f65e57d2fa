---------------------------- MODULE HandoffReads -----------------------------
(***************************************************************************)
(* Who reads what the handoff writes: GET /proposals and GET /proposals/   *)
(* {id}/history of api/pm_advisor.py, and the CMMS gauges of /metrics      *)
(* (api/metrics.py).  A request makes several reads, each a transaction of *)
(* its own, while the approval API goes on writing.                        *)
(*                                                                         *)
(* When the database cannot be read, or holds no proposal, the list and    *)
(* the history fall back on the run summaries, in which every proposal is  *)
(* pending and was never attempted: degraded says so.                      *)
(***************************************************************************)
EXTENDS Handoff

CONSTANT MaxPage \* bound on the size of a page of the history

ASSUME ReadsAssumption == MaxPage \in Nat \ {0}

VARIABLE view \* one reader: what its requests have read so far

viewVars == <<vars, view>>

Views == INSTANCE ProposalViews WITH
  NoWorkOrder <- NoOrder, NoState <- "none", AttemptCeiling <- MaxAttempts

NewView == [pc |-> "idle", what |-> "none", rows |-> [p \in Proposal |-> NoRow],
            withOrder |-> {}, of |-> CHOOSE p \in Proposal : TRUE, page |-> 0,
            size |-> 0, first |-> 0, shown |-> {}, degraded |-> FALSE]

ReadsInit == view = NewView

\* A row of pm_proposals as the views see it.
Seen(r) ==
  LET states == [i \in DOMAIN r.attempts |-> r.attempts[i].state]
  IN  [status |-> r.status, wo |-> r.wo, attempts |-> states,
       approval |-> IF states = <<>> THEN "none" ELSE states[Len(states)]]

Persisted == {p \in Proposal : row[p].status # "absent"}

Degrade == view' = [view EXCEPT !.pc = "done", !.degraded = TRUE]

-----------------------------------------------------------------------------
(* list_proposals: the rows, then the work orders they name.               *)

ListRows ==
  /\ view.pc = "idle"
  /\ view' = [view EXCEPT !.what = "list", !.rows = row,
                          !.pc = IF Persisted = {} THEN "done" ELSE "snapshots",
                          !.degraded = Persisted = {}]
  /\ UNCHANGED vars

LoadWorkOrderSnapshots ==
  /\ view.pc = "snapshots"
  /\ view' = [view EXCEPT !.pc = "done",
                !.withOrder = {p \in Proposal : view.rows[p].wo \in workorders}]
  /\ UNCHANGED vars

-----------------------------------------------------------------------------
(* proposal_history, asked page after page while there is more.  Attempts  *)
(* are told apart by the order in which they were made.                    *)

ShowPage(p, page, size) ==
  LET attempts == Reverse([i \in DOMAIN row[p].attempts |-> i])
      answer == Views!HistoryPage(attempts, page, size)
  IN  view' = [view EXCEPT !.what = "history", !.of = p, !.page = page, !.size = size,
                 !.first = IF page = 1 THEN Len(attempts) ELSE @,
                 !.shown = @ \cup Range(answer.attempts),
                 !.pc = IF answer.more THEN "pages" ELSE "done"]

AskHistory ==
  /\ view.pc = "idle"
  /\ \E p \in Proposal, size \in 1..MaxPage : ShowPage(p, 1, size)
  /\ UNCHANGED vars

NextPage ==
  /\ view.pc = "pages"
  /\ ShowPage(view.of, view.page + 1, view.size)
  /\ UNCHANGED vars

\* Any of the reads fails.
ReadFails ==
  /\ view.pc \in {"idle", "snapshots", "pages"}
  /\ SomethingFails
  /\ Degrade
  /\ UNCHANGED <<queueVars, storeVars, req, bridgeVars>>

ReadsNext ==
  \/ Next /\ UNCHANGED view
  \/ ListRows \/ LoadWorkOrderSnapshots \/ AskHistory \/ NextPage \/ ReadFails

-----------------------------------------------------------------------------
(* CMMSSnapshotCollector: the gauges, from one SELECT; 0 for each when it  *)
(* fails.                                                                  *)

SeenRows == [p \in Persisted |-> Seen(row[p])]

CollectGauges == Views!CmmsBucket(SeenRows, Persisted)

-----------------------------------------------------------------------------

\* Paging through a history misses no attempt that was there when the first
\* page was shown: attempts made meanwhile push the older ones back, to a
\* later page, and never forward.  (_history_page)
HistoryPagedWhole ==
  view.what = "history" /\ view.pc = "done" /\ ~view.degraded =>
    1..view.first \subseteq view.shown

\* What the list says of a retry is what approve_proposal does: a proposal
\* shown with retry_allowed is accepted from an administrator, one shown with
\* admin_retry_required from nobody else, and one that is neither approved
\* nor queued and shown without is refused to everyone.
\* (_retry_fields, _proposal_with_retry_fields)
RetryShownIsRetryGiven ==
  \A p \in Persisted :
    LET r == Seen(row[p])
    IN  /\ Views!RetryAllowed(r) => MayHandOff(row[p], TRUE)
        /\ Views!AdminRetryRequired(r) => ~MayHandOff(row[p], FALSE)
        /\ ~Views!RetryAllowed(r) /\ r.status # "approved" => ~MayHandOff(row[p], TRUE)

\* The gauges tell the truth of the handoff: as many successes as proposals
\* whose order is stored, a backlog of all the others, and the retries for an
\* administrator those the list shows plus the ones queued offline.
GaugesAgree ==
  LET gauge == CollectGauges
      Those(Is(_)) == Cardinality({p \in Persisted : Is(Seen(row[p]))})
  IN  /\ gauge["success"] = Cardinality({p \in Persisted : row[p].wo \in workorders})
      /\ gauge["success"] + Views!Backlog(gauge) = Cardinality(Persisted)
      /\ gauge["admin_retry_required"] =
           Those(LAMBDA r : Views!AdminRetryRequired(r))
             + Those(LAMBDA r : r.status = "queued-offline" /\ r.attempts # <<>>)
      /\ gauge["limit_reached"] =
           Those(LAMBDA r : r.status # "approved" /\ Views!AttemptsRemaining(r) = 0)
=============================================================================

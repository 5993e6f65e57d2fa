# Maintenance-Intelligence: a TLA+ verification project

Models of `src/maintenance_intelligence`, checked with TLC, their main safety
properties proved with TLAPS.  Paths below are relative to that
package; line numbers are those of `PROJECT.json`'s `map`, which says for every
definition which lines it translates.

## 1. The system

Events from plant equipment travel over Kafka; small services consume them,
write Postgres, ask a language model for a root cause, and turn its
recommendations into work orders in an external CMMS (Maximo, SAP PM).  A
FastAPI application shows everything and lets a person approve proposals.  A
site with an unreliable link runs in *edge mode* and keeps two SQLite stores of
its own.

| Part | State it keeps | Operations | Speaks to |
|---|---|---|---|
| Edge event buffer `runner/edge_agent.py` | SQLite `buffered_events`, `runtime_state` counters and connectivity | buffer (prune, insert), replay a batch, mark connectivity | called by ingestion |
| Ingestion `services/ingestion.py` | Kafka offset, one Postgres connection, next probe time, stop flag | consume an event, probe, replay backlog, store or buffer | Kafka, Postgres `events`, the buffer |
| Edge command queue `runner/edge_command_buffer.py` | SQLite `queued_commands` (one row per proposal id), counters | enqueue, list oldest, replay succeeded / failed | written by the approval API, drained by the bridge |
| PM approval API `api/pm_advisor.py` | `pm_proposals` (status, order, approval attempts) | analyze, approve, list, history | run summaries on disk, Postgres, CMMS, command queue |
| CMMS adapters `cmms/*.py` | none here; the orders are the CMMS's | create an order, retry transport errors | HTTP |
| Work-order bridge `services/wo_bridge.py` | Kafka offset, `workorders`, `pm_proposals` | hand a recommendation over, replay queued commands, merge order status | Kafka, CMMS, Postgres, command queue |
| Work-order rows `cmms/adapter.py`, `services/wo_bridge.py` | `workorders` | normalise a CMMS answer, read the row, merge, upsert | called by the API and the bridge |
| RCA agent `services/rca_agent.py`, `genai/gateway.py` | Kafka offset, run summaries on disk, `failure_events` | ask the model, send a recommendation, store its repair plan, a failure event and a run summary | Kafka, model gateway, Postgres, disk |
| CMMS ingestion `ingestion/*` | `equipment_units`, `failure_events`, `workorders` | sync: fetch three lists from a CMMS, store all rows in one transaction | CMMS, Postgres; started by `POST /api/v1/connectors/sync` |
| Repair plans `api/repair_plan.py`, `services/repair_plan_service.py` | `repair_plan`, `repair_part` | create, list, delete, add a part | Postgres; called by people and the RCA agent |
| Identity `api/middleware/identity.py` | none | resolve the caller from a token or headers; match a row's org and site | every endpoint |
| Console reads `api/pm_advisor.py`, `api/portal.py`, `api/metrics.py` | none | proposals, history, run summaries, edge status, gauges | Postgres, run summaries, the two SQLite files |
| Outcomes report `api/outcomes.py`, feedback `api/feedback.py` | `rca_feedback` | seventeen queries and the early warnings; store an answer | Postgres |
| PdM scorer `services/pdm_scorer.py` | none | score an asset from its events and rollups | called by the outcomes report |
| Reliability `core/reliability/*`, `api/reliability.py` | none | MTBF, MTTR, availability, failure rate | Postgres (reads) |
| Failure events, hierarchy `api/failure_events.py`, `api/hierarchy.py` | `failure_events`, `equipment_units` | create, list, upsert | Postgres |
| RAG `rag/`, context `context/assembler.py`, `ai/rag/`, `api/rag_context.py` | `doc_chunks` | cut, embed and store documents; assemble an event's or a unit's context | Postgres, an embedding API; called by the RCA agent |
| Release scripts `release_*.py` | none here; pull requests, labels and issues are GitHub's | merge pull requests, seed a milestone, label issues | the `gh` command |
| Signals processor `services/signals.py` | Kafka offset, windows, alerts | (cannot run as written, see 5) | Kafka, Postgres |
| Reports, health, shell, migrations, web, deployment | none of interest | | |

### Where it is hard

* **Edge ingestion.**  The store can disappear between any two statements; rows
  of a replay batch are inserted centrally one at a time but deleted locally in
  one commit; Kafka redelivers after a crash; a full buffer drops old rows; the
  service only acts when a message arrives.
* **Handing a proposal over.**  Approve requests run in a thread pool.  Each
  reads the row, talks to the CMMS for seconds, and writes back what it had
  read; no row is locked.  The bridge, another process, reads and writes the
  same rows in two statements.  In edge mode the command goes to SQLite and the
  mark to Postgres, so no transaction covers both.  A CMMS call that timed out
  may have made an order.
* **Two writers of `workorders`.**  The API and the bridge both read a row,
  merge its status in the process and write it.  (The ingestion pipeline writes
  the same table under prefixed ids, `MX-WO-...`, and so never the same row.)
* **The RCA agent's five stores.**  A recommendation is in Kafka before its
  repair plan, failure event and run summary exist, and no transaction spans
  them; every delivery makes a fresh recommendation id; the plan it is storing
  can be deleted by a person between two of its parts.
* **CMMS ingestion's one transaction.**  Errors of single rows are swallowed,
  but Postgres aborts the whole transaction at the first; two syncs of one source
  may overlap, wait for each other's rows and store what the other one has
  made old.
* **Reading what others write.**  Nothing that reads takes a snapshot: a list of
  proposals is two queries, a page of history one of several, an outcomes report
  seventeen queries of one transaction which each see newer rows, an edge status
  a row of SELECTs on two files without a transaction.  Run summaries are read
  while they are written.  A query that fails aborts its transaction, and with
  it every later query that does not roll back first.
* **Commands without an answer.**  The release scripts retry a `gh` command that
  reported a failure, though GitHub may have carried it out.
* **Boundaries.**  Pages and their offsets, the overlap of chunks, downtimes that
  overlap or are negative, calendar days against a window of hours.

What each part must guarantee, as far as the properties go: the buffer and the
queue account for every row with their counters; an event handled is somewhere;
a replayed backlog keeps its order and drains; an approved proposal has an order
that exists and is stored; a queued command is taken off only once handed over;
an approval is final, its history only grows and stays within the limit; an
order's dates stay and its recorded phase claims no more than its columns; a
committed alarm was analysed, a plan the console names is whole unless deleted, and an event
analysed twice is one failure in the reliability figures; what an endpoint shows
is what its writers made so, whole, counted once, and despite a failed query; a
document is stored whole or not at all; a release script that returns has done
what it reports.
`PROJECT.json` lists the hazards at their lines, with the property that covers
each, or why none does yet.

## 2. The modules

```
EdgeEventBuffer  <- EdgeIngestion <- MCEdgeIngestion     StoreAndForward (abstract)
                         ^-- EdgeIngestion_proofs             ^-- INSTANCE in EdgeIngestion
EdgeCommandBuffer, HandoffStore <- PmApproval <- WoBridge <- Handoff <- MCHandoff
                                                                ^-- Handoff_proofs
WorkOrderLifecycle <- MCWorkOrderLifecycle, WorkOrderLifecycle_proofs
RepairPlans <- RcaAgent <- MCRcaAgent, RcaAgent_proofs
CmmsIngestion <- MCCmmsIngestion, CmmsIngestion_proofs
ReleaseTools <- MCReleaseTools, ReleaseTools_proofs

Handoff <- HandoffReads  -. (INSTANCE ProposalViews)
Identity <- PortalRuns
PdmScorer, Identity, ProposalViews <- Outcomes
EdgeStatus                -. (INSTANCE EdgeEventBuffer, EdgeCommandBuffer)
Reliability, Identity <- Registry
Documents <- EventContext <- Documents_proofs
HandoffReads, PortalRuns, Outcomes, EdgeStatus, Registry, EventContext
                                        <- Console <- MCConsole, Console_proofs
```

### EdgeEventBuffer: `EdgeEventBuffer`

`buffer` is the committed rows in id order, a row being its event.  Each
operator is one method, that is one SQLite transaction.  `replay()` keeps its
transaction open while it calls the central store, so it is three operators:
`SelectBatch`, `RowDeleted` (seen by nobody else yet: only `batch.done` moves)
and `CommitDeletions`; `Rollback` is a crash in between.  `evictions`,
`evicted` are history variables for the rows `_prune_if_needed` deletes.

### EdgeIngestion: `ingestion()`

One Kafka partition, `Topic`, of which `produced` messages exist; `position` is
what the client handed over, `committed` the offset a restart resumes from.
Auto-commit happens inside poll and in `cons.close()`, hence `AutoCommit` in
`pc = "poll"` and in `ExitAfter`.  `pc` names the points of one iteration
between which another process or the network can act: `received` (probe),
`route` (replay or store or buffer), `replay` (a batch open), `store` (the
INSERT of the live event).  `conn` distinguishes a live connection, a broken
one nobody noticed, and `None`.  `StoreFails` has the case that matters: the
INSERT was committed and its answer was lost.  `StoreDirect` is the whole
non-edge branch.  The three exits (stop flag, local disk error, kill) commit
what the code commits.

### StoreAndForward (abstract)

The promise for each event: `unseen`, `held`, `delivered`, `lost`.  Delivery
is for ever; an event held is lost only to make room; the only other way of
being lost is never to have been held.  `EdgeIngestion` implements it under
`fate <- [e \in Event |-> Fate(e)]`.

### EdgeCommandBuffer, HandoffStore

The queue and its counters; the two Postgres tables and the CMMS.
`enqueue_command` is split at its one gap: the look-up runs in autocommit mode
before the write transaction.  An order is `<<p, n>>`, the n-th the CMMS made
for recommendation `p`.  A call fails in three ways: *refused*; *lost* (order
made, answer timed out, retried); *garbled* (order made, answer unreadable:
`CMMSPayloadError`, not retried).  A proposal can be addressed by its
recommendation id, the row's key, or by the run id `_find_proposal_payload`
also accepts: `Id` has both, and an UPDATE under a run id touches no row.

### PmApproval: `approve_proposal`

Each request carries `base` (the attempts its thread read), `mine` (those it
made), `left` (tries), `wo` and `found`.  `Arrive` reads the row and runs the
four guards (reused 200, reused 202, limit 409, role 403); `ArriveUnread` is
the bare `except Exception: existing = None`.  Then `Upsert`, `SubmitOk` /
`SubmitFails` per CMMS call, `Persist`, `Approve`; on failure `MarkPending`, or
in edge mode `LookUp`, `EnqueueCommand`, `MarkQueued`, each of which can fail
(`QueueingFails`) and fall back to `MarkPending` with the command perhaps
queued.  `Abort` is an uncaught database error or the death of the process.

### WoBridge: `wo_bridge()`

Per message: replay up to a batch of queued commands (`List`, then for each
`ReplayOk`, `PersistReplayed`, `ReadReplayed`, `WriteReplayed`, `Dequeue`, or
`ReplayFails`, `ReadFailed`, `WriteFailed` and the batch ends), then hand the
live message over with retries.  Any other exception, and a live message that
fails for good, leave the loop through `finally`, whose `close()` commits the
message in hand.

### Handoff

The API and the bridge interleaved, sharing queue, tables and CMMS.

### WorkOrderLifecycle: `persist_work_order`

`HandoffStore` knows only *that* an order's row exists; this module looks at
one row's columns.  A writer is an API thread or the bridge.  `Answered` is the
CMMS answer put through `normalize_work_order_result`, `Read` the SELECT,
`Write` the merge in the process (`Merged`, `KeepsStatus`) and the `INSERT ... ON
CONFLICT` with its COALESCEs (`Upserted`); nothing locks the row in between.
Dates are the number of the call that brought them, statuses their class
(`TERMINAL_WORK_ORDER_STATUSES`, `REGRESSIVE_WORK_ORDER_STATUSES`, all others).

### RcaAgent, RepairPlans: `rca_agent()`, `process_event`

`RepairPlans` is the two tables of repair plans and the statements on them, each
a transaction; the foreign key makes `AddPart` fail without its plan, and
`DeletePlan` cascade.  `RcaAgent` is the consumer: besides a kill, a session lost
to a slow event (`Rebalanced`; the consumer leaves the poll interval at its
default) and a refused commit in `close()` (`CloseCommitFails`) make Kafka
deliver events again.  `pc` names the points of
`process_event` at which one store is written and the next is not: `infer`,
`send`, `plan`, `parts`, `failure event`, `summary`.  A recommendation is
`<<event, n>>`, the n-th made for the event, since its uuid is fresh on every
delivery.  Each store has its failing action and the code's reaction to it:
`SendRaises` and `SummaryFails` leave `process_event`, so the event is logged as an
error and passed over (`Skip`); `PlanFails` and `FailureEventFails` are logged
and go on; `SendLost` is `flush()` returning although the record was not
delivered; `InferRaises` is an answer of the model of an unexpected shape, which
in edge mode too raises outside the fallback's `try`.  `settings` holds whether a model is configured and whether edge mode
is on: it is chosen in `Init` and never changes, so one run covers the four
deployments.  `PeopleAtPlans` is the API's writers of the same tables.

### CmmsIngestion: `run_ingestion`

`source` is the CMMS, `stored` the committed rows of the three tables; a record
is its version.  A job is a request's thread in `run_ingestion`: it fetches a
kind (`Fetch`, `FetchEmpty` for an HTTP error the adapter swallows,
`FetchRaises`), then inserts its rows one by one.  A statement succeeds
(`Insert`), is refused and aborts the transaction (`Refused`), fails in an
aborted one (`FailsAtOnce`), or is never sent (`Unsendable`).  `holder` is the
row locks of the open transactions: an `INSERT` of a row another one wrote waits
(`Blocked`), and of syncs that wait for each other Postgres refuses one
(`Deadlocked`).  `Commit`, `CommitAborted` (COMMIT of an aborted transaction is
a rollback without an error) and `CommitRaises` are the end of `with conn`.
Equipment is always refused: no adapter sets `system_id`, a NOT NULL column.
`newer` is a history variable: what others have stored since a sync fetched.

### Console

The endpoints that read, in six groups.  Each group is a module with its readers
and the writers of what they read; no group writes what another one reads, so
`Console` chooses a `group` in its initial state and interleaves nothing across
groups.  One run then checks them all.

* **`HandoffReads`** (group `handoff`) puts one reader beside `Handoff`:
  `list_proposals` is two transactions (`ListRows`, `LoadWorkOrderSnapshots`),
  `proposal_history` a page each (`AskHistory`, `NextPage`), and `/metrics` one
  read (`CollectGauges`).  `Degrade` and `ReadFails` are the fallback on the run
  summaries.  What a row *shows* is `ProposalViews`: `api/pm_advisor.py`,
  `api/outcomes.py` and `api/metrics.py` each compute it for themselves, and the
  properties compare them with each other and with `approve_proposal`.
* **`PortalRuns`** (group `runs`): `files` holds what a run's summary looks like
  to somebody who opens it: absent, `partial` (opened for writing, which empties
  it, or half dumped) or `whole`; a run's id is fresh, so a file is written once.
  A reader lists the directory by mtime and opens one file after the other
  (`LoadListed`), skipping what does not parse.  The plan a summary names is looked
  up in Postgres in two transactions (`LookUpPlan`, `LookUpParts`), while people
  delete plans (`DeletePlan`); the page then shows all of it, or no parts, or its
  id alone, or a notice that a look-up failed (`LookUpFails`).
* **`Outcomes`** (group `outcomes`): `report.next` is the query that is next;
  `begun` is the transaction's `NOW()`, `tx` whether it is open, aborted or lost.
  A query's answer is computed from `tables` as they are then, and where a `LIMIT`
  cuts among equals it is any of the answers Postgres may give.  The early
  warnings are `PdmScorer`, the whole arithmetic of the score in integers.
* **`EdgeStatus`** (group `edge`): the buffer and the queue are instances of
  their own modules, whose operations are called at any time; a watcher takes the
  SELECTs of `snapshot()` one by one.  `column` is the schema upgrade that
  `_ensure_schema` makes in two statements.
* **`Registry`** (group `registry`): `failure_events` and `equipment_units`, and
  the three pages that list failures beside figures computed from them.
  `Reliability` is the calculator: a figure is the pair of numbers it divides.
* **`EventContext`** over **`Documents`** (group `documents`): `ingest_path` cuts
  each file (`CutChunk` is a turn of `chunk_text`'s loop), embeds and inserts in
  one transaction; `get_event_context` reads four sections on one connection,
  rolling back after each failure, while the retriever opens connections of its
  own.
* **`Identity`** is used by all of them: `Requests` are the callers, and
  `ResolveIdentity` tries token, trusted headers and development headers in turn.

### ReleaseTools: `release_merges.py`, `release_milestones.py`, `release_labels.py`

A script decides on a list of `gh` commands (`MergePullRequests`,
`SeedMilestone`, `SeedAndTagIssues`), then runs them in order, each up to three
times (`AtCommand`, `Succeeds`, `Refused`, `NotReached`, `AnswerLost`,
`TimesOut`).  `Accepts` and `Carry` are GitHub as the scripts use it; `Tolerated`
is which refusals a script lets pass by their wording.  Others open and close
pull requests meanwhile.

## 3. What TLC checks

Expected violations are claims of the repository that the code does not keep;
each is a finding in `PROJECT.json`.

Type invariants and four more invariants (`BufferBounded`, `ReplaysFront`,
`HandoffDated`, `OneFailurePerEvent`) and two action
properties (`FreshPhase`, `FirstReportStays`) are proved for every instance
(section 4), so the runs below do not repeat them.

| Run | Instance | Shows |
|---|---|---|
| `edge_ingestion` | edge mode or not, chosen in `Init`; 3 events in 6 messages (two raised twice, one foreign message), buffer of 3, batches of 2, one fault, one event the store always refuses | `Accounting`, `NothingForgotten`, `RaisedOrder`, refinement of `StoreAndForward`, `BacklogDrains` |
| `edge_shutdown` (violated) | a signal, messages waiting | `GracefulStopKeepsMessages`: the loop takes one more message, drops it and commits past it |
| `approval_sequential` | 3 requests one at a time, every failure, both kinds of id, limit 3, 2 tries each, one fault | `HistoryKept`, `ApprovalFinal` |
| `handoff_edge` | 2 overlapping requests and the bridge, batches of 1, two messages, the second late, one fault, failing reads | `ApprovedHasOrder`, `CommandAccounting`, `DequeuedHandedOff`, `QueueDrains` |
| `overlap_two_orders` (violated) | 2 overlapping requests, a CMMS that never fails | `OneOrder` |
| `queued_for_ever` (violated) | 1 request and the bridge | `QueuedIsQueued`: the late mark leaves a proposal "queued" with nothing queued, and every later approval is answered 202 |
| `work_order_lifecycle` | 2 writers, 3 calls, every answer there is | `PhaseClaimsNoMore`, `FirstDateKept`; of a write from a current read, `FreshNeverReopens` |
| `rca_agent` | an alarm and a foreign message, all four deployments, one plan of people's, one part a plan, 2 tries, one stop, one fault | `CommittedHandled`, `OrphansNeedFaults`, `RepeatsNeedFaults`, `NamedPlanIsWhole`, `LoopGoesOn` |
| `cmms_sync` | 2 syncs of one piece of equipment, a failure event and two work orders, each present or not; one change, one fault | `StoredWhole`, `CountedIsThere`, `OnlyOverlapRegresses`, `SyncsEnd` |
| `sync_lost` (violated) | 1 sync of a piece of equipment and a work order, nothing fails | `SuccessPersists`: the refused equipment row rolls the whole sync back, which reports success |
| `release` | 2 runs of any of the scripts, real or dry, 4 pull requests of which others open or close one, 2 faults, batches of 2 or all at once | `ReportTrue`, `CopiesExplained` |
| `console` | the six groups in turn, see below | 14 invariants and `WarningsNeverEase` |

The run `console`, by group:

| Group | Instance | Shows |
|---|---|---|
| handoff | a proposal, 3 requests one after the other, edge mode, a reader, pages of 1 or 2 | `HistoryPagedWhole`: new attempts push old ones to later pages, never past the reader; `RetryShownIsRetryGiven`: what the list says of a retry is what `approve_proposal` does; `GaugesAgree`: gauges, list and tables count alike |
| runs | 3 runs of two tenants, 3 writes, limits of 1 and 2, plans deleted and look-ups failing at any time | `LatestIsNewest`, `PlanMissingWasDeleted` |
| outcomes | 2 writes, failures or hours going by, 1-day window | `OneFailureOneSection`, `LaterNeverLess`, `WarningsNeverEase` |
| edge | buffer of 1, batches of 1, 2 commands, 4 calls, one watcher, an old or a new queue file | `DepthWithinTotals`, `ClashesOnce` |
| registry | failures with every kind of downtime, 3 changes, lists of 2 | `AvailabilityHonest`, `ShownIsCounted` |
| documents | 2 files, chunks of 1 or 2 with an overlap of 1, 2 commands, 2 failures | `WholeDocuments`, `ChunkingAdvances`, `DocumentsFound` |

### Bounds, and why they are enough

* `Topic` with three events: two rows of one batch, a row of the next, and a
  live event behind them are the roles an event can have; a repeated event
  gives redelivery with and without a crash.  `MaxEvents` equal to the number
  of events still evicts, since a repeated event is buffered again.
* `MaxFaults = 1`: a fault may strike between any two steps; outages of the
  store and of the CMMS are not counted and strike any number of times.  More
  faults multiply the states without reaching a new kind of interruption,
  because a restart starts from the committed state alone.
* Two requests and the bridge are three writers of one row; the code compares a
  request with the row only, so a third request repeats the second.
* Two messages for the bridge, each of which starts with the replay of one batch,
  and batches of one: so a queue of two commands is two batches, and one message
  does not drain it.  The first message comes at any time.  The second comes only
  when the CMMS is back and commands wait (`SecondIsLate` in `MCHandoff`, an action
  constraint): at other times it would find what the first may find, a loop in the
  same place with a queue the requests vary anyway.  The constraint takes nothing
  from `QueueDrains`: a behaviour it cuts short has an empty queue or a CMMS that is
  away, and owes no replay.
* `MaxAttempts`, `RetryAttempts` of 2 or 3 put the limit within one request's
  reach and within two requests' reach.
* `WorkOrderLifecycle`: two writers and three calls let a writer read, the other
  write, and the first write what it had read, after the row has been created.
  The answers are all combinations of status class and dates.
* `RcaAgent`: the alarm is delivered again after a kill, a lost session or a
  refused commit, so two deliveries of one event occur with one message; `made`, `summaries` and ids then differ.
  `MaxParts = 1` has the gap that matters, after the plan and before the part.
* `CmmsIngestion`: two work orders let two syncs take them in opposite orders and
  deadlock; one change of a record makes an older and a newer state of it, and a
  third sync would only repeat the second one's part.  The source starts with
  any of its records missing, so a sync without equipment, the only kind that is
  ever stored, is among the cases.
* `ReleaseTools`: two runs let a run find what an earlier one left half done;
  two faults are a failed try and a failed retry, the third of `MaxAttempts`
  being the last.  One change by others comes before, between or during the runs.
* `Console`: one reader each, since readers change nothing and so do not see one
  another.  Two reads and a writer in between is the shape of every hazard here;
  `MaxWrites`, `MaxChanges`, `MaxIncidents`, `MaxMishaps` of 2 or 3 allow one
  before the first read and one between each two.  Limits (`TtrLimit`, `TopLimit`,
  `ListLimit`, `SearchLimit`, `TokenBudget`) are 1 or 2 so that a LIMIT cuts.
  `ApiThreads = 1` and no message for the bridge: with overlapping requests, or a
  bridge that writes back a row it read, attempts are lost (see below), and a page
  of history cannot be asked to show them.  Rollups are there from the
  start: the service that would write them cannot run.
* Symmetry is used in `approval_sequential` and `console`, over requests, and in
  `work_order_lifecycle`, over writers; none checks liveness.

Every counter grows with the number of messages, requests and faults only, so
the state spaces are finite; the one constraint, `SecondIsLate`, only makes
`handoff_edge` smaller.

### Fairness

`EdgeIngestion!FairSpec`, `Handoff!FairSpec` and `RcaAgent!FairSpec` ask weak
fairness of the loop's own steps: a `for message in consumer` loop whose process
is alive goes on.  `CmmsIngestion!FairSpec` asks it of each sync's thread; the
resolution of a deadlock is a step of the sync refused, which Postgres makes
after `deadlock_timeout`, and a sync that waits for another one has no step of
its own until that one ends.
Nothing is asked of what the code does not control: no message need be
published, the store and the CMMS need not come back, no signal need arrive,
nobody restarts a service (none has a supervisor in the repository).
`LoopGoesOn` needs no premise but that the process was not stopped: every store
of `process_event` either answers or fails, and every failure moves on.
`ReleaseTools` and `Console` state no fairness: their properties say what is so
when a script or a request has ended, and nothing waits for them.
`BacklogDrains` and `QueueDrains` therefore carry these as premises, for both
services replay only when a message wakes them: the other side is up for good, and
messages come, for `QueueDrains` as many as there are batches up to the command
(`BatchesTo`; a message is one batch).

### Known behaviour the properties leave room for

Checked in one setting because another breaks them; each follows from code the
models contain.

* `HistoryKept` and `ApprovalFinal` are checked of requests one
  after the other: overlapping ones overwrite each other's attempts and may set
  an approved proposal back to pending, for the reason `overlap_two_orders`
  shows.
* An approval by run id makes an order and updates no row
  (`IsRowKey`); only `orders` and `workorders` see it.
* A read of `pm_proposals` that fails disables the guards (`ArriveUnread`), so
  an approved proposal is handed over again; `ReadsFail` is TRUE in
  `handoff_edge` only.
* A bridge killed between the order and `Dequeue` replays the command after its
  restart: two orders.
* A live message whose handoff fails ends the service and is committed.
* Overlapping writers of `workorders` may reopen a completed order, or leave a
  phase older than the columns: only a write whose read is current keeps them
  (`FreshPhase`, `FreshNeverReopens`).
* An order may have a completion date and a status that is not terminal, for the
  merge protects a completed order only from answers that say nothing of
  completion; the reports, which look at the status alone, count it as open.
* `flush()` hides a failed delivery, so a run summary can tell of a
  recommendation the bridge never sees (`SendLost`).  The converse, a
  recommendation without a summary, costs a fault (`OrphansNeedFaults`).
* Outside edge mode the gateway's `[GENAI_ERROR]` text is recommended as it
  stands.  In edge mode the local fallback takes its place, but an answer of an
  unexpected shape (causes or evidence that are no lists of strings) raises outside
  the fallback's `try`, and the event is skipped without a recommendation.
* The RCA agent analyses an event again, and so recommends it again, after a lost
  session or a refused commit as after a kill (`RepeatsNeedFaults`).
* The page of a run whose plan was deleted has the plan's id and nothing else, or,
  if it was deleted between the two look-ups, the plan without its parts.
* Overlapping syncs may take a work order back to an older state
  (`OnlyOverlapRegresses` says that nothing else does), and one may be rolled
  back by a deadlock and report success.
* A failure event imported before its restoration never gets one: later syncs
  do nothing with a row that is there (`FirstReportStays`).
* `chunk_text` never ends when chunks are no longer than the overlap and a file
  is longer than a chunk: nothing checks `--chunk-size` (`ChunkingAdvances` says
  that otherwise every turn gets further).
* Ingesting a path again stores its chunks a second time.
* The vector search may find nothing: `doc_chunks.embedding` has 1536 dimensions
  and the retriever's model gives 3072, so Postgres refuses the query and BM25
  answers alone.  A chunk longer than the token budget, ranked first, leaves the
  context without documents (`DocumentsFound` names it).
* MTTR is divided by the failures whose downtime is known, whatever the head of
  the calculator says, so availability is honest (`AvailabilityHonest`).
* The outcomes report's daily series show calendar days, its totals a window of
  hours, so the two may differ.  `LaterNeverLess` compares them only in the
  direction the days allow: what a later query counts is no less.
* A dry run of a release script reports what it would do and does nothing.
* A sync whose fetch failed stores what it has and reports success
  (`FetchEmpty`); records beyond the first page are never fetched.
* Outside edge mode ingestion never reopens its connection: after an outage every
  event is refused and reported dropped until a restart (`StoreDirect`).
* A graceful stop of the RCA agent drops the message that woke it, as ingestion
  does: hence the `stops` in `CommittedHandled`.

## 4. What is proved

`EdgeIngestion_proofs`, for every topic, buffer bound, batch size, set of
refused events and number of faults, from `BufferAssumption` and
`IngestionAssumption` (positive sizes, a topic of events and foreign
messages):

* `TypeCorrect`: `Spec => []TypeOK`
* `AccountingHolds`: `Spec => []Accounting`
* `BufferStaysBounded`: `Spec => []BufferBounded`
* `NoEventForgotten`: `Spec => []NothingForgotten`
* `RowsInRaisedOrder`: `Spec => []RaisedOrder`
* `Implements`: `Spec => StoreAndForwardSpec`

The invariant proved inductive is `IInv`.  `TypeOK` and `Accounting` alone are
not inductive: `CommitDeletions` subtracts `batch.done` rows, so one needs
`BatchWithinBuffer` (an open batch names rows that are there) and that a batch
is open only at `replay`.  `NothingForgotten` further needs that rows counted as
deleted in an open batch are already in `events` (they leave the buffer
without being looked at again; `ReplayInv`), and that the message in flight is
an event whose offset is not committed (`InFlightInv`: a crash falls back to
`committed`, and must not fall back past it).  `RaisedOrder` rests on a second
layer, `OrderInv`, which holds while nothing was evicted or dropped: what waits
(buffer, then the message in hand, then the topic) waits in the order it was
raised, and an event that is a row has all earlier ones as rows too (`Closed`),
so that whatever becomes a row next is the earliest that is none.  There is one step per action of `Next`, each a
lemma of its own, grouped by what the action does to the buffer.

The fate the abstract relay gives an event is read off three sets: the rows of
the central store, the rows of the buffer, what was evicted or dropped.  Each
action of the service is first reduced to what it does to these (the lemmas named
`...Sets`), and only then to a step of the relay or a stutter (those named
`...Step`).  Deleting rows changes no fate because `IInv` has them in the
store already.

`Handoff_proofs`, for any proposals, commands, requests, messages, limits, edge
mode or not, failing reads or not, any ways for the CMMS to fail and any number
of faults, from `CommandAssumption`, `HandoffAssumption`, `ApprovalAssumption`
and `BridgeAssumption` (positive limits, ids that name proposals):

* `TypeCorrect`: `Spec => []TypeOK`
* `CommandsAccountedFor`: `Spec => []CommandAccounting`
* `ReplayIsInOrder`: `Spec => []ReplaysFront`
* `ApprovedAlwaysHasOrder`: `Spec => []ApprovedHasOrder`
* `OnlyHandedOffLeave`: `Spec => DequeuedHandedOff` (an action property)
* `HistoryAlwaysKept`: `Spec => HistoryKept`, if `ApiThreads = 1` and, in edge mode,
  there are no messages (an action property)
* `ApprovalIsFinal`: `Spec => ApprovalFinal`, if `ApiThreads = 1`, there are no
  messages and reads are answered (an action property)

The hypotheses of the last two are those of the run `approval_sequential`; section 3
says how overlapping requests, or a bridge with a row in hand, break both.

The invariant is three, each resting on the one before, and a fourth for the
theorems with hypotheses.

* `Typed` adds `InHand` to `TypeOK`: a try is left wherever one will be counted
  down, what is stored as an order is one, the bridge has a command in hand while
  it replays.
* `QueueInv` is `CommandAccounting /\ ReplaysFront`.  Neither is inductive alone:
  `record_replay_success` counts a replay whether or not its row was there, so
  the counters are right only because the row is there, and it is because the
  bridge replays the front of the queue and nobody else takes rows off.
* `OrderInv` follows an order from the CMMS to the row: *made* while a thread or
  the bridge carries it to `workorders`, *filed* from then on.  It also has to
  speak of the row the bridge has read and is about to write back: it may say
  approved, and is filed still, since nothing unmakes or unfiles an order.
* `SequentialInv`: at most one request runs; what it read of the attempts when it
  began is what the row still has, since nobody else writes the row; the bridge
  holds no row.  So what a request writes back is the row's history and more.
  `NoneApproved` adds that the request at work is not for an approved proposal: the
  guard turned it away when it began, and only its own last step approves.

`WorkOrderLifecycle_proofs`, for any writers, answers and number of calls, from
`LifecycleAssumption`: `TypeCorrect`, `CreationIsHandedOff`, `PhaseIsBacked`
(invariants), `DatesStay`, `FreshPhaseAgrees`, `FreshWritesKeepCompletion`
(action properties).  The strengthening is that what a writer holds of the
answer keeps the rule of the row: with a creation date there is a handoff date
(`WritersDated`), so the column-wise COALESCE of the two keeps it too.

`RcaAgent_proofs`, for any topic, deployments, answers of the model, number of
parts, stops and faults, from `AgentAssumption`: `TypeCorrect`, `EventFailsOnce`,
`NamedPlansAreWhole`, `OrphansCostFaults`, `NoAlarmForgotten`
(`CommittedHandled`), `RepeatsCostFaults` (`RepeatsNeedFaults`).  Again each
invariant rests on the one before.

* `Typed` adds `HandInv` to `TypeOK`: where an action uses the current message
  there is one and it is not committed, and what is in hand is the last
  recommendation made for it.
* `FreshInv`: nothing is stored under an id that was not made yet, and the id in
  hand is in no summary.  Without it a step that stores a plan might un-whole a
  plan an earlier summary names.
* `PlanInv`: the parts stored so far are there unless the plan is gone, and then
  it cannot come back, being created once, before any part.
* `OrphanInv`: `Orphans` is finite, and a fault adds at most the one
  recommendation that was in hand.
* `HandledInv`: between what is committed and where the loop stands, only the
  message in hand may be unhandled; so a commit passes over an alarm only on the
  way out, and a stop that is due still has one to give.
* `RepeatInv`: since the position last fell back every analysis took a message of
  its own, so an event was analysed at most once per message for each fault, and
  once for each of its messages up to where the loop stands.

`CmmsIngestion_proofs`, for any records, any number of overlapping syncs, changes
and faults, from `IngestionAssumption` (the three kinds of keys are disjoint):
`TypeCorrect`, `StoredAsWhole`, `CountsAreTrue` (invariants), `FailuresStay`,
`RegressionTakesOverlap` (action properties), on four layers.

* `Typed` adds to `TypeOK` that a job at a row has one, and that no record is
  newer than the changes allow.
* `WholeInv`: until a statement is refused, every row fetched is counted,
  unsendable, or still to do.  At the commit nothing is left to do.
* `LockInv`: a row a transaction wrote is locked by it, so two never write the
  same one, and a failure event it wrote was not there.
* `AgeInv`: what a sync fetched is no older than the row, unless another sync
  has stored the row since; it needs that rows are never newer than the source.

`Documents_proofs`, for any files, chunk sizes, overlap, number of commands and of
failures, from `DocumentsAssumption`:

* `DocumentsTyped`: `DocumentsSpec => []IngestionTyped`
* `StoredIsWhole`: `DocumentsSpec => []WholeDocuments`
* `LoopAdvances`: `DocumentsSpec => []ChunkingAdvances`

`WholeDocuments` speaks of finished commands only.  Its strengthening `Progress`
follows the chunks from the cut to the commit: while a file is being cut, they
cover it up to where the loop starts over (`LoopTurn`: whatever the overlap, the next
chunk starts no later than the last one ended), and once all files are cut they
cover them all, since only a commit turns them into rows.  The second half of the
module is `EventContext`'s invariant, `ContextInv`, for `Console_proofs`: a token
budget is a fold over a finite set of chunks (`SumExists`, `Budgeted`), and admits
the first chunk unless that one alone exceeds it (`BudgetAdmits`).

`Console_proofs`, for any numbers of rows, requests, readers, writers, failures and
any limits, from the assumptions of the modules it is made of, that is that sizes
are positive and given rows have the fields of their tables, numbers where those are
numbers, and a user in every row of feedback (`OutcomesAssumption`: the column may be
empty, but `submit_feedback`, which alone writes it, stores who is authenticated):

* `LatestShownIsNewest` (`LatestIsNewest`), `OnlyDeletedPlansMissing`
  (`PlanMissingWasDeleted`)
* `TornSnapshotBounded` (`DepthWithinTotals`), `UpgradeClashesOnce` (`ClashesOnce`)
* `ShareOfTimeHonest` (`AvailabilityHonest`), `ShownFailureIsCounted`
  (`ShownIsCounted`)
* `FailureStaysInSection` (`OneFailureOneSection`), `CountedLaterIsNoLess`
  (`LaterNeverLess`), `MoreEventsNeverCalm` (`WarningsNeverEase`)
* `ContextHasDocuments` (`DocumentsFound`)
* `RetryGivenAsShown` (`RetryShownIsRetryGiven`), `GaugesTellRows` (`GaugesAgree`)
* `PagesMissNothing` (`HistoryPagedWhole`), if `ApiThreads = 1` and, in edge mode,
  there are no messages

all of them `ConsoleSpec => []...`, but `WarningsNeverEase` an action property.
`GroupsAlone` reduces `ConsoleSpec` to one system per group, since a step of the
console is one group's step and leaves the variables of the others alone; each
group then has an inductive invariant.

* `PortalInv`: no two files were written at the same time, so every listing has
  one order (`ListingExists`, by induction on the length); a request keeps the
  files as it found them, and the runs it could be shown are among those it has
  still to read; a file that was whole stays so.  A plan that a summary names was
  stored before it, and is there or was deleted.
* `EdgeInv`: each total a watcher has read is at most the calls since it began
  away from the file's (`Close`, `Torn`), whatever comes between two of its
  SELECTs; a watcher that met another in the upgrade finds the column next time
  (`Warned`).  Under it lies `CommandAccounting` of the queue once more, here with
  calls in any order.
* `RegistryInv`: what was shown stays in the table, events being inserted only, so
  every shown failure still in the window is counted (`Covered`); that the figures
  are honest is arithmetic over a fold (`DownTotal`, `ShareHonest`).
* `ReportTold`: while the connection lasts, the sections without an answer are the
  queries that failed, place by place (`Sections`), for eighteen queries of which
  the eighth only feeds the ninth.
* `FiguresTold`: while no query has failed the transaction's `NOW()` is that of its
  first answer, and what was counted so far (all answers, each user's answers and
  daily volume) is within the rows there are now (`CountedWithin`); it stays so since
  feedback is only added (`MoreRows`, `RowsStay`).  The comparison of the first total
  with the users' is that groups of rows add up to the rows (`ClassesAddUp`, by
  a smallest set of groups that do not), and `TablesTyped` is why every row is in a group.
* `ScoresRise`: the score of an asset, term by term, rises with its events: sums,
  counts and peaks over more rows, capped or put in steps (`PeakRises`, `StateRises`,
  `ScoreRises`).  It needs of a reachable state only `TablesTyped`, and holds for
  whatever row the new event is.
* `ReadsInv`, on top of `Typed` and `OrderInv` of `Handoff_proofs`: a row is
  approved if and only if it names an order, and its last attempt says so, unless
  that is one of a command replayed in vain (`RowTold`); the thread and the bridge
  hold no row for which this is not so.
* `ViewInv`, on top of `SequentialInv`: the attempts not shown yet are the oldest,
  up to their number less what the pages held, and the number only grows.

`ReleaseTools_proofs`, for any pull requests, numbers given, data file, titles,
labels, listing limits, attempts, runs and faults, from `ReleaseAssumption` (the
numbers given on the command line and in the file are numbers of pull requests,
which need not exist or be open):

* `ReportsAreTrue`: `Spec => []ReportTrue`
* `CopiesAreExplained`: `Spec => []CopiesExplained`

`ToolTold` says what a script has left is the end of its plan, that every command
of the plan fits the milestone as it is, and that only the seeding plans issues,
the one of title `t` at place `t + 1`.  `ToldSoFar`: what the commands done so far
were to bring about is so; it stays so because no command takes back what another
did (`Carried`), others merge nothing and unmerge nothing (`OthersKeep`), and a
refusal that is passed over says the thing is there (`RefusalTold`).  `CopiesPaid`
adds to the copies of a title the one the run at work still owes (`Owed`): a run is
counted when it starts, and it makes its issue later.

Only model-checked: liveness (`BacklogDrains`, `QueueDrains`, `LoopGoesOn`,
`SyncsEnd`), which is out of reach of the prover.  Every invariant and every safety
property of a step that a passing run checks is a theorem, `HistoryKept`,
`ApprovalFinal` and `HistoryPagedWhole` under the hypotheses given above.

## 5. What is not modelled

Whole components (`not_modelled` in `PROJECT.json`):

* *Operations reports* (`api/reports.py`): single reads and formatting.  The one
  endpoint with a rule of its own, the prioritised assets, selects columns `mean`
  and `max` that no migration creates, so it always fails.
* *Signals processor*: as written it cannot run.  Without an explicit `db_url` it
  reads `Settings.database_url`, which does not exist; with one, its INSERTs pass a
  dict for which psycopg2 has no adapter.  A model of it would have no behaviour.
  `Outcomes` therefore takes the rollups as given.
* *Schema migrations*: run once by an operator; the tables the models need are
  mapped to the revision that creates them.
* *Health, process shell, deployment*: probes, settings, a random event generator,
  configuration.

Of the components modelled in part:

* CMMS ingestion: the mapping of fields and codes, the SCADA adapter (the pipeline
  never creates it), the seeding of the code maps, and work orders written under
  `MX-WO-...` ids next to the bridge's.
* Outcomes and metrics: the CSV export and the wording of the warnings.  Scores
  are integers a tenth of a point wide.
* Feedback, failure events, hierarchy: lists that are a single read, the constant
  tables of the taxonomy and the pilot site, and the upper-casing of class and
  mode codes on read.
* Portal: the pages, and the layout of a run's summary.  A plan id the model wrote
  into its own answer, which the page falls back on when the summary names none, is
  left out.
* Release tooling: `release_notes.py`, which formats a text.
* Retrieval: the scores of a search, which are any order; prompts and the text
  assembled from what was found.

And throughout:

* A Kafka group of more than one member.  In `RcaAgent` a lost session is a step
  (`Rebalanced`), since its properties count what is delivered twice.  In
  `EdgeIngestion` and `WoBridge` it is none of its own: it puts `position` where a
  kill at the poll and a restart put it, after which the store may be lost and the
  probe be due at any time, and the properties checked there hold over these.
* Left out because nothing branches on it: payloads, timestamps, `last_error`,
  `replay_attempts`, texts and HTTP bodies, logging.  In `PmApproval` the identity
  and role checks are the boolean `admin`; `Identity` is where they are modelled.
* The mock CMMS derives the id from the recommendation: it is the case where a
  second order has the first one's id, and cannot fail.
* `process_recommendation`'s branch for a result without an id is not
  reachable with the adapters of the repository.
* A recommendation that is not actionable is answered 422, an unknown id 404,
  before any state is read: requests without effect.
* Of the RCA agent: prompts, the analysis's text and confidence, metrics; which of
  these are empty decides nothing but wording.  How the context is gathered is
  module `EventContext`.

## 6. Plan

Done: edge ingestion with its abstract specification, the handoff of proposals,
the work order's row, the RCA agent with the repair plans, CMMS ingestion, the
release scripts, and the console in six groups: proposals, runs, outcomes, edge
status, registry, documents.  Proved: the refinement of `StoreAndForward` and every
invariant and action property the runs check.

Left: what section 5 lists, and liveness, which stays with TLC.

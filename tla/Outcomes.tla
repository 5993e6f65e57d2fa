------------------------------ MODULE Outcomes -------------------------------
(***************************************************************************)
(* GET /api/v1/reports/rca-outcomes of api/outcomes.py, and the writers    *)
(* its tables have meanwhile.                                              *)
(*                                                                         *)
(* One connection answers the seventeen queries of a report, one after the *)
(* other.  No statement locks what another reads (READ COMMITTED), so each *)
(* query sees what is committed when it runs; but NOW() is the time the    *)
(* transaction began, and the window is the same for every query until a   *)
(* rollback.  A query that fails aborts the transaction: unless it is      *)
(* rolled back, Postgres refuses every query after it.                     *)
(*                                                                         *)
(* Times are hours and a day has 24.  A rate or an average is kept as the  *)
(* numbers it is computed from.                                            *)
(***************************************************************************)
EXTENDS PdmScorer, Identity, ProposalViews

CONSTANTS Tables,       \* what the database may hold when a report begins
          Incoming,     \* events that may arrive meanwhile
          Orders,       \* work orders that may be stored meanwhile
          Feedback,     \* feedback that may be sent meanwhile
          Window,       \* the days a report covers
          TtrLimit,     \* rows the time-to-recommendation query reads (500)
          TopLimit,     \* places of a leaderboard (10)
          WorstLimit,   \* places of the early-warning list (5)
          MaxIncidents  \* bound: writes, failures and hours gone by

\* A table is a sequence of rows.
IsTable(table) == table \in Seq(Range(table))

\* The numbers of a row are hours and readings, Absent where it gives none.
EventMeasures(e) == {e.vibration, e.temperature, e.time} \subseteq Int

RollupMeasures(r) == {r.max, r.mean} \subseteq Int /\ r.flags \in Nat

\* What the tables may hold.  The column of a feedback's user may be empty,
\* but submit_feedback, which alone writes it, stores who is authenticated.
ASSUME OutcomesAssumption ==
  /\ \A t \in Tables :
       /\ t = [now |-> t.now, events |-> t.events, rollups |-> t.rollups, orders |-> t.orders,
               feedback |-> t.feedback, proposals |-> t.proposals]
       /\ t.now \in Nat
       /\ IsTable(t.events) /\ IsTable(t.rollups) /\ IsTable(t.feedback)
       /\ \A i \in DOMAIN t.events : EventMeasures(t.events[i])
       /\ \A i \in DOMAIN t.rollups : RollupMeasures(t.rollups[i])
       /\ \A i \in DOMAIN t.feedback : t.feedback[i].user # None
  /\ \A e \in Incoming : {e.vibration, e.temperature} \subseteq Int
  /\ TopLimit \in Nat

VARIABLES tables,    \* events, rollups, orders, feedback, proposals, and the clock
          report,    \* the report that is being computed
          incidents  \* incidents so far

outcomeVars == <<tables, report, incidents>>

FeedbackActions == {"accept", "reject", "edited"}

WarningKinds == {"alarm", "anomaly", "measurement"}

Queries == <<"feedback", "ttr", "mtbf", "mttr", "top assets", "asset volume",
             "asset acceptance", "early events", "early warning", "cmms",
             "user totals", "user volume", "user acceptance", "top users",
             "org totals", "org volume", "org acceptance", "top orgs">>

NewReport == [pc |-> "idle", who |-> NobodyHere, days |-> {}, scope |-> {},
              begun |-> Absent, tx |-> "open", next |-> 1, early |-> <<>>,
              failed |-> {}, faults |-> {}, out |-> <<>>]

OutcomesInit ==
  /\ tables \in Tables
  /\ report = NewReport
  /\ incidents = 0

SomethingHappens ==
  /\ report.pc # "done" /\ incidents < MaxIncidents
  /\ incidents' = incidents + 1

-----------------------------------------------------------------------------
(* The writers.                                                            *)

IngestEvent ==
  /\ SomethingHappens
  /\ \E e \in Incoming :
       tables' = [tables EXCEPT !.events = Append(@,
         [asset |-> e.asset, org |-> e.org, severity |-> e.severity, kind |-> e.kind,
          vibration |-> e.vibration, temperature |-> e.temperature,
          threshold |-> e.threshold, time |-> tables.now])]
  /\ UNCHANGED report

StoreOrder ==
  /\ SomethingHappens
  /\ \E o \in Orders :
       tables' = [tables EXCEPT !.orders = Append(@, o @@ [created |-> tables.now,
                                                           completed |-> Absent])]
  /\ UNCHANGED report

CompleteOrder ==
  /\ SomethingHappens
  /\ \E i \in DOMAIN tables.orders :
       /\ tables.orders[i].completed = Absent
       /\ tables' = [tables EXCEPT !.orders[i].completed = tables.now]
  /\ UNCHANGED report

\* submit_feedback of api/feedback.py: by whoever may decide, for an org the
\* caller belongs to.  A second answer to the same run is a second row.
SubmitFeedback ==
  /\ SomethingHappens
  /\ \E f \in Feedback, request \in Requests :
       LET who == ResolveIdentity(request)
       IN  /\ MayDecide(who) /\ IdentityMatchesScope(who, f.org, None)
           /\ tables' = [tables EXCEPT !.feedback = Append(@,
                [org |-> f.org, asset |-> f.asset, action |-> f.action,
                 user |-> who.subject, at |-> tables.now])]
  /\ UNCHANGED report

HalfADay ==
  /\ SomethingHappens
  /\ tables' = [tables EXCEPT !.now = @ + 12]
  /\ UNCHANGED report

-----------------------------------------------------------------------------
(* The rows a query reads.                                                 *)

\* Mutant: every query has a window of its own.
Now_Moves == tables.now

Now == IF report.begun = Absent THEN tables.now ELSE report.begun

InWindow(time) == time > Now - 24 * Window

Unrestricted == report.who.org = None

\* _filter_asset_rows
Allowed(a) == Unrestricted \/ a \in report.scope

EventsOf(org) == {i \in DOMAIN tables.events :
                    tables.events[i].org = org /\ InWindow(tables.events[i].time)}

OrderRows == {i \in DOMAIN tables.orders : InWindow(tables.orders[i].created)}

FeedbackRows ==
  {i \in DOMAIN tables.feedback :
     /\ InWindow(tables.feedback[i].at)
     /\ Unrestricted \/ tables.feedback[i].org = report.who.org}

\* How many of rows have field = value.
Tally(table, rows, field) ==
  [v \in {table[i][field] : i \in rows} \ {None} |->
     Cardinality({i \in rows : table[i][field] = v})]

Day(time) == time \div 24

\* The rows of the days the series shows (_bucket_dates, _series_to_rows): the
\* calendar days up to the one the report began on, which are not the hours
\* of the window.
Shown(table, rows, field) == {i \in rows : Day(table[i][field]) \in report.days}

-----------------------------------------------------------------------------
(* What the queries answer: the set of the results one may give, since a   *)
(* LIMIT picks among equals as it likes.                                   *)

\* The count of a row's group decides its place; ties go either way.
Leaders(count) ==
  {SubSeq(s, 1, AtMost(TopLimit, Len(s))) : s \in
     {t \in SetToSeqs(DOMAIN count) :
        \A i, j \in DOMAIN t : i < j => count[t[i]] >= count[t[j]]}}

Listed(s, count) == [i \in DOMAIN s |-> [id |-> s[i], count |-> count[s[i]]]]

\* An order without evidence is joined with every event of its asset.
Joined ==
  {p \in OrderRows \X DOMAIN tables.events :
     LET order == tables.orders[p[1]]
     IN  IF order.evidence # None THEN p[2] = order.evidence
         ELSE tables.events[p[2]].asset = order.asset}

\* The sum and the number of the values of a function that are not negative.
Average(value) ==
  LET counted == {t \in DOMAIN value : value[t] >= 0}
  IN  [sum |-> MapThenSumSet(LAMBDA t : value[t], counted), of |-> Cardinality(counted)]

Lag(o, e) == tables.orders[o].created - tables.events[e].time

\* The rows are limited before those of other tenants are dropped.
Ttr ==
  {Average([p \in {q \in rows : Allowed(tables.orders[q[1]].asset)} |-> Lag(p[1], p[2])])
     : rows \in kSubset(AtMost(TtrLimit, Cardinality(Joined)), Joined)}

\* The mean interval between successive events of an asset; the intervals
\* of an asset add up to the span of its events.
Mtbf ==
  LET rows == {i \in DOMAIN tables.events :
                 InWindow(tables.events[i].time) /\ Allowed(tables.events[i].asset)}
      Times(a) == {tables.events[i].time : i \in {j \in rows : tables.events[j].asset = a}}
      assets == {tables.events[i].asset : i \in rows}
  IN  [sum |-> MapThenSumSet(LAMBDA a : Max(Times(a)) - Min(Times(a)), assets),
       of |-> Cardinality(rows) - Cardinality(assets)]

Mttr ==
  LET rows == {o \in OrderRows : /\ tables.orders[o].completed # Absent
                                 /\ Allowed(tables.orders[o].asset)}
  IN  Average([o \in rows |-> tables.orders[o].completed - tables.orders[o].created])

\* The ten assets with most orders, of which the caller's are kept.
TopAssets ==
  LET count == Tally(tables.orders, OrderRows, "asset")
  IN  {SelectSeq(Listed(s, count), LAMBDA e : Allowed(e.id)) : s \in Leaders(count)}

AssetVolume ==
  LET rows == {o \in OrderRows : Allowed(tables.orders[o].asset)}
  IN  Tally(tables.orders, Shown(tables.orders, rows, "created"), "asset")

\* Accepted and rejected, of each value of field.
Acceptance(rows, field) ==
  LET shown == Shown(tables.feedback, rows, "at")
      Of(action) == Tally(tables.feedback,
                          {i \in shown : tables.feedback[i].action = action}, field)
  IN  [accept |-> Of("accept"), reject |-> Of("reject")]

WarningEvents ==
  {i \in DOMAIN tables.events :
     /\ InWindow(tables.events[i].time) /\ tables.events[i].kind \in WarningKinds
     /\ Allowed(tables.events[i].asset)}

\* Scored now, from the events read one query earlier.
EarlyWarning ==
  EarlyWarningReport(report.early,
    SelectSeq(tables.rollups, LAMBDA r : InWindow(r.time) /\ Allowed(r.asset)),
    tables.now, WorstLimit)

\* A proposal without an asset is nobody's but an unrestricted caller's.
ProposalRows ==
  {p \in DOMAIN tables.proposals :
     InWindow(tables.proposals[p].at) /\ Allowed(tables.proposals[p].asset)}

FieldOf(field) == [p \in DOMAIN tables.proposals |-> tables.proposals[p][field]]

\* _update_cmms_summary and _update_backend_metrics, of the same rows.
CmmsSection ==
  [summary |-> CmmsBucket(tables.proposals, ProposalRows),
   byAsset |-> CmmsBreakdown(tables.proposals, ProposalRows, FieldOf("asset")),
   byBackend |-> CmmsBreakdown(tables.proposals, ProposalRows, FieldOf("backend")),
   backends |-> [b \in {FieldOf("backend")[p] : p \in ProposalRows} |->
     BackendMetrics(tables.proposals,
                    {p \in ProposalRows : tables.proposals[p].backend = b})]]

FeedbackCounts ==
  [a \in FeedbackActions |->
     Cardinality({i \in FeedbackRows : tables.feedback[i].action = a})]

\* The ids of a group section and how often each was answered; an entity's
\* total is over its own three counts.
Groups(field) ==
  [totals |-> {Tally(tables.feedback, FeedbackRows, field)},
   volume |-> {Tally(tables.feedback, Shown(tables.feedback, FeedbackRows, "at"), field)},
   acceptance |-> {Acceptance(FeedbackRows, field)},
   top |-> LET count == Tally(tables.feedback, FeedbackRows, field)
           IN  {Listed(s, count) : s \in Leaders(count)}]

Answers(query) ==
  CASE query = "feedback" -> {FeedbackCounts}
    [] query = "ttr" -> Ttr
    [] query = "mtbf" -> {Mtbf}
    [] query = "mttr" -> {Mttr}
    [] query = "top assets" -> TopAssets
    [] query = "asset volume" -> {AssetVolume}
    [] query = "asset acceptance" ->
         {Acceptance({i \in FeedbackRows : Allowed(tables.feedback[i].asset)}, "asset")}
    [] query = "early warning" -> {EarlyWarning}
    [] query = "cmms" -> {CmmsSection}
    [] query = "user totals" -> Groups("user").totals
    [] query = "user volume" -> Groups("user").volume
    [] query = "user acceptance" -> Groups("user").acceptance
    [] query = "top users" -> Groups("user").top
    [] query = "org totals" -> Groups("org").totals
    [] query = "org volume" -> Groups("org").volume
    [] query = "org acceptance" -> Groups("org").acceptance
    [] query = "top orgs" -> Groups("org").top

-----------------------------------------------------------------------------
(* The report.                                                             *)

\* rca_outcomes up to its first query: the days are those of the caller's
\* clock, and no transaction has begun.
AskForReport ==
  /\ report.pc = "idle"
  /\ \E request \in Requests :
       LET who == ResolveIdentity(request)
       IN  report' = [NewReport EXCEPT
             !.pc = IF Authenticated(who) THEN "scope" ELSE "done", !.who = who,
             !.days = (Day(tables.now) - Window + 1)..Day(tables.now)]
  /\ UNCHANGED <<tables, incidents>>

\* _allowed_asset_ids: the assets the caller's org had events of.  Nothing
\* is asked for a caller without an org.
ReadScope ==
  /\ report.pc = "scope"
  /\ report' = [report EXCEPT !.pc = "query",
       !.scope = {tables.events[i].asset : i \in EventsOf(report.who.org)},
       !.begun = IF Unrestricted THEN Absent ELSE Now]
  /\ UNCHANGED <<tables, incidents>>

\* 500: there is no report without a scope.
ScopeUnread ==
  /\ report.pc = "scope" /\ ~Unrestricted
  /\ SomethingHappens
  /\ report' = [report EXCEPT !.pc = "done"]
  /\ UNCHANGED tables

Query == Queries[report.next]

\* The query after one that was answered, and after one that was not: the
\* early-warning section gives up without asking for the rollups.
Following == report.next + 1
AfterGap == report.next + (IF Query = "early events" THEN 2 ELSE 1)

Section == IF Query = "early events" THEN "early warning" ELSE Query

AtQuery == report.pc = "query" /\ report.next <= Len(Queries)

EarlyEvents ==
  SelectSeq([i \in DOMAIN tables.events |-> tables.events[i] @@ [row |-> i]],
            LAMBDA e : e.row \in WarningEvents)

Extended(out, query, result) ==
  [q \in DOMAIN out \cup {query} |-> IF q = query THEN result ELSE out[q]]

QueryAnswered ==
  /\ AtQuery /\ report.tx = "open"
  /\ IF Query = "early events"
     THEN report' = [report EXCEPT !.early = EarlyEvents, !.next = Following, !.begun = Now]
     ELSE \E result \in Answers(Query) :
            report' = [report EXCEPT !.out = Extended(@, Query, result),
                                     !.next = Following, !.begun = Now]
  /\ UNCHANGED <<tables, incidents>>

\* Mutant: the transaction is left aborted.
SafeRollback_Missing(tx) == tx

\* _safe_rollback: on a connection that is gone it does nothing.
SafeRollback(tx) == IF tx = "aborted" THEN "open" ELSE tx

\* The except branch of a section: roll back, mark the report partial.
GiveUp(tx, faults) ==
  report' = [report EXCEPT !.failed = @ \cup {Section}, !.faults = faults,
                           !.next = AfterGap, !.tx = SafeRollback(tx), !.begun = Absent]

QueryFails ==
  /\ AtQuery /\ report.tx = "open"
  /\ SomethingHappens
  /\ GiveUp("aborted", report.faults \cup {Section})
  /\ UNCHANGED tables

QueryRefused ==
  /\ AtQuery /\ report.tx # "open"
  /\ GiveUp(report.tx, report.faults)
  /\ UNCHANGED <<tables, incidents>>

ConnectionLost ==
  /\ AtQuery /\ report.tx = "open"
  /\ SomethingHappens
  /\ report' = [report EXCEPT !.tx = "lost"]
  /\ UNCHANGED tables

ReturnReport ==
  /\ report.pc = "query" /\ report.next > Len(Queries)
  /\ report' = [report EXCEPT !.pc = "done", !.early = <<>>]
  /\ UNCHANGED <<tables, incidents>>

WriterActs ==
  IngestEvent \/ StoreOrder \/ CompleteOrder \/ SubmitFeedback \/ HalfADay

OutcomesNext ==
  \/ WriterActs
  \/ AskForReport \/ ReadScope \/ ScopeUnread
  \/ QueryAnswered \/ QueryFails \/ QueryRefused \/ ConnectionLost \/ ReturnReport

-----------------------------------------------------------------------------
Returned == report.pc = "done" /\ report.next > Len(Queries)

Answered(query) == query \in DOMAIN report.out

Total(count) == MapThenSumSet(LAMBDA k : count[k], DOMAIN count)

\* A query that fails leaves its own section out of the report and no other:
\* every section that is there was answered, every one that is not is named
\* by a warning, and an aborted transaction does not spread.
\* (_safe_rollback, _mark_partial)
OneFailureOneSection ==
  Returned /\ report.tx # "lost" =>
    /\ report.failed = report.faults
    /\ {Queries[i] : i \in DOMAIN Queries} \ (DOMAIN report.out \cup {"early events"})
         = report.faults

\* The figures of one report fit together although rows arrive while it is
\* computed: feedback is never taken back and a transaction has one NOW(),
\* so what is counted later is counted of no fewer rows.  Only a rollback,
\* which the report owns up to, moves the window.
LaterNeverLess ==
  Returned /\ report.failed = {} =>
    LET totals == report.out["user totals"]
        volume == report.out["user volume"]
        top == report.out["top users"]
    IN  /\ Total(report.out["feedback"]) <= Total(totals)
        /\ \A i \in DOMAIN top :
             /\ top[i].id \in DOMAIN totals => top[i].count >= totals[top[i].id]
             /\ top[i].id \in DOMAIN volume => top[i].count >= volume[top[i].id]

Scores(events) == EarlyWarningReport(events, tables.rollups, tables.now, WorstLimit).scores

\* A warning never eases because one more event came in: whichever event it
\* is, and in whatever order the rows are read, no score falls.  (An asset
\* calms down only as time passes.)
WarningsNeverEase ==
  [][tables'.events # tables.events =>
       LET before == Scores(tables.events)
           after == Scores(tables'.events)
       IN  \A a \in DOMAIN before : after[a] >= before[a]]_outcomeVars
=============================================================================

------------------------------ MODULE Registry -------------------------------
(***************************************************************************)
(* The canonical failure events and the equipment register, and those who  *)
(* read them: api/failure_events.py, api/hierarchy.py, api/reliability.py  *)
(* with core/reliability/queries.py, and the structured context of         *)
(* api/rag_context.py with ai/rag/structured_retriever.py.                 *)
(*                                                                         *)
(* A reader's queries run one after the other on one connection, each with *)
(* what is committed by then and a window of its own, which ends when the  *)
(* query runs.  Everybody else may write in between.                       *)
(***************************************************************************)
EXTENDS Reliability, Identity

CONSTANTS Registered,   \* the equipment before anybody upserts
          Upserts,      \* bodies of POST /hierarchy/equipment
          Posts,        \* bodies of POST /failure-events
          Alarms,       \* rows the ingestion service may add to events
          Upper,        \* str.upper of an equipment class
          Observed,     \* the window_days of a request, in hours
          ListLimit,    \* the limit of a list
          MaxChanges    \* bound: writes, hours and queries that fail

\* What a failure event is: times and downtimes are hours, or NULL.
HasFields(f) == f = [id |-> f.id, tenant |-> f.tenant, unit |-> f.unit, asset |-> f.asset,
                     start |-> f.start, restored |-> f.restored, down |-> f.down]
HasHours(f) == {f.start, f.restored, f.down} \subseteq Int \cup {NoValue}

ASSUME RegistryAssumption ==
  /\ \A f \in Posts : HasFields(f) /\ HasHours(f)
  /\ \A x \in Alarms : x.time \in Int
  /\ Observed \in Nat \ {0} /\ ListLimit \in Nat \ {0} /\ MaxChanges \in Nat

VARIABLES units,    \* equipment_units: class and family of each id
          failures, \* failure_events
          alarms,   \* events of kind alarm or anomaly
          hour,     \* the time
          changes,  \* changes so far
          inquiry   \* one reader: what its queries have answered so far

registryVars == <<units, failures, alarms, hour, changes, inquiry>>

NewInquiry == [pc |-> "idle", page |-> "none", who |-> NobodyHere, of |-> None,
               class |-> None, shown |-> {}, similar |-> {}, figures |-> <<>>,
               end |-> 0]

RegistryInit ==
  /\ units = Registered
  /\ failures = {}
  /\ alarms = {}
  /\ hour = Observed
  /\ changes = 0
  /\ inquiry = NewInquiry

Changed == changes < MaxChanges /\ changes' = changes + 1

-----------------------------------------------------------------------------
(* The writers.                                                            *)

\* The tenant a caller's request is about; another one's is refused (403).
TenantAllowed(who, tenant) == who.org = None \/ tenant \in {None, who.org}
TenantScope(who, tenant) ==
  IF who.org # None /\ tenant = None THEN who.org ELSE tenant

\* create_failure_event: ON CONFLICT (event_id) DO NOTHING.
CreateFailureEvent ==
  /\ Changed
  /\ \E body \in Posts, request \in Requests :
       LET who == ResolveIdentity(request)
       IN  /\ Authenticated(who) /\ TenantAllowed(who, body.tenant)
           /\ failures' =
                IF \E f \in failures : f.id = body.id THEN failures
                ELSE failures \cup {[body EXCEPT !.tenant = TenantScope(who, @)]}
  /\ UNCHANGED <<units, alarms, hour, inquiry>>

\* upsert_equipment; on conflict the class is replaced.
UpsertEquipment ==
  /\ Changed
  /\ \E body \in Upserts :
       units' = [u \in DOMAIN units \cup {body.unit} |->
                   IF u = body.unit THEN body.class ELSE units[u]]
  /\ UNCHANGED <<failures, alarms, hour, inquiry>>

RaiseAlarm ==
  /\ Changed
  /\ \E a \in Alarms \ alarms : alarms' = alarms \cup {a}
  /\ UNCHANGED <<units, failures, hour, inquiry>>

HourPasses ==
  /\ Changed
  /\ hour' = hour + 1
  /\ UNCHANGED <<units, failures, alarms, inquiry>>

-----------------------------------------------------------------------------
(* The queries.                                                            *)

\* failure_start_ts >= now - window, which a NULL never is.
Since(f) == f.start # NoValue /\ f.start >= hour - Observed

OfUnit(u) == {f \in failures : f.unit = u /\ Since(f)}

OfAsset(a) == {f \in failures : f.asset = a /\ Since(f)}

\* Alarms are failures nobody has repaired; their window ends when the failure
\* events were asked for.
LegacyFailures(a) ==
  {[id |-> x.id, start |-> x.time, restored |-> NoValue, down |-> NoValue] :
     x \in {y \in alarms : y.asset = a /\ y.time >= inquiry.end - Observed}}

\* ORDER BY failure_start_ts DESC NULLS LAST LIMIT: the ways to cut a list.
Newest(rows, limit) ==
  {s \in SUBSET rows :
     /\ Cardinality(s) = IF Cardinality(rows) < limit THEN Cardinality(rows) ELSE limit
     /\ \A f \in s, g \in rows \ s :
          g.start # NoValue => f.start # NoValue /\ f.start >= g.start}

\* Mutant: the register is always joined.
FleetRows_Joined(tenant, class) ==
  {f \in failures : /\ Since(f) /\ f.unit \in DOMAIN units
                    /\ tenant = None \/ f.tenant = tenant
                    /\ class = None \/ units[f.unit] = class}

\* get_fleet_reliability: equipment_units is joined only for a filter.
FleetRows(tenant, class) ==
  {f \in failures : /\ Since(f) /\ f.unit # None
                    /\ tenant = None \/ f.tenant = tenant
                    /\ class # None => f.unit \in DOMAIN units
                                       /\ units[f.unit] = class}

\* get_similar_equipment_failures: the class asked for is put in upper case,
\* the class of a unit is compared as it was written.
SimilarRows(class, exclude) ==
  {f \in failures : /\ Since(f) /\ f.unit \in DOMAIN units \ {exclude}
                    /\ units[f.unit] = Upper[class]}

FiguresOf(rows) == CalculateReliability(rows, Observed)

-----------------------------------------------------------------------------
(* GET /rag/context/{equipment_unit_id}: assemble_rca_context.             *)

AskContext ==
  /\ inquiry.pc = "idle"
  /\ \E request \in Requests, f \in Posts :
       LET who == ResolveIdentity(request)
       IN  /\ Authenticated(who) /\ f.unit # None
           /\ inquiry' = [inquiry EXCEPT !.pc = "hierarchy", !.page = "context",
                                     !.who = who, !.of = f.unit]

GetHierarchyContext ==
  /\ inquiry.pc = "hierarchy"
  /\ inquiry' = [inquiry EXCEPT !.pc = "history",
                   !.class = IF inquiry.of \in DOMAIN units
                             THEN units[inquiry.of] ELSE None]

\* The taxonomy, a constant table, is looked up in between.
GetFailureHistory ==
  /\ inquiry.pc = "history"
  /\ \E rows \in Newest(OfUnit(inquiry.of), ListLimit) :
       inquiry' = [inquiry EXCEPT !.shown = rows,
                     !.pc = IF inquiry.class = None THEN "reliability" ELSE "similar"]

GetSimilarEquipmentFailures ==
  /\ inquiry.pc = "similar"
  /\ \E rows \in Newest(SimilarRows(inquiry.class, inquiry.of), ListLimit) :
       inquiry' = [inquiry EXCEPT !.similar = rows, !.pc = "reliability"]

GetEquipmentReliability ==
  /\ inquiry.pc = "reliability"
  /\ inquiry' = [inquiry EXCEPT !.pc = "done", !.end = hour,
                   !.figures = [u \in {inquiry.of} |-> FiguresOf(OfUnit(u))]]

-----------------------------------------------------------------------------
(* The reliability page: GET /failure-events, then GET /reliability/fleet  *)
(* or GET /reliability/asset/{asset_id}.                                   *)

ListFailureEvents ==
  /\ inquiry.pc = "idle"
  /\ \E request \in Requests :
       LET who == ResolveIdentity(request)
           tenant == TenantScope(who, None)
       IN  /\ Authenticated(who)
           /\ \E rows \in Newest({f \in failures : tenant = None \/ f.tenant = tenant},
                                 ListLimit) :
                inquiry' = [inquiry EXCEPT !.pc = "listed", !.who = who, !.shown = rows]

\* fleet_reliability, grouped by equipment unit.
GetFleetReliability ==
  /\ inquiry.pc = "listed"
  /\ \E class \in {None} \cup DOMAIN Upper :
       LET rows == FleetRows(TenantScope(inquiry.who, None), class)
       IN  inquiry' = [inquiry EXCEPT !.pc = "done", !.page = "fleet", !.end = hour,
                         !.class = class,
                         !.figures = [u \in {f.unit : f \in rows} |->
                                        FiguresOf({f \in rows : f.unit = u})]]

\* get_asset_reliability: the alarms are asked only without a failure event.
GetAssetReliability ==
  /\ inquiry.pc = "listed"
  /\ \E x \in Alarms :
       LET asked == [inquiry EXCEPT !.page = "asset", !.of = x.asset, !.end = hour]
       IN  inquiry' = IF OfAsset(x.asset) = {} THEN [asked EXCEPT !.pc = "legacy"]
                      ELSE [asked EXCEPT !.pc = "done",
                              !.figures = [a \in {x.asset} |-> FiguresOf(OfAsset(a))]]

QueryLegacyFailures ==
  /\ inquiry.pc = "legacy"
  /\ inquiry' = [inquiry EXCEPT !.pc = "done",
                   !.figures = [a \in {inquiry.of} |-> FiguresOf(LegacyFailures(a))]]

\* No query is guarded: whichever fails, the answer is 500.
InquiryFails ==
  /\ Changed
  /\ inquiry.pc \notin {"idle", "done", "failed"}
  /\ inquiry' = [inquiry EXCEPT !.pc = "failed"]
  /\ UNCHANGED <<units, failures, alarms, hour>>

InquiryStep ==
  /\ \/ AskContext \/ GetHierarchyContext \/ GetFailureHistory
     \/ GetSimilarEquipmentFailures \/ GetEquipmentReliability
     \/ ListFailureEvents \/ GetFleetReliability
     \/ GetAssetReliability \/ QueryLegacyFailures
  /\ UNCHANGED <<units, failures, alarms, hour, changes>>

RegistryNext ==
  \/ CreateFailureEvent \/ UpsertEquipment \/ RaiseAlarm \/ HourPasses
  \/ InquiryStep \/ InquiryFails

-----------------------------------------------------------------------------
(* Properties.                                                             *)

\* An availability is above 0, at most 1, and no more than the share of the
\* window the known downtimes leave; it is that share when every downtime is
\* known.  Downtimes that overlap, exceed the window or are below zero do not
\* bend it (calculate_reliability).
AvailabilityHonest ==
  \A u \in DOMAIN inquiry.figures :
    LET r == inquiry.figures[u]
        a == r.availability
    IN  a # NoValue =>
          /\ 0 < a[1] /\ a[1] <= a[2]
          /\ a[1] * Observed <= r.operating * a[2]
          /\ r.known = r.count => a[1] * Observed = r.operating * a[2]

\* A failure a reader was shown, which is still in the window when the figures
\* are computed, is among those the figures of its unit count: in the context
\* of a unit, and on a page that lists events beside the figures of the whole
\* fleet (assemble_rca_context, fleet_reliability).
ShownIsCounted ==
  inquiry.pc = "done" /\ (inquiry.page = "fleet" => inquiry.class = None)
                      /\ inquiry.page # "asset" =>
    \A u \in {f.unit : f \in inquiry.shown} \ {None} :
      LET due == {f \in inquiry.shown : f.unit = u /\ f.start # NoValue
                                        /\ f.start >= inquiry.end - Observed}
      IN  due # {} => u \in DOMAIN inquiry.figures
                      /\ inquiry.figures[u].count >= Cardinality(due)
=============================================================================

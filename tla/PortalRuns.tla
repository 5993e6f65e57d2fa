----------------------------- MODULE PortalRuns ------------------------------
(***************************************************************************)
(* The run summaries of api/portal.py.  runner/summaries.py writes a run's *)
(* summary by opening its file for writing, which empties it, and dumping  *)
(* JSON into it; the portal lists the directory, newest first, and opens   *)
(* one file after the other.  Nothing locks a file, so a reader may find   *)
(* one half written, and one whose writer was killed stays so.             *)
(*                                                                         *)
(* A run's id is fresh and its file is written once.  The repair plan that *)
(* a summary names is in Postgres, where people may delete it, and the     *)
(* page of a run looks it up there: the plan, and then its parts.          *)
(***************************************************************************)
EXTENDS Integers, FiniteSets, SequencesExt, Identity

CONSTANTS Run,       \* run ids
          AssetOf,   \* the asset of a run
          OrgOf,     \* the org its event belongs to, or None
          PlanOf,    \* whether the RCA drafts a repair plan
          Reader,    \* requests to the portal
          MaxWrites, \* bound: summaries written
          MaxLimit   \* bound on the limit of a list

VARIABLES files,   \* the summary of each run: its content and its mtime
          plans,   \* runs whose repair plan is in the database
          deleted, \* runs whose plan people have deleted
          clock,   \* summaries written
          reader   \* what each request has read so far

portalVars == <<files, plans, deleted, clock, reader>>

\* content: "none" (no file), "partial" or "whole"; plan: the file names one.
NoFile == [content |-> "none", mtime |-> 0, plan |-> FALSE]

NewReader == [pc |-> "idle", what |-> "none", arg |-> None, who |-> NobodyHere,
              limit |-> 0, todo |-> <<>>, seen |-> <<>>, answer |-> 0,
              before |-> [r \in Run |-> NoFile], shown |-> "nothing"]

PortalInit ==
  /\ files = [r \in Run |-> NoFile]
  /\ plans = {} /\ deleted = {}
  /\ clock = 0
  /\ reader = [q \in Reader |-> NewReader]

-----------------------------------------------------------------------------
(* The RCA agent: the plan and its parts are committed (or their loss      *)
(* logged) before the summary that names the plan is written.              *)

WasStored(r) == r \in plans \cup deleted

PersistPlan(r) ==
  /\ PlanOf[r] /\ files[r].content = "none" /\ ~WasStored(r)
  /\ plans' = plans \cup {r}
  /\ UNCHANGED <<files, deleted, clock, reader>>

Open(r, named) ==
  /\ files[r].content = "none" /\ clock < MaxWrites
  /\ clock' = clock + 1
  /\ files' = [files EXCEPT ![r] = [content |-> "partial", mtime |-> clock + 1,
                                    plan |-> named]]
  /\ UNCHANGED <<plans, deleted, reader>>

\* Mutant: the summary names the plan whether it was stored or not.
OpenSummary_AheadOfPlan(r) == Open(r, PlanOf[r])

OpenSummary(r) == Open(r, WasStored(r))

\* The last of the JSON is flushed, which also sets the time.
CloseSummary(r) ==
  /\ files[r].content = "partial"
  /\ clock' = clock + 1
  /\ files' = [files EXCEPT ![r].content = "whole", ![r].mtime = clock + 1]
  /\ UNCHANGED <<plans, deleted, reader>>

WriterStep == \E r \in Run : PersistPlan(r) \/ OpenSummary(r) \/ CloseSummary(r)

\* DELETE /api/v1/repair-plans: the plan goes and its parts with it.
DeletePlan(r) ==
  /\ r \in plans
  /\ plans' = plans \ {r} /\ deleted' = deleted \cup {r}
  /\ UNCHANGED <<files, clock, reader>>

-----------------------------------------------------------------------------
(* The requests.                                                           *)

ListRunFiles_ByName == \* mutant: in the order of their names
  SetToSeq({r \in Run : files[r].content # "none"})

\* _list_run_files: the paths, newest first, as stat() finds them now.
ListRunFiles ==
  LET found == {r \in Run : files[r].content # "none"}
  IN  CHOOSE s \in [1..Cardinality(found) -> found] :
        /\ \A r \in found : \E i \in DOMAIN s : s[i] = r
        /\ \A i, j \in DOMAIN s : i < j => files[s[i]].mtime > files[s[j]].mtime

Ask(q, what, arg, limit) ==
  /\ reader[q].pc = "idle"
  /\ \E request \in Requests :
       LET who == ResolveIdentity(request)
       IN  reader' = [reader EXCEPT ![q] =
             [NewReader EXCEPT
                !.pc = IF Authenticated(who) THEN "scan" ELSE "done",
                !.answer = IF Authenticated(who) THEN 0 ELSE 403,
                !.what = what, !.arg = arg, !.who = who, !.limit = limit,
                !.todo = ListRunFiles, !.before = files]]
  /\ UNCHANGED <<files, plans, deleted, clock>>

RecentRuns(q) == \E limit \in 1..MaxLimit : Ask(q, "recent", None, limit)

LatestRunForAsset(q) == \E a \in {AssetOf[r] : r \in Run} : Ask(q, "latest", a, 1)

RunDetails(q) == \E r \in Run : Ask(q, "details", r, 1)

Visible(q, r) == IdentityMatchesScope(reader[q].who, OrgOf[r], None)

\* Whether a listing shows the run it has just read.
Wanted(q, r) ==
  CASE reader[q].what = "recent" -> Visible(q, r)
    [] reader[q].what = "latest" -> AssetOf[r] = reader[q].arg /\ Visible(q, r)

Reply(q, code, seen, shown) ==
  reader' = [reader EXCEPT ![q] =
    [@ EXCEPT !.pc = "done", !.answer = code, !.seen = seen, !.todo = <<>>, !.shown = shown]]

GoOn(q, what) == reader' = [reader EXCEPT ![q].pc = what]

PassOver(q) == reader' = [reader EXCEPT ![q].todo = Tail(@)]

Next1(q) == Head(reader[q].todo)

Scanning(q) == reader[q].pc = "scan" /\ reader[q].todo # <<>>

\* recent_runs and latest_run_for_asset: a file that does not parse is
\* passed over.
LoadListed(q) ==
  /\ Scanning(q) /\ reader[q].what \in {"recent", "latest"}
  /\ LET r == Next1(q)
         seen == Append(reader[q].seen, r)
     IN  IF files[r].content # "whole" \/ ~Wanted(q, r) THEN PassOver(q)
         ELSE IF Len(seen) >= reader[q].limit THEN Reply(q, 200, seen, "nothing")
         ELSE reader' = [reader EXCEPT ![q].todo = Tail(@), ![q].seen = seen]
  /\ UNCHANGED <<files, plans, deleted, clock>>

\* run_details: the file of that name, 422 when it does not parse, 403 when
\* it is another tenant's; then the repair plan it names is looked up.
LoadDetails(q) ==
  /\ Scanning(q) /\ reader[q].what = "details"
  /\ LET r == Next1(q)
     IN  CASE r # reader[q].arg -> PassOver(q)
           [] r = reader[q].arg /\ files[r].content # "whole" -> Reply(q, 422, <<>>, "nothing")
           [] r = reader[q].arg /\ files[r].content = "whole" /\ ~Visible(q, r) ->
                Reply(q, 403, <<>>, "nothing")
           [] OTHER -> IF files[r].plan THEN GoOn(q, "plan")
                       ELSE Reply(q, 200, <<r>>, "nothing")
  /\ UNCHANGED <<files, plans, deleted, clock>>

\* The page of the run, with what it shows of the plan.  The plan's org is
\* the run's: its scope is checked again and lets pass whom the run's did.
Page(q, shown) ==
  /\ Reply(q, 200, <<reader[q].arg>>, shown)
  /\ UNCHANGED <<files, plans, deleted, clock>>

\* _load_persisted_repair_plan, each look-up in a transaction of its own: of
\* a plan that is not there the page has but the id the summary names, ...
LookUpPlan(q) ==
  /\ reader[q].pc = "plan"
  /\ \/ /\ reader[q].arg \in plans
        /\ GoOn(q, "parts")
        /\ UNCHANGED <<files, plans, deleted, clock>>
     \/ reader[q].arg \notin plans /\ Page(q, "its id")

\* ... of one that is deleted now what the first look-up found, without
\* parts, ...
LookUpParts(q) ==
  /\ reader[q].pc = "parts"
  /\ Page(q, IF reader[q].arg \in plans THEN "all of it" ELSE "no parts")

\* ... and when a look-up fails a notice that it did.
LookUpFails(q) ==
  /\ reader[q].pc \in {"plan", "parts"}
  /\ Page(q, "load error")

\* The files are read: an empty list is an answer, a run not found is 404.
EndOfFiles(q) ==
  /\ reader[q].pc = "scan" /\ reader[q].todo = <<>>
  /\ Reply(q, IF reader[q].what = "recent" THEN 200 ELSE 404, reader[q].seen, "nothing")
  /\ UNCHANGED <<files, plans, deleted, clock>>

ReaderStep(q) ==
  \/ RecentRuns(q) \/ LatestRunForAsset(q) \/ RunDetails(q)
  \/ LoadListed(q) \/ LoadDetails(q) \/ EndOfFiles(q)
  \/ LookUpPlan(q) \/ LookUpParts(q) \/ LookUpFails(q)

PortalNext ==
  \/ WriterStep \/ \E r \in Run : DeletePlan(r)
  \/ \E q \in Reader : ReaderStep(q)

-----------------------------------------------------------------------------
Replied(q, what, code) ==
  reader[q].pc = "done" /\ reader[q].what = what /\ reader[q].answer = code

\* The latest run of an asset is the newest one the caller could have been
\* shown when the request came, whatever was being written: no run that was
\* whole by then is newer.  (latest_run_for_asset)
LatestIsNewest ==
  \A q \in Reader :
    Replied(q, "latest", 200)
      => \A r \in Run :
           /\ reader[q].before[r].content = "whole"
           /\ AssetOf[r] = reader[q].arg
           /\ Visible(q, r)
           => reader[q].before[r].mtime <= reader[q].before[reader[q].seen[1]].mtime

\* The page of a run that names a repair plan shows all of the plan or says
\* that the look-up failed, unless people have deleted the plan: it never
\* names one that was not stored, nor leaves parts out that are there.
\* (process_event's order, _load_persisted_repair_plan's two look-ups)
PlanMissingWasDeleted ==
  \A q \in Reader :
    Replied(q, "details", 200) /\ reader[q].before[reader[q].arg].plan
      => reader[q].shown \in {"all of it", "load error"} \/ reader[q].arg \in deleted
=============================================================================

---------------------------- MODULE CmmsIngestion -----------------------------
(***************************************************************************)
(* ingestion/pipeline.py: run_ingestion copies equipment, failure events   *)
(* and work orders from a CMMS into Postgres.  One transaction spans the   *)
(* three; an exception of one row's INSERT is logged and the next row      *)
(* tried.  POST /api/v1/connectors/sync starts it in a pool thread, and    *)
(* nothing keeps two syncs of one source apart.                            *)
(*                                                                         *)
(* What Postgres does with it: a statement it refuses aborts the           *)
(* transaction and frees its locks, every later statement fails at once,   *)
(* and COMMIT then rolls back without an error.  A row another transaction *)
(* has written makes a statement wait; of transactions that wait for each  *)
(* other one is refused its statement.                                     *)
(*                                                                         *)
(* A record is its version: 0 when there is none, and the CMMS counts up   *)
(* when it changes one.                                                    *)
(***************************************************************************)
EXTENDS Integers, FiniteSets

CONSTANTS Equipment, Failure, WorkOrder, \* keys of each table
          Sync,       \* requests that may run at once
          NoSync, NoKey,
          MaxChanges, \* bound: records the CMMS changes
          MaxSyncs,   \* bound: syncs started
          MaxFaults   \* bound: rows in trouble, connections lost

Key == Equipment \cup Failure \cup WorkOrder

Version == 0..(1 + MaxChanges)

ASSUME IngestionAssumption ==
  /\ NoKey \notin Key /\ NoSync \notin Sync
  /\ Equipment \cap (Failure \cup WorkOrder) = {} /\ Failure \cap WorkOrder = {}
  /\ MaxChanges \in Nat /\ MaxSyncs \in Nat /\ MaxFaults \in Nat

VARIABLES source,  \* the CMMS's records
          changes, \* records changed so far
          stored,  \* the committed rows
          holder,  \* the sync whose open transaction has written a row
          job,     \* run_ingestion's locals and its transaction
          syncs,   \* syncs started
          faults,  \* faults so far
          newer    \* keys committed by others since a sync fetched

vars == <<source, changes, stored, holder, job, syncs, faults, newer>>

Kind == [equipment |-> Equipment, failures |-> Failure, orders |-> WorkOrder]

\* The places before each fetch, and the one after the last kind.
After == [equipment |-> "failures", failures |-> "orders", orders |-> "commit"]

Kinds == {"equipment", "failures", "orders"}

\* at: the row whose INSERT is under way, of those still to do; got: what
\* was fetched; counted: the rows of the three counts; wrote: those the
\* transaction changed; unsent: those psycopg2 could not adapt.
Job == [pc : {"idle", "fetch", "persist", "commit"}, kind : Kinds \cup {"commit"},
        at : Key \cup {NoKey}, todo : SUBSET Key, got : [Key -> Version],
        fetched : SUBSET Key, counted : SUBSET Key, wrote : SUBSET Key,
        unsent : SUBSET Key, tx : {"open", "aborted", "closed"},
        report : {"none", "ok", "error"}, kept : BOOLEAN]

Nothing == [k \in Key |-> 0]

NewJob == [pc |-> "fetch", kind |-> "equipment", at |-> NoKey, todo |-> {},
           got |-> Nothing, fetched |-> {}, counted |-> {}, wrote |-> {},
           unsent |-> {}, tx |-> "open", report |-> "none", kept |-> FALSE]

Init ==
  /\ source \in [Key -> 0..1]
  /\ changes = 0
  /\ stored = Nothing
  /\ holder = [k \in Key |-> NoSync]
  /\ job = [s \in Sync |-> [NewJob EXCEPT !.pc = "idle"]]
  /\ syncs = 0 /\ faults = 0
  /\ newer = [s \in Sync |-> {}]

Freed(s) == [k \in Key |-> IF holder[k] = s THEN NoSync ELSE holder[k]]

SomethingFails == faults < MaxFaults /\ faults' = faults + 1

\* The CMMS goes on, under a running sync too.
SourceChanges(k) ==
  /\ changes < MaxChanges
  /\ changes' = changes + 1
  /\ source' = [source EXCEPT ![k] = @ + 1]
  /\ UNCHANGED <<stored, holder, job, syncs, faults, newer>>

Start(s) ==
  /\ job[s].pc = "idle" /\ syncs < MaxSyncs
  /\ syncs' = syncs + 1
  /\ job' = [job EXCEPT ![s] = NewJob]
  /\ UNCHANGED <<source, changes, stored, holder, faults, newer>>

\* What is left of a job when its thread returns the result.
Ended(s, report, kept) ==
  [NewJob EXCEPT !.pc = "idle", !.report = report, !.kept = kept, !.fetched = job[s].fetched,
                 !.counted = job[s].counted, !.unsent = job[s].unsent]

\* The exception handler of run_ingestion; closing the connection rolls back.
Fails(s) ==
  /\ job' = [job EXCEPT ![s] = Ended(s, "error", FALSE)]
  /\ holder' = Freed(s)
  /\ newer' = [newer EXCEPT ![s] = {}]

\* The next row of a kind in any order, the next kind, or leaving `with conn'.
Onward(j) ==
  IF j.todo # {} THEN {[j EXCEPT !.pc = "persist", !.at = k, !.todo = @ \ {k}] : k \in j.todo}
  ELSE LET next == After[j.kind]
       IN {[j EXCEPT !.pc = IF next = "commit" THEN "commit" ELSE "fetch", !.kind = next,
                     !.at = NoKey]}

GoesOn(s, j) == \E n \in Onward(j) : job' = [job EXCEPT ![s] = n]

-----------------------------------------------------------------------------
(* A kind of records is fetched.                                           *)

Fetch_Early(s) == \* mutant: all three lists are fetched before the first is stored
  /\ job[s].pc = "fetch" /\ job[s].tx # "closed"
  /\ LET lists == IF job[s].kind = "equipment" THEN source ELSE job[s].got
         present == {k \in Kind[job[s].kind] : lists[k] # 0}
     IN GoesOn(s, [job[s] EXCEPT !.todo = present, !.fetched = @ \cup present, !.got = lists])
  /\ newer' = [newer EXCEPT ![s] = @ \ Kind[job[s].kind]]
  /\ UNCHANGED <<source, changes, stored, holder, syncs, faults>>

Fetch(s) ==
  /\ job[s].pc = "fetch" /\ job[s].tx # "closed"
  /\ LET present == {k \in Kind[job[s].kind] : source[k] # 0}
     IN GoesOn(s, [job[s] EXCEPT !.todo = present, !.fetched = @ \cup present,
                     !.got = [k \in Key |-> IF k \in present THEN source[k] ELSE @[k]]])
  /\ newer' = [newer EXCEPT ![s] = @ \ Kind[job[s].kind]]
  /\ UNCHANGED <<source, changes, stored, holder, syncs, faults>>

\* The adapter swallows an HTTP error and returns an empty list.
FetchEmpty(s) ==
  /\ job[s].pc = "fetch" /\ job[s].tx # "closed"
  /\ GoesOn(s, job[s])
  /\ UNCHANGED <<source, changes, stored, holder, syncs, faults, newer>>

\* An unknown source or no connection at first; later a record that is no
\* object, code maps that cannot be read, or a cursor of a connection that is
\* gone.
FetchRaises(s) ==
  /\ job[s].pc = "fetch"
  /\ Fails(s)
  /\ UNCHANGED <<source, changes, stored, syncs, faults>>

-----------------------------------------------------------------------------
(* Its rows are persisted, each by _persist_*'s loop body.                 *)

Inserting(s) == job[s].pc = "persist"

Blocked(s) ==
  Inserting(s) /\ job[s].tx = "open" /\ holder[job[s].at] \notin {s, NoSync}

\* A work order is updated; a failure event that is there is left alone.
\* Equipment never gets here: no adapter sets system_id, a NOT NULL column.
Insert(s) ==
  /\ Inserting(s) /\ job[s].tx = "open" /\ ~Blocked(s) /\ job[s].at \notin Equipment
  /\ LET k == job[s].at
         writes == ~(k \in Failure /\ stored[k] # 0)
     IN /\ GoesOn(s, [job[s] EXCEPT !.counted = @ \cup {k},
                        !.wrote = IF writes THEN @ \cup {k} ELSE @])
        /\ holder' = IF writes THEN [holder EXCEPT ![k] = s] ELSE holder
  /\ UNCHANGED <<source, changes, stored, syncs, faults, newer>>

\* Each member of a set of syncs waits for another one of it.
Deadlocked(s) ==
  \E S \in SUBSET Sync :
    s \in S /\ \A q \in S : Blocked(q) /\ holder[job[q].at] \in S

Refused_Savepoint(s) == \* mutant: each row has a savepoint of its own
  /\ Inserting(s) /\ job[s].tx = "open"
  /\ \/ (job[s].at \in Equipment \/ Deadlocked(s)) /\ UNCHANGED faults
     \/ SomethingFails
  /\ GoesOn(s, job[s])
  /\ UNCHANGED <<source, changes, stored, holder, syncs, newer>>

Refused(s) ==
  /\ Inserting(s) /\ job[s].tx = "open"
  /\ \/ (job[s].at \in Equipment \/ Deadlocked(s)) /\ UNCHANGED faults
     \/ SomethingFails
  /\ GoesOn(s, [job[s] EXCEPT !.wrote = {}, !.tx = "aborted"])
  /\ holder' = Freed(s)
  /\ UNCHANGED <<source, changes, stored, syncs, newer>>

FailsAtOnce_Again(s) == \* mutant: the row is tried until it succeeds
  /\ Inserting(s) /\ job[s].tx # "open"
  /\ UNCHANGED vars

\* InFailedSqlTransaction, InterfaceError: logged as rows skipped.
FailsAtOnce(s) ==
  /\ Inserting(s) /\ job[s].tx # "open"
  /\ GoesOn(s, job[s])
  /\ UNCHANGED <<source, changes, stored, holder, syncs, faults, newer>>

Unsendable_Counted(s) == \* mutant: the row is counted before it is executed
  /\ Inserting(s) /\ SomethingFails
  /\ GoesOn(s, [job[s] EXCEPT !.unsent = @ \cup {job[s].at}, !.counted = @ \cup {job[s].at}])
  /\ UNCHANGED <<source, changes, stored, holder, syncs, newer>>

\* A value psycopg2 cannot adapt: the server sees nothing of the row.
Unsendable(s) ==
  /\ Inserting(s) /\ SomethingFails
  /\ GoesOn(s, [job[s] EXCEPT !.unsent = @ \cup {job[s].at}])
  /\ UNCHANGED <<source, changes, stored, holder, syncs, newer>>

ConnectionLost(s) ==
  /\ job[s].pc # "idle" /\ job[s].tx # "closed" /\ SomethingFails
  /\ job' = [job EXCEPT ![s] = [@ EXCEPT !.wrote = {}, !.tx = "closed"]]
  /\ holder' = Freed(s)
  /\ UNCHANGED <<source, changes, stored, syncs, newer>>

-----------------------------------------------------------------------------
(* with conn, on leaving it.                                               *)

Kept(s) == [k \in Key |-> IF k \in job[s].wrote THEN job[s].got[k] ELSE stored[k]]

\* The COMMIT has reached the server; its answer the client, or not.
Commit(s) ==
  /\ job[s].pc = "commit" /\ job[s].tx = "open"
  /\ stored' = Kept(s)
  /\ newer' = [q \in Sync |-> IF q = s \/ job[q].pc = "idle" THEN {}
                              ELSE newer[q] \cup job[s].wrote]
  /\ holder' = Freed(s)
  /\ \/ job' = [job EXCEPT ![s] = Ended(s, "ok", TRUE)] /\ UNCHANGED faults
     \/ job' = [job EXCEPT ![s] = Ended(s, "error", TRUE)] /\ SomethingFails
  /\ UNCHANGED <<source, changes, syncs>>

\* COMMIT of an aborted transaction rolls back, and psycopg2 says nothing.
CommitAborted(s) ==
  /\ job[s].pc = "commit" /\ job[s].tx = "aborted"
  /\ job' = [job EXCEPT ![s] = Ended(s, "ok", FALSE)]
  /\ newer' = [newer EXCEPT ![s] = {}]
  /\ UNCHANGED <<source, changes, stored, holder, syncs, faults>>

CommitRaises(s) ==
  /\ job[s].pc = "commit" /\ job[s].tx = "closed"
  /\ Fails(s)
  /\ UNCHANGED <<source, changes, stored, syncs, faults>>

SyncStep(s) ==
  \/ Fetch(s) \/ FetchEmpty(s) \/ FetchRaises(s)
  \/ Insert(s) \/ Refused(s) \/ FailsAtOnce(s) \/ Unsendable(s)
  \/ Commit(s) \/ CommitAborted(s) \/ CommitRaises(s)

Next ==
  \/ \E s \in Sync : Start(s) \/ SyncStep(s) \/ ConnectionLost(s)
  \/ \E k \in Key : SourceChanges(k)

Spec == Init /\ [][Next]_vars

\* A thread of the pool goes on, and the server sees to deadlocks.
FairSpec == Spec /\ \A s \in Sync : WF_vars(SyncStep(s))

-----------------------------------------------------------------------------

TypeOK ==
  /\ source \in [Key -> Version] /\ changes \in 0..MaxChanges
  /\ stored \in [Key -> Version]
  /\ holder \in [Key -> Sync \cup {NoSync}]
  /\ job \in [Sync -> Job]
  /\ syncs \in 0..MaxSyncs /\ faults \in 0..MaxFaults
  /\ newer \in [Sync -> SUBSET Key]

\* A sync is stored whole or not at all: a commit that took effect lost none
\* of the rows fetched, except those that could not be sent, so the three
\* tables never hold a part of one.  (run_ingestion's one transaction)
StoredWhole ==
  \A s \in Sync :
    job[s].kept => job[s].fetched = job[s].counted \cup job[s].unsent

\* The counts of a sync that was stored count rows that are there.
\* (_persist_*'s return values)
CountedIsThere ==
  \A s \in Sync : job[s].kept => \A k \in job[s].counted : stored[k] # 0

\* A failure event is imported once; a later sync, or one at the same time,
\* changes none of it.  (ON CONFLICT DO NOTHING)
FirstReportStays ==
  [][\A k \in Failure : stored[k] # 0 => stored'[k] = stored[k]]_vars

\* A sync takes a work order back to an older state only if another sync
\* has stored it since the first one fetched.  (run_ingestion, no lock)
OnlyOverlapRegresses ==
  [][\A k \in WorkOrder : stored'[k] < stored[k] =>
       \E s \in Sync : job[s].pc = "commit" /\ k \in job[s].wrote \cap newer[s]]_vars

\* A sync that has started ends, whatever refuses its rows and whichever
\* other sync it waits for.  (run_ingestion)
SyncsEnd == \A s \in Sync : job[s].pc # "idle" ~> job[s].pc = "idle"

\* "Fetches equipment, failure events, and work orders ..., normalizes to
\* canonical schema, and persists to DB": if it reports no error, the work
\* orders it fetched are stored.  (run_ingestion's docstring)
SuccessPersists ==
  \A s \in Sync :
    job[s].report = "ok" => \A k \in job[s].fetched \cap WorkOrder : stored[k] # 0
=============================================================================

------------------------------- MODULE RcaAgent -------------------------------
(***************************************************************************)
(* services/rca_agent.py: the consumer of canonical.event.raised that has  *)
(* a language model explain every alarm and anomaly.  For each it sends a  *)
(* recommendation, stores the model's repair plan and a failure event, and *)
(* writes a run summary, the file from which the console and the approval  *)
(* API know the recommendation.  Five stores, no transaction over them.    *)
(*                                                                         *)
(* Beside it, api/repair_plan.py: people create, extend and delete plans.  *)
(*                                                                         *)
(* The consumer is like the other services': position advances when a      *)
(* message is handed over, auto-commit runs inside poll, close() commits.  *)
(* It keeps the client's default limit on the time between two polls,      *)
(* which a batch of slow analyses may outlast: then the group gives the    *)
(* partition back to the live agent at the committed offset.               *)
(***************************************************************************)
EXTENDS Sequences, FiniteSets, RepairPlans

CONSTANTS Event,       \* event ids
          Actionable,  \* those whose kind is alarm or anomaly
          Topic,       \* the partition: the event of each message
          Deployments, \* the settings an agent may run with
          BrokerLoses, \* flush() may return although a record was not delivered
          NoId,        \* no recommendation is in hand
          Manual,      \* ids of the plans people create
          SendTries,   \* send_recommendation's max_tries
          MaxParts,    \* bound: parts in one repair plan
          MaxStops,    \* bound: stop signals
          MaxFaults    \* bound: kills, lost sessions, failing commits and summaries

\* A recommendation's id is fresh on every delivery: the n-th of its event.
\* (A uuid; the plan it leads to is named by it too.)
Recommendation == Event \X (Nat \ {0})

ASSUME AgentAssumption ==
  /\ Actionable \subseteq Event
  /\ Topic \in Seq(Event)
  /\ Deployments \subseteq [gateway : BOOLEAN, edge : BOOLEAN]
  /\ BrokerLoses \in BOOLEAN
  /\ \A m \in Manual \cup {NoId} : m \notin Recommendation
  /\ SendTries \in Nat \ {0}
  /\ MaxParts \in Nat /\ MaxStops \in Nat /\ MaxFaults \in Nat

VARIABLES settings,  \* OPENAI_API_KEY is set, edge_mode_enabled: never changed
          pc,        \* where the loop is
          position,  \* messages handed to the loop so far
          committed, \* committed offset of group agent-rca
          stopping,  \* shutdown_requested
          stops,     \* stop signals so far
          hand,      \* process_event's locals
          made,      \* recommendation ids made for an event
          sent,      \* canonical.recommendation.created
          failure_events, \* rows FE-RCA-<event>: the event and who wrote it
          summaries, \* run summaries: the recommendation, and the plan if named
          skipped,   \* events logged as rca_agent.processing_error
          faults     \* faults so far

offsets == <<position, committed>>
outputs == <<planVars, sent, failure_events, summaries, skipped>>
vars == <<settings, pc, offsets, stopping, stops, hand, made, outputs, faults>>

Modes == {"genai", "genai error", "local-deterministic", "stub"}

Places == {"poll", "infer", "send", "plan", "parts", "failure event", "summary", "stopped"}

\* has: the model's repair plan has content, with so many parts; added of
\* them are stored; persisted: _persist_repair_plan has returned the plan.
Hand == [id : Recommendation \cup {NoId}, mode : Modes, tries : 0..SendTries,
         has : BOOLEAN, parts : 0..MaxParts, added : 0..MaxParts, persisted : BOOLEAN]

Empty == [id |-> NoId, mode |-> "stub", tries |-> 0,
          has |-> FALSE, parts |-> 0, added |-> 0, persisted |-> FALSE]

Init ==
  /\ PlansInit
  /\ settings \in Deployments
  /\ pc = "poll" /\ position = 0 /\ committed = 0
  /\ stopping = FALSE /\ stops = 0
  /\ hand = Empty
  /\ made = [e \in Event |-> 0]
  /\ sent = {} /\ failure_events = {} /\ summaries = {} /\ skipped = {}
  /\ faults = 0

Current == Topic[position]

-----------------------------------------------------------------------------
(* The loop.                                                               *)

AutoCommit_Anytime == \* mutant: committed in the background, the message in hand too
  /\ pc # "stopped" /\ committed < position
  /\ committed' = position
  /\ UNCHANGED <<pc, position, stopping, stops, hand, made, outputs, faults>>

AutoCommit ==
  /\ pc = "poll" /\ committed < position
  /\ committed' = position
  /\ UNCHANGED <<pc, position, stopping, stops, hand, made, outputs, faults>>

Poll ==
  /\ pc = "poll" /\ ~stopping /\ position < Len(Topic)
  /\ position' = position + 1
  /\ pc' = IF Topic[position'] \in Actionable THEN "infer" ELSE "poll"
  /\ UNCHANGED <<committed, stopping, stops, hand, made, outputs, faults>>

\* A stop is seen when the next message arrives; close() commits past it.
PollStops_NoCommit == \* mutant: close() does not commit
  /\ pc = "poll" /\ stopping /\ position < Len(Topic)
  /\ position' = position + 1
  /\ pc' = "stopped"
  /\ UNCHANGED <<committed, stopping, stops, hand, made, outputs, faults>>

PollStops ==
  /\ pc = "poll" /\ stopping /\ position < Len(Topic)
  /\ position' = position + 1
  /\ committed' = position'
  /\ pc' = "stopped"
  /\ UNCHANGED <<stopping, stops, hand, made, outputs, faults>>

SomethingFails ==
  /\ faults < MaxFaults
  /\ faults' = faults + 1

\* The client logs a commit that close() could not make, and goes on.
CloseCommitFails ==
  /\ pc = "poll" /\ stopping /\ position < Len(Topic)
  /\ SomethingFails
  /\ position' = position + 1
  /\ pc' = "stopped"
  /\ UNCHANGED <<committed, stopping, stops, hand, made, outputs>>

\* The agent has lost its session; the commit made on rejoining is refused.
Rebalanced ==
  /\ pc = "poll" /\ committed < position
  /\ SomethingFails
  /\ position' = committed
  /\ UNCHANGED <<pc, committed, stopping, stops, hand, made, outputs>>

Done == pc' = "poll" /\ hand' = Empty

\* The exception is logged and the next event taken.
Skip == Done /\ skipped' = skipped \cup {Current}

-----------------------------------------------------------------------------
(* _resolve_inference.                                                     *)

ModesPossible ==
  IF settings.gateway
  THEN {"genai"} \cup (IF settings.edge THEN {"local-deterministic"} ELSE {"genai error"})
  ELSE IF settings.edge THEN {"local-deterministic"} ELSE {"stub"}

\* Only the model's own structured answer has a repair plan with content.
Infer ==
  /\ pc = "infer"
  /\ made' = [made EXCEPT ![Current] = @ + 1]
  /\ \E mode \in ModesPossible, has \in BOOLEAN, n \in 0..MaxParts :
       /\ has => mode = "genai"
       /\ n > 0 => has
       /\ hand' = [Empty EXCEPT !.id = <<Current, made'[Current]>>, !.mode = mode,
                     !.tries = SendTries, !.has = has, !.parts = n]
  /\ pc' = "send"
  /\ UNCHANGED <<offsets, stopping, stops, outputs, faults>>

\* An answer of a shape nobody expects raises: one that is JSON but no
\* object in call_rca (where edge mode falls back), and causes or evidence
\* that are no lists of strings outside every try (where it does not).
InferRaises ==
  /\ pc = "infer" /\ settings.gateway
  /\ Skip
  /\ UNCHANGED <<offsets, stopping, stops, made, planVars, sent, failure_events, summaries, faults>>

-----------------------------------------------------------------------------
(* send_recommendation.                                                    *)

Send ==
  /\ pc = "send"
  /\ sent' = sent \cup {[id |-> hand.id, mode |-> hand.mode]}
  /\ pc' = "plan"
  /\ UNCHANGED <<offsets, stopping, stops, hand, made, planVars, failure_events, summaries, skipped, faults>>

\* The record's future fails and nobody asks it: flush() only waits.
SendLost ==
  /\ pc = "send" /\ BrokerLoses
  /\ pc' = "plan"
  /\ UNCHANGED <<offsets, stopping, stops, hand, made, outputs, faults>>

\* send() raises a KafkaError before the record is queued.  The decorator
\* tries again, unless its 30 s are over: send() may block for longer.
SendRaises ==
  /\ pc = "send"
  /\ \/ /\ hand.tries > 1
        /\ hand' = [hand EXCEPT !.tries = @ - 1]
        /\ UNCHANGED <<pc, skipped>>
     \/ Skip
  /\ UNCHANGED <<offsets, stopping, stops, made, planVars, sent, failure_events, summaries, faults>>

-----------------------------------------------------------------------------
(* _persist_repair_plan, each statement in a transaction of its own.       *)

NoPlan ==
  /\ pc = "plan" /\ ~hand.has
  /\ pc' = "failure event"
  /\ UNCHANGED <<offsets, stopping, stops, hand, made, outputs, faults>>

StorePlan_Returned == \* mutant: the plan counts as persisted before its parts are
  /\ pc = "plan" /\ hand.has
  /\ CreatePlan(hand.id)
  /\ hand' = [hand EXCEPT !.persisted = TRUE]
  /\ pc' = "parts"
  /\ UNCHANGED <<offsets, stopping, stops, made, sent, failure_events, summaries, skipped, faults>>

StorePlan ==
  /\ pc = "plan" /\ hand.has
  /\ CreatePlan(hand.id)
  /\ pc' = "parts"
  /\ UNCHANGED <<offsets, stopping, stops, hand, made, sent, failure_events, summaries, skipped, faults>>

StorePart ==
  /\ pc = "parts" /\ hand.added < hand.parts
  /\ AddPart(hand.id, hand.added + 1)
  /\ hand' = [hand EXCEPT !.added = @ + 1]
  /\ UNCHANGED <<pc, offsets, stopping, stops, made, sent, failure_events, summaries, skipped, faults>>

PlanStored ==
  /\ pc = "parts" /\ hand.added = hand.parts
  /\ hand' = [hand EXCEPT !.persisted = TRUE]
  /\ pc' = "failure event"
  /\ UNCHANGED <<offsets, stopping, stops, made, outputs, faults>>

PlanFails_Raises == \* mutant: the exception leaves process_event
  /\ (pc = "plan" /\ hand.has) \/ pc = "parts"
  /\ Skip
  /\ UNCHANGED <<offsets, stopping, stops, made, planVars, sent, failure_events, summaries, faults>>

PlanFails_Retries == \* mutant: a part is tried until its plan is there
  /\ pc = "plan" /\ hand.has
  /\ pc' = "failure event"
  /\ UNCHANGED <<offsets, stopping, stops, hand, made, outputs, faults>>

\* Whatever fails (the database, or a plan somebody has deleted) is logged;
\* what is stored of the plan stays, the last statement's row perhaps too.
PlanFails ==
  /\ (pc = "plan" /\ hand.has) \/ pc = "parts"
  /\ pc' = "failure event"
  /\ UNCHANGED <<offsets, stopping, stops, hand, made, outputs, faults>>

-----------------------------------------------------------------------------
(* _persist_failure_event, write_run_summary.                              *)

StoreFailureEvent ==
  /\ pc = "failure event"
  /\ failure_events' =
       IF \E f \in failure_events : f.event = Current THEN failure_events
       ELSE failure_events \cup {[event |-> Current, by |-> hand.id]}
  /\ pc' = "summary"
  /\ UNCHANGED <<offsets, stopping, stops, hand, made, planVars, sent, summaries, skipped, faults>>

FailureEventFails ==
  /\ pc = "failure event"
  /\ pc' = "summary"
  /\ UNCHANGED <<offsets, stopping, stops, hand, made, outputs, faults>>

WriteSummary ==
  /\ pc = "summary"
  /\ summaries' = summaries \cup {[id |-> hand.id, plan |-> hand.persisted, parts |-> hand.parts]}
  /\ Done
  /\ UNCHANGED <<offsets, stopping, stops, made, planVars, sent, failure_events, skipped, faults>>

SummaryFails ==
  /\ pc = "summary"
  /\ SomethingFails
  /\ Skip
  /\ UNCHANGED <<offsets, stopping, stops, made, planVars, sent, failure_events, summaries>>

-----------------------------------------------------------------------------
(* The process, and the people at the repair plans.                        *)

Signal ==
  /\ pc # "stopped" /\ ~stopping /\ stops < MaxStops
  /\ stopping' = TRUE
  /\ stops' = stops + 1
  /\ UNCHANGED <<pc, offsets, hand, made, outputs, faults>>

Killed ==
  /\ pc # "stopped"
  /\ SomethingFails
  /\ pc' = "stopped" /\ hand' = Empty
  /\ UNCHANGED <<offsets, stopping, stops, made, outputs>>

Restart ==
  /\ pc = "stopped"
  /\ position' = committed
  /\ pc' = "poll" /\ stopping' = FALSE
  /\ UNCHANGED <<committed, stops, hand, made, outputs, faults>>

\* POST, POST parts and DELETE of /api/v1/repair-plans.  The endpoints look
\* the plan up first; it is the write that decides.
PeopleAtPlans ==
  /\ \/ \E p \in Manual : p \notin repair_plan /\ CreatePlan(p)
     \/ \E p \in repair_plan : AddPart(p, 0) \/ DeletePlan(p)
  /\ UNCHANGED <<pc, offsets, stopping, stops, hand, made, sent, failure_events,
                 summaries, skipped, faults>>

ProcessEvent ==
  \/ Infer \/ InferRaises \/ Send \/ SendLost \/ SendRaises
  \/ NoPlan \/ StorePlan \/ StorePart \/ PlanStored \/ PlanFails
  \/ StoreFailureEvent \/ FailureEventFails \/ WriteSummary \/ SummaryFails

LoopStep == (Poll \/ PollStops \/ ProcessEvent) /\ UNCHANGED settings

Next ==
  \/ LoopStep
  \/ /\ \/ AutoCommit \/ CloseCommitFails \/ Rebalanced
        \/ Signal \/ Killed \/ Restart \/ PeopleAtPlans
     /\ UNCHANGED settings

Spec == Init /\ [][Next]_vars

\* The loop of a live process goes on; nobody need restart a stopped one.
FairSpec == Spec /\ WF_vars(LoopStep)

-----------------------------------------------------------------------------

TypeOK ==
  /\ PlansTypeOK(Recommendation \cup Manual)
  /\ settings \in Deployments
  /\ pc \in Places
  /\ position \in 0..Len(Topic) /\ committed \in 0..position
  /\ stopping \in BOOLEAN /\ stops \in 0..MaxStops
  /\ hand \in Hand
  /\ made \in [Event -> Nat]
  /\ sent \subseteq [id : Recommendation, mode : Modes]
  /\ failure_events \subseteq [event : Event, by : Recommendation]
  /\ summaries \subseteq [id : Recommendation, plan : BOOLEAN, parts : 0..MaxParts]
  /\ skipped \subseteq Event
  /\ faults \in 0..MaxFaults

\* A committed alarm has been analysed or is in the error log: a restart
\* forgets none, except the one message each graceful stop drops.
\* (rca_agent's break with a message in hand)
Passed == {i \in 1..committed :
             Topic[i] \in Actionable /\ made[Topic[i]] = 0 /\ Topic[i] \notin skipped}

CommittedHandled == Cardinality(Passed) <= stops

\* Every recommendation of the bridge's topic is one the approval API can
\* find, but for one per kill or failed write: it is sent before its run
\* summary exists.  (process_event)
Orphans == {s \in sent : s.id # hand.id /\ \A r \in summaries : r.id # s.id}

OrphansNeedFaults == Cardinality(Orphans) <= faults

\* An event is analysed again only because its offset was not committed in
\* time: once more per message and fault, that is per kill, lost session or
\* commit that close() failed to make.  (rca_agent's auto-commit)
Deliveries(e) == Cardinality({i \in 1..Len(Topic) : Topic[i] = e})

RepeatsNeedFaults == \A e \in Event : made[e] <= Deliveries(e) * (1 + faults)

\* A run summary names a plan only when all its parts were stored, and so
\* the plan it leads to is whole as long as nobody deletes it, whatever was
\* deleted or failed while the parts were stored.  (_persist_repair_plan)
NamedPlanIsWhole ==
  \A r \in summaries : r.plan /\ r.id \in repair_plan =>
    \A n \in 1..r.parts : <<r.id, n>> \in repair_part

\* However often an event is analysed it is one failure in the reliability
\* figures.  (_persist_failure_event's key)
OneFailurePerEvent ==
  \A f, g \in failure_events : f.event = g.event => f = g

\* A message that waits is handed over unless the agent stops: no failure
\* of a model, a store or a plan holds the loop up.  (rca_agent)
LoopGoesOn ==
  \A i \in 0..Len(Topic) :
    (position = i /\ i < Len(Topic)) ~> (position > i \/ pc = "stopped")
=============================================================================

--------------------------- MODULE RcaAgent_proofs ----------------------------
(***************************************************************************)
(* What holds of the RCA agent for every topic, deployment, number of      *)
(* faults and stops, and whatever the model answers and people do to       *)
(* repair plans.                                                           *)
(***************************************************************************)
EXTENDS RcaAgent, TLAPS, FiniteSetTheorems

-----------------------------------------------------------------------------
(* Types, and what is in hand where.                                       *)

InHand == {"send", "plan", "parts", "failure event", "summary"}

(***************************************************************************)
(* A message is in hand wherever an action uses Current, and it is not     *)
(* committed; a recommendation is in hand between its making and the end   *)
(* of process_event, and it is the last made for the current event.        *)
(***************************************************************************)
HandInv ==
  /\ pc \notin {"poll", "stopped"} =>
       /\ position \in 1..Len(Topic) /\ committed < position
       /\ Current \in Actionable
  /\ pc \in InHand => hand.id = <<Current, made[Current]>> /\ made[Current] \in Nat \ {0}
  /\ pc \notin InHand => hand = Empty
  /\ pc = "send" => hand.tries > 0

Typed == TypeOK /\ HandInv

\* What the proofs need of AgentAssumption.
LEMMA Bounds ==
  /\ Len(Topic) \in Nat /\ MaxParts \in Nat /\ MaxStops \in Nat /\ MaxFaults \in Nat
  /\ SendTries \in Nat /\ SendTries > 0
BY AgentAssumption DEF AgentAssumption

LEMMA TopicInEvent == \A i \in 1..Len(Topic) : Topic[i] \in Event
BY AgentAssumption DEF AgentAssumption

LEMMA EmptyHand == Empty \in Hand
BY Bounds DEF Empty, Hand, Modes

LEMMA InitTyped == Init => Typed
<1> SUFFICES ASSUME Init PROVE Typed
  OBVIOUS
<1>1. PlansTypeOK(Recommendation \cup Manual)
  BY DEF Init, PlansInit, PlansTypeOK
<1>2. position \in 0..Len(Topic) /\ committed \in 0..position /\ stops \in 0..MaxStops
      /\ faults \in 0..MaxFaults
  BY Bounds DEF Init
<1>3. TypeOK
  BY <1>1, <1>2, EmptyHand DEF Init, TypeOK, Places
<1>4. HandInv
  BY DEF Init, HandInv, InHand
<1> QED BY <1>3, <1>4 DEF Typed

\* An event that is over leaves nothing in hand.
LEMMA SkipTyped ==
  ASSUME Typed, Skip, pc \notin {"poll", "stopped"}, faults' \in 0..MaxFaults,
         UNCHANGED <<settings, offsets, stopping, stops, planVars, sent, failure_events, summaries>>,
         made' = made
  PROVE  Typed'
BY EmptyHand, TopicInEvent
   DEF Typed, TypeOK, HandInv, InHand, Skip, Done, offsets, planVars, PlansTypeOK, Places, Current

LEMMA PollTyped == ASSUME Typed, Poll, UNCHANGED settings PROVE Typed'
<1>1. TypeOK'
  BY DEF Typed, TypeOK, Poll, outputs, planVars, PlansTypeOK, Places
<1>2. HandInv'
  BY DEF Typed, TypeOK, HandInv, Poll, InHand, Current
<1> QED BY <1>1, <1>2 DEF Typed

LEMMA PollStopsTyped == ASSUME Typed, PollStops, UNCHANGED settings PROVE Typed'
BY DEF Typed, TypeOK, HandInv, PollStops, InHand, Current, outputs, planVars, PlansTypeOK, Places

LEMMA InferTyped == ASSUME Typed, Infer, UNCHANGED settings PROVE Typed'
<1>1. /\ Current \in Event /\ Current \in Actionable /\ made[Current] \in Nat
      /\ position \in 1..Len(Topic) /\ committed < position
  BY TopicInEvent DEF Typed, TypeOK, HandInv, Infer, Current
<1>2. made' = [made EXCEPT ![Current] = @ + 1] /\ pc' = "send"
  BY DEF Infer
<1>3. made' \in [Event -> Nat] /\ made'[Current] \in Nat \ {0}
  BY <1>1, <1>2 DEF Typed, TypeOK
<1>4. ModesPossible \subseteq Modes
  BY DEF ModesPossible, Modes
<1>5. PICK mode \in ModesPossible, has \in BOOLEAN, n \in 0..MaxParts :
        hand' = [Empty EXCEPT !.id = <<Current, made'[Current]>>, !.mode = mode,
                   !.tries = SendTries, !.has = has, !.parts = n]
  BY DEF Infer
<1>6. hand' \in Hand /\ hand'.id = <<Current, made'[Current]>> /\ hand'.tries > 0
  <2>1. <<Current, made'[Current]>> \in Recommendation
    BY <1>1, <1>3 DEF Recommendation
  <2>2. hand' = [id |-> <<Current, made'[Current]>>, mode |-> mode, tries |-> SendTries,
                 has |-> has, parts |-> n, added |-> 0, persisted |-> FALSE]
    BY <1>5 DEF Empty
  <2>3. SendTries \in 0..SendTries /\ 0 \in 0..MaxParts /\ SendTries > 0
    BY Bounds
  <2> QED BY <1>4, <2>1, <2>2, <2>3 DEF Hand
<1>7. TypeOK'
  BY <1>2, <1>3, <1>6 DEF Typed, TypeOK, Infer, offsets, outputs, planVars, PlansTypeOK, Places
<1>8. HandInv'
  BY <1>1, <1>2, <1>3, <1>6 DEF Infer, HandInv, InHand, offsets, Current
<1> QED BY <1>7, <1>8 DEF Typed

LEMMA InferRaisesTyped == ASSUME Typed, InferRaises, UNCHANGED settings PROVE Typed'
BY SkipTyped DEF InferRaises, Typed, TypeOK

LEMMA HandTyped ==
  ASSUME Typed, pc \in InHand
  PROVE  /\ hand.id \in Recommendation /\ hand.mode \in Modes /\ Current \in Event
         /\ hand.persisted \in BOOLEAN /\ hand.parts \in 0..MaxParts
<1>1. position \in 1..Len(Topic) /\ hand \in Hand /\ made \in [Event -> Nat]
  BY DEF Typed, TypeOK, HandInv, InHand
<1>2. Current \in Event /\ hand.id = <<Current, made[Current]>> /\ made[Current] \in Nat \ {0}
  BY <1>1, TopicInEvent DEF Typed, HandInv, Current
<1>3. hand.id \in Recommendation
  BY <1>2 DEF Recommendation
<1> QED BY <1>1, <1>2, <1>3 DEF Hand

LEMMA SendTyped == ASSUME Typed, Send, UNCHANGED settings PROVE Typed'
<1>1. [id |-> hand.id, mode |-> hand.mode] \in [id : Recommendation, mode : Modes]
  BY HandTyped DEF Send, InHand
<1> QED BY <1>1 DEF Typed, TypeOK, HandInv, Send, InHand, Current, offsets, planVars, PlansTypeOK, Places

LEMMA SendRaisesTyped == ASSUME Typed, SendRaises, UNCHANGED settings PROVE Typed'
<1>1. CASE Skip
  BY <1>1, SkipTyped DEF SendRaises, Typed, TypeOK
<1>2. CASE hand.tries > 1 /\ hand' = [hand EXCEPT !.tries = @ - 1] /\ UNCHANGED <<pc, skipped>>
  <2>1. hand' \in Hand /\ hand'.tries > 0 /\ hand'.id = hand.id
    <3>1. hand \in Hand /\ hand.tries \in 0..SendTries
      BY DEF Typed, TypeOK, Hand
    <3>2. hand.tries - 1 \in 0..SendTries /\ hand.tries - 1 > 0
      BY <1>2, <3>1, Bounds
    <3> QED BY <1>2, <3>1, <3>2 DEF Hand
  <2> QED BY <1>2, <2>1
       DEF SendRaises, Typed, TypeOK, HandInv, InHand, Current, offsets, planVars, PlansTypeOK
<1> QED BY <1>1, <1>2 DEF SendRaises

\* Steps that leave the hand as it is and go on to the next place.
LEMMA OnwardTyped ==
  ASSUME Typed, pc \in InHand, pc' \in InHand \ {"send"}, hand' \in Hand, hand'.id = hand.id,
         UNCHANGED <<settings, offsets, stopping, stops, made, faults, skipped>>,
         PlansTypeOK(Recommendation \cup Manual)',
         sent' \subseteq [id : Recommendation, mode : Modes],
         failure_events' \subseteq [event : Event, by : Recommendation],
         summaries' \subseteq [id : Recommendation, plan : BOOLEAN, parts : 0..MaxParts]
  PROVE  Typed'
BY DEF Typed, TypeOK, HandInv, InHand, offsets, Current, Places

LEMMA PlanTyped ==
  ASSUME Typed, UNCHANGED settings,
         SendLost \/ NoPlan \/ StorePlan \/ StorePart \/ PlanStored \/ PlanFails
           \/ FailureEventFails \/ StoreFailureEvent
  PROVE  Typed'
<1>1. CASE SendLost \/ NoPlan \/ PlanFails \/ FailureEventFails
  BY <1>1, OnwardTyped
     DEF SendLost, NoPlan, PlanFails, FailureEventFails, InHand, Typed, TypeOK, outputs, planVars,
         PlansTypeOK
<1>2. CASE StorePlan
  BY <1>2, OnwardTyped, HandTyped DEF StorePlan, CreatePlan, InHand, Typed, TypeOK, PlansTypeOK
<1>3. CASE StorePart
  <2>1. hand' \in Hand /\ hand'.id = hand.id /\ hand.added + 1 \in Nat
    <3>1. hand \in Hand /\ hand.added \in 0..MaxParts /\ hand.parts \in 0..MaxParts
      BY DEF Typed, TypeOK, Hand
    <3>2. hand.added + 1 \in 0..MaxParts
      BY <1>3, <3>1, Bounds DEF StorePart
    <3>3. hand' = [hand EXCEPT !.added = hand.added + 1]
      BY <1>3 DEF StorePart
    <3> QED BY <3>1, <3>2, <3>3 DEF Hand
  <2>2. pc = "parts" /\ pc' = "parts" /\ hand.id \in Recommendation
    BY <1>3, HandTyped DEF StorePart, InHand
  <2>3. PlansTypeOK(Recommendation \cup Manual)'
    BY <1>3, <2>1, <2>2 DEF StorePart, AddPart, Typed, TypeOK, PlansTypeOK
  <2>4. /\ UNCHANGED <<offsets, stopping, stops, made, faults, skipped>>
        /\ UNCHANGED <<sent, failure_events, summaries>>
    BY <1>3 DEF StorePart
  <2>5. /\ sent \subseteq [id : Recommendation, mode : Modes]
        /\ failure_events \subseteq [event : Event, by : Recommendation]
        /\ summaries \subseteq [id : Recommendation, plan : BOOLEAN, parts : 0..MaxParts]
    BY DEF Typed, TypeOK
  <2> QED BY <2>1, <2>2, <2>3, <2>4, <2>5, OnwardTyped DEF InHand
<1>4. CASE PlanStored
  <2>1. hand' \in Hand /\ hand'.id = hand.id
    BY <1>4 DEF PlanStored, Typed, TypeOK, Hand
  <2> QED BY <1>4, <2>1, OnwardTyped
       DEF PlanStored, InHand, Typed, TypeOK, outputs, planVars, PlansTypeOK
<1>5. CASE StoreFailureEvent
  <2>1. pc \in InHand /\ hand \in Hand /\ pc' \in InHand \ {"send"}
    BY <1>5 DEF StoreFailureEvent, InHand, Typed, TypeOK
  <2>2. [event |-> Current, by |-> hand.id] \in [event : Event, by : Recommendation]
    BY <2>1, HandTyped
  <2>3. failure_events' \subseteq [event : Event, by : Recommendation]
    BY <1>5, <2>2 DEF StoreFailureEvent, Typed, TypeOK
  <2>4. PlansTypeOK(Recommendation \cup Manual)'
    BY <1>5 DEF StoreFailureEvent, Typed, TypeOK, planVars, PlansTypeOK
  <2> QED BY <1>5, <2>1, <2>3, <2>4, OnwardTyped DEF StoreFailureEvent, Typed, TypeOK
<1> QED BY <1>1, <1>2, <1>3, <1>4, <1>5

LEMMA SummaryTyped ==
  ASSUME Typed, UNCHANGED settings, WriteSummary \/ SummaryFails
  PROVE  Typed'
<1>1. CASE WriteSummary
  <2>1. [id |-> hand.id, plan |-> hand.persisted, parts |-> hand.parts]
          \in [id : Recommendation, plan : BOOLEAN, parts : 0..MaxParts]
    BY <1>1, HandTyped DEF WriteSummary, InHand
  <2>2. TypeOK'
    BY <1>1, <2>1, EmptyHand
       DEF WriteSummary, Done, Typed, TypeOK, offsets, planVars, PlansTypeOK, Places
  <2>3. HandInv'
    BY <1>1 DEF WriteSummary, Done, HandInv, InHand
  <2> QED BY <2>2, <2>3 DEF Typed
<1>2. CASE SummaryFails
  <2>1. faults' \in 0..MaxFaults
    BY <1>2, Bounds DEF SummaryFails, SomethingFails, Typed, TypeOK
  <2> QED BY <1>2, <2>1, SkipTyped DEF SummaryFails
<1> QED BY <1>1, <1>2

LEMMA AutoCommitTyped == ASSUME Typed, AutoCommit, UNCHANGED settings PROVE Typed'
<1>1. TypeOK'
  BY Bounds DEF Typed, TypeOK, AutoCommit, outputs, planVars, PlansTypeOK
<1>2. HandInv'
  BY DEF Typed, HandInv, AutoCommit, InHand
<1> QED BY <1>1, <1>2 DEF Typed

LEMMA ProcessTyped ==
  ASSUME Typed, UNCHANGED settings,
         CloseCommitFails \/ Rebalanced \/ Signal \/ Killed \/ Restart \/ PeopleAtPlans
  PROVE  Typed'
<1>1. CASE Signal
  <2>1. TypeOK'
    <3>1. stops' \in 0..MaxStops /\ stopping' \in BOOLEAN
      BY <1>1, Bounds DEF Signal, Typed, TypeOK
    <3>2. UNCHANGED <<settings, pc, offsets, hand, made, outputs, faults>>
      BY <1>1 DEF Signal
    <3> QED BY <3>1, <3>2 DEF Typed, TypeOK, offsets, outputs, planVars, PlansTypeOK
  <2>2. HandInv'
    BY <1>1 DEF Signal, Typed, HandInv, InHand, Current, offsets
  <2> QED BY <2>1, <2>2 DEF Typed
<1>2. CASE Killed
  <2>1. TypeOK'
    <3>1. faults' \in 0..MaxFaults /\ pc' \in Places /\ hand' \in Hand
      <4>1. faults' \in 0..MaxFaults
        BY <1>2, Bounds DEF Killed, SomethingFails, Typed, TypeOK
      <4> QED BY <1>2, <4>1, EmptyHand DEF Killed, Places
    <3>2. UNCHANGED <<settings, offsets, stopping, stops, made, outputs>>
      BY <1>2 DEF Killed
    <3> QED BY <3>1, <3>2 DEF Typed, TypeOK, offsets, outputs, planVars, PlansTypeOK
  <2>2. HandInv'
    BY <1>2 DEF Killed, HandInv, InHand
  <2> QED BY <2>1, <2>2 DEF Typed
<1>3. CASE Restart
  <2>1. TypeOK'
    <3>1. position' \in 0..Len(Topic) /\ committed' \in 0..position'
      BY <1>3, Bounds DEF Restart, Typed, TypeOK
    <3>2. pc' \in Places /\ stopping' \in BOOLEAN
      BY <1>3 DEF Restart, Places
    <3>3. UNCHANGED <<settings, stops, hand, made, outputs, faults>>
      BY <1>3 DEF Restart
    <3> QED BY <3>1, <3>2, <3>3 DEF Typed, TypeOK, outputs, planVars, PlansTypeOK
  <2>2. HandInv'
    BY <1>3 DEF Restart, Typed, HandInv, InHand
  <2> QED BY <2>1, <2>2 DEF Typed
<1>4. CASE PeopleAtPlans
  <2>1. PlansTypeOK(Recommendation \cup Manual)'
    BY <1>4 DEF PeopleAtPlans, CreatePlan, AddPart, DeletePlan, Typed, TypeOK, PlansTypeOK
  <2>2. TypeOK'
    BY <1>4, <2>1 DEF PeopleAtPlans, Typed, TypeOK, offsets
  <2>3. HandInv'
    BY <1>4 DEF PeopleAtPlans, Typed, HandInv, InHand, Current, offsets
  <2> QED BY <2>2, <2>3 DEF Typed
<1>5. CASE CloseCommitFails \/ Rebalanced
  <2>1. TypeOK'
    <3>1. faults' \in 0..MaxFaults
      BY <1>5, Bounds DEF CloseCommitFails, Rebalanced, SomethingFails, Typed, TypeOK
    <3>2. position' \in 0..Len(Topic) /\ committed' \in 0..position'
      <4>1. /\ position \in 0..Len(Topic) /\ committed \in 0..position /\ Len(Topic) \in Nat
            /\ committed' = committed
            /\ (position' = position + 1 /\ position < Len(Topic)) \/ position' = committed
        BY <1>5, Bounds DEF CloseCommitFails, Rebalanced, Typed, TypeOK
      <4> QED BY <4>1
    <3>3. pc' \in Places
      BY <1>5 DEF CloseCommitFails, Rebalanced, Places
    <3>4. UNCHANGED <<settings, stopping, stops, hand, made, outputs>>
      BY <1>5 DEF CloseCommitFails, Rebalanced
    <3> QED BY <3>1, <3>2, <3>3, <3>4 DEF Typed, TypeOK, outputs, planVars, PlansTypeOK
  <2>2. HandInv'
    BY <1>5 DEF CloseCommitFails, Rebalanced, Typed, HandInv, InHand
  <2> QED BY <2>1, <2>2 DEF Typed
<1> QED BY <1>1, <1>2, <1>3, <1>4, <1>5

LEMMA NextTyped == Typed /\ [Next]_vars => Typed'
<1>1. ASSUME Typed, Next PROVE Typed'
  BY <1>1, PollTyped, PollStopsTyped, InferTyped, InferRaisesTyped, SendTyped, SendRaisesTyped,
     PlanTyped, SummaryTyped, AutoCommitTyped, ProcessTyped
     DEF Next, LoopStep, ProcessEvent
<1>2. ASSUME Typed, UNCHANGED vars PROVE Typed'
  BY <1>2
     DEF vars, offsets, outputs, planVars, Typed, TypeOK, HandInv, InHand, Current, PlansTypeOK
<1> QED BY <1>1, <1>2

LEMMA AlwaysTyped == Spec => []Typed
BY InitTyped, NextTyped, PTL DEF Spec

\* Every reachable state is well typed.
THEOREM TypeCorrect == Spec => []TypeOK
<1>1. Typed => TypeOK
  BY DEF Typed
<1> QED BY <1>1, AlwaysTyped, PTL

-----------------------------------------------------------------------------
(* One failure per event.                                                  *)

\* However often an event is analysed it has one failure event.
THEOREM EventFailsOnce == Spec => []OneFailurePerEvent
<1>1. Init => OneFailurePerEvent
  BY DEF Init, OneFailurePerEvent
<1>2. ASSUME OneFailurePerEvent, [Next]_vars PROVE OneFailurePerEvent'
  <2>1. CASE StoreFailureEvent
    <3>1. CASE \E f \in failure_events : f.event = Current
      BY <1>2, <2>1, <3>1 DEF StoreFailureEvent, OneFailurePerEvent
    <3>2. CASE \A f \in failure_events : f.event # Current
      <4>1. failure_events' = failure_events \cup {[event |-> Current, by |-> hand.id]}
        BY <2>1, <3>2 DEF StoreFailureEvent
      <4> QED BY <1>2, <3>2, <4>1 DEF OneFailurePerEvent
    <3> QED BY <3>1, <3>2
  <2>2. CASE UNCHANGED failure_events
    BY <1>2, <2>2 DEF OneFailurePerEvent
  <2> QED
    BY <1>2, <2>1, <2>2
       DEF Next, LoopStep, ProcessEvent, Poll, PollStops, Infer, InferRaises, Send, SendLost,
           SendRaises, NoPlan, StorePlan, StorePart, PlanStored, PlanFails, FailureEventFails,
           WriteSummary, SummaryFails, AutoCommit, CloseCommitFails, Rebalanced, Signal, Killed,
           Restart, PeopleAtPlans, vars, outputs
<1> QED BY <1>1, <1>2, PTL DEF Spec

-----------------------------------------------------------------------------
(* Recommendation ids are fresh: what is stored under one is of one        *)
(* delivery.                                                               *)

\* Nothing is stored under an id not made yet; the one in hand is in no
\* summary, and before it is sent nowhere.
FreshInv ==
  /\ \A s \in sent : s.id[2] <= made[s.id[1]]
  /\ \A r \in summaries : r.id[2] <= made[r.id[1]] /\ r.id # hand.id
  /\ pc = "send" => \A s \in sent : s.id # hand.id
  /\ \A s, t \in sent : s.id = t.id => s = t

LEMMA InferMakes ==
  ASSUME Typed, Infer
  PROVE  /\ Current \in Event /\ made[Current] \in Nat
         /\ made' = [made EXCEPT ![Current] = made[Current] + 1]
         /\ hand'.id = <<Current, made[Current] + 1>>
         /\ hand'.added = 0 /\ hand'.persisted = FALSE /\ hand.id = NoId
<1>1. Current \in Event /\ made[Current] \in Nat
  BY TopicInEvent DEF Typed, TypeOK, HandInv, Infer, Current
<1>2. made' = [made EXCEPT ![Current] = made[Current] + 1]
  BY DEF Infer
<1>3. made'[Current] = made[Current] + 1
  BY <1>1, <1>2 DEF Typed, TypeOK
<1>4. PICK mode \in ModesPossible, has \in BOOLEAN, n \in 0..MaxParts :
        hand' = [Empty EXCEPT !.id = <<Current, made'[Current]>>, !.mode = mode,
                   !.tries = SendTries, !.has = has, !.parts = n]
  BY DEF Infer
<1>5. hand'.id = <<Current, made'[Current]>> /\ hand'.added = 0 /\ hand'.persisted = FALSE
  BY <1>4 DEF Empty
<1>6. hand.id = NoId
  BY DEF Infer, Typed, HandInv, InHand, Empty
<1> QED BY <1>1, <1>2, <1>3, <1>5, <1>6

LEMMA InferFresh == ASSUME Typed, FreshInv, Infer PROVE FreshInv'
<1>1. \A e \in Event : made'[e] >= made[e] /\ made[e] \in Nat /\ made'[e] \in Nat
  <2>1. made \in [Event -> Nat]
    BY DEF Typed, TypeOK
  <2>2. \A e \in Event : made'[e] = IF e = Current THEN made[Current] + 1 ELSE made[e]
    BY <2>1, InferMakes
  <2>3. \A e \in Event : made[e] \in Nat
    BY <2>1
  <2> QED BY <2>2, <2>3
<1>2. /\ \A s \in sent : s.id \in Recommendation
      /\ \A r \in summaries : r.id \in Recommendation
  BY DEF Typed, TypeOK
<1>3. UNCHANGED <<sent, summaries>>
  BY DEF Infer, outputs
<1>4. \A i \in Recommendation : i[1] \in Event /\ i[2] \in Nat
  BY DEF Recommendation
<1>5. \A i \in Recommendation : i[2] <= made[i[1]] => i[2] <= made'[i[1]] /\ i # hand'.id
  BY <1>1, <1>4, InferMakes
<1> QED BY <1>2, <1>3, <1>5 DEF FreshInv

LEMMA NextFresh ==
  ASSUME Typed, FreshInv, [Next]_vars
  PROVE  FreshInv'
<1>1. \A r \in summaries : r.id \in Recommendation
  BY DEF Typed, TypeOK
<1>2. NoId \notin Recommendation /\ Empty.id = NoId
  BY AgentAssumption DEF AgentAssumption, Empty
<1>3. CASE Infer
  BY <1>3, InferFresh
<1>4. CASE Send
  <2>1. /\ sent' = sent \cup {[id |-> hand.id, mode |-> hand.mode]}
        /\ UNCHANGED <<hand, summaries, made>> /\ pc = "send" /\ pc' = "plan"
    BY <1>4 DEF Send
  <2>2. hand.id[2] <= made[hand.id[1]]
    BY <2>1 DEF Typed, HandInv, InHand
  <2>3. \A s \in sent' : s \in sent \/ (s.id = hand.id /\ s.mode = hand.mode
                                         /\ s = [id |-> hand.id, mode |-> hand.mode])
    BY <2>1
  <2>4. \A s \in sent : s.id # hand.id
    BY <2>1 DEF FreshInv
  <2>5. \A s \in sent' : s.id[2] <= made[s.id[1]]
    BY <2>2, <2>3 DEF FreshInv
  <2>6. \A s, t \in sent' : s.id = t.id => s = t
    BY <2>3, <2>4 DEF FreshInv
  <2> QED BY <2>1, <2>5, <2>6 DEF FreshInv
<1>5. CASE WriteSummary
  <2>1. /\ summaries' = summaries \cup {[id |-> hand.id, plan |-> hand.persisted, parts |-> hand.parts]}
        /\ UNCHANGED <<made, sent>> /\ pc = "summary" /\ pc' = "poll" /\ hand' = Empty
    BY <1>5 DEF WriteSummary, Done
  <2>2. hand.id[2] <= made[hand.id[1]] /\ hand.id \in Recommendation
    BY <2>1, HandTyped DEF Typed, HandInv, InHand
  <2>3. \A r \in summaries' : r \in summaries \/ r.id = hand.id
    BY <2>1
  <2>4. \A r \in summaries' : r.id[2] <= made[r.id[1]] /\ r.id # NoId
    BY <1>1, <1>2, <2>2, <2>3 DEF FreshInv
  <2> QED BY <1>2, <2>1, <2>4 DEF FreshInv
<1>6. CASE hand' = Empty /\ pc' # "send" /\ UNCHANGED <<sent, summaries, made>>
  BY <1>1, <1>2, <1>6 DEF FreshInv
<1>7. CASE hand'.id = hand.id /\ (pc' = "send" => pc = "send") /\ UNCHANGED <<sent, summaries, made>>
  BY <1>7 DEF FreshInv
<1>8. CASE StorePart \/ PlanStored \/ SendRaises
  <2>1. CASE Skip
    BY <1>6, <1>8, <2>1 DEF Skip, Done, StorePart, PlanStored, SendRaises, outputs
  <2>2. CASE hand' = [hand EXCEPT !.tries = @ - 1]
    <3>1. hand'.id = hand.id
      BY <2>2 DEF Typed, TypeOK, Hand
    <3> QED BY <1>7, <1>8, <3>1 DEF StorePart, PlanStored, SendRaises, Skip, Done, outputs
  <2>3. CASE StorePart \/ PlanStored
    <3>1. hand'.id = hand.id
      BY <2>3 DEF StorePart, PlanStored, Typed, TypeOK, Hand
    <3> QED BY <1>7, <2>3, <3>1 DEF StorePart, PlanStored, outputs
  <2> QED BY <1>8, <2>1, <2>2, <2>3 DEF SendRaises
<1>9. CASE InferRaises \/ SummaryFails \/ Killed
  BY <1>6, <1>9 DEF InferRaises, SummaryFails, Killed, Skip, Done, outputs
<1> QED
  BY <1>3, <1>4, <1>5, <1>7, <1>8, <1>9
     DEF Next, LoopStep, ProcessEvent, Poll, PollStops, SendLost, NoPlan, StorePlan, PlanFails,
         StoreFailureEvent, FailureEventFails, AutoCommit, CloseCommitFails, Rebalanced, Signal,
         Restart, PeopleAtPlans, vars, outputs

LEMMA AlwaysFresh == Spec => [](Typed /\ FreshInv)
<1>1. Init => FreshInv
  BY DEF Init, FreshInv
<1> QED BY <1>1, NextFresh, AlwaysTyped, PTL DEF Spec

-----------------------------------------------------------------------------
(* A plan that a run summary names is whole.                               *)

\* While the parts are stored, those stored are there unless the plan is
\* gone, and then no more can be: it is created once, before any part.
PlanInv ==
  /\ hand.persisted => pc \in {"failure event", "summary"} /\ hand.added = hand.parts
  /\ pc \in {"send", "plan"} => hand.added = 0
  /\ hand.id \in repair_plan => \A n \in 1..hand.added : <<hand.id, n>> \in repair_part
  /\ NamedPlanIsWhole

LEMMA EmptyRange == \A n \in 1..0 : FALSE
OBVIOUS

\* A hand in which no part is stored yet.
LEMMA NothingAdded ==
  ASSUME PlanInv, hand'.added = 0, ~hand'.persisted, UNCHANGED <<planVars, summaries>>
  PROVE  PlanInv'
<1>1. NamedPlanIsWhole'
  BY DEF PlanInv, NamedPlanIsWhole, planVars
<1> QED BY <1>1, EmptyRange DEF PlanInv

\* Plans are left alone, or lose some and gain parts, or gain one that
\* nothing yet stored or held names.
LEMMA PlansMove ==
  ASSUME Typed, PlanInv,
         UNCHANGED <<pc, hand, summaries>>,
         \/ UNCHANGED planVars
         \/ \E p \in repair_plan : AddPart(p, 0) \/ DeletePlan(p)
         \/ \E p \in Manual : CreatePlan(p)
  PROVE  PlanInv'
<1>1. \A m \in Manual : (m # hand.id \/ hand.added = 0) /\ \A r \in summaries : r.id # m
  <2>1. \A m \in Manual : m \notin Recommendation
    BY AgentAssumption DEF AgentAssumption
  <2>2. hand.id \in Recommendation \/ hand.added = 0
    BY HandTyped DEF Typed, HandInv, Empty
  <2>3. \A r \in summaries : r.id \in Recommendation
    BY DEF Typed, TypeOK
  <2> QED BY <2>1, <2>2, <2>3
<1>2. \A i \in repair_plan' : i \in repair_plan \/ i \in Manual
  BY DEF planVars, AddPart, DeletePlan, CreatePlan
<1>3. \A i \in repair_plan' : \A n \in Nat : <<i, n>> \in repair_part => <<i, n>> \in repair_part'
  BY DEF planVars, AddPart, DeletePlan, CreatePlan
<1>4. hand.id \in repair_plan' => \A n \in 1..hand.added : <<hand.id, n>> \in repair_part'
  <2>2. hand.added = 0 \/ hand.id \in repair_plan' => hand.added = 0 \/ hand.id \in repair_plan
    BY <1>1, <1>2
  <2>3. CASE hand.added = 0
    BY <2>3, EmptyRange
  <2>4. CASE hand.added # 0
    <3>1. hand.id \in repair_plan' => \A n \in 1..hand.added : <<hand.id, n>> \in repair_part
      BY <2>2, <2>4 DEF PlanInv
    <3>2. \A n \in 1..hand.added : n \in Nat
      OBVIOUS
    <3> QED BY <1>3, <3>1, <3>2
  <2> QED BY <2>3, <2>4
<1>5. NamedPlanIsWhole'
  <2> SUFFICES ASSUME NEW r \in summaries, r.plan, r.id \in repair_plan', NEW n \in 1..r.parts
               PROVE  <<r.id, n>> \in repair_part'
    BY DEF NamedPlanIsWhole
  <2>1. r.id \in repair_plan
    BY <1>1, <1>2
  <2>2. n \in 1..r.parts /\ n \in Nat
    OBVIOUS
  <2>3. <<r.id, n>> \in repair_part
    BY <2>1, <2>2 DEF PlanInv, NamedPlanIsWhole
  <2> QED BY <1>3, <2>2, <2>3
<1> QED BY <1>4, <1>5 DEF PlanInv

LEMMA PlanStepsWhole ==
  ASSUME Typed, FreshInv, PlanInv, StorePlan \/ StorePart \/ PlanStored
  PROVE  PlanInv'
<1>1. CASE StorePlan
  <2>1. /\ repair_plan' = repair_plan \cup {hand.id} /\ UNCHANGED <<repair_part, hand, summaries>>
        /\ pc = "plan" /\ pc' = "parts"
    BY <1>1 DEF StorePlan, CreatePlan
  <2>2. hand.added = 0 /\ hand.persisted # TRUE
    BY <2>1 DEF PlanInv
  <2>3. NamedPlanIsWhole'
    BY <2>1 DEF PlanInv, NamedPlanIsWhole, FreshInv
  <2> QED BY <2>1, <2>2, <2>3 DEF PlanInv
<1>2. CASE StorePart
  <2>1. /\ repair_part' = repair_part \cup {<<hand.id, hand.added + 1>>}
        /\ UNCHANGED <<repair_plan, summaries>>
        /\ pc = "parts" /\ pc' = "parts" /\ hand' = [hand EXCEPT !.added = hand.added + 1]
    BY <1>2 DEF StorePart, AddPart
  <2>2. hand'.id = hand.id /\ hand'.added = hand.added + 1 /\ hand'.persisted = hand.persisted
        /\ hand.added \in Nat
    BY <2>1 DEF Typed, TypeOK, Hand
  <2>3. hand.persisted # TRUE
    BY <2>1 DEF PlanInv
  <2>4. \A n \in 1..(hand.added + 1) : n \in 1..hand.added \/ n = hand.added + 1
    BY <2>2
  <2>5. NamedPlanIsWhole'
    BY <2>1 DEF PlanInv, NamedPlanIsWhole
  <2> QED BY <2>1, <2>2, <2>3, <2>4, <2>5 DEF PlanInv
<1>3. CASE PlanStored
  <2>1. /\ pc = "parts" /\ pc' = "failure event" /\ hand' = [hand EXCEPT !.persisted = TRUE]
        /\ hand.added = hand.parts /\ UNCHANGED <<planVars, summaries>>
    BY <1>3 DEF PlanStored, outputs
  <2>2. hand'.id = hand.id /\ hand'.added = hand.added /\ hand'.parts = hand.parts
    BY <2>1 DEF Typed, TypeOK, Hand
  <2>3. NamedPlanIsWhole'
    BY <2>1 DEF PlanInv, NamedPlanIsWhole, planVars
  <2>4. UNCHANGED <<repair_plan, repair_part>>
    BY <2>1 DEF planVars
  <2>5. (hand.id \in repair_plan => \A n \in 1..hand.added : <<hand.id, n>> \in repair_part)'
    BY <2>2, <2>4 DEF PlanInv
  <2>6. (hand.persisted => pc \in {"failure event", "summary"} /\ hand.added = hand.parts)'
    BY <2>1, <2>2
  <2> QED BY <2>1, <2>3, <2>5, <2>6 DEF PlanInv
<1> QED BY <1>1, <1>2, <1>3

LEMMA NextPlan ==
  ASSUME Typed, FreshInv, PlanInv, [Next]_vars
  PROVE  PlanInv'
<1>1. CASE Infer
  <2>1. hand'.id = <<Current, made[Current] + 1>> /\ hand'.added = 0 /\ hand'.persisted = FALSE
    BY <1>1, InferMakes
  <2>2. UNCHANGED <<planVars, summaries>> /\ pc' = "send"
    BY <1>1 DEF Infer, outputs
  <2> QED BY <2>1, <2>2, NothingAdded
<1>2. CASE hand' = Empty /\ pc' \in {"poll", "stopped"} /\ UNCHANGED <<planVars, summaries>>
  <2>1. hand'.added = 0 /\ hand'.persisted = FALSE
    BY <1>2 DEF Empty
  <2> QED BY <1>2, <2>1, NothingAdded
<1>3. CASE SendRaises
  <2>1. CASE Skip
    BY <1>2, <1>3, <2>1 DEF SendRaises, Skip, Done
  <2>2. CASE hand' = [hand EXCEPT !.tries = @ - 1] /\ UNCHANGED pc
    <3>1. /\ hand'.id = hand.id /\ hand'.added = hand.added /\ hand'.persisted = hand.persisted
          /\ hand'.parts = hand.parts
      BY <2>2 DEF Typed, TypeOK, Hand
    <3>2. pc = "send" /\ UNCHANGED <<planVars, summaries>>
      BY <1>3 DEF SendRaises
    <3>3. hand.added = 0 /\ ~hand.persisted
      BY <3>2 DEF PlanInv
    <3> QED BY <3>1, <3>2, <3>3, NothingAdded
  <2> QED BY <1>3, <2>1, <2>2 DEF SendRaises
<1>4. CASE StorePlan \/ StorePart \/ PlanStored
  BY <1>4, PlanStepsWhole
<1>5. CASE WriteSummary
  <2>1. /\ summaries' = summaries \cup {[id |-> hand.id, plan |-> hand.persisted, parts |-> hand.parts]}
        /\ hand' = Empty /\ pc' = "poll" /\ UNCHANGED planVars
    BY <1>5 DEF WriteSummary, Done
  <2>2. \A r \in summaries' :
          r \in summaries \/ (r.id = hand.id /\ r.plan = hand.persisted /\ r.parts = hand.parts)
    BY <2>1
  <2>3. hand.persisted /\ hand.id \in repair_plan =>
          \A n \in 1..hand.parts : <<hand.id, n>> \in repair_part
    BY DEF PlanInv
  <2>4. NamedPlanIsWhole'
    BY <2>1, <2>2, <2>3 DEF PlanInv, NamedPlanIsWhole, planVars
  <2>5. hand'.added = 0 /\ hand'.persisted = FALSE
    BY <2>1 DEF Empty
  <2> QED BY <2>1, <2>4, <2>5, EmptyRange DEF PlanInv
<1>6. CASE InferRaises \/ SummaryFails \/ Killed
  BY <1>2, <1>6 DEF InferRaises, SummaryFails, Killed, Skip, Done, outputs
<1>7. CASE PeopleAtPlans
  BY <1>7, PlansMove DEF PeopleAtPlans
<1>8. CASE /\ UNCHANGED <<hand, planVars, summaries>>
           /\ \/ pc' = pc \/ pc' \in {"failure event", "summary"}
              \/ pc \in {"poll", "stopped", "send"} /\ pc' \in {"poll", "stopped", "infer", "plan"}
  <2>1. NamedPlanIsWhole'
    BY <1>8 DEF PlanInv, NamedPlanIsWhole, planVars
  <2>2. pc \in {"poll", "stopped"} => hand.added = 0
    <3>1. pc \in {"poll", "stopped"} => hand = Empty
      BY DEF Typed, HandInv, InHand
    <3> QED BY <3>1 DEF Empty
  <2> QED BY <1>8, <2>1, <2>2 DEF PlanInv, planVars
<1> QED
  BY <1>1, <1>3, <1>4, <1>5, <1>6, <1>7, <1>8
     DEF Next, LoopStep, ProcessEvent, Poll, PollStops, Send, SendLost, NoPlan, PlanFails,
         StoreFailureEvent, FailureEventFails, AutoCommit, CloseCommitFails, Rebalanced, Signal,
         Restart, vars, outputs

\* A plan named by a run summary has all its parts until somebody deletes
\* it, for any interleaving of the agent with people at the plans.
THEOREM NamedPlansAreWhole == Spec => []NamedPlanIsWhole
<1>1. Init => PlanInv
  BY DEF Init, PlanInv, NamedPlanIsWhole, Empty
<1>2. PlanInv => NamedPlanIsWhole
  BY DEF PlanInv
<1> QED BY <1>1, <1>2, NextPlan, AlwaysFresh, PTL DEF Spec

-----------------------------------------------------------------------------
(* A recommendation that no summary tells of costs a fault.                *)

OrphanInv == IsFiniteSet(Orphans) /\ OrphansNeedFaults

LEMMA NoMoreOrphans ==
  ASSUME Typed, OrphanInv, faults' = faults, Orphans' \subseteq Orphans
  PROVE  OrphanInv'
<1>1. IsFiniteSet(Orphans') /\ Cardinality(Orphans') <= Cardinality(Orphans)
  BY FS_Subset DEF OrphanInv
<1>2. Cardinality(Orphans) \in Nat /\ Cardinality(Orphans') \in Nat /\ faults \in Nat
  BY <1>1, FS_CardinalityType, Bounds DEF OrphanInv, Typed, TypeOK
<1> QED BY <1>1, <1>2 DEF OrphanInv, OrphansNeedFaults

\* The hand is dropped by a fault: what was sent from it is an orphan now.
LEMMA OneMoreOrphan ==
  ASSUME Typed, FreshInv, OrphanInv, faults' = faults + 1, UNCHANGED <<sent, summaries>>
  PROVE  OrphanInv'
<1>1. PICK x : \A s \in sent : s.id = hand.id => s = x
  BY DEF FreshInv
<1>2. Orphans' \subseteq Orphans \cup {x}
  BY <1>1 DEF Orphans
<1>3. /\ IsFiniteSet(Orphans \cup {x})
      /\ Cardinality(Orphans \cup {x}) <= Cardinality(Orphans) + 1
  BY FS_AddElement, FS_CardinalityType, SMTT(30) DEF OrphanInv
<1>4. IsFiniteSet(Orphans') /\ Cardinality(Orphans') <= Cardinality(Orphans \cup {x})
  BY <1>2, <1>3, FS_Subset
<1>5. /\ Cardinality(Orphans) \in Nat /\ Cardinality(Orphans') \in Nat
      /\ Cardinality(Orphans \cup {x}) \in Nat /\ faults \in Nat
  BY <1>3, <1>4, FS_CardinalityType, Bounds DEF OrphanInv, Typed, TypeOK
<1>6. Cardinality(Orphans) <= faults
  BY DEF OrphanInv, OrphansNeedFaults
<1>7. Cardinality(Orphans') <= faults'
  BY <1>3, <1>4, <1>5, <1>6
<1> QED BY <1>4, <1>7 DEF OrphanInv, OrphansNeedFaults

LEMMA NextOrphans ==
  ASSUME Typed, FreshInv, OrphanInv, [Next]_vars
  PROVE  OrphanInv'
<1>1. \A s \in sent : s.id \in Recommendation
  BY DEF Typed, TypeOK
<1>2. NoId \notin Recommendation /\ Empty.id = NoId
  BY AgentAssumption DEF AgentAssumption, Empty
<1>3. CASE Infer
  <2>1. hand.id = NoId /\ UNCHANGED <<sent, summaries, faults>>
    BY <1>3, InferMakes DEF Infer, outputs
  <2>2. Orphans' \subseteq Orphans
    BY <1>1, <1>2, <2>1 DEF Orphans
  <2> QED BY <2>1, <2>2, NoMoreOrphans
<1>4. CASE Send
  <2>1. /\ sent' = sent \cup {[id |-> hand.id, mode |-> hand.mode]}
        /\ UNCHANGED <<hand, summaries, faults>>
    BY <1>4 DEF Send
  <2>2. \A s \in sent' : s \in sent \/ s.id = hand.id
    BY <2>1
  <2>3. Orphans' \subseteq Orphans
    BY <2>1, <2>2 DEF Orphans
  <2> QED BY <2>1, <2>3, NoMoreOrphans
<1>5. CASE WriteSummary
  <2>1. /\ summaries' = summaries \cup {[id |-> hand.id, plan |-> hand.persisted, parts |-> hand.parts]}
        /\ UNCHANGED <<sent, faults>>
    BY <1>5 DEF WriteSummary
  <2>2. \E r \in summaries' : r.id = hand.id
    <3> DEFINE new == [id |-> hand.id, plan |-> hand.persisted, parts |-> hand.parts]
    <3>1. new.id = hand.id
      OBVIOUS
    <3>2. new \in summaries'
      BY <2>1
    <3> QED BY <3>1, <3>2
  <2>3. Orphans' \subseteq Orphans
    BY <2>1, <2>2 DEF Orphans
  <2> QED BY <2>1, <2>3, NoMoreOrphans
<1>6. CASE hand'.id = hand.id /\ UNCHANGED <<sent, summaries, faults>>
  <2>1. Orphans' \subseteq Orphans
    BY <1>6 DEF Orphans
  <2> QED BY <1>6, <2>1, NoMoreOrphans
<1>7. CASE StorePart \/ PlanStored
  <2>1. hand'.id = hand.id
    BY <1>7 DEF StorePart, PlanStored, Typed, TypeOK, Hand
  <2> QED BY <1>6, <1>7, <2>1 DEF StorePart, PlanStored, outputs
<1>8. CASE SendRaises
  <2>1. UNCHANGED <<sent, summaries, faults>> /\ pc = "send"
    BY <1>8 DEF SendRaises
  <2>2. CASE Skip
    <3>1. \A s \in sent : s.id # hand.id
      BY <2>1 DEF FreshInv
    <3>2. Orphans' \subseteq Orphans
      BY <2>1, <3>1 DEF Orphans
    <3> QED BY <2>1, <3>2, NoMoreOrphans
  <2>3. CASE hand' = [hand EXCEPT !.tries = @ - 1]
    <3>1. hand'.id = hand.id
      BY <2>3 DEF Typed, TypeOK, Hand
    <3> QED BY <1>6, <2>1, <3>1
  <2> QED BY <1>8, <2>2, <2>3 DEF SendRaises
<1>9. CASE InferRaises
  <2>1. hand = Empty /\ hand' = Empty /\ UNCHANGED <<sent, summaries, faults>>
    BY <1>9 DEF InferRaises, Skip, Done, Typed, HandInv, InHand
  <2> QED BY <1>6, <2>1
<1>10. CASE SummaryFails \/ Killed \/ CloseCommitFails \/ Rebalanced
  <2>1. faults' = faults + 1 /\ UNCHANGED <<sent, summaries>>
    BY <1>10 DEF SummaryFails, Killed, CloseCommitFails, Rebalanced, SomethingFails, outputs
  <2> QED BY <2>1, OneMoreOrphan
<1> QED
  BY <1>3, <1>4, <1>5, <1>6, <1>7, <1>8, <1>9, <1>10
     DEF Next, LoopStep, ProcessEvent, Poll, PollStops, SendLost, NoPlan, StorePlan, PlanFails,
         StoreFailureEvent, FailureEventFails, AutoCommit, Signal, Restart, PeopleAtPlans,
         vars, outputs

\* Recommendations the approval API cannot find are no more than the faults,
\* of which only kills and failed writes of a summary make one.
THEOREM OrphansCostFaults == Spec => []OrphansNeedFaults
<1>1. Init => OrphanInv
  <2>1. ASSUME Init PROVE Orphans = {} /\ faults = 0
    BY <2>1 DEF Init, Orphans
  <2> QED BY <2>1, FS_EmptySet DEF OrphanInv, OrphansNeedFaults
<1>2. OrphanInv => OrphansNeedFaults
  BY DEF OrphanInv
<1> QED BY <1>1, <1>2, NextOrphans, AlwaysFresh, PTL DEF Spec

-----------------------------------------------------------------------------
(* A committed alarm that was neither analysed nor logged costs a stop.    *)

Unhandled(i) ==
  Topic[i] \in Actionable /\ made[Topic[i]] = 0 /\ Topic[i] \notin skipped

(***************************************************************************)
(* Between the committed offset and the position only the message in hand  *)
(* may be unhandled, so that a commit in the loop adds none to Passed; a   *)
(* stop that is due has one to give.                                       *)
(***************************************************************************)
HandledInv ==
  /\ pc # "stopped" =>
       \A i \in committed + 1 .. position : Unhandled(i) => i = position /\ pc = "infer"
  /\ IsFiniteSet(Passed)
  /\ Cardinality(Passed) + (IF stopping /\ pc # "stopped" THEN 1 ELSE 0) <= stops

\* Messages are handled for good.
LEMMA StaysHandled ==
  ASSUME Typed, [Next]_vars
  PROVE  \A i \in 1 .. Len(Topic) : Unhandled(i)' => Unhandled(i)
<1>1. \A e \in Event : made'[e] = 0 => made[e] = 0
  <2>1. CASE Infer
    <3>1. Current \in Event /\ made[Current] \in Nat /\ made \in [Event -> Nat]
      BY <2>1, TopicInEvent DEF Typed, TypeOK, HandInv, Infer, Current
    <3>2. made' = [made EXCEPT ![Current] = @ + 1]
      BY <2>1 DEF Infer
    <3> QED BY <3>1, <3>2
  <2>2. CASE made' = made
    BY <2>2
  <2> QED
    BY <2>1, <2>2
       DEF Next, LoopStep, ProcessEvent, Poll, PollStops, InferRaises, Send, SendLost,
           SendRaises, NoPlan, StorePlan, StorePart, PlanStored, PlanFails, StoreFailureEvent,
           FailureEventFails, WriteSummary, SummaryFails, AutoCommit, CloseCommitFails,
           Rebalanced, Signal, Killed, Restart, PeopleAtPlans, vars
<1>2. skipped \subseteq skipped'
  BY DEF Next, LoopStep, ProcessEvent, Infer, Poll, PollStops, InferRaises, Skip, Send, SendLost,
         SendRaises, NoPlan, StorePlan, StorePart, PlanStored, PlanFails, StoreFailureEvent,
         FailureEventFails, WriteSummary, SummaryFails, AutoCommit, CloseCommitFails,
         Rebalanced, Signal, Killed, Restart, PeopleAtPlans, vars, outputs
<1> QED
  BY <1>1, <1>2, TopicInEvent DEF Unhandled

\* No more are passed over.
LEMMA NoMorePassed ==
  ASSUME HandledInv, Passed' \subseteq Passed, stops \in Nat, stops' \in Nat,
         stops' >= stops + (IF stopping' /\ pc' # "stopped" THEN 1 ELSE 0)
                         - (IF stopping /\ pc # "stopped" THEN 1 ELSE 0)
  PROVE  /\ IsFiniteSet(Passed')
         /\ Cardinality(Passed') + (IF stopping' /\ pc' # "stopped" THEN 1 ELSE 0) <= stops'
<1>1. IsFiniteSet(Passed') /\ Cardinality(Passed') <= Cardinality(Passed)
  BY FS_Subset DEF HandledInv
<1>2. Cardinality(Passed) \in Nat /\ Cardinality(Passed') \in Nat
  BY <1>1, FS_CardinalityType DEF HandledInv
<1>3. Cardinality(Passed) + (IF stopping /\ pc # "stopped" THEN 1 ELSE 0) <= stops
  BY DEF HandledInv
<1> QED
  BY <1>1, <1>2, <1>3

LEMMA NextHandled ==
  ASSUME Typed, HandledInv, [Next]_vars
  PROVE  HandledInv'
<1>1. /\ committed \in Nat /\ position \in Nat /\ committed <= position /\ position <= Len(Topic)
      /\ stops \in Nat /\ Len(Topic) \in Nat /\ stopping \in BOOLEAN
  BY Bounds DEF Typed, TypeOK
<1>2. Passed = {i \in 1..committed : Unhandled(i)}
      /\ Passed' = {i \in 1..committed' : Unhandled(i)'}
  BY DEF Passed, Unhandled
<1>3. \A i \in 1 .. Len(Topic) : Unhandled(i)' => Unhandled(i)
  BY StaysHandled
<1>4. CASE AutoCommit
  <2>1. /\ committed' = position /\ position' = position /\ pc = "poll" /\ pc' = "poll"
        /\ stopping' = stopping /\ stops' = stops
    BY <1>4 DEF AutoCommit
  <2>2. \A i \in committed + 1 .. position : ~Unhandled(i)
    BY <2>1 DEF HandledInv
  <2>3. Passed' \subseteq Passed
    BY <1>1, <1>2, <1>3, <2>1, <2>2
  <2>4. \A i \in committed' + 1 .. position' : FALSE
    BY <1>1, <2>1
  <2> QED BY <1>1, <2>1, <2>3, <2>4, NoMorePassed DEF HandledInv
<1>5. CASE PollStops
  <2>1. /\ position' = position + 1 /\ committed' = position + 1 /\ position < Len(Topic)
        /\ pc = "poll" /\ pc' = "stopped" /\ stopping /\ stops' = stops
    BY <1>5 DEF PollStops
  <2>2. \A i \in committed + 1 .. position : ~Unhandled(i)
    BY <2>1 DEF HandledInv
  <2>3. Passed' \subseteq Passed \cup {position + 1}
    BY <1>1, <1>2, <1>3, <2>1, <2>2
  <2>4. IsFiniteSet(Passed) /\ Cardinality(Passed) + 1 <= stops
    BY <2>1 DEF HandledInv
  <2>5. /\ IsFiniteSet(Passed \cup {position + 1})
        /\ Cardinality(Passed \cup {position + 1}) <= Cardinality(Passed) + 1
    <3>1. Cardinality(Passed) \in Nat
      BY <2>4, FS_CardinalityType
    <3>2. /\ IsFiniteSet(Passed \cup {position + 1})
          /\ \/ Cardinality(Passed \cup {position + 1}) = Cardinality(Passed)
             \/ Cardinality(Passed \cup {position + 1}) = Cardinality(Passed) + 1
      BY <2>4, FS_AddElement
    <3> QED BY <3>1, <3>2
  <2>6. IsFiniteSet(Passed') /\ Cardinality(Passed') <= Cardinality(Passed \cup {position + 1})
    BY <2>3, <2>5, FS_Subset
  <2>7. /\ Cardinality(Passed) \in Nat /\ Cardinality(Passed') \in Nat
        /\ Cardinality(Passed \cup {position + 1}) \in Nat
    BY <2>4, <2>5, <2>6, FS_CardinalityType
  <2>8. Cardinality(Passed') <= stops'
    BY <1>1, <2>1, <2>4, <2>5, <2>6, <2>7
  <2> QED BY <2>1, <2>6, <2>7, <2>8 DEF HandledInv
<1>6. CASE committed' = committed
  <2>1. Passed' \subseteq Passed
    BY <1>1, <1>2, <1>3, <1>6
  <2>2. CASE Poll
    <3>1. /\ position' = position + 1 /\ position < Len(Topic) /\ pc = "poll"
          /\ pc' = IF Topic[position'] \in Actionable THEN "infer" ELSE "poll"
          /\ stopping' = stopping /\ stops' = stops
      BY <2>2 DEF Poll
    <3>2. \A i \in committed + 1 .. position : ~Unhandled(i)
      BY <3>1 DEF HandledInv
    <3>3. \A i \in committed' + 1 .. position' : i \in 1 .. Len(Topic)
                                 /\ (i \in committed + 1 .. position \/ i = position')
      BY <1>1, <1>6, <3>1
    <3>4. \A i \in committed' + 1 .. position' : Unhandled(i)' => i = position' /\ pc' = "infer"
      BY <1>3, <3>1, <3>2, <3>3 DEF Unhandled
    <3>5. pc' # "stopped"
      BY <3>1
    <3> QED BY <1>1, <2>1, <3>1, <3>4, <3>5, NoMorePassed DEF HandledInv
  <2>3. CASE Restart \/ Rebalanced
    <3>1. /\ position' = committed /\ stops' = stops
          /\ (stopping' /\ pc' # "stopped") => (stopping /\ pc # "stopped")
      BY <2>3 DEF Restart, Rebalanced
    <3>2. \A i \in committed' + 1 .. position' : FALSE
      BY <1>1, <1>6, <3>1
    <3> QED BY <1>1, <2>1, <3>1, <3>2, NoMorePassed DEF HandledInv
  <2>4. CASE Killed \/ CloseCommitFails
    <3>1. pc # "stopped" /\ pc' = "stopped" /\ stops' = stops
      BY <2>4 DEF Killed, CloseCommitFails
    <3> QED BY <1>1, <2>1, <3>1, NoMorePassed DEF HandledInv
  <2>5. CASE Signal
    <3>1. /\ pc # "stopped" /\ ~stopping /\ stops' = stops + 1 /\ pc' = pc /\ position' = position
      BY <2>5 DEF Signal, offsets
    <3>2. \A i \in committed' + 1 .. position' : Unhandled(i)' => i = position' /\ pc' = "infer"
      BY <1>1, <1>3, <1>6, <3>1 DEF HandledInv
    <3> QED BY <1>1, <2>1, <3>1, <3>2, NoMorePassed DEF HandledInv
  <2>6. CASE Infer \/ InferRaises
    <3>1. /\ pc = "infer" /\ pc' # "stopped" /\ position' = position
          /\ UNCHANGED <<stopping, stops>>
      BY <2>6 DEF Infer, InferRaises, Skip, Done, offsets
    <3>2. position \in 1 .. Len(Topic) /\ Current \in Event
      BY <3>1, TopicInEvent DEF Typed, HandInv, Current
    <3>3. ~Unhandled(position)'
      <4>1. CASE Infer
        <5>1. made' = [made EXCEPT ![Current] = @ + 1] /\ made \in [Event -> Nat]
          BY <4>1 DEF Infer, Typed, TypeOK
        <5>2. made'[Current] # 0
          BY <3>2, <5>1
        <5> QED BY <3>1, <5>2 DEF Unhandled, Current
      <4>2. CASE InferRaises
        BY <3>1, <4>2 DEF InferRaises, Skip, Unhandled, Current
      <4> QED BY <2>6, <4>1, <4>2
    <3>4. \A i \in committed' + 1 .. position' : ~Unhandled(i)'
      BY <1>1, <1>3, <1>6, <3>1, <3>2, <3>3 DEF HandledInv
    <3> QED BY <1>1, <2>1, <3>1, <3>4, NoMorePassed DEF HandledInv
  <2>7. CASE /\ pc # "infer" /\ (pc' = "stopped" <=> pc = "stopped")
             /\ UNCHANGED <<position, stopping, stops>>
    <3>1. pc # "stopped" => \A i \in committed' + 1 .. position' : ~Unhandled(i)'
      BY <1>1, <1>3, <1>6, <2>7 DEF HandledInv
    <3> QED BY <1>1, <1>6, <2>1, <2>7, <3>1, NoMorePassed DEF HandledInv
  <2>8. CASE UNCHANGED <<pc, position, stopping, stops>>
    <3>1. pc # "stopped" =>
            \A i \in committed' + 1 .. position' : Unhandled(i)' => i = position' /\ pc' = "infer"
      BY <1>1, <1>3, <1>6, <2>8 DEF HandledInv
    <3> QED BY <1>1, <1>6, <2>1, <2>8, <3>1, NoMorePassed DEF HandledInv
  <2>9. CASE PollStops
    BY <2>9, <1>5
  <2>10. CASE AutoCommit
    BY <2>10, <1>4
  <2>11. CASE \/ Send \/ SendLost \/ SendRaises \/ NoPlan \/ StorePlan \/ StorePart
              \/ PlanStored \/ PlanFails \/ StoreFailureEvent \/ FailureEventFails
              \/ WriteSummary \/ SummaryFails
    <3>1. /\ pc \notin {"infer", "stopped"} /\ pc' # "stopped"
          /\ UNCHANGED <<position, stopping, stops>>
      BY <2>11 DEF Send, SendLost, SendRaises, Skip, Done, NoPlan, StorePlan, StorePart,
         PlanStored, PlanFails, StoreFailureEvent, FailureEventFails, WriteSummary,
         SummaryFails, offsets
    <3> QED BY <2>7, <3>1
  <2>12. CASE PeopleAtPlans \/ UNCHANGED vars
    BY <2>8, <2>12 DEF PeopleAtPlans, vars, offsets
  <2> QED
    BY <2>2, <2>3, <2>4, <2>5, <2>6, <2>9, <2>10, <2>11, <2>12
       DEF Next, LoopStep, ProcessEvent
<1>7. AutoCommit \/ PollStops \/ committed' = committed
  BY DEF Next, LoopStep, ProcessEvent, Infer, Poll, InferRaises, Send, SendLost,
         SendRaises, NoPlan, StorePlan, StorePart, PlanStored, PlanFails, StoreFailureEvent,
         FailureEventFails, WriteSummary, SummaryFails, CloseCommitFails, Rebalanced, Signal,
         Killed, Restart, PeopleAtPlans, vars, offsets
<1> QED
  BY <1>4, <1>5, <1>6, <1>7

\* A restart forgets no alarm but the one each graceful stop drops, however
\* kills, stops and commits interleave.
THEOREM NoAlarmForgotten == Spec => []CommittedHandled
<1>1. Init => HandledInv
  <2> SUFFICES ASSUME Init PROVE HandledInv
    OBVIOUS
  <2>1. Passed = {} /\ stops = 0 /\ stopping = FALSE /\ position = 0 /\ committed = 0
    BY DEF Init, Passed
  <2> QED
    BY <2>1, FS_EmptySet DEF HandledInv
<1>2. Typed /\ HandledInv => CommittedHandled
  <2> SUFFICES ASSUME Typed, HandledInv PROVE CommittedHandled
    OBVIOUS
  <2>1. Cardinality(Passed) \in Nat /\ stops \in Nat
    BY FS_CardinalityType, Bounds DEF HandledInv, Typed, TypeOK
  <2> QED
    BY <2>1 DEF HandledInv, CommittedHandled
<1> QED
  BY <1>1, <1>2, NextHandled, AlwaysTyped, PTL DEF Spec

-----------------------------------------------------------------------------
(* An event analysed again costs a fault.                                  *)

\* How many of the first n messages are about e.
Seen(e, n) == Cardinality({i \in 1 .. n : Topic[i] = e})

(***************************************************************************)
(* Since the last fault every analysis took a message of its own: those up *)
(* to the position, but the one that is waiting for its analysis, or up to *)
(* the committed offset, where a stopped agent will resume.                *)
(***************************************************************************)
RepeatInv ==
  \A e \in Event :
    made[e] + (IF pc = "infer" /\ Current = e THEN 1 ELSE 0)
      <= Deliveries(e) * faults + Seen(e, IF pc = "stopped" THEN committed ELSE position)

LEMMA SeenGrows ==
  ASSUME NEW e, NEW n \in Nat
  PROVE  /\ Seen(e, n) \in Nat
         /\ Seen(e, n + 1) = Seen(e, n) + (IF Topic[n + 1] = e THEN 1 ELSE 0)
<1> DEFINE S == {i \in 1 .. n : Topic[i] = e}
           T == {i \in 1 .. n + 1 : Topic[i] = e}
<1>1. IsFiniteSet(S) /\ Cardinality(S) \in Nat
  <2>1. IsFiniteSet(1 .. n) /\ S \in SUBSET (1 .. n)
    BY FS_Interval
  <2>2. IsFiniteSet(S)
    BY <2>1, FS_Subset
  <2> QED BY <2>2, FS_CardinalityType
<1>2. CASE Topic[n + 1] = e
  <2>1. T = S \cup {n + 1} /\ n + 1 \notin S
    BY <1>2
  <2>2. Cardinality(S \cup {n + 1}) = Cardinality(S) + 1
    BY <1>1, <2>1, FS_AddElement
  <2> QED BY <1>1, <1>2, <2>1, <2>2 DEF Seen
<1>3. CASE Topic[n + 1] # e
  <2>1. T = S
    BY <1>3
  <2> QED BY <1>1, <1>3, <2>1 DEF Seen
<1> QED BY <1>2, <1>3

LEMMA SeenWithin ==
  ASSUME NEW e, NEW m \in Nat, NEW n \in Nat, m <= n
  PROVE  Seen(e, m) \in Nat /\ Seen(e, n) \in Nat /\ Seen(e, m) <= Seen(e, n)
<1> DEFINE S == {i \in 1 .. m : Topic[i] = e}
           T == {i \in 1 .. n : Topic[i] = e}
<1>1. IsFiniteSet(T)
  <2>1. IsFiniteSet(1 .. n) /\ T \in SUBSET (1 .. n)
    BY FS_Interval
  <2> QED BY <2>1, FS_Subset
<1>2. S \in SUBSET T
  OBVIOUS
<1>3. IsFiniteSet(S) /\ Cardinality(S) <= Cardinality(T)
  BY <1>1, <1>2, FS_Subset
<1> QED BY <1>1, <1>3, FS_CardinalityType DEF Seen

LEMMA MoreFaults ==
  ASSUME NEW d \in Nat, NEW f \in Nat
  PROVE  d * f \in Nat /\ d * (f + 1) \in Nat /\ d * (f + 1) = d * f + d
OBVIOUS

LEMMA NextRepeats ==
  ASSUME Typed, RepeatInv, [Next]_vars
  PROVE  RepeatInv'
<1> SUFFICES ASSUME NEW e \in Event
             PROVE  made'[e] + (IF pc' = "infer" /\ Current' = e THEN 1 ELSE 0)
                      <= Deliveries(e) * faults'
                           + Seen(e, IF pc' = "stopped" THEN committed' ELSE position')
  BY DEF RepeatInv, Deliveries, Seen
<1> DEFINE d == Deliveries(e)
<1>1. /\ committed \in Nat /\ position \in Nat /\ committed <= position /\ position <= Len(Topic)
      /\ Len(Topic) \in Nat /\ faults \in Nat /\ made[e] \in Nat /\ made \in [Event -> Nat]
  BY Bounds DEF Typed, TypeOK
<1>2. /\ Seen(e, committed) \in Nat /\ Seen(e, position) \in Nat
      /\ Seen(e, committed) <= Seen(e, position)
  BY <1>1, SeenWithin
<1>3. d \in Nat /\ Seen(e, position) <= d
  BY <1>1, SeenWithin DEF Deliveries, Seen
<1>4. d * faults \in Nat /\ d * (faults + 1) \in Nat /\ d * (faults + 1) = d * faults + d
  BY <1>1, <1>3, MoreFaults
<1>5. made[e] + (IF pc = "infer" /\ Current = e THEN 1 ELSE 0)
        <= d * faults + Seen(e, IF pc = "stopped" THEN committed ELSE position)
  BY DEF RepeatInv
<1> HIDE DEF d
<1>6. CASE Poll
  <2>1. /\ position' = position + 1 /\ pc = "poll" /\ pc' \in {"poll", "infer"}
        /\ made' = made /\ faults' = faults /\ Current' = Topic[position + 1]
    BY <1>6 DEF Poll, Current
  <2>2. /\ Seen(e, position + 1) \in Nat
        /\ Seen(e, position + 1) = Seen(e, position) + (IF Topic[position + 1] = e THEN 1 ELSE 0)
    BY <1>1, SeenGrows
  <2> QED BY <1>1, <1>2, <1>4, <1>5, <2>1, <2>2 DEF d
<1>7. CASE PollStops
  <2>1. /\ committed' = position + 1 /\ pc = "poll" /\ pc' = "stopped"
        /\ made' = made /\ faults' = faults
    BY <1>7 DEF PollStops
  <2>2. Seen(e, position) <= Seen(e, position + 1) /\ Seen(e, position + 1) \in Nat
    BY <1>1, SeenWithin
  <2> QED BY <1>1, <1>2, <1>4, <1>5, <2>1, <2>2 DEF d
<1>8. CASE Infer
  <2>1. /\ pc = "infer" /\ pc' = "send" /\ position' = position /\ faults' = faults
        /\ made' = [made EXCEPT ![Current] = made[Current] + 1]
    BY <1>8 DEF Infer, offsets
  <2>2. made'[e] = made[e] + (IF Current = e THEN 1 ELSE 0)
    BY <1>1, <2>1
  <2> QED BY <1>1, <1>2, <1>4, <1>5, <2>1, <2>2 DEF d
<1>9. CASE Killed
  <2>1. pc # "stopped" /\ pc' = "stopped" /\ made' = made /\ faults' = faults + 1
        /\ committed' = committed
    BY <1>9 DEF Killed, SomethingFails, offsets
  <2> QED BY <1>1, <1>2, <1>3, <1>4, <1>5, <2>1 DEF d
<1>10. CASE Restart
  <2>1. pc = "stopped" /\ pc' = "poll" /\ made' = made /\ faults' = faults
        /\ position' = committed
    BY <1>10 DEF Restart
  <2> QED BY <1>1, <1>2, <1>4, <1>5, <2>1 DEF d
<1>11. CASE SummaryFails
  <2>1. pc = "summary" /\ pc' = "poll" /\ made' = made /\ faults' = faults + 1
        /\ position' = position
    BY <1>11 DEF SummaryFails, SomethingFails, Skip, Done, offsets
  <2> QED BY <1>1, <1>2, <1>3, <1>4, <1>5, <2>1, SMTT(30) DEF d
<1>12. CASE /\ \/ pc' = pc
               \/ pc \notin {"stopped", "poll"} /\ pc' \notin {"stopped", "infer"}
            /\ pc' = "infer" => Current' = Current
            /\ pc' = "stopped" => committed' = committed
            /\ UNCHANGED <<position, made, faults>>
  <2>1. CASE pc' = "stopped"
    BY <1>1, <1>2, <1>4, <1>5, <1>12, <2>1 DEF d
  <2>2. CASE pc' # "stopped"
    <3>1. pc # "stopped"
      BY <1>12, <2>2
    <3> QED BY <1>1, <1>2, <1>4, <1>5, <1>12, <2>2, <3>1 DEF d
  <2> QED BY <2>1, <2>2
<1>13. CASE \/ InferRaises \/ Send \/ SendLost \/ SendRaises \/ NoPlan \/ StorePlan \/ StorePart
            \/ PlanStored \/ PlanFails \/ StoreFailureEvent \/ FailureEventFails \/ WriteSummary
  <2>1. /\ pc \notin {"stopped", "poll"} /\ pc' \notin {"stopped", "infer"}
        /\ UNCHANGED <<position, made, faults>>
    BY <1>13 DEF InferRaises, Send, SendLost, SendRaises, Skip, Done, NoPlan, StorePlan,
       StorePart, PlanStored, PlanFails, StoreFailureEvent, FailureEventFails, WriteSummary,
       offsets
  <2> QED BY <1>12, <2>1
<1>14. CASE Signal \/ PeopleAtPlans \/ AutoCommit \/ UNCHANGED vars
  <2>1. /\ pc' = pc /\ UNCHANGED <<position, made, faults>>
        /\ pc = "stopped" => committed' = committed
    BY <1>14 DEF Signal, PeopleAtPlans, AutoCommit, vars, offsets
  <2> QED BY <1>12, <2>1 DEF Current
<1>15. CASE CloseCommitFails \/ Rebalanced
  <2>1. /\ pc = "poll" /\ pc' \in {"poll", "stopped"} /\ made' = made /\ faults' = faults + 1
        /\ committed' = committed /\ (pc' # "stopped" => position' = committed)
    BY <1>15 DEF CloseCommitFails, Rebalanced, SomethingFails
  <2> QED BY <1>1, <1>2, <1>3, <1>4, <1>5, <2>1 DEF d
<1> QED
  BY <1>6, <1>7, <1>8, <1>9, <1>10, <1>11, <1>13, <1>14, <1>15 DEF Next, LoopStep, ProcessEvent

\* An event is analysed at most once per message about it, and once more for
\* each of them per kill, lost session or failed commit.
THEOREM RepeatsCostFaults == Spec => []RepeatsNeedFaults
<1>1. Init => RepeatInv
  <2> SUFFICES ASSUME Init, NEW e \in Event
               PROVE  made[e] + (IF pc = "infer" /\ Current = e THEN 1 ELSE 0)
                        <= Deliveries(e) * faults
                             + Seen(e, IF pc = "stopped" THEN committed ELSE position)
    BY DEF RepeatInv
  <2>1. made[e] = 0 /\ pc = "poll" /\ faults = 0 /\ position = 0
    BY DEF Init
  <2>2. Seen(e, 0) \in Nat /\ Deliveries(e) \in Nat
    <3>1. 0 \in Nat /\ 0 <= Len(Topic) /\ Len(Topic) \in Nat
      BY Bounds
    <3>2. Seen(e, 0) \in Nat /\ Seen(e, Len(Topic)) \in Nat
      BY <3>1, SeenWithin
    <3> QED BY <3>2 DEF Deliveries, Seen
  <2>3. Deliveries(e) * 0 = 0
    BY <2>2
  <2> QED BY <2>1, <2>2, <2>3
<1>2. Typed /\ RepeatInv => RepeatsNeedFaults
  <2> SUFFICES ASSUME Typed, RepeatInv, NEW e \in Event
               PROVE  made[e] <= Deliveries(e) * (1 + faults)
    BY DEF RepeatsNeedFaults
  <2> DEFINE d == Deliveries(e)
             n == IF pc = "stopped" THEN committed ELSE position
  <2>1. n \in Nat /\ n <= Len(Topic) /\ Len(Topic) \in Nat /\ faults \in Nat /\ made[e] \in Nat
    BY Bounds DEF Typed, TypeOK
  <2>2. Seen(e, n) \in Nat /\ d \in Nat /\ Seen(e, n) <= d
    BY <2>1, SeenWithin DEF Deliveries, Seen
  <2>3. d * faults \in Nat /\ d * (faults + 1) = d * faults + d
    BY <2>1, <2>2, MoreFaults
  <2>4. made[e] + (IF pc = "infer" /\ Current = e THEN 1 ELSE 0) <= d * faults + Seen(e, n)
    BY DEF RepeatInv
  <2> HIDE DEF d, n
  <2>5. made[e] <= d * faults + Seen(e, n)
    BY <2>1, <2>2, <2>3, <2>4
  <2>6. made[e] <= d * (faults + 1)
    BY <2>1, <2>2, <2>3, <2>5
  <2>7. 1 + faults = faults + 1
    BY <2>1
  <2> QED BY <2>6, <2>7 DEF d
<1> QED
  BY <1>1, <1>2, NextRepeats, AlwaysTyped, PTL DEF Spec
=============================================================================

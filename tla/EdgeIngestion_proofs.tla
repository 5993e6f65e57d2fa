------------------------- MODULE EdgeIngestion_proofs -------------------------
(***************************************************************************)
(* Proofs about EdgeIngestion, for every topic, buffer size, batch size    *)
(* and number of faults.                                                   *)
(***************************************************************************)
EXTENDS EdgeIngestion, SequenceTheorems, WellFoundedInduction, TLAPS

USE BufferAssumption, IngestionAssumption

(***************************************************************************)
(* The two methods that change the rows of the buffer.                     *)
(***************************************************************************)

Counters == [buffered : Nat, replayed : Nat, failures : Nat]

\* The counters stay natural numbers.
LEMMA CountersTyped ==
  ASSUME NEW t \in Counters, NEW n \in Nat, NEW m \in Nat
  PROVE  /\ [t EXCEPT !.buffered = @ + 1] \in Counters
         /\ [t EXCEPT !.replayed = @ + n, !.failures = @ + m] \in Counters
<1>1. t.buffered \in Nat /\ t.replayed \in Nat /\ t.failures \in Nat
  BY DEF Counters
<1>2. t.buffered + 1 \in Nat /\ t.replayed + n \in Nat /\ t.failures + m \in Nat
  BY <1>1
<1> DEFINE b == t.buffered + 1
           r == t.replayed + n
           f == t.failures + m
<1> HIDE DEF b, r, f
<1>3. [t EXCEPT !.buffered = b] \in Counters
  BY <1>2 DEF Counters, b
<1>4. [t EXCEPT !.replayed = r, !.failures = f] \in Counters
  BY <1>2 DEF Counters, r, f
<1>5. QED BY <1>3, <1>4 DEF b, r, f

\* buffer_event keeps the table typed, bounded and accounted for; what it
\* removes is recorded as evicted, and the new event is held.
LEMMA AddEventKeeps ==
  ASSUME BufferTypeOK, BufferBounded, Accounting,
         NEW e \in Event, NEW s \in Statuses, AddEvent(e, s)
  PROVE  /\ BufferTypeOK' /\ BufferBounded' /\ Accounting'
         /\ batch' = batch
         /\ Held \cup evicted \cup {e} \subseteq Held' \cup evicted'
         /\ evicted \subseteq evicted'
<1> DEFINE cut == Overflow(buffer)
           rest == SubSeq(buffer, cut + 1, Len(buffer))
<1>1. buffer \in Seq(Event) /\ Len(buffer) \in Nat /\ Len(buffer) <= MaxEvents
  BY DEF BufferTypeOK, BufferBounded
<1>2. cut \in Nat /\ cut <= Len(buffer) /\ Len(buffer) - cut + 1 <= MaxEvents
  BY <1>1 DEF Overflow, LargerOf
<1> HIDE DEF cut
<1>3. /\ rest \in Seq(Event) /\ Len(rest) = Len(buffer) - cut
      /\ \A i \in 1..Len(rest) : rest[i] = buffer[cut + i]
  BY <1>1, <1>2
<1>4. /\ buffer' = Append(rest, e)
      /\ evictions' = evictions + cut
      /\ evicted' = evicted \cup {buffer[i] : i \in 1..cut}
      /\ totals' = [totals EXCEPT !.buffered = @ + 1]
      /\ status' = s /\ batch' = batch
  BY DEF AddEvent, cut
<1> HIDE DEF rest
<1>5. /\ buffer' \in Seq(Event) /\ Len(buffer') = Len(buffer) - cut + 1
      /\ buffer'[Len(buffer')] = e
      /\ \A i \in 1..Len(rest) : buffer'[i] = buffer[cut + i]
  BY <1>1, <1>2, <1>3, <1>4
<1>6. BufferTypeOK'
  <2>1. totals' \in [buffered : Nat, replayed : Nat, failures : Nat]
    BY <1>4, CountersTyped DEF BufferTypeOK, Counters
  <2>2. evicted' \in SUBSET Event /\ evictions' \in Nat
    BY <1>1, <1>2, <1>4 DEF BufferTypeOK
  <2>3. QED BY <1>4, <1>5, <2>1, <2>2 DEF BufferTypeOK
<1>7. BufferBounded'
  BY <1>2, <1>5 DEF BufferBounded
<1>8. Accounting'
  BY <1>1, <1>2, <1>4, <1>5 DEF Accounting, BufferTypeOK
<1>9. ASSUME NEW i \in 1..Len(buffer) PROVE buffer[i] \in Held' \cup evicted'
  <2>1. CASE i <= cut
    BY <2>1, <1>2, <1>4
  <2>2. CASE i > cut
    <3>1. i - cut \in 1..Len(rest) /\ i - cut \in 1..Len(buffer')
      BY <2>2, <1>1, <1>2, <1>3, <1>5
    <3>2. buffer'[i - cut] = buffer[i]
      BY <3>1, <1>2, <1>5
    <3>3. QED BY <3>1, <3>2 DEF Held
  <2>3. QED BY <2>1, <2>2, <1>2
<1>10. Len(buffer') \in 1..Len(buffer') /\ e \in Held'
  BY <1>1, <1>2, <1>5 DEF Held
<1>11. Held \subseteq Held' \cup evicted'
  BY <1>9 DEF Held
<1>12. QED BY <1>4, <1>6, <1>7, <1>8, <1>10, <1>11

\* The commit that ends a batch removes only the rows it deleted, here those in S.
LEMMA CommitDeletionsKeeps ==
  ASSUME BufferTypeOK, BufferBounded, Accounting, BatchWithinBuffer,
         NEW f \in BOOLEAN, NEW s \in Statuses, NEW S,
         \A i \in 1..batch.done : buffer[i] \in S,
         CommitDeletions(f, s)
  PROVE  /\ BufferTypeOK' /\ BufferBounded' /\ Accounting'
         /\ batch' = NoBatch
         /\ Held \subseteq Held' \cup S
         /\ evicted' = evicted
<1> DEFINE d == batch.done
<1>1. /\ buffer \in Seq(Event) /\ Len(buffer) \in Nat
      /\ d \in Nat /\ d <= Len(buffer) /\ Len(buffer) <= MaxEvents
  BY DEF BufferTypeOK, BatchWithinBuffer, BufferBounded
<1>2. /\ buffer' = SubSeq(buffer, d + 1, Len(buffer))
      /\ totals' = [totals EXCEPT !.replayed = @ + d, !.failures = @ + (IF f THEN 1 ELSE 0)]
      /\ batch' = NoBatch /\ status' = s
      /\ evictions' = evictions /\ evicted' = evicted
  BY DEF CommitDeletions
<1>3. \A i \in 1..d : buffer[i] \in S
  OBVIOUS
<1> HIDE DEF d
<1>4. /\ buffer' \in Seq(Event) /\ Len(buffer') = Len(buffer) - d
      /\ \A i \in 1..Len(buffer') : buffer'[i] = buffer[d + i]
  BY <1>1, <1>2
<1>5. BufferTypeOK'
  <2>1. totals' \in [buffered : Nat, replayed : Nat, failures : Nat]
    BY <1>1, <1>2, CountersTyped DEF BufferTypeOK, Counters
  <2>2. batch' \in [size : Nat, done : Nat]
    BY <1>2 DEF NoBatch
  <2>3. QED BY <1>2, <1>4, <2>1, <2>2 DEF BufferTypeOK
<1>6. BufferBounded'
  BY <1>1, <1>4 DEF BufferBounded
<1>7. Accounting'
  BY <1>1, <1>2, <1>4 DEF Accounting, BufferTypeOK
<1>8. ASSUME NEW i \in 1..Len(buffer) PROVE buffer[i] \in Held' \cup S
  <2>1. CASE i <= d
    BY <2>1, <1>1, <1>3
  <2>2. CASE i > d
    <3>1. i - d \in 1..Len(buffer')
      BY <2>2, <1>1, <1>4
    <3>2. buffer'[i - d] = buffer[i]
      BY <3>1, <1>1, <1>4
    <3>3. QED BY <3>1, <3>2 DEF Held
  <2>3. QED BY <2>1, <2>2, <1>1
<1>9. Held \subseteq Held' \cup S
  BY <1>8 DEF Held
<1>10. QED BY <1>2, <1>5, <1>6, <1>7, <1>9

(***************************************************************************)
(* The inductive invariant.                                                *)
(***************************************************************************)

\* Outside a replay no transaction is open; inside one, the rows deleted so
\* far are already in the central store.
ReplayInv ==
  /\ BatchWithinBuffer
  /\ pc # "replay" => batch = NoBatch
  /\ \A i \in 1..batch.done : buffer[i] \in events

\* A message in flight is an event, and it is not committed yet.
InFlightInv ==
  InFlight => position > 0 /\ Topic[position] \in Event /\ committed < position

IInv ==
  /\ TypeOK /\ Accounting /\ BufferBounded
  /\ ReplayInv /\ InFlightInv /\ NothingForgotten

\* What is kept somewhere, or reported lost.
Kept == events \cup Held \cup evicted \cup dropped

LEMMA InitIInv == Init => IInv
<1> SUFFICES ASSUME Init PROVE IInv
  OBVIOUS
<1> USE DEF Init, BufferInit, NoBatch
<1>1. TypeOK
  <2>1. BufferTypeOK
    BY DEF BufferTypeOK, Statuses
  <2>2. /\ produced \in 0..Len(Topic) /\ position \in 0..produced
        /\ committed \in 0..position /\ faults \in 0..MaxFaults
    OBVIOUS
  <2>3. firstWrites \in Seq(Event)
    OBVIOUS
  <2>4. QED BY <2>1, <2>2, <2>3 DEF TypeOK, Locations
<1>2. Accounting /\ BufferBounded
  BY DEF Accounting, BufferBounded
<1>3. ReplayInv
  BY DEF ReplayInv, BatchWithinBuffer
<1>4. InFlightInv /\ NothingForgotten
  BY DEF InFlightInv, NothingForgotten, InFlight, Handled
<1>5. QED BY <1>1, <1>2, <1>3, <1>4 DEF IInv
(***************************************************************************)
(* Facts the steps share.                                                  *)
(***************************************************************************)

\* An insert keeps table events typed and makes e a row.
LEMMA InsertKeeps ==
  ASSUME TypeOK, NEW e \in Event, Insert(e)
  PROVE  /\ events' \in SUBSET Event /\ firstWrites' \in Seq(Event)
         /\ events \subseteq events' /\ e \in events'
  BY DEF Insert, TypeOK

\* A failed store writes at most the event it tried.
LEMMA StoreFailsKeeps ==
  ASSUME TypeOK, NEW e \in Event, StoreFails(e)
  PROVE  /\ events' \in SUBSET Event /\ firstWrites' \in Seq(Event)
         /\ events \subseteq events' /\ central' \in BOOLEAN
  BY InsertKeeps DEF StoreFails, storeVars, TypeOK

\* Steps that leave the buffer alone keep what is said of it.
LEMMA BufferUnchangedKeeps ==
  ASSUME BufferTypeOK, Accounting, BufferBounded, BatchWithinBuffer, UNCHANGED bufferVars
  PROVE  /\ BufferTypeOK' /\ Accounting' /\ BufferBounded' /\ BatchWithinBuffer'
         /\ Held' = Held /\ batch' = batch /\ buffer' = buffer /\ evicted' = evicted
  BY DEF bufferVars, BufferTypeOK, Accounting, BufferBounded, BatchWithinBuffer, Held

\* Changing connectivity_status changes nothing else.
LEMMA MarkConnectivityKeeps ==
  ASSUME BufferTypeOK, Accounting, BufferBounded, BatchWithinBuffer,
         NEW s \in Statuses, MarkConnectivity(s)
  PROVE  /\ BufferTypeOK' /\ Accounting' /\ BufferBounded' /\ BatchWithinBuffer'
         /\ Held' = Held /\ batch' = batch /\ buffer' = buffer /\ evicted' = evicted
  BY DEF MarkConnectivity, BufferTypeOK, Accounting, BufferBounded, BatchWithinBuffer, Held

\* Neither does connecting.
LEMMA ConnectEdgeKeeps ==
  ASSUME BufferTypeOK, Accounting, BufferBounded, BatchWithinBuffer, ConnectEdge
  PROVE  /\ BufferTypeOK' /\ Accounting' /\ BufferBounded' /\ BatchWithinBuffer'
         /\ Held' = Held /\ batch' = batch /\ buffer' = buffer /\ evicted' = evicted
         /\ conn' \in {"none", "live", "broken"}
  BY MarkConnectivityKeeps DEF ConnectEdge, Statuses

\* Nothing is forgotten by a step that loses nothing kept and keeps, or
\* reports, every message it finishes with.
LEMMA StillNothingForgotten ==
  ASSUME NothingForgotten, Kept \subseteq Kept',
         \A i \in Handled' : i \in Handled \/ (Topic[i] \in Event => Topic[i] \in Kept')
  PROVE  NothingForgotten'
  BY DEF NothingForgotten, Kept

\* Publishing, outages, the clock, the offset commit and the stop signal.
LEMMA EnvironmentStep ==
  ASSUME IInv, edgeMode' = edgeMode,
         Publish \/ CentralGoesDown \/ CentralComesBack \/ ProbeIntervalElapses \/ AutoCommit \/ StopSignal
  PROVE  IInv'
<1>1. /\ TypeOK /\ BufferTypeOK /\ Accounting /\ BufferBounded /\ BatchWithinBuffer
      /\ ReplayInv /\ InFlightInv /\ NothingForgotten
  BY DEF IInv, TypeOK, ReplayInv
<1>2. /\ Len(Topic) \in Nat /\ produced \in Nat /\ position \in Nat /\ committed \in Nat
      /\ produced <= Len(Topic) /\ position <= produced /\ committed <= position
      /\ MaxFaults \in Nat
  BY <1>1 DEF TypeOK
<1>3. CASE Publish
  <2> USE <1>3 DEF Publish, kafkaVars, loopVars, storeVars
  <2>1. /\ BufferTypeOK' /\ Accounting' /\ BufferBounded' /\ BatchWithinBuffer'
        /\ Held' = Held /\ batch' = batch /\ buffer' = buffer /\ evicted' = evicted
    BY <1>1, BufferUnchangedKeeps
  <2>2. TypeOK'
    BY <1>1, <1>2, <2>1 DEF TypeOK, Locations
  <2>3. ReplayInv'
    BY <1>1, <2>1 DEF ReplayInv, NoBatch
  <2>4. InFlightInv'
    BY <1>1, <1>2 DEF InFlightInv, InFlight
  <2>5. Kept \subseteq Kept'
    BY <2>1 DEF Kept
  <2>6. NothingForgotten'
    BY <1>1, <1>2, <2>5, StillNothingForgotten DEF Handled, InFlight, InFlightInv, Kept
  <2>7. QED BY <2>1, <2>2, <2>3, <2>4, <2>6 DEF IInv
<1>4. CASE CentralGoesDown
  <2> USE <1>4 DEF CentralGoesDown, kafkaVars, loopVars, storeVars
  <2>1. /\ BufferTypeOK' /\ Accounting' /\ BufferBounded' /\ BatchWithinBuffer'
        /\ Held' = Held /\ batch' = batch /\ buffer' = buffer /\ evicted' = evicted
    BY <1>1, BufferUnchangedKeeps
  <2>2. TypeOK'
    BY <1>1, <1>2, <2>1 DEF TypeOK, Locations
  <2>3. ReplayInv'
    BY <1>1, <2>1 DEF ReplayInv, NoBatch
  <2>4. InFlightInv'
    BY <1>1, <1>2 DEF InFlightInv, InFlight
  <2>5. Kept \subseteq Kept'
    BY <2>1 DEF Kept
  <2>6. NothingForgotten'
    BY <1>1, <1>2, <2>5, StillNothingForgotten DEF Handled, InFlight, InFlightInv, Kept
  <2>7. QED BY <2>1, <2>2, <2>3, <2>4, <2>6 DEF IInv
<1>5. CASE CentralComesBack
  <2> USE <1>5 DEF CentralComesBack, kafkaVars, loopVars, storeVars
  <2>1. /\ BufferTypeOK' /\ Accounting' /\ BufferBounded' /\ BatchWithinBuffer'
        /\ Held' = Held /\ batch' = batch /\ buffer' = buffer /\ evicted' = evicted
    BY <1>1, BufferUnchangedKeeps
  <2>2. TypeOK'
    BY <1>1, <1>2, <2>1 DEF TypeOK, Locations
  <2>3. ReplayInv'
    BY <1>1, <2>1 DEF ReplayInv, NoBatch
  <2>4. InFlightInv'
    BY <1>1, <1>2 DEF InFlightInv, InFlight
  <2>5. Kept \subseteq Kept'
    BY <2>1 DEF Kept
  <2>6. NothingForgotten'
    BY <1>1, <1>2, <2>5, StillNothingForgotten DEF Handled, InFlight, InFlightInv, Kept
  <2>7. QED BY <2>1, <2>2, <2>3, <2>4, <2>6 DEF IInv
<1>6. CASE ProbeIntervalElapses
  <2> USE <1>6 DEF ProbeIntervalElapses, kafkaVars, loopVars, storeVars
  <2>1. /\ BufferTypeOK' /\ Accounting' /\ BufferBounded' /\ BatchWithinBuffer'
        /\ Held' = Held /\ batch' = batch /\ buffer' = buffer /\ evicted' = evicted
    BY <1>1, BufferUnchangedKeeps
  <2>2. TypeOK'
    BY <1>1, <1>2, <2>1 DEF TypeOK, Locations
  <2>3. ReplayInv'
    BY <1>1, <2>1 DEF ReplayInv, NoBatch
  <2>4. InFlightInv'
    BY <1>1, <1>2 DEF InFlightInv, InFlight
  <2>5. Kept \subseteq Kept'
    BY <2>1 DEF Kept
  <2>6. NothingForgotten'
    BY <1>1, <1>2, <2>5, StillNothingForgotten DEF Handled, InFlight, InFlightInv, Kept
  <2>7. QED BY <2>1, <2>2, <2>3, <2>4, <2>6 DEF IInv
<1>7. CASE AutoCommit
  <2> USE <1>7 DEF AutoCommit, kafkaVars, loopVars, storeVars
  <2>1. /\ BufferTypeOK' /\ Accounting' /\ BufferBounded' /\ BatchWithinBuffer'
        /\ Held' = Held /\ batch' = batch /\ buffer' = buffer /\ evicted' = evicted
    BY <1>1, BufferUnchangedKeeps
  <2>2. TypeOK'
    BY <1>1, <1>2, <2>1 DEF TypeOK, Locations
  <2>3. ReplayInv'
    BY <1>1, <2>1 DEF ReplayInv, NoBatch
  <2>4. InFlightInv'
    BY <1>1, <1>2 DEF InFlightInv, InFlight
  <2>5. Kept \subseteq Kept'
    BY <2>1 DEF Kept
  <2>6. NothingForgotten'
    BY <1>1, <1>2, <2>5, StillNothingForgotten DEF Handled, InFlight, InFlightInv, Kept
  <2>7. QED BY <2>1, <2>2, <2>3, <2>4, <2>6 DEF IInv
<1>8. CASE StopSignal
  <2> USE <1>8 DEF StopSignal, kafkaVars, loopVars, storeVars
  <2>1. /\ BufferTypeOK' /\ Accounting' /\ BufferBounded' /\ BatchWithinBuffer'
        /\ Held' = Held /\ batch' = batch /\ buffer' = buffer /\ evicted' = evicted
    BY <1>1, BufferUnchangedKeeps
  <2>2. TypeOK'
    BY <1>1, <1>2, <2>1 DEF TypeOK, Locations
  <2>3. ReplayInv'
    BY <1>1, <2>1 DEF ReplayInv, NoBatch
  <2>4. InFlightInv'
    BY <1>1, <1>2 DEF InFlightInv, InFlight
  <2>5. Kept \subseteq Kept'
    BY <2>1 DEF Kept
  <2>6. NothingForgotten'
    BY <1>1, <1>2, <2>5, StillNothingForgotten DEF Handled, InFlight, InFlightInv, Kept
  <2>7. QED BY <2>1, <2>2, <2>3, <2>4, <2>6 DEF IInv
<1>9. QED BY <1>3, <1>4, <1>5, <1>6, <1>7, <1>8

\* Start-up, polling and the stop after a signal.
LEMMA ConsumerStep ==
  ASSUME IInv, edgeMode' = edgeMode,
         Start \/ Poll \/ StopOnNextMessage
  PROVE  IInv'
<1>1. /\ TypeOK /\ BufferTypeOK /\ Accounting /\ BufferBounded /\ BatchWithinBuffer
      /\ ReplayInv /\ InFlightInv /\ NothingForgotten
  BY DEF IInv, TypeOK, ReplayInv
<1>2. /\ Len(Topic) \in Nat /\ produced \in Nat /\ position \in Nat /\ committed \in Nat
      /\ produced <= Len(Topic) /\ position <= produced /\ committed <= position
      /\ MaxFaults \in Nat
  BY <1>1 DEF TypeOK
<1>3. CASE Start
  <2> USE <1>3 DEF Start, kafkaVars, loopVars, storeVars
  <2>1. /\ BufferTypeOK' /\ Accounting' /\ BufferBounded' /\ BatchWithinBuffer'
        /\ Held' = Held /\ batch' = batch /\ buffer' = buffer /\ evicted' = evicted
    BY <1>1, BufferUnchangedKeeps, ConnectEdgeKeeps
  <2>2. TypeOK'
    BY <1>1, <1>2, <2>1, ConnectEdgeKeeps DEF TypeOK, Locations
  <2>3. ReplayInv'
    BY <1>1, <2>1 DEF ReplayInv, NoBatch
  <2>4. InFlightInv'
    BY <1>1, <1>2 DEF InFlightInv, InFlight
  <2>5. Kept \subseteq Kept'
    BY <2>1 DEF Kept
  <2>6. NothingForgotten'
    BY <1>1, <1>2, <2>5, StillNothingForgotten DEF Handled, InFlight, InFlightInv, Kept
  <2>7. QED BY <2>1, <2>2, <2>3, <2>4, <2>6 DEF IInv
<1>4. CASE Poll
  <2> USE <1>4 DEF Poll, kafkaVars, loopVars, storeVars
  <2>0. position + 1 \in 1..Len(Topic) /\ Topic[position + 1] \in Event \cup {Ignored}
    BY <1>2
  <2>1. /\ BufferTypeOK' /\ Accounting' /\ BufferBounded' /\ BatchWithinBuffer'
        /\ Held' = Held /\ batch' = batch /\ buffer' = buffer /\ evicted' = evicted
    BY <1>1, BufferUnchangedKeeps
  <2>2. TypeOK'
    BY <1>1, <1>2, <2>1, <2>0 DEF TypeOK, Locations
  <2>3. ReplayInv'
    BY <1>1, <2>1 DEF ReplayInv, NoBatch
  <2>4. InFlightInv'
    BY <1>1, <1>2, <2>0 DEF InFlightInv, InFlight
  <2>5. Kept \subseteq Kept'
    BY <2>1, <2>0 DEF Kept
  <2>6. NothingForgotten'
    BY <1>1, <1>2, <2>5, StillNothingForgotten, <2>0 DEF Handled, InFlight, InFlightInv, Kept
  <2>7. QED BY <2>1, <2>2, <2>3, <2>4, <2>6 DEF IInv
<1>5. CASE StopOnNextMessage
  <2> USE <1>5 DEF StopOnNextMessage, kafkaVars, loopVars, storeVars, ExitAfter
  <2>1. /\ BufferTypeOK' /\ Accounting' /\ BufferBounded' /\ BatchWithinBuffer'
        /\ Held' = Held /\ batch' = batch /\ buffer' = buffer /\ evicted' = evicted
    BY <1>1, BufferUnchangedKeeps
  <2>2. TypeOK'
    BY <1>1, <1>2, <2>1 DEF TypeOK, Locations
  <2>3. ReplayInv'
    BY <1>1, <2>1 DEF ReplayInv, NoBatch
  <2>4. InFlightInv'
    BY <1>1, <1>2 DEF InFlightInv, InFlight
  <2>5. Kept \subseteq Kept'
    BY <2>1 DEF Kept
  <2>6. NothingForgotten'
    BY <1>1, <1>2, <2>5, StillNothingForgotten DEF Handled, InFlight, InFlightInv, Kept
  <2>7. QED BY <2>1, <2>2, <2>3, <2>4, <2>6 DEF IInv
<1>6. QED BY <1>3, <1>4, <1>5

\* Steps that store or route a message and leave the rows of the buffer alone.
LEMMA PlainStep ==
  ASSUME IInv, edgeMode' = edgeMode,
         StoreDirect \/ ProbeCentral \/ RouteToStore \/ StoreLive \/ BufferWriteFails
  PROVE  IInv'
<1>1. /\ TypeOK /\ BufferTypeOK /\ Accounting /\ BufferBounded /\ BatchWithinBuffer
      /\ ReplayInv /\ InFlightInv /\ NothingForgotten
  BY DEF IInv, TypeOK, ReplayInv
<1>2. /\ Len(Topic) \in Nat /\ produced \in Nat /\ position \in Nat /\ committed \in Nat
      /\ produced <= Len(Topic) /\ position <= produced /\ committed <= position
      /\ MaxFaults \in Nat
  BY <1>1 DEF TypeOK
<1>3. CASE StoreDirect
  <2> USE <1>3 DEF StoreDirect, kafkaVars, loopVars, storeVars, Stored
  <2>0. Current \in Event /\ position > 0 /\ committed < position
    BY <1>1 DEF InFlightInv, InFlight, Current
  <2>a. /\ events' \in SUBSET Event /\ firstWrites' \in Seq(Event) /\ events \subseteq events'
        /\ central' \in BOOLEAN /\ Current \in events' \cup dropped'
    BY <1>1, <2>0, InsertKeeps, StoreFailsKeeps DEF TypeOK
  <2>1. /\ BufferTypeOK' /\ Accounting' /\ BufferBounded' /\ BatchWithinBuffer'
        /\ Held' = Held /\ batch' = batch /\ buffer' = buffer /\ evicted' = evicted
    BY <1>1, BufferUnchangedKeeps
  <2>2. TypeOK'
    BY <1>1, <1>2, <2>1, <2>0, <2>a DEF TypeOK, Locations
  <2>3. ReplayInv'
    BY <1>1, <2>1, <2>a DEF ReplayInv, NoBatch
  <2>4. InFlightInv'
    BY <1>1, <1>2, <2>0 DEF InFlightInv, InFlight
  <2>5. Kept \subseteq Kept'
    BY <2>1, <2>0, <2>a DEF Kept
  <2>6. NothingForgotten'
    BY <1>1, <1>2, <2>5, StillNothingForgotten, <2>0, <2>a DEF Handled, Current, InFlight, InFlightInv, Kept
  <2>7. QED BY <2>1, <2>2, <2>3, <2>4, <2>6 DEF IInv
<1>4. CASE ProbeCentral
  <2> USE <1>4 DEF ProbeCentral, kafkaVars, loopVars, storeVars
  <2>1. /\ BufferTypeOK' /\ Accounting' /\ BufferBounded' /\ BatchWithinBuffer'
        /\ Held' = Held /\ batch' = batch /\ buffer' = buffer /\ evicted' = evicted
    BY <1>1, BufferUnchangedKeeps, ConnectEdgeKeeps
  <2>2. TypeOK'
    BY <1>1, <1>2, <2>1, ConnectEdgeKeeps DEF TypeOK, Locations
  <2>3. ReplayInv'
    BY <1>1, <2>1 DEF ReplayInv, NoBatch
  <2>4. InFlightInv'
    BY <1>1, <1>2 DEF InFlightInv, InFlight
  <2>5. Kept \subseteq Kept'
    BY <2>1 DEF Kept
  <2>6. NothingForgotten'
    BY <1>1, <1>2, <2>5, StillNothingForgotten DEF Handled, InFlight, InFlightInv, Kept
  <2>7. QED BY <2>1, <2>2, <2>3, <2>4, <2>6 DEF IInv
<1>5. CASE RouteToStore
  <2> USE <1>5 DEF RouteToStore, kafkaVars, loopVars, storeVars
  <2>1. /\ BufferTypeOK' /\ Accounting' /\ BufferBounded' /\ BatchWithinBuffer'
        /\ Held' = Held /\ batch' = batch /\ buffer' = buffer /\ evicted' = evicted
    BY <1>1, BufferUnchangedKeeps
  <2>2. TypeOK'
    BY <1>1, <1>2, <2>1 DEF TypeOK, Locations
  <2>3. ReplayInv'
    BY <1>1, <2>1 DEF ReplayInv, NoBatch
  <2>4. InFlightInv'
    BY <1>1, <1>2 DEF InFlightInv, InFlight
  <2>5. Kept \subseteq Kept'
    BY <2>1 DEF Kept
  <2>6. NothingForgotten'
    BY <1>1, <1>2, <2>5, StillNothingForgotten DEF Handled, InFlight, InFlightInv, Kept
  <2>7. QED BY <2>1, <2>2, <2>3, <2>4, <2>6 DEF IInv
<1>6. CASE StoreLive
  <2> USE <1>6 DEF StoreLive, kafkaVars, loopVars, storeVars, Stored
  <2>0. Current \in Event /\ position > 0 /\ committed < position
    BY <1>1 DEF InFlightInv, InFlight, Current
  <2>a. /\ events' \in SUBSET Event /\ firstWrites' \in Seq(Event) /\ events \subseteq events'
        /\ Current \in events'
    BY <1>1, <2>0, InsertKeeps DEF TypeOK
  <2>1. /\ BufferTypeOK' /\ Accounting' /\ BufferBounded' /\ BatchWithinBuffer'
        /\ Held' = Held /\ batch' = batch /\ buffer' = buffer /\ evicted' = evicted
    BY <1>1, MarkConnectivityKeeps DEF Statuses
  <2>2. TypeOK'
    BY <1>1, <1>2, <2>1, <2>a DEF TypeOK, Locations
  <2>3. ReplayInv'
    BY <1>1, <2>1, <2>a DEF ReplayInv, NoBatch
  <2>4. InFlightInv'
    BY <1>1, <1>2, <2>0 DEF InFlightInv, InFlight
  <2>5. Kept \subseteq Kept'
    BY <2>1, <2>0, <2>a DEF Kept
  <2>6. NothingForgotten'
    BY <1>1, <1>2, <2>5, StillNothingForgotten, <2>0, <2>a DEF Handled, Current, InFlight, InFlightInv, Kept
  <2>7. QED BY <2>1, <2>2, <2>3, <2>4, <2>6 DEF IInv
<1>7. CASE BufferWriteFails
  <2> USE <1>7 DEF BufferWriteFails, kafkaVars, loopVars, storeVars, ExitAfter
  <2>0. Current \in Event /\ position > 0 /\ committed < position
    BY <1>1 DEF InFlightInv, InFlight, Current
  <2>1. /\ BufferTypeOK' /\ Accounting' /\ BufferBounded' /\ BatchWithinBuffer'
        /\ Held' = Held /\ batch' = batch /\ buffer' = buffer /\ evicted' = evicted
    BY <1>1, BufferUnchangedKeeps
  <2>2. TypeOK'
    BY <1>1, <1>2, <2>1, <2>0 DEF TypeOK, Locations
  <2>3. ReplayInv'
    BY <1>1, <2>1 DEF ReplayInv, NoBatch
  <2>4. InFlightInv'
    BY <1>1, <1>2, <2>0 DEF InFlightInv, InFlight
  <2>5. Kept \subseteq Kept'
    BY <2>1, <2>0 DEF Kept
  <2>6. NothingForgotten'
    BY <1>1, <1>2, <2>5, StillNothingForgotten, <2>0 DEF Handled, Current, InFlight, InFlightInv, Kept
  <2>7. QED BY <2>1, <2>2, <2>3, <2>4, <2>6 DEF IInv
<1>8. QED BY <1>3, <1>4, <1>5, <1>6, <1>7

\* Steps that buffer a message.
LEMMA BufferStep ==
  ASSUME IInv, edgeMode' = edgeMode,
         BufferOffline \/ StoreLiveFails
  PROVE  IInv'
<1>1. /\ TypeOK /\ BufferTypeOK /\ Accounting /\ BufferBounded /\ BatchWithinBuffer
      /\ ReplayInv /\ InFlightInv /\ NothingForgotten
  BY DEF IInv, TypeOK, ReplayInv
<1>2. /\ Len(Topic) \in Nat /\ produced \in Nat /\ position \in Nat /\ committed \in Nat
      /\ produced <= Len(Topic) /\ position <= produced /\ committed <= position
      /\ MaxFaults \in Nat
  BY <1>1 DEF TypeOK
<1>3. CASE BufferOffline
  <2> USE <1>3 DEF BufferOffline, kafkaVars, loopVars, storeVars
  <2>0. Current \in Event /\ position > 0 /\ committed < position
    BY <1>1 DEF InFlightInv, InFlight, Current
  <2>1. /\ BufferTypeOK' /\ Accounting' /\ BufferBounded' /\ BatchWithinBuffer'
        /\ batch' = NoBatch /\ evicted \subseteq evicted'
        /\ Held \cup evicted \cup {Current} \subseteq Held' \cup evicted'
    BY <1>1, <2>0, AddEventKeeps DEF Statuses, ReplayInv, BatchWithinBuffer, NoBatch, BufferTypeOK
  <2>2. TypeOK'
    BY <1>1, <1>2, <2>1 DEF TypeOK, Locations
  <2>3. ReplayInv'
    BY <1>1, <2>1 DEF ReplayInv, NoBatch
  <2>4. InFlightInv'
    BY <1>1, <1>2, <2>0 DEF InFlightInv, InFlight
  <2>5. Kept \subseteq Kept'
    BY <2>1, <2>0 DEF Kept
  <2>6. NothingForgotten'
    BY <1>1, <1>2, <2>1, <2>5, StillNothingForgotten, <2>0 DEF Handled, Current, InFlight, InFlightInv, Kept
  <2>7. QED BY <2>1, <2>2, <2>3, <2>4, <2>6 DEF IInv
<1>4. CASE StoreLiveFails
  <2> USE <1>4 DEF StoreLiveFails, kafkaVars, loopVars, storeVars
  <2>0. Current \in Event /\ position > 0 /\ committed < position
    BY <1>1 DEF InFlightInv, InFlight, Current
  <2>a. /\ events' \in SUBSET Event /\ firstWrites' \in Seq(Event) /\ events \subseteq events'
        /\ central' \in BOOLEAN
    BY <1>1, <2>0, StoreFailsKeeps DEF TypeOK
  <2>1. /\ BufferTypeOK' /\ Accounting' /\ BufferBounded' /\ BatchWithinBuffer'
        /\ batch' = NoBatch /\ evicted \subseteq evicted'
        /\ Held \cup evicted \cup {Current} \subseteq Held' \cup evicted'
    BY <1>1, <2>0, AddEventKeeps DEF Statuses, ReplayInv, BatchWithinBuffer, NoBatch, BufferTypeOK
  <2>2. TypeOK'
    BY <1>1, <1>2, <2>1, <2>a DEF TypeOK, Locations
  <2>3. ReplayInv'
    BY <1>1, <2>1, <2>a DEF ReplayInv, NoBatch
  <2>4. InFlightInv'
    BY <1>1, <1>2, <2>0 DEF InFlightInv, InFlight
  <2>5. Kept \subseteq Kept'
    BY <2>1, <2>0, <2>a DEF Kept
  <2>6. NothingForgotten'
    BY <1>1, <1>2, <2>1, <2>5, StillNothingForgotten, <2>0, <2>a DEF Handled, Current, InFlight, InFlightInv, Kept
  <2>7. QED BY <2>1, <2>2, <2>3, <2>4, <2>6 DEF IInv
<1>5. QED BY <1>3, <1>4

\* Steps of a replay, and the crash that may cut one short.
LEMMA ReplayStep ==
  ASSUME IInv, edgeMode' = edgeMode,
         StartReplay \/ ReplayRow \/ ReplayFails \/ ReplayBatchDone \/ Crash
  PROVE  IInv'
<1>1. /\ TypeOK /\ BufferTypeOK /\ Accounting /\ BufferBounded /\ BatchWithinBuffer
      /\ ReplayInv /\ InFlightInv /\ NothingForgotten
  BY DEF IInv, TypeOK, ReplayInv
<1>2. /\ Len(Topic) \in Nat /\ produced \in Nat /\ position \in Nat /\ committed \in Nat
      /\ produced <= Len(Topic) /\ position <= produced /\ committed <= position
      /\ MaxFaults \in Nat
  BY <1>1 DEF TypeOK
<1>3. CASE StartReplay
  <2> USE <1>3 DEF StartReplay, kafkaVars, loopVars, storeVars
  <2>1. /\ BufferTypeOK' /\ Accounting' /\ BufferBounded' /\ BatchWithinBuffer'
        /\ buffer' = buffer /\ Held' = Held /\ evicted' = evicted /\ batch'.done = 0
    BY <1>1 DEF SelectBatch, SmallerOf, BufferTypeOK, Accounting, BufferBounded, BatchWithinBuffer, Held
  <2>2. TypeOK'
    BY <1>1, <1>2, <2>1 DEF TypeOK, Locations
  <2>3. ReplayInv'
    BY <1>1, <2>1 DEF ReplayInv, NoBatch
  <2>4. InFlightInv'
    BY <1>1, <1>2 DEF InFlightInv, InFlight
  <2>5. Kept \subseteq Kept'
    BY <2>1 DEF Kept
  <2>6. NothingForgotten'
    BY <1>1, <1>2, <2>1, <2>5, StillNothingForgotten DEF Handled, Current, InFlight, InFlightInv, Kept
  <2>7. QED BY <2>1, <2>2, <2>3, <2>4, <2>6 DEF IInv
<1>4. CASE ReplayRow
  <2> USE <1>4 DEF ReplayRow, kafkaVars, loopVars, storeVars, Stored
  <2>0. NextRow \in Event
    BY <1>1 DEF NextRow, BatchWithinBuffer, BufferTypeOK
  <2>a. /\ events' \in SUBSET Event /\ firstWrites' \in Seq(Event) /\ events \subseteq events'
        /\ NextRow \in events'
    BY <1>1, <2>0, InsertKeeps DEF TypeOK
  <2>1. /\ BufferTypeOK' /\ Accounting' /\ BufferBounded' /\ BatchWithinBuffer'
        /\ buffer' = buffer /\ Held' = Held /\ evicted' = evicted /\ batch'.done = batch.done + 1
    BY <1>1 DEF RowDeleted, BufferTypeOK, Accounting, BufferBounded, BatchWithinBuffer, Held
  <2>2. TypeOK'
    BY <1>1, <1>2, <2>1, <2>a DEF TypeOK, Locations
  <2>3. ReplayInv'
    BY <1>1, <2>1, <2>a DEF ReplayInv, NoBatch, NextRow, BufferTypeOK, BatchWithinBuffer
  <2>4. InFlightInv'
    BY <1>1, <1>2 DEF InFlightInv, InFlight
  <2>5. Kept \subseteq Kept'
    BY <2>1, <2>a DEF Kept
  <2>6. NothingForgotten'
    BY <1>1, <1>2, <2>1, <2>5, StillNothingForgotten, <2>a DEF Handled, Current, InFlight, InFlightInv, Kept
  <2>7. QED BY <2>1, <2>2, <2>3, <2>4, <2>6 DEF IInv
<1>5. CASE ReplayFails
  <2> USE <1>5 DEF ReplayFails, kafkaVars, loopVars, storeVars
  <2>0. NextRow \in Event
    BY <1>1 DEF NextRow, BatchWithinBuffer, BufferTypeOK
  <2>b. /\ BufferTypeOK' /\ Accounting' /\ BufferBounded' /\ batch' = NoBatch
        /\ evicted' = evicted /\ Held \subseteq Held' \cup events
    <3>1. "degraded" \in Statuses /\ TRUE \in BOOLEAN /\ \A i \in 1..batch.done : buffer[i] \in events
      BY <1>1 DEF Statuses, ReplayInv
    <3>2. CommitDeletions(TRUE, "degraded")
      OBVIOUS
    <3>3. QED BY <1>1, <3>1, <3>2, CommitDeletionsKeeps
  <2>a. /\ events' \in SUBSET Event /\ firstWrites' \in Seq(Event) /\ events \subseteq events'
        /\ central' \in BOOLEAN
    BY <1>1, <2>0, StoreFailsKeeps DEF TypeOK
  <2>1. /\ BufferTypeOK' /\ Accounting' /\ BufferBounded' /\ BatchWithinBuffer'
        /\ batch' = NoBatch /\ evicted' = evicted /\ Held \subseteq Held' \cup events
    BY <2>b DEF BatchWithinBuffer, NoBatch, BufferTypeOK
  <2>2. TypeOK'
    BY <1>1, <1>2, <2>1, <2>a DEF TypeOK, Locations
  <2>3. ReplayInv'
    BY <1>1, <2>1, <2>a DEF ReplayInv, NoBatch
  <2>4. InFlightInv'
    BY <1>1, <1>2 DEF InFlightInv, InFlight
  <2>5. Kept \subseteq Kept'
    BY <2>1, <2>a DEF Kept
  <2>6. NothingForgotten'
    BY <1>1, <1>2, <2>1, <2>5, StillNothingForgotten, <2>a DEF Handled, Current, InFlight, InFlightInv, Kept
  <2>7. QED BY <2>1, <2>2, <2>3, <2>4, <2>6 DEF IInv
<1>6. CASE ReplayBatchDone
  <2> USE <1>6 DEF ReplayBatchDone, kafkaVars, loopVars, storeVars
  <2>b. /\ BufferTypeOK' /\ Accounting' /\ BufferBounded' /\ batch' = NoBatch
        /\ evicted' = evicted /\ Held \subseteq Held' \cup events
    <3>1. "online" \in Statuses /\ FALSE \in BOOLEAN /\ \A i \in 1..batch.done : buffer[i] \in events
      BY <1>1 DEF Statuses, ReplayInv
    <3>2. CommitDeletions(FALSE, "online")
      OBVIOUS
    <3>3. QED BY <1>1, <3>1, <3>2, CommitDeletionsKeeps
  <2>1. /\ BufferTypeOK' /\ Accounting' /\ BufferBounded' /\ BatchWithinBuffer'
        /\ batch' = NoBatch /\ evicted' = evicted /\ Held \subseteq Held' \cup events
    BY <2>b DEF BatchWithinBuffer, NoBatch, BufferTypeOK
  <2>2. TypeOK'
    BY <1>1, <1>2, <2>1 DEF TypeOK, Locations
  <2>3. ReplayInv'
    BY <1>1, <2>1 DEF ReplayInv, NoBatch
  <2>4. InFlightInv'
    BY <1>1, <1>2 DEF InFlightInv, InFlight
  <2>5. Kept \subseteq Kept'
    BY <2>1 DEF Kept
  <2>6. NothingForgotten'
    BY <1>1, <1>2, <2>1, <2>5, StillNothingForgotten DEF Handled, Current, InFlight, InFlightInv, Kept
  <2>7. QED BY <2>1, <2>2, <2>3, <2>4, <2>6 DEF IInv
<1>7. CASE Crash
  <2> USE <1>7 DEF Crash, kafkaVars, loopVars, storeVars
  <2>1. /\ BufferTypeOK' /\ Accounting' /\ BufferBounded' /\ BatchWithinBuffer'
        /\ batch' = NoBatch /\ Held' = Held /\ evicted' = evicted /\ buffer' = buffer
    BY <1>1 DEF Rollback, BufferTypeOK, Accounting, BufferBounded, BatchWithinBuffer, Held, NoBatch
  <2>2. TypeOK'
    BY <1>1, <1>2, <2>1 DEF TypeOK, Locations
  <2>3. ReplayInv'
    BY <1>1, <2>1 DEF ReplayInv, NoBatch
  <2>4. InFlightInv'
    BY <1>1, <1>2 DEF InFlightInv, InFlight
  <2>5. Kept \subseteq Kept'
    BY <2>1 DEF Kept
  <2>6. NothingForgotten'
    BY <1>1, <1>2, <2>1, <2>5, StillNothingForgotten DEF Handled, Current, InFlight, InFlightInv, Kept
  <2>7. QED BY <2>1, <2>2, <2>3, <2>4, <2>6 DEF IInv
<1>8. QED BY <1>3, <1>4, <1>5, <1>6, <1>7

-----------------------------------------------------------------------------
\* The invariant is inductive.
LEMMA StepIInv == IInv /\ [Next]_vars => IInv'
<1> SUFFICES ASSUME IInv, [Next]_vars PROVE IInv'
  OBVIOUS
<1>1. CASE Next
  <2>0. edgeMode' = edgeMode
    BY <1>1 DEF Next, Deployed
  <2>1. CASE Publish \/ CentralGoesDown \/ CentralComesBack \/ ProbeIntervalElapses \/ AutoCommit \/ StopSignal
    BY <2>0, <2>1, EnvironmentStep
  <2>2. CASE Start \/ Poll \/ StopOnNextMessage
    BY <2>0, <2>2, ConsumerStep
  <2>3. CASE StoreDirect \/ ProbeCentral \/ RouteToStore \/ StoreLive \/ BufferWriteFails
    BY <2>0, <2>3, PlainStep
  <2>4. CASE BufferOffline \/ StoreLiveFails
    BY <2>0, <2>4, BufferStep
  <2>5. CASE StartReplay \/ ReplayRow \/ ReplayFails \/ ReplayBatchDone \/ Crash
    BY <2>0, <2>5, ReplayStep
  <2>6. QED BY <1>1, <2>1, <2>2, <2>3, <2>4, <2>5 DEF Next, Deployed, LoopStep, Environment
<1>2. CASE UNCHANGED vars
  BY <1>2 DEF vars, bufferVars, kafkaVars, loopVars, storeVars, IInv, TypeOK, BufferTypeOK, Accounting,
     BufferBounded, ReplayInv, BatchWithinBuffer, InFlightInv, InFlight, NothingForgotten, Handled, Held
<1>3. QED BY <1>1, <1>2

\* The invariant holds in every reachable state.
THEOREM Invariance == Spec => []IInv
  BY InitIInv, StepIInv, PTL DEF Spec

\* Every variable keeps its type, whatever the topic and the faults.
THEOREM TypeCorrect == Spec => []TypeOK
<1>1. IInv => TypeOK
  BY DEF IInv
<1>2. QED BY <1>1, Invariance, PTL

\* The counters account for every row, across crashes in the middle of a replay.
THEOREM AccountingHolds == Spec => []Accounting
<1>1. IInv => Accounting
  BY DEF IInv
<1>2. QED BY <1>1, Invariance, PTL

\* The buffer never holds more than edge_buffer_max_events rows.
THEOREM BufferStaysBounded == Spec => []BufferBounded
<1>1. IInv => BufferBounded
  BY DEF IInv
<1>2. QED BY <1>1, Invariance, PTL

\* No event the loop has finished with is forgotten.
THEOREM NoEventForgotten == Spec => []NothingForgotten
<1>1. IInv => NothingForgotten
  BY DEF IInv
<1>2. QED BY <1>1, Invariance, PTL

-----------------------------------------------------------------------------
(***************************************************************************)
(* Events become rows in the order they were raised.                       *)
(***************************************************************************)

LEMMA LeastOf ==
  ASSUME NEW S \in SUBSET Nat, S # {}
  PROVE  \E n \in S : \A m \in S : n <= m
<1>1. PICK n \in S : \A m \in S : ~ (<<m, n>> \in OpToRel(<, Nat))
  BY NatLessThanWellFounded, WFMin
<1>2. ASSUME NEW m \in S PROVE n <= m
  <2>1. m \in Nat /\ n \in Nat /\ <<m, n>> \in Nat \X Nat
    OBVIOUS
  <2>2. ~ (m < n)
    BY <1>1, <2>1 DEF OpToRel
  <2> QED
    BY <2>1, <2>2
<1> QED
  BY <1>2

Published == {Topic[i] : i \in 1 .. Len(Topic)}

\* FirstSeen finds the first occurrence of an event.
LEMMA FirstSeenIs ==
  ASSUME NEW i \in 1 .. Len(Topic)
  PROVE  /\ FirstSeen(Topic[i]) \in 1 .. Len(Topic) /\ FirstSeen(Topic[i]) <= i
         /\ Topic[FirstSeen(Topic[i])] = Topic[i]
<1> DEFINE S == {j \in 1 .. Len(Topic) : Topic[j] = Topic[i]}
<1>1. Len(Topic) \in Nat
  BY IngestionAssumption
<1>2. S \in SUBSET Nat /\ i \in S
  BY <1>1
<1>3. PICK n \in S : \A m \in S : n <= m
  BY <1>2, LeastOf
<1>4. n \in 1 .. Len(Topic) /\ Topic[n] = Topic[i] /\ \A j \in 1 .. (n - 1) : Topic[j] # Topic[i]
  BY <1>1, <1>3
<1> HIDE DEF S
<1> DEFINE Is(k) == Topic[k] = Topic[i] /\ \A j \in 1 .. (k - 1) : Topic[j] # Topic[i]
           f == CHOOSE k \in 1 .. Len(Topic) : Is(k)
<1>5. f \in 1 .. Len(Topic) /\ Is(f)
  <2> HIDE DEF Is
  <2>1. \E k \in 1 .. Len(Topic) : Is(k)
    BY <1>4 DEF Is
  <2> QED
    BY <2>1
<1>6. FirstSeen(Topic[i]) = f
  BY DEF FirstSeen
<1> HIDE DEF f
<1>7. f <= i
  BY <1>1, <1>5
<1> QED
  BY <1>5, <1>6, <1>7

\* The events raised before e.
Earlier(e) == {Topic[k] : k \in 1 .. FirstSeen(e) - 1} \cap Event

Intact == evicted = {} /\ dropped = {}

\* Whatever was raised before a row is a row.
Closed == \A e \in events : Earlier(e) \subseteq events

\* Whatever was raised before a buffered event is a row, or ahead of it.
InLine ==
  \A j \in 1 .. Len(buffer) :
    Earlier(buffer[j]) \subseteq events \cup {buffer[i] : i \in 1 .. j - 1}

Written == {firstWrites[i] : i \in 1 .. Len(firstWrites)} = events

Ordered ==
  \A i, j \in 1 .. Len(firstWrites) :
    i < j => FirstSeen(firstWrites[i]) < FirstSeen(firstWrites[j])

OrderInv ==
  /\ pc \in {"route", "replay", "store"} => edgeMode
  /\ ~edgeMode => buffer = <<>>
  /\ pc = "store" => buffer = <<>>
  /\ events \cup Held \subseteq Published
  /\ Intact => Closed /\ InLine /\ Written /\ Ordered

\* An event all of whose predecessors are rows may become one.
LEMMA InsertInOrder ==
  ASSUME TypeOK, NEW e \in Event \cap Published, events \subseteq Published,
         Closed, Written, Ordered, Earlier(e) \subseteq events, Insert(e)
  PROVE  Closed' /\ Written' /\ Ordered' /\ events' = events \cup {e}
<1>1. events' = events \cup {e}
  BY DEF Insert
<1>2. Closed'
  <2> SUFFICES ASSUME NEW x \in events' PROVE Earlier(x) \subseteq events'
    BY DEF Closed, Earlier, FirstSeen
  <2> QED
    BY <1>1 DEF Closed
<1>3. CASE e \in events
  <2>1. events' = events /\ firstWrites' = firstWrites
    BY <1>3 DEF Insert
  <2>2. Written'
    BY <2>1 DEF Written
  <2>3. Ordered'
    BY <2>1 DEF Ordered, FirstSeen
  <2> QED
    BY <1>1, <1>2, <2>2, <2>3
<1>4. CASE e \notin events
  <2> DEFINE n == Len(firstWrites)
  <2>1. firstWrites' = Append(firstWrites, e)
    BY <1>4 DEF Insert
  <2>2. firstWrites \in Seq(Event) /\ n \in Nat
    BY DEF TypeOK
  <2>3. /\ Len(firstWrites') = n + 1 /\ firstWrites'[n + 1] = e
        /\ \A i \in 1 .. n : firstWrites'[i] = firstWrites[i]
    BY <2>1, <2>2
  <2> HIDE DEF n
  <2>4. Written'
    BY <1>1, <2>2, <2>3 DEF Written, n
  <2>5. ASSUME NEW i \in 1 .. n PROVE FirstSeen(firstWrites[i]) < FirstSeen(e)
    <3> DEFINE w == firstWrites[i]
    <3>1. w \in events
      BY DEF Written, n
    <3>2. w \in Published /\ e \in Published /\ w # e
      BY <3>1, <1>4
    <3> HIDE DEF w
    <3>3. /\ FirstSeen(w) \in Nat /\ FirstSeen(e) \in Nat /\ FirstSeen(e) >= 1
          /\ Topic[FirstSeen(w)] = w /\ Topic[FirstSeen(e)] = e
      BY <3>2, FirstSeenIs, IngestionAssumption DEF Published
    <3>4. ~ FirstSeen(e) < FirstSeen(w)
      <4> SUFFICES ASSUME FirstSeen(e) < FirstSeen(w) PROVE FALSE
        OBVIOUS
      <4>1. FirstSeen(e) \in 1 .. FirstSeen(w) - 1
        BY <3>3
      <4>2. e \in Earlier(w)
        BY <4>1, <3>3 DEF Earlier
      <4> QED
        BY <4>2, <3>1, <1>4 DEF Closed
    <3>5. FirstSeen(w) < FirstSeen(e)
      BY <3>2, <3>3, <3>4
    <3> QED
      BY <3>5 DEF w
  <2>6. Ordered'
    <3> SUFFICES ASSUME NEW i \in 1 .. n + 1, NEW j \in 1 .. n + 1, i < j
                 PROVE  FirstSeen(firstWrites'[i]) < FirstSeen(firstWrites'[j])
      BY <2>3 DEF Ordered, FirstSeen
    <3>1. i \in 1 .. n
      BY <2>2
    <3>2. CASE j = n + 1
      BY <3>1, <3>2, <2>3, <2>5
    <3>3. CASE j # n + 1
      <4>1. j \in 1 .. n
        BY <3>3, <2>2
      <4> QED
        BY <3>1, <4>1, <2>3 DEF Ordered, n
    <3> QED
      BY <3>2, <3>3
  <2> QED
    BY <1>1, <1>2, <2>4, <2>6
<1> QED
  BY <1>3, <1>4

\* All that was raised before the message in flight is a row or buffered.
LEMMA CurrentNext ==
  ASSUME IInv, InFlight, Intact
  PROVE  /\ Current \in Event \cap Published
         /\ Earlier(Current) \subseteq events \cup Held
<1>1. /\ position \in 1 .. Len(Topic) /\ Topic[position] \in Event /\ Len(Topic) \in Nat
      /\ NothingForgotten
  BY DEF IInv, TypeOK, InFlightInv
<1>2. FirstSeen(Topic[position]) \in 1 .. Len(Topic) /\ FirstSeen(Topic[position]) <= position
  BY <1>1, FirstSeenIs
<1>3. \A k \in 1 .. FirstSeen(Topic[position]) - 1 : k \in Handled
  BY <1>1, <1>2 DEF Handled
<1>4. Earlier(Topic[position]) \subseteq events \cup Held
  BY <1>3, <1>1 DEF Earlier, NothingForgotten, Intact
<1> QED
  BY <1>1, <1>4 DEF Current, Published

-----------------------------------------------------------------------------
(* Steps, by what they do to the rows of either store. *)

\* More rows and the same buffer.
LEMMA InLineStays ==
  ASSUME InLine, events \subseteq events', buffer' = buffer
  PROVE  InLine'
<1> SUFFICES ASSUME NEW j \in 1 .. Len(buffer')
             PROVE  Earlier(buffer'[j]) \subseteq events' \cup {buffer'[i] : i \in 1 .. j - 1}
  BY DEF InLine, Earlier, FirstSeen
<1> QED
  BY DEF InLine

\* Nothing becomes a row.
LEMMA OrderStays ==
  ASSUME Closed, Written, Ordered, events' = events, firstWrites' = firstWrites
  PROVE  Closed' /\ Written' /\ Ordered'
<1>1. Closed'
  <2> SUFFICES ASSUME NEW x \in events' PROVE Earlier(x) \subseteq events'
    BY DEF Closed, Earlier, FirstSeen
  <2> QED
    BY DEF Closed
<1>2. Written' /\ Ordered'
  BY DEF Written, Ordered, FirstSeen
<1> QED
  BY <1>1, <1>2

\* Nothing becomes a row and the buffer stays as it is.
LEMMA RowsStay ==
  ASSUME OrderInv, events' = events, firstWrites' = firstWrites, buffer' = buffer,
         edgeMode' = edgeMode, evicted \subseteq evicted', dropped \subseteq dropped',
         pc' \in {"route", "replay", "store"} => edgeMode,
         pc' = "store" => buffer = <<>>
  PROVE  OrderInv'
<1>1. Held' = Held
  BY DEF Held
<1>2. Intact' => Intact
  BY DEF Intact
<1>3. Closed /\ Written /\ Ordered => Closed' /\ Written' /\ Ordered'
  BY OrderStays
<1>4. InLine => InLine'
  BY InLineStays
<1> QED
  BY <1>1, <1>2, <1>3, <1>4 DEF OrderInv, Published

\* One event becomes a row in its turn, the buffer stays as it is.
LEMMA RowInTurn ==
  ASSUME IInv, OrderInv, NEW e \in Event \cap Published, Insert(e),
         Intact => Earlier(e) \subseteq events, buffer' = buffer,
         edgeMode' = edgeMode, evicted \subseteq evicted', dropped \subseteq dropped',
         pc' \in {"route", "replay", "store"} => edgeMode,
         pc' = "store" => buffer = <<>>
  PROVE  OrderInv'
<1>1. TypeOK /\ events \subseteq Published
  BY DEF IInv, OrderInv
<1>2. Held' = Held /\ events' = events \cup {e}
  BY DEF Held, Insert
<1>3. ASSUME Intact' PROVE (Closed /\ InLine /\ Written /\ Ordered)'
  <2>1. Intact
    BY <1>3 DEF Intact
  <2>2. Closed /\ InLine /\ Written /\ Ordered /\ Earlier(e) \subseteq events
    BY <2>1 DEF OrderInv
  <2>3. Closed' /\ Written' /\ Ordered'
    BY <1>1, <2>2, InsertInOrder
  <2> QED
    BY <2>2, <2>3, <1>2, InLineStays
<1> QED
  BY <1>1, <1>2, <1>3 DEF OrderInv, Published

\* A batch ends: the rows taken off the front are all in the central store.
LEMMA FrontStored ==
  ASSUME TypeOK, BatchWithinBuffer, NEW f \in BOOLEAN, NEW s, CommitDeletions(f, s),
         \A i \in 1 .. batch.done : buffer[i] \in events, events \subseteq events', InLine
  PROVE  InLine'
<1> DEFINE d == batch.done
<1>1. buffer \in Seq(Event) /\ Len(buffer) \in Nat /\ d \in Nat /\ d <= Len(buffer)
  BY DEF TypeOK, BufferTypeOK, BatchWithinBuffer
<1>2. buffer' = SubSeq(buffer, d + 1, Len(buffer))
  BY DEF CommitDeletions
<1>3. \A i \in 1 .. d : buffer[i] \in events
  OBVIOUS
<1> HIDE DEF d
<1>4. Len(buffer') = Len(buffer) - d /\ \A i \in 1 .. Len(buffer') : buffer'[i] = buffer[d + i]
  BY <1>1, <1>2
<1> SUFFICES ASSUME NEW j \in 1 .. Len(buffer'), NEW x \in Earlier(buffer'[j])
             PROVE  x \in events' \cup {buffer'[i] : i \in 1 .. j - 1}
  BY DEF InLine, Earlier, FirstSeen
<1>5. d + j \in 1 .. Len(buffer) /\ buffer'[j] = buffer[d + j]
  BY <1>1, <1>4
<1>6. x \in events \cup {buffer[i] : i \in 1 .. (d + j) - 1}
  BY <1>5 DEF InLine
<1>7. ASSUME NEW i \in 1 .. (d + j) - 1
      PROVE  buffer[i] \in events \cup {buffer'[k] : k \in 1 .. j - 1}
  <2>1. CASE i <= d
    BY <2>1, <1>1, <1>3
  <2>2. CASE i > d
    <3>1. i - d \in 1 .. j - 1 /\ i - d \in 1 .. Len(buffer') /\ d + (i - d) = i
      BY <2>2, <1>1, <1>4
    <3> QED
      BY <3>1, <1>4
  <2> QED
    BY <2>1, <2>2, <1>1
<1> QED
  BY <1>6, <1>7

\* An event that is buffered in its turn; without an eviction it goes to the end.
LEMMA BackOfLine ==
  ASSUME TypeOK, NEW e \in Event, NEW s, AddEvent(e, s), evicted' = {},
         Earlier(e) \subseteq events \cup Held, events \subseteq events', InLine
  PROVE  InLine'
<1> DEFINE cut == Overflow(buffer)
           n == Len(buffer)
<1>1. buffer \in Seq(Event) /\ n \in Nat /\ MaxEvents \in Nat
  BY BufferAssumption DEF TypeOK, BufferTypeOK
<1>2. cut \in Nat /\ (cut > 0 => 1 \in 1 .. cut)
  BY <1>1 DEF Overflow, LargerOf
<1>3. /\ buffer' = Append(SubSeq(buffer, cut + 1, n), e)
      /\ evicted' = evicted \cup {buffer[i] : i \in 1 .. cut}
  BY DEF AddEvent
<1>4. cut = 0
  <2> SUFFICES ASSUME cut > 0 PROVE FALSE
    BY <1>2
  <2>1. 1 \in 1 .. cut
    BY <1>2
  <2> HIDE DEF cut
  <2>2. buffer[1] \in {buffer[i] : i \in 1 .. cut}
    BY <2>1
  <2> QED
    BY <2>2, <1>3
<1>5. buffer' = Append(buffer, e)
  BY <1>1, <1>3, <1>4
<1>6. Len(buffer') = n + 1 /\ buffer'[n + 1] = e /\ \A i \in 1 .. n : buffer'[i] = buffer[i]
  BY <1>1, <1>5
<1> HIDE DEF n, cut
<1> SUFFICES ASSUME NEW j \in 1 .. n + 1
             PROVE  Earlier(buffer'[j]) \subseteq events' \cup {buffer'[i] : i \in 1 .. j - 1}
  BY <1>6 DEF InLine, Earlier, FirstSeen
<1>7. CASE j = n + 1
  <2>1. Held = {buffer'[i] : i \in 1 .. j - 1}
    BY <1>1, <1>6, <1>7 DEF Held, n
  <2> QED
    BY <2>1, <1>6, <1>7
<1>8. CASE j # n + 1
  <2>1. j \in 1 .. n /\ \A i \in 1 .. j - 1 : i \in 1 .. n
    BY <1>1, <1>8
  <2>2. Earlier(buffer[j]) \subseteq events \cup {buffer[i] : i \in 1 .. j - 1}
    BY <2>1 DEF InLine, n
  <2> QED
    BY <2>1, <2>2, <1>6
<1> QED
  BY <1>7, <1>8

\* The next row of a batch is in its turn, for those before it are stored.
LEMMA NextRowNext ==
  ASSUME IInv, OrderInv, pc = "replay", batch.done < batch.size
  PROVE  /\ NextRow \in Event \cap Published
         /\ Intact => Earlier(NextRow) \subseteq events
<1> DEFINE d == batch.done
<1>1. /\ buffer \in Seq(Event) /\ Len(buffer) \in Nat /\ d \in Nat /\ d + 1 <= Len(buffer)
      /\ \A i \in 1 .. d : buffer[i] \in events
  BY DEF IInv, TypeOK, BufferTypeOK, ReplayInv, BatchWithinBuffer
<1>2. NextRow = buffer[d + 1]
  BY DEF NextRow
<1> HIDE DEF d
<1>3. d + 1 \in 1 .. Len(buffer)
  BY <1>1
<1>4. NextRow \in Event /\ NextRow \in Held
  BY <1>1, <1>2, <1>3 DEF Held
<1>5. ASSUME Intact PROVE Earlier(NextRow) \subseteq events
  <2>1. Earlier(buffer[d + 1]) \subseteq events \cup {buffer[i] : i \in 1 .. (d + 1) - 1}
    BY <1>3, <1>5 DEF OrderInv, InLine
  <2>2. (d + 1) - 1 = d
    BY <1>1
  <2> QED
    BY <1>1, <1>2, <2>1, <2>2
<1> QED
  BY <1>4, <1>5 DEF OrderInv

\* A batch ends, whether its last row was stored or refused.
LEMMA BatchEnds ==
  ASSUME IInv, OrderInv, pc = "replay", NEW f \in BOOLEAN, NEW s, CommitDeletions(f, s),
         \/ events' = events /\ firstWrites' = firstWrites
         \/ batch.done < batch.size /\ Insert(NextRow),
         edgeMode' = edgeMode, dropped' = dropped, pc' = "route"
  PROVE  OrderInv'
<1>1. /\ TypeOK /\ BatchWithinBuffer /\ BufferTypeOK /\ BufferBounded /\ Accounting
      /\ \A i \in 1 .. batch.done : buffer[i] \in events
      /\ events \subseteq Published /\ Held \subseteq Published /\ edgeMode
  BY DEF IInv, TypeOK, ReplayInv, OrderInv
<1>2. evicted' = evicted
  BY DEF CommitDeletions
<1>3. events \subseteq events' /\ events' \subseteq Published
  BY <1>1, NextRowNext DEF Insert
<1>4. Held' \subseteq Held
  <2>1. /\ buffer \in Seq(Event) /\ batch.done \in Nat /\ batch.done <= Len(buffer)
        /\ Len(buffer) \in Nat /\ buffer' = SubSeq(buffer, batch.done + 1, Len(buffer))
    BY <1>1 DEF BufferTypeOK, BatchWithinBuffer, CommitDeletions
  <2>2. \A i \in 1 .. Len(buffer') : \E j \in 1 .. Len(buffer) : buffer'[i] = buffer[j]
    <3> DEFINE d == batch.done + 1
               n == Len(buffer)
    <3>1. /\ d \in Int /\ n \in Int /\ buffer' = SubSeq(buffer, d, n)
          /\ \A i \in d .. n : i \in 1 .. n /\ buffer[i] \in Event
      BY <2>1
    <3>2. d \in Nat \ {0}
      BY <2>1
    <3> HIDE DEF d, n
    <3>3. /\ Len(buffer') = IF d <= n THEN n - d + 1 ELSE 0
          /\ \A i \in 1 .. n - d + 1 : buffer'[i] = buffer[d + i - 1]
      BY ONLY <3>1, SubSeqProperties
    <3>4. \A i \in 1 .. Len(buffer') : /\ buffer'[i] = buffer[d + i - 1]
                                       /\ d + i - 1 \in 1 .. n
      BY <3>1, <3>2, <3>3
    <3> QED
      BY <3>4 DEF n
  <2> QED
    BY <2>2 DEF Held
<1>5. ASSUME Intact' PROVE (Closed /\ InLine /\ Written /\ Ordered)'
  <2>1. Intact
    BY <1>5, <1>2 DEF Intact
  <2>2. Closed /\ InLine /\ Written /\ Ordered
    BY <2>1 DEF OrderInv
  <2>3. InLine'
    BY <1>1, <1>3, <2>2, FrontStored
  <2>4. CASE events' = events /\ firstWrites' = firstWrites
    <3>1. Closed' /\ Written' /\ Ordered'
      BY <2>2, <2>4, OrderStays
    <3> QED
      BY <3>1, <2>3
  <2>5. CASE batch.done < batch.size /\ Insert(NextRow)
    <3>1. Closed' /\ Written' /\ Ordered'
      BY <1>1, <2>1, <2>2, <2>5, NextRowNext, InsertInOrder
    <3> QED
      BY <3>1, <2>3
  <2> QED
    BY <2>4, <2>5
<1> QED
  BY <1>1, <1>3, <1>4, <1>5 DEF OrderInv, Published

\* The message in flight is buffered, whether or not it became a row before.
LEMMA MessageBuffered ==
  ASSUME IInv, OrderInv, pc \in {"route", "store"}, NEW s, AddEvent(Current, s),
         \/ events' = events /\ firstWrites' = firstWrites
         \/ pc = "store" /\ Insert(Current),
         edgeMode' = edgeMode, dropped' = dropped, pc' = "poll"
  PROVE  OrderInv'
<1>1. /\ TypeOK /\ BufferTypeOK /\ InFlight
      /\ events \subseteq Published /\ Held \subseteq Published /\ edgeMode
  BY DEF IInv, TypeOK, OrderInv, InFlight
<1>2. Current \in Event \cap Published
  BY <1>1 DEF IInv, InFlightInv, Current, Published, TypeOK
<1>3. evicted \subseteq evicted'
  BY DEF AddEvent
<1>4. events \subseteq events' /\ events' \subseteq Published
  BY <1>1, <1>2 DEF Insert
<1>5. Held' \subseteq Held \cup {Current}
  <2> DEFINE cut == Overflow(buffer)
             rest == SubSeq(buffer, cut + 1, Len(buffer))
  <2>1. /\ buffer \in Seq(Event) /\ Len(buffer) \in Nat /\ MaxEvents \in Nat \ {0}
        /\ buffer' = Append(rest, Current)
    BY <1>1, BufferAssumption DEF BufferTypeOK, AddEvent
  <2>2. cut \in Nat /\ cut <= Len(buffer)
    BY <2>1 DEF Overflow, LargerOf
  <2> HIDE DEF cut
  <2>3. /\ rest \in Seq(Event) /\ Len(rest) = Len(buffer) - cut
        /\ \A i \in 1 .. Len(rest) : rest[i] = buffer[cut + i]
    BY <2>1, <2>2
  <2>4. \A i \in 1 .. Len(rest) : cut + i \in 1 .. Len(buffer)
    BY <2>1, <2>2, <2>3
  <2>5. /\ rest \in Seq(Event)
        /\ \A i \in 1 .. Len(rest) : \E j \in 1 .. Len(buffer) : rest[i] = buffer[j]
    BY <2>3, <2>4
  <2> HIDE DEF rest
  <2>6. \A i \in 1 .. Len(buffer') :
          \/ buffer'[i] = Current
          \/ i \in 1 .. Len(rest) /\ buffer'[i] = rest[i]
    BY <2>1, <2>5
  <2> QED
    BY <2>5, <2>6 DEF Held
<1>6. ASSUME Intact' PROVE (Closed /\ InLine /\ Written /\ Ordered)'
  <2>1. Intact /\ evicted' = {}
    BY <1>6, <1>3 DEF Intact
  <2>2. Closed /\ InLine /\ Written /\ Ordered
    BY <2>1 DEF OrderInv
  <2>3. Earlier(Current) \subseteq events \cup Held
    BY <1>1, <2>1, CurrentNext
  <2>4. InLine'
    BY <1>1, <1>2, <1>4, <2>1, <2>2, <2>3, BackOfLine
  <2>5. CASE events' = events /\ firstWrites' = firstWrites
    <3>1. Closed' /\ Written' /\ Ordered'
      BY <2>2, <2>5, OrderStays
    <3> QED
      BY <3>1, <2>4
  <2>6. CASE pc = "store" /\ Insert(Current)
    <3>1. Held = {}
      BY <2>6 DEF OrderInv, Held
    <3>2. Closed' /\ Written' /\ Ordered'
      BY <1>1, <1>2, <2>2, <2>3, <2>6, <3>1, InsertInOrder
    <3> QED
      BY <3>2, <2>4
  <2> QED
    BY <2>5, <2>6
<1> QED
  BY <1>1, <1>2, <1>4, <1>5, <1>6 DEF OrderInv, Published

-----------------------------------------------------------------------------
LEMMA InitOrder == Init => OrderInv
  BY DEF Init, BufferInit, OrderInv, Held, Intact, Closed, InLine, Written, Ordered

\* A message that no backlog waits for becomes a row in its turn.
LEMMA StoreInTurn ==
  ASSUME IInv, OrderInv, InFlight, buffer = <<>>, buffer' = buffer,
         \/ Insert(Current)
         \/ events' = events /\ firstWrites' = firstWrites,
         edgeMode' = edgeMode, evicted' = evicted, dropped \subseteq dropped', pc' = "poll"
  PROVE  OrderInv'
<1>1. CASE Insert(Current)
  <2>1. Current \in Event \cap Published
    BY DEF IInv, InFlightInv, InFlight, Current, Published, TypeOK
  <2>2. Intact => Earlier(Current) \subseteq events
    BY CurrentNext DEF Held
  <2> QED
    BY <1>1, <2>1, <2>2, RowInTurn
<1>2. CASE events' = events /\ firstWrites' = firstWrites
  BY <1>2, RowsStay
<1> QED
  BY <1>1, <1>2

LEMMA StepOrder == IInv /\ OrderInv /\ [Next]_vars => OrderInv'
<1> SUFFICES ASSUME IInv, OrderInv, [Next]_vars PROVE OrderInv'
  OBVIOUS
<1> DEFINE Quiet == events' = events /\ firstWrites' = firstWrites /\ buffer' = buffer
                    /\ evicted' = evicted /\ dropped \subseteq dropped'
<1>1. CASE Next
  <2>0. edgeMode' = edgeMode
    BY <1>1 DEF Next, Deployed
  <2>1. CASE \/ Publish \/ CentralGoesDown \/ CentralComesBack \/ ProbeIntervalElapses
             \/ AutoCommit \/ StopSignal
    <3>1. Quiet /\ pc' = pc
      BY <2>1 DEF Publish, CentralGoesDown, CentralComesBack, ProbeIntervalElapses, AutoCommit,
         StopSignal, bufferVars, kafkaVars, loopVars, storeVars
    <3> QED
      BY <2>0, <3>1, RowsStay DEF OrderInv
  <2>2. CASE Start \/ Poll \/ StopOnNextMessage \/ Crash \/ BufferWriteFails
    <3>1. Quiet /\ pc' \in {"stopped", "poll", "received"}
      BY <2>2 DEF Start, Poll, StopOnNextMessage, Crash, BufferWriteFails, ConnectEdge,
         MarkConnectivity, Rollback, ExitAfter, bufferVars, kafkaVars, loopVars, storeVars
    <3> QED
      BY <2>0, <3>1, RowsStay
  <2>3. CASE ProbeCentral \/ StartReplay
    <3>1. Quiet /\ pc' \in {"route", "replay"} /\ edgeMode
      BY <2>3 DEF ProbeCentral, StartReplay, ConnectEdge, MarkConnectivity, SelectBatch,
         bufferVars, storeVars, OrderInv
    <3> QED
      BY <2>0, <3>1, RowsStay
  <2>4. CASE RouteToStore
    <3>1. Quiet /\ buffer = <<>> /\ edgeMode
      BY <2>4 DEF RouteToStore, bufferVars, storeVars, OrderInv
    <3> QED
      BY <2>0, <3>1, RowsStay
  <2>5. CASE StoreDirect
    <3>1. /\ InFlight /\ buffer = <<>> /\ buffer' = buffer /\ evicted' = evicted
          /\ dropped \subseteq dropped' /\ pc' = "poll"
      BY <2>5 DEF StoreDirect, bufferVars, OrderInv, InFlight
    <3>2. Insert(Current) \/ (events' = events /\ firstWrites' = firstWrites)
      BY <2>5 DEF StoreDirect, Stored, StoreFails, storeVars
    <3> QED
      BY <2>0, <3>1, <3>2, StoreInTurn
  <2>6. CASE StoreLive
    <3>1. /\ InFlight /\ buffer = <<>> /\ buffer' = buffer /\ evicted' = evicted
          /\ dropped' = dropped /\ pc' = "poll" /\ Insert(Current)
      BY <2>6 DEF StoreLive, Stored, MarkConnectivity, OrderInv, InFlight
    <3> QED
      BY <2>0, <3>1, StoreInTurn
  <2>7. CASE ReplayRow
    <3>1. /\ Insert(NextRow) /\ buffer' = buffer /\ evicted' = evicted /\ dropped' = dropped
          /\ pc' = "replay" /\ edgeMode /\ pc = "replay" /\ batch.done < batch.size
      BY <2>7 DEF ReplayRow, Stored, RowDeleted, loopVars, OrderInv
    <3>2. NextRow \in Event \cap Published /\ (Intact => Earlier(NextRow) \subseteq events)
      BY <3>1, NextRowNext
    <3> QED
      BY <2>0, <3>1, <3>2, RowInTurn
  <2>8. CASE ReplayFails
    <3>1. \/ events' = events /\ firstWrites' = firstWrites
          \/ batch.done < batch.size /\ Insert(NextRow)
      BY <2>8 DEF ReplayFails, StoreFails, storeVars
    <3> QED
      BY <2>0, <2>8, <3>1, BatchEnds DEF ReplayFails
  <2>9. CASE ReplayBatchDone
    BY <2>0, <2>9, BatchEnds DEF ReplayBatchDone, storeVars
  <2>10. CASE BufferOffline
    BY <2>0, <2>10, MessageBuffered DEF BufferOffline, storeVars
  <2>11. CASE StoreLiveFails
    <3>1. \/ events' = events /\ firstWrites' = firstWrites
          \/ pc = "store" /\ Insert(Current)
      BY <2>11 DEF StoreLiveFails, StoreFails, storeVars
    <3> QED
      BY <2>0, <2>11, <3>1, MessageBuffered DEF StoreLiveFails
  <2> QED
    BY <1>1, <2>1, <2>2, <2>3, <2>4, <2>5, <2>6, <2>7, <2>8, <2>9, <2>10, <2>11
       DEF Next, Deployed, LoopStep, Environment
<1>2. CASE UNCHANGED vars
  BY <1>2, RowsStay DEF vars, bufferVars, kafkaVars, loopVars, storeVars, OrderInv
<1> QED
  BY <1>1, <1>2

\* As long as nothing was evicted or given up, events become rows of the
\* central store in the order they were raised, whatever is replayed,
\* redelivered or cut short by a crash.
THEOREM RowsInRaisedOrder == Spec => []RaisedOrder
<1>1. OrderInv => RaisedOrder
  BY DEF OrderInv, Intact, Ordered, RaisedOrder
<1>2. Spec => []OrderInv
  BY InitOrder, StepOrder, Invariance, PTL DEF Spec
<1> QED
  BY <1>1, <1>2, PTL

-----------------------------------------------------------------------------
(***************************************************************************)
(* EdgeIngestion implements StoreAndForward, for every topic, buffer size, *)
(* batch size, set of refused events and number of faults.                 *)
(*                                                                         *)
(* The fate of an event is read off three sets: the rows of the central    *)
(* store, the rows of the buffer, and what is recorded as evicted or       *)
(* dropped.  Each step is first reduced to what it does to these, and then *)
(* to a step of the abstract relay.                                        *)
(***************************************************************************)

\* The fate of every event.
Fates == [e \in Event |-> Fate(e)]

\* Recorded as evicted or dropped.
Gone == evicted \cup dropped

\* One event is delivered, the others keep their fate.
LEMMA DeliverStep ==
  ASSUME NEW e \in Event, Fate(e)' = "delivered",
         \A x \in Event \ {e} : Fate(x)' = Fate(x)
  PROVE  [Abstract!Next]_Fates
<1>1. Fates' = [Fates EXCEPT ![e] = "delivered"]
  BY DEF Fates
<1>2. CASE Fate(e) = "delivered"
  BY <1>2 DEF Fates
<1>3. CASE Fate(e) # "delivered"
  <2>1. Abstract!Deliver(e)
    BY <1>1, <1>3 DEF Fates, Abstract!Deliver
  <2> QED
    BY <2>1 DEF Abstract!Next
<1> QED
  BY <1>2, <1>3

\* One event is lost, the others keep their fate.
LEMMA LoseStep ==
  ASSUME NEW e \in Event, Fate(e)' = "lost", Fate(e) \in {"unseen", "lost"},
         \A x \in Event \ {e} : Fate(x)' = Fate(x)
  PROVE  [Abstract!Next]_Fates
<1>1. Fates' = [Fates EXCEPT ![e] = "lost"]
  BY DEF Fates
<1>2. CASE Fate(e) = "lost"
  BY <1>2 DEF Fates
<1>3. CASE Fate(e) = "unseen"
  <2>1. Abstract!Lose(e)
    BY <1>1, <1>3 DEF Fates, Abstract!Lose
  <2> QED
    BY <2>1 DEF Abstract!Next
<1> QED
  BY <1>2, <1>3

\* An event is buffered: it is held, or delivered if its row is there; the
\* event whose row made room, if any, is held still or lost.
LEMMA HoldStep ==
  ASSUME NEW e \in Event, NEW o \in Event,
         Fate(e)' \in {"held", "delivered"},
         Fate(e) = "delivered" => Fate(e)' = "delivered",
         o # e => Fate(o)' = Fate(o) \/ (Fate(o) = "held" /\ Fate(o)' = "lost"),
         \A x \in Event \ {e, o} : Fate(x)' = Fate(x)
  PROVE  [Abstract!Next]_Fates
<1>1. CASE o = e \/ Fate(o)' = Fate(o)
  <2>1. \A x \in Event \ {e} : Fate(x)' = Fate(x)
    BY <1>1
  <2>2. CASE Fate(e)' = "delivered"
    BY <2>1, <2>2, DeliverStep
  <2>3. CASE Fate(e)' = "held" /\ Fate(e) = "held"
    BY <2>1, <2>3 DEF Fates
  <2>4. CASE Fate(e)' = "held" /\ Fate(e) \in {"unseen", "lost"}
    <3>1. Fates' = [Fates EXCEPT ![e] = "held"] /\ Fates[e] = Fate(e)
      BY <2>1, <2>4 DEF Fates
    <3>2. Abstract!Hold(e)
      BY <2>4, <3>1 DEF Fates, Abstract!Hold
    <3> QED
      BY <3>2 DEF Abstract!Next
  <2> QED
    BY <2>2, <2>3, <2>4 DEF Fate
<1>2. CASE o # e /\ Fate(o) = "held" /\ Fate(o)' = "lost"
  <2>1. Fates' = [Fates EXCEPT ![e] = Fate(e)', ![o] = "lost"]
    BY <1>2 DEF Fates
  <2>2. Fates[e] = Fate(e) /\ Fates[o] = "held"
    BY <1>2 DEF Fates
  <2>3. CASE Fate(e)' = Fate(e)
    <3>1. Fates' = [Fates EXCEPT ![o] = "lost"]
      BY <1>2, <2>3 DEF Fates
    <3>2. Abstract!GiveUp(o)
      BY <2>2, <3>1 DEF Fates, Abstract!GiveUp
    <3> QED
      BY <3>2 DEF Abstract!Next
  <2>4. CASE Fate(e)' = "delivered" /\ Fate(e) # "delivered"
    <3>1. Abstract!DeliverAndEvict(e, o)
      BY <1>2, <2>1, <2>2, <2>4 DEF Fates, Abstract!DeliverAndEvict
    <3> QED
      BY <3>1 DEF Abstract!Next
  <2>5. CASE Fate(e)' = "held" /\ Fate(e) \in {"unseen", "lost"}
    <3>1. Abstract!Hold(e)
      BY <1>2, <2>1, <2>2, <2>5 DEF Fates, Abstract!Hold
    <3> QED
      BY <3>1 DEF Abstract!Next
  <2> QED
    BY <2>3, <2>4, <2>5 DEF Fate
<1> QED
  BY <1>1, <1>2

-----------------------------------------------------------------------------
(* What the steps do to the three sets.                                    *)

\* buffer_event: e is held; at most one row is pruned, and its event is
\* recorded.  Without pruning o is e.
LEMMA AddEventSets ==
  ASSUME BufferTypeOK, BufferBounded, NEW e \in Event, NEW s, AddEvent(e, s)
  PROVE  /\ e \in Held'
         /\ \E o \in Event :
              /\ \A x \in Event \ {e, o} : (x \in Held' <=> x \in Held)
                                           /\ (x \in evicted' <=> x \in evicted)
              /\ o # e => o \in Held /\ (o \in Held' \/ o \in evicted')
<1> DEFINE cut == Overflow(buffer)
           rest == SubSeq(buffer, cut + 1, Len(buffer))
<1>1. buffer \in Seq(Event) /\ Len(buffer) \in Nat /\ Len(buffer) <= MaxEvents
  BY DEF BufferTypeOK, BufferBounded
<1>2. cut \in Nat /\ cut <= Len(buffer) /\ cut <= 1
  BY <1>1, BufferAssumption DEF Overflow, LargerOf
<1> HIDE DEF cut
<1>3. /\ rest \in Seq(Event) /\ Len(rest) = Len(buffer) - cut
      /\ \A i \in 1..Len(rest) : rest[i] = buffer[cut + i]
  BY <1>1, <1>2
<1>4. buffer' = Append(rest, e) /\ evicted' = evicted \cup {buffer[i] : i \in 1..cut}
  BY DEF AddEvent, cut
<1> HIDE DEF rest
<1>5. /\ Len(buffer') = Len(buffer) - cut + 1 /\ buffer'[Len(buffer')] = e
      /\ \A i \in 1..Len(rest) : buffer'[i] = buffer[cut + i]
  BY <1>1, <1>2, <1>3, <1>4
<1>6. e \in Held'
  <2>1. Len(buffer') \in 1..Len(buffer')
    BY <1>1, <1>2, <1>5
  <2> QED
    BY <1>5, <2>1 DEF Held
<1>7. \A x \in Held' : x = e \/ x \in Held
  <2> SUFFICES ASSUME NEW i \in 1..Len(buffer'), buffer'[i] # e PROVE buffer'[i] \in Held
    BY DEF Held
  <2>1. i \in 1..Len(rest) /\ cut + i \in 1..Len(buffer)
    BY <1>1, <1>2, <1>3, <1>5
  <2> QED
    BY <1>5, <2>1 DEF Held
<1>8. \A i \in 1..Len(buffer) : i > cut => buffer[i] \in Held'
  <2> SUFFICES ASSUME NEW i \in 1..Len(buffer), i > cut PROVE buffer[i] \in Held'
    OBVIOUS
  <2>1. /\ i - cut \in 1..Len(rest) /\ i - cut \in 1..Len(buffer')
        /\ cut + (i - cut) = i
    BY <1>1, <1>2, <1>3, <1>5
  <2>2. buffer'[i - cut] = buffer[i]
    BY <1>5, <2>1
  <2> QED
    BY <2>1, <2>2 DEF Held
<1>9. CASE cut = 0
  <2>1. \A x \in Held : x \in Held'
    BY <1>1, <1>8, <1>9 DEF Held
  <2>2. evicted' = evicted
    BY <1>4, <1>9
  <2> QED
    BY <1>6, <1>7, <2>1, <2>2
<1>10. CASE cut = 1
  <2> DEFINE o == buffer[1]
  <2>1. 1 \in 1..Len(buffer) /\ o \in Event /\ o \in Held
    BY <1>1, <1>2, <1>10 DEF Held
  <2>2. evicted' = evicted \cup {o}
    BY <1>4, <1>10
  <2>3. \A x \in Held : x = o \/ x \in Held'
    BY <1>1, <1>8, <1>10 DEF Held
  <2> HIDE DEF o
  <2> QED
    BY <1>6, <1>7, <2>1, <2>2, <2>3
<1> QED
  BY <1>2, <1>9, <1>10

\* The commit that ends a batch: rows leave the buffer, all of them delivered.
LEMMA CommitDeletionsSets ==
  ASSUME BufferTypeOK, BatchWithinBuffer, \A i \in 1..batch.done : buffer[i] \in events,
         NEW f \in BOOLEAN, NEW s, CommitDeletions(f, s)
  PROVE  /\ evicted' = evicted /\ Held' \subseteq Held
         /\ \A x \in Held : x \in Held' \/ x \in events
<1> DEFINE d == batch.done
<1>1. /\ buffer \in Seq(Event) /\ Len(buffer) \in Nat /\ d \in Nat /\ d <= Len(buffer)
  BY DEF BufferTypeOK, BatchWithinBuffer
<1>2. buffer' = SubSeq(buffer, d + 1, Len(buffer)) /\ evicted' = evicted
  BY DEF CommitDeletions
<1>3. \A i \in 1..d : buffer[i] \in events
  OBVIOUS
<1> HIDE DEF d
<1>4. /\ Len(buffer') = Len(buffer) - d
      /\ \A i \in 1..Len(buffer') : buffer'[i] = buffer[d + i]
  BY <1>1, <1>2
<1>5. Held' \subseteq Held
  <2> SUFFICES ASSUME NEW i \in 1..Len(buffer') PROVE buffer'[i] \in Held
    BY DEF Held
  <2>1. d + i \in 1..Len(buffer)
    BY <1>1, <1>4
  <2> QED
    BY <1>4, <2>1 DEF Held
<1>6. \A x \in Held : x \in Held' \/ x \in events
  <2> SUFFICES ASSUME NEW i \in 1..Len(buffer) PROVE buffer[i] \in Held' \/ buffer[i] \in events
    BY DEF Held
  <2>1. CASE i <= d
    BY <1>1, <1>3, <2>1
  <2>2. CASE i > d
    <3>1. i - d \in 1..Len(buffer') /\ d + (i - d) = i
      BY <1>1, <1>4, <2>2
    <3>2. buffer'[i - d] = buffer[i]
      BY <1>4, <3>1
    <3> QED
      BY <3>1, <3>2 DEF Held
  <2> QED
    BY <1>1, <2>1, <2>2
<1> QED
  BY <1>2, <1>5, <1>6

\* An insert adds at most its event.
LEMMA InsertSets ==
  ASSUME NEW e, Insert(e)
  PROVE  events' = events \cup {e}
BY DEF Insert

LEMMA StoreFailsSets ==
  ASSUME NEW e, StoreFails(e)
  PROVE  events' = events \/ events' = events \cup {e}
BY InsertSets DEF StoreFails, storeVars

-----------------------------------------------------------------------------
(* From the sets to the abstract steps.                                    *)

\* Nothing happens to the sets.
LEMMA SameSets ==
  ASSUME events' = events, Held' = Held, Gone' = Gone
  PROVE  UNCHANGED Fates
BY DEF Fates, Fate, Gone

\* e becomes a row, and rows that are delivered may leave the buffer.
LEMMA DeliverSets ==
  ASSUME NEW e \in Event, events' = events \cup {e}, Gone \subseteq Gone',
         Gone' \subseteq Gone \cup {e}, Held' \subseteq Held,
         \A x \in Held : x \in Held' \/ x \in events'
  PROVE  [Abstract!Next]_Fates
<1>1. Fate(e)' = "delivered"
  BY DEF Fate
<1>2. \A x \in Event \ {e} : Fate(x)' = Fate(x)
  BY DEF Fate, Gone
<1> QED
  BY <1>1, <1>2, DeliverStep

\* Rows that are delivered leave the buffer, and nothing else happens.
LEMMA ReleaseSets ==
  ASSUME events' = events, Gone' = Gone, Held' \subseteq Held,
         \A x \in Held : x \in Held' \/ x \in events
  PROVE  UNCHANGED Fates
BY DEF Fates, Fate, Gone

\* e is given up outside the buffer.
LEMMA DropSets ==
  ASSUME NEW e \in Event, events' = events, Held' = Held, Gone' = Gone \cup {e}
  PROVE  [Abstract!Next]_Fates
<1>1. \A x \in Event \ {e} : Fate(x)' = Fate(x)
  BY DEF Fate, Gone
<1>2. CASE e \in events \cup Held
  <2>1. Fate(e)' = Fate(e)
    BY <1>2 DEF Fate
  <2> QED
    BY <1>1, <2>1 DEF Fates
<1>3. CASE e \notin events \cup Held
  <2>1. Fate(e)' = "lost" /\ Fate(e) \in {"unseen", "lost"}
    BY <1>3 DEF Fate, Gone
  <2> QED
    BY <1>1, <2>1, LoseStep
<1> QED
  BY <1>2, <1>3

\* e is buffered, its row perhaps stored although the answer was lost.
LEMMA BufferSets ==
  ASSUME NEW e \in Event, NEW o \in Event, dropped' = dropped,
         events' = events \/ events' = events \cup {e}, e \in Held',
         \A x \in Event \ {e, o} : (x \in Held' <=> x \in Held)
                                   /\ (x \in evicted' <=> x \in evicted),
         o # e => o \in Held /\ (o \in Held' \/ o \in evicted')
  PROVE  [Abstract!Next]_Fates
<1>1. Fate(e)' \in {"held", "delivered"} /\ (Fate(e) = "delivered" => Fate(e)' = "delivered")
  BY DEF Fate
<1>2. o # e => Fate(o)' = Fate(o) \/ (Fate(o) = "held" /\ Fate(o)' = "lost")
  BY DEF Fate
<1>3. \A x \in Event \ {e, o} : Fate(x)' = Fate(x)
  BY DEF Fate
<1> QED
  BY <1>1, <1>2, <1>3, HoldStep

-----------------------------------------------------------------------------
LEMMA InitAbstract == Init => Abstract!Init
BY DEF Init, BufferInit, Abstract!Init, Fate, Held

LEMMA StepAbstract == IInv /\ [Next]_vars => [Abstract!Next]_Fates
<1> SUFFICES ASSUME IInv, [Next]_vars PROVE [Abstract!Next]_Fates
  OBVIOUS
<1>1. /\ TypeOK /\ BufferTypeOK /\ BufferBounded /\ BatchWithinBuffer
      /\ \A i \in 1..batch.done : buffer[i] \in events
      /\ InFlight => Current \in Event
      /\ Len(Topic) \in Nat /\ produced <= Len(Topic)
      /\ produced \in Nat /\ position \in Nat
  BY DEF IInv, TypeOK, ReplayInv, InFlightInv, Current
<1>2. CASE \/ UNCHANGED vars \/ Publish \/ CentralGoesDown \/ CentralComesBack
           \/ ProbeIntervalElapses \/ AutoCommit \/ Crash \/ StopSignal \/ Start \/ Poll
           \/ ProbeCentral \/ StartReplay \/ RouteToStore
  <2>1. events' = events /\ buffer' = buffer /\ evicted' = evicted /\ dropped' = dropped
    BY <1>2 DEF vars, bufferVars, kafkaVars, loopVars, storeVars, Publish, CentralGoesDown,
       CentralComesBack, ProbeIntervalElapses, AutoCommit, Crash, Rollback, StopSignal,
       Start, ConnectEdge, MarkConnectivity, Poll, ProbeCentral, StartReplay, SelectBatch,
       RouteToStore
  <2>2. Held' = Held /\ Gone' = Gone
    BY <2>1 DEF Held, Gone
  <2> QED
    BY <2>1, <2>2, SameSets
<1>3. CASE StopOnNextMessage
  <2> DEFINE m == Topic[position + 1]
  <2>1. /\ events' = events /\ buffer' = buffer /\ evicted' = evicted
        /\ dropped' = dropped \cup ({m} \cap Event)
    BY <1>3 DEF StopOnNextMessage, ExitAfter, bufferVars, storeVars
  <2>2. Held' = Held
    BY <2>1 DEF Held
  <2>3. CASE m \in Event
    <3>1. Gone' = Gone \cup {m}
      BY <2>1, <2>3 DEF Gone
    <3> QED
      BY <2>1, <2>2, <2>3, <3>1, DropSets
  <2>4. CASE m \notin Event
    <3>1. Gone' = Gone
      BY <2>1, <2>4 DEF Gone
    <3> QED
      BY <2>1, <2>2, <3>1, SameSets
  <2> QED
    BY <2>3, <2>4
<1>4. CASE BufferWriteFails
  <2>1. /\ events' = events /\ buffer' = buffer /\ evicted' = evicted
        /\ dropped' = dropped \cup {Current} /\ Current \in Event
    BY <1>1, <1>4 DEF BufferWriteFails, ExitAfter, bufferVars, storeVars, InFlight
  <2>2. Held' = Held /\ Gone' = Gone \cup {Current}
    BY <2>1 DEF Held, Gone
  <2> QED
    BY <2>1, <2>2, DropSets
<1>5. CASE StoreDirect
  <2>1. /\ buffer' = buffer /\ evicted' = evicted /\ Current \in Event
        /\ \/ events' = events \cup {Current} /\ dropped' = dropped
           \/ events' = events /\ dropped' = dropped \cup {Current}
           \/ events' = events \cup {Current} /\ dropped' = dropped \cup {Current}
    BY <1>1, <1>5, InsertSets, StoreFailsSets DEF StoreDirect, Stored, bufferVars, InFlight
  <2>2. Held' = Held
    BY <2>1 DEF Held
  <2>3. CASE events' = events \cup {Current}
    <3>1. Gone \subseteq Gone' /\ Gone' \subseteq Gone \cup {Current}
      BY <2>1 DEF Gone
    <3> QED
      BY <2>1, <2>2, <2>3, <3>1, DeliverSets
  <2>4. CASE events' = events /\ dropped' = dropped \cup {Current}
    <3>1. Gone' = Gone \cup {Current}
      BY <2>1, <2>4 DEF Gone
    <3> QED
      BY <2>1, <2>2, <2>4, <3>1, DropSets
  <2> QED
    BY <2>1, <2>3, <2>4
<1>6. CASE StoreLive
  <2>1. /\ buffer' = buffer /\ evicted' = evicted /\ dropped' = dropped
        /\ Current \in Event /\ events' = events \cup {Current}
    BY <1>1, <1>6, InsertSets DEF StoreLive, Stored, MarkConnectivity, InFlight
  <2>2. Held' = Held /\ Gone' = Gone
    BY <2>1 DEF Held, Gone
  <2> QED
    BY <2>1, <2>2, DeliverSets
<1>7. CASE ReplayRow
  <2>1. NextRow \in Event
    BY <1>1, <1>7 DEF ReplayRow, NextRow, BatchWithinBuffer, BufferTypeOK
  <2>2. /\ buffer' = buffer /\ evicted' = evicted /\ dropped' = dropped
        /\ events' = events \cup {NextRow}
    BY <1>7, InsertSets DEF ReplayRow, Stored, RowDeleted
  <2>3. Held' = Held /\ Gone' = Gone
    BY <2>2 DEF Held, Gone
  <2> QED
    BY <2>1, <2>2, <2>3, DeliverSets
<1>8. CASE ReplayFails
  <2>1. NextRow \in Event
    BY <1>1, <1>8 DEF ReplayFails, NextRow, BatchWithinBuffer, BufferTypeOK
  <2>2. /\ evicted' = evicted /\ Held' \subseteq Held
        /\ \A x \in Held : x \in Held' \/ x \in events
    BY <1>1, <1>8, CommitDeletionsSets DEF ReplayFails
  <2>3. /\ dropped' = dropped
        /\ events' = events \/ events' = events \cup {NextRow}
    BY <1>8, StoreFailsSets DEF ReplayFails
  <2>4. Gone' = Gone
    BY <2>2, <2>3 DEF Gone
  <2>5. CASE events' = events
    BY <2>2, <2>4, <2>5, ReleaseSets
  <2>6. CASE events' = events \cup {NextRow}
    BY <2>1, <2>2, <2>4, <2>6, DeliverSets
  <2> QED
    BY <2>3, <2>5, <2>6
<1>9. CASE ReplayBatchDone
  <2>1. /\ evicted' = evicted /\ Held' \subseteq Held
        /\ \A x \in Held : x \in Held' \/ x \in events
    BY <1>1, <1>9, CommitDeletionsSets DEF ReplayBatchDone
  <2>2. events' = events /\ Gone' = Gone
    BY <1>9, <2>1 DEF ReplayBatchDone, storeVars, Gone
  <2> QED
    BY <2>1, <2>2, ReleaseSets
<1>10. CASE BufferOffline
  <2>1. Current \in Event /\ AddEvent(Current, "offline")
        /\ dropped' = dropped /\ events' = events
    BY <1>1, <1>10 DEF BufferOffline, storeVars, InFlight
  <2> QED
    BY <1>1, <2>1, AddEventSets, BufferSets
<1>11. CASE StoreLiveFails
  <2>1. /\ Current \in Event /\ AddEvent(Current, "degraded") /\ dropped' = dropped
        /\ events' = events \/ events' = events \cup {Current}
    BY <1>1, <1>11, StoreFailsSets DEF StoreLiveFails, InFlight
  <2> QED
    BY <1>1, <2>1, AddEventSets, BufferSets
<1> QED
  BY <1>2, <1>3, <1>4, <1>5, <1>6, <1>7, <1>8, <1>9, <1>10, <1>11
     DEF Next, Deployed, LoopStep, Environment

\* Whatever the topic, the bounds and the faults, an ingestion service is a
\* store-and-forward relay: what it delivers stays delivered, what it holds
\* goes only to make room, and what it loses it could not hold.
THEOREM Implements == Spec => StoreAndForwardSpec
<1>1. Spec => [][Abstract!Next]_Fates
  BY Invariance, StepAbstract, PTL DEF Spec
<1>2. Spec => Abstract!Init
  BY InitAbstract, PTL DEF Spec
<1> QED
  BY <1>1, <1>2, PTL DEF StoreAndForwardSpec, Abstract!Spec, Fates
=============================================================================

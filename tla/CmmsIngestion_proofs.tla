------------------------ MODULE CmmsIngestion_proofs --------------------------
(***************************************************************************)
(* What holds of the CMMS ingestion for any records, any number of syncs   *)
(* at once, and any number of changes and faults.                          *)
(***************************************************************************)
EXTENDS CmmsIngestion, TLAPS

-----------------------------------------------------------------------------
(* Types, and where a job has what in hand.                                *)

PlaceOK(j) ==
  /\ j.pc = "persist" => j.at \in Key
  /\ j.pc \in {"fetch", "persist"} => j.kind \in Kinds
  /\ j.pc # "persist" => j.todo = {}

PlaceInv == \A s \in Sync : PlaceOK(job[s])

\* A change adds one to the version of one record.
SourceInv == \A k \in Key : source[k] <= 1 + changes

Typed == TypeOK /\ PlaceInv /\ SourceInv

\* The rows of the kind under way that are not done.
Rest(j) == IF j.pc = "persist" THEN j.todo \cup {j.at} ELSE {}

\* What no step of the loops changes of a job j but its place.
SameRows(n, j) ==
  /\ n.got = j.got /\ n.fetched = j.fetched /\ n.counted = j.counted
  /\ n.wrote = j.wrote /\ n.unsent = j.unsent /\ n.tx = j.tx
  /\ n.report = j.report /\ n.kept = j.kept

LEMMA Bounds ==
  MaxChanges \in Nat /\ MaxSyncs \in Nat /\ MaxFaults \in Nat /\ NoSync \notin Sync
BY IngestionAssumption DEF IngestionAssumption

LEMMA NothingTyped == Nothing \in [Key -> Version]
BY Bounds DEF Nothing, Version

LEMMA NewJobTyped == NewJob \in Job
BY NothingTyped DEF NewJob, Job, Kinds

\* A job goes on with the same rows, less the one it has done with.
LEMMA OnwardRows ==
  ASSUME NEW j \in Job, j.kind \in Kinds, NEW n \in Onward(j)
  PROVE  n \in Job /\ PlaceOK(n) /\ n.pc # "idle" /\ SameRows(n, j) /\ Rest(n) = j.todo
<1>1. CASE j.todo # {}
  <2>1. PICK k \in j.todo : n = [j EXCEPT !.pc = "persist", !.at = k, !.todo = @ \ {k}]
    BY <1>1 DEF Onward
  <2>2. k \in Key
    BY DEF Job
  <2>3. n \in Job
    BY <2>1, <2>2 DEF Job
  <2>4. n.pc = "persist" /\ n.at = k /\ n.todo = j.todo \ {k} /\ n.kind = j.kind /\ SameRows(n, j)
    BY <2>1 DEF Job, SameRows
  <2> QED BY <2>2, <2>3, <2>4 DEF PlaceOK, Rest
<1>2. CASE j.todo = {}
  <2> DEFINE next == After[j.kind]
  <2>1. next \in Kinds \cup {"commit"}
    BY DEF After, Kinds
  <2>2. n = [j EXCEPT !.pc = IF next = "commit" THEN "commit" ELSE "fetch", !.kind = next,
                      !.at = NoKey]
    BY <1>2 DEF Onward
  <2>3. n \in Job
    BY <2>1, <2>2 DEF Job
  <2>4. /\ n.pc = IF next = "commit" THEN "commit" ELSE "fetch"
        /\ n.kind = next /\ n.todo = {} /\ SameRows(n, j)
    BY <1>2, <2>2 DEF Job, SameRows
  <2> QED BY <1>2, <2>1, <2>3, <2>4 DEF PlaceOK, Rest
<1> QED BY <1>1, <1>2

LEMMA GoesOnRows ==
  ASSUME job \in [Sync -> Job], NEW s \in Sync, NEW j \in Job, j.kind \in Kinds, GoesOn(s, j)
  PROVE  /\ job' \in [Sync -> Job]
         /\ PlaceOK(job'[s]) /\ job'[s].pc # "idle" /\ SameRows(job'[s], j)
         /\ Rest(job'[s]) = j.todo
         /\ \A q \in Sync \ {s} : job'[q] = job[q]
<1>1. PICK n \in Onward(j) : job' = [job EXCEPT ![s] = n]
  BY DEF GoesOn
<1>2. n \in Job /\ PlaceOK(n) /\ n.pc # "idle" /\ SameRows(n, j) /\ Rest(n) = j.todo
  BY <1>1, OnwardRows
<1> QED BY <1>1, <1>2

LEMMA EndedFields ==
  ASSUME job \in [Sync -> Job], NEW s \in Sync, NEW report \in {"none", "ok", "error"},
         NEW kept \in BOOLEAN
  PROVE  LET e == Ended(s, report, kept)
         IN /\ e \in Job /\ PlaceOK(e) /\ e.pc = "idle" /\ e.tx = "open" /\ e.wrote = {}
            /\ e.kept = kept /\ e.fetched = job[s].fetched /\ e.counted = job[s].counted
            /\ e.unsent = job[s].unsent /\ e.got = Nothing /\ e.todo = {}
<1> DEFINE e == Ended(s, report, kept)
<1>1. job[s] \in Job
  OBVIOUS
<1>2. e = [NewJob EXCEPT !.pc = "idle", !.report = report, !.kept = kept,
             !.fetched = job[s].fetched, !.counted = job[s].counted, !.unsent = job[s].unsent]
  BY DEF Ended
<1>3. e \in Job
  BY <1>1, <1>2, NewJobTyped DEF Job
<1>4. /\ e.pc = "idle" /\ e.tx = "open" /\ e.wrote = {} /\ e.kept = kept
      /\ e.fetched = job[s].fetched /\ e.counted = job[s].counted
      /\ e.unsent = job[s].unsent /\ e.got = Nothing /\ e.todo = {}
  BY <1>2 DEF NewJob
<1> QED BY <1>3, <1>4 DEF PlaceOK

-----------------------------------------------------------------------------
(* What each action does to the rows of its job; the other jobs stay.      *)

Others(s) == \A q \in Sync \ {s} : job'[q] = job[q]

JobStep(s) == job' \in [Sync -> Job] /\ PlaceOK(job'[s]) /\ Others(s)

LEMMA Active ==
  ASSUME Typed, NEW s \in Sync
  PROVE  /\ job \in [Sync -> Job] /\ job[s] \in Job /\ PlaceOK(job[s])
         /\ job[s].pc = "persist" => job[s].at \in Key /\ Rest(job[s]) = job[s].todo \cup {job[s].at}
         /\ job[s].pc # "persist" => Rest(job[s]) = {}
         /\ job[s].pc \in {"fetch", "persist"} => job[s].kind \in Kinds
BY DEF Typed, TypeOK, PlaceInv, PlaceOK, Rest

LEMMA FetchRows ==
  ASSUME Typed, NEW s \in Sync, Fetch(s)
  PROVE  LET present == {k \in Kind[job[s].kind] : source[k] # 0}
         IN /\ JobStep(s) /\ present \subseteq Key /\ job'[s].pc # "idle"
            /\ Rest(job'[s]) = present /\ job'[s].fetched = job[s].fetched \cup present
            /\ job'[s].got = [k \in Key |-> IF k \in present THEN source[k] ELSE job[s].got[k]]
            /\ job'[s].counted = job[s].counted /\ job'[s].unsent = job[s].unsent
            /\ job'[s].wrote = job[s].wrote /\ job'[s].tx = job[s].tx
            /\ job'[s].kept = job[s].kept
<1> DEFINE present == {k \in Kind[job[s].kind] : source[k] # 0}
           got == [k \in Key |-> IF k \in present THEN source[k] ELSE job[s].got[k]]
           j == [job[s] EXCEPT !.todo = present, !.fetched = @ \cup present, !.got = got]
<1>1. job \in [Sync -> Job] /\ job[s] \in Job /\ job[s].kind \in Kinds
  BY Active DEF Fetch
<1>2. present \subseteq Key
  BY <1>1 DEF Kinds, Kind, Key
<1>3. job[s].got \in [Key -> Version] /\ source \in [Key -> Version]
  BY <1>1 DEF Typed, TypeOK, Job
<1>4. got \in [Key -> Version]
  BY <1>3
<1> HIDE DEF got, present
<1>5. j \in Job /\ j.kind = job[s].kind /\ j.todo = present
      /\ j.fetched = job[s].fetched \cup present /\ j.got = got /\ j.counted = job[s].counted
      /\ j.unsent = job[s].unsent /\ j.wrote = job[s].wrote /\ j.tx = job[s].tx
      /\ j.kept = job[s].kept
  BY <1>1, <1>2, <1>4 DEF Job
<1>6. GoesOn(s, j)
  BY DEF Fetch, present, got
<1> HIDE DEF j
<1>7. /\ job' \in [Sync -> Job] /\ PlaceOK(job'[s]) /\ job'[s].pc # "idle"
      /\ SameRows(job'[s], j) /\ Rest(job'[s]) = j.todo /\ Others(s)
  BY <1>1, <1>5, <1>6, GoesOnRows DEF Others
<1>8. present = {k \in Kind[job[s].kind] : source[k] # 0}
      /\ got = [k \in Key |-> IF k \in present THEN source[k] ELSE job[s].got[k]]
  BY DEF present, got
<1> QED BY <1>2, <1>5, <1>7, <1>8 DEF SameRows, JobStep

\* The steps that do no more than leave the row they are at behind.
Passes(s) == FetchEmpty(s) \/ FailsAtOnce(s)

LEMMA PassesRows ==
  ASSUME Typed, NEW s \in Sync, Passes(s)
  PROVE  /\ JobStep(s) /\ job'[s].pc # "idle" /\ SameRows(job'[s], job[s])
         /\ Rest(job'[s]) = job[s].todo
BY Active, GoesOnRows DEF Passes, FetchEmpty, FailsAtOnce, Inserting, JobStep, Others

LEMMA InsertRows ==
  ASSUME Typed, NEW s \in Sync, Insert(s)
  PROVE  LET k == job[s].at
             writes == ~(k \in Failure /\ stored[k] # 0)
         IN /\ JobStep(s) /\ k \in Key /\ job'[s].pc # "idle" /\ Rest(job'[s]) = job[s].todo
            /\ job'[s].counted = job[s].counted \cup {k}
            /\ job'[s].wrote = IF writes THEN job[s].wrote \cup {k} ELSE job[s].wrote
            /\ job'[s].got = job[s].got /\ job'[s].fetched = job[s].fetched
            /\ job'[s].unsent = job[s].unsent /\ job'[s].tx = "open"
            /\ job'[s].kept = job[s].kept
<1> DEFINE k == job[s].at
           writes == ~(k \in Failure /\ stored[k] # 0)
           wrote == IF writes THEN job[s].wrote \cup {k} ELSE job[s].wrote
           j == [job[s] EXCEPT !.counted = @ \cup {k}, !.wrote = wrote]
<1>1. /\ job \in [Sync -> Job] /\ job[s] \in Job /\ job[s].kind \in Kinds /\ k \in Key
      /\ job[s].tx = "open"
  BY Active DEF Insert, Inserting
<1>2. wrote \in SUBSET Key
  BY <1>1 DEF Job
<1>3. GoesOn(s, j)
  BY DEF Insert
<1> HIDE DEF wrote
<1>4. j \in Job /\ j.kind = job[s].kind /\ j.todo = job[s].todo
      /\ j.fetched = job[s].fetched /\ j.got = job[s].got /\ j.counted = job[s].counted \cup {k}
      /\ j.unsent = job[s].unsent /\ j.wrote = wrote /\ j.tx = "open" /\ j.kept = job[s].kept
  BY <1>1, <1>2 DEF Job
<1> HIDE DEF j
<1>5. /\ job' \in [Sync -> Job] /\ PlaceOK(job'[s]) /\ job'[s].pc # "idle"
      /\ SameRows(job'[s], j) /\ Rest(job'[s]) = j.todo /\ Others(s)
  BY <1>1, <1>3, <1>4, GoesOnRows DEF Others
<1> QED BY <1>1, <1>4, <1>5 DEF SameRows, JobStep, wrote

LEMMA RefusedRows ==
  ASSUME Typed, NEW s \in Sync, Refused(s)
  PROVE  /\ JobStep(s) /\ job'[s].pc # "idle" /\ job'[s].wrote = {} /\ job'[s].tx = "aborted"
         /\ job'[s].got = job[s].got /\ job'[s].fetched = job[s].fetched
         /\ job'[s].counted = job[s].counted /\ job'[s].unsent = job[s].unsent
         /\ job'[s].kept = job[s].kept
<1> DEFINE j == [job[s] EXCEPT !.wrote = {}, !.tx = "aborted"]
<1>1. job \in [Sync -> Job] /\ job[s] \in Job /\ job[s].kind \in Kinds
  BY Active DEF Refused, Inserting
<1>2. j \in Job /\ j.kind = job[s].kind /\ j.wrote = {} /\ j.tx = "aborted"
      /\ j.got = job[s].got /\ j.fetched = job[s].fetched /\ j.counted = job[s].counted
      /\ j.unsent = job[s].unsent /\ j.kept = job[s].kept
  BY <1>1 DEF Job
<1>3. GoesOn(s, j)
  BY DEF Refused
<1> HIDE DEF j
<1>4. /\ job' \in [Sync -> Job] /\ PlaceOK(job'[s]) /\ job'[s].pc # "idle"
      /\ SameRows(job'[s], j) /\ Others(s)
  BY <1>1, <1>2, <1>3, GoesOnRows DEF Others
<1> QED BY <1>2, <1>4 DEF SameRows, JobStep

LEMMA UnsendableRows ==
  ASSUME Typed, NEW s \in Sync, Unsendable(s)
  PROVE  /\ JobStep(s) /\ job[s].at \in Key /\ job'[s].pc # "idle"
         /\ Rest(job'[s]) = job[s].todo
         /\ job'[s].unsent = job[s].unsent \cup {job[s].at}
         /\ job'[s].got = job[s].got /\ job'[s].fetched = job[s].fetched
         /\ job'[s].counted = job[s].counted /\ job'[s].wrote = job[s].wrote
         /\ job'[s].tx = job[s].tx /\ job'[s].kept = job[s].kept
<1> DEFINE j == [job[s] EXCEPT !.unsent = @ \cup {job[s].at}]
<1>1. job \in [Sync -> Job] /\ job[s] \in Job /\ job[s].kind \in Kinds /\ job[s].at \in Key
  BY Active DEF Unsendable, Inserting
<1>2. j \in Job /\ j.kind = job[s].kind /\ j.todo = job[s].todo
      /\ j.unsent = job[s].unsent \cup {job[s].at} /\ j.wrote = job[s].wrote
      /\ j.got = job[s].got /\ j.fetched = job[s].fetched /\ j.counted = job[s].counted
      /\ j.tx = job[s].tx /\ j.kept = job[s].kept
  BY <1>1 DEF Job
<1>3. GoesOn(s, j)
  BY DEF Unsendable
<1> HIDE DEF j
<1>4. /\ job' \in [Sync -> Job] /\ PlaceOK(job'[s]) /\ job'[s].pc # "idle"
      /\ SameRows(job'[s], j) /\ Rest(job'[s]) = j.todo /\ Others(s)
  BY <1>1, <1>2, <1>3, GoesOnRows DEF Others
<1> QED BY <1>1, <1>2, <1>4 DEF SameRows, JobStep

LEMMA ConnectionLostRows ==
  ASSUME Typed, NEW s \in Sync, ConnectionLost(s)
  PROVE  /\ JobStep(s) /\ job[s].pc # "idle" /\ job'[s].pc = job[s].pc
         /\ job'[s].wrote = {} /\ job'[s].tx = "closed"
         /\ job'[s].got = job[s].got /\ job'[s].fetched = job[s].fetched
         /\ job'[s].kept = job[s].kept
<1>1. job \in [Sync -> Job] /\ job[s] \in Job /\ PlaceOK(job[s])
  BY Active
<1>2. job' = [job EXCEPT ![s] = [job[s] EXCEPT !.wrote = {}, !.tx = "closed"]]
      /\ job[s].pc # "idle"
  BY DEF ConnectionLost
<1>3. job'[s] = [job[s] EXCEPT !.wrote = {}, !.tx = "closed"] /\ Others(s)
  BY <1>1, <1>2 DEF Others
<1>4. job'[s] \in Job
  BY <1>1, <1>3 DEF Job
<1>5. job'[s].pc = job[s].pc /\ job'[s].kind = job[s].kind /\ job'[s].at = job[s].at
      /\ job'[s].todo = job[s].todo /\ job'[s].wrote = {} /\ job'[s].tx = "closed"
      /\ job'[s].got = job[s].got /\ job'[s].fetched = job[s].fetched
      /\ job'[s].kept = job[s].kept
  BY <1>1, <1>3 DEF Job
<1>6. PlaceOK(job'[s])
  BY <1>1, <1>5 DEF PlaceOK
<1>7. job' \in [Sync -> Job]
  BY <1>1, <1>2, <1>3, <1>4
<1> QED BY <1>2, <1>3, <1>5, <1>6, <1>7 DEF JobStep

LEMMA StartRows ==
  ASSUME Typed, NEW s \in Sync, Start(s)
  PROVE  /\ JobStep(s) /\ job'[s].wrote = {} /\ job'[s].fetched = {} /\ job'[s].counted = {}
         /\ job'[s].unsent = {} /\ job'[s].pc = "fetch" /\ job'[s].tx = "open"
         /\ job'[s].kept = FALSE /\ job'[s].got = Nothing /\ Rest(job'[s]) = {}
<1>1. job \in [Sync -> Job] /\ job' = [job EXCEPT ![s] = NewJob]
  BY Active DEF Start
<1> QED BY <1>1, NewJobTyped DEF JobStep, Others, NewJob, PlaceOK, Kinds, Rest

\* A job that ends, with its transaction stored or not.
EndsWith(s, kept) ==
  /\ JobStep(s) /\ job'[s].pc = "idle" /\ job'[s].tx = "open" /\ job'[s].wrote = {}
  /\ job'[s].kept = kept /\ job'[s].fetched = job[s].fetched
  /\ job'[s].counted = job[s].counted /\ job'[s].unsent = job[s].unsent
  /\ job'[s].got = Nothing /\ job'[s].todo = {}

LEMMA Ends ==
  ASSUME Typed, NEW s \in Sync, NEW report \in {"none", "ok", "error"}, NEW kept \in BOOLEAN,
         job' = [job EXCEPT ![s] = Ended(s, report, kept)]
  PROVE  EndsWith(s, kept)
<1>1. job \in [Sync -> Job]
  BY Active
<1>2. job'[s] = Ended(s, report, kept) /\ Others(s)
  BY <1>1 DEF Others
<1>3. job'[s] \in Job /\ PlaceOK(job'[s])
  BY <1>1, <1>2, EndedFields
<1>4. job' \in [Sync -> Job]
  BY <1>1, <1>2, <1>3
<1> QED BY <1>1, <1>2, <1>3, <1>4, EndedFields DEF EndsWith, JobStep

\* The steps that end a job without storing anything.
GivesUp(s) == FetchRaises(s) \/ CommitAborted(s) \/ CommitRaises(s)

LEMMA GivesUpRows ==
  ASSUME Typed, NEW s \in Sync, GivesUp(s)
  PROVE  EndsWith(s, FALSE)
BY Ends DEF GivesUp, FetchRaises, CommitAborted, CommitRaises, Fails

LEMMA CommitRows == ASSUME Typed, NEW s \in Sync, Commit(s) PROVE EndsWith(s, TRUE)
BY Ends DEF Commit

-----------------------------------------------------------------------------
(* Typed.                                                                  *)

LEMMA JobStepPlace == ASSUME Typed, NEW s \in Sync, JobStep(s) PROVE PlaceInv'
BY DEF Typed, PlaceInv, JobStep, Others

LEMMA InitTyped == Init => Typed
<1> SUFFICES ASSUME Init PROVE Typed
  OBVIOUS
<1>1. source \in [Key -> 0..1] /\ changes = 0 /\ syncs = 0 /\ faults = 0
  BY DEF Init
<1>2. [NewJob EXCEPT !.pc = "idle"] \in Job /\ PlaceOK([NewJob EXCEPT !.pc = "idle"])
  BY NewJobTyped DEF Job, NewJob, PlaceOK
<1>3. 0..1 \subseteq Version /\ changes \in 0..MaxChanges /\ syncs \in 0..MaxSyncs
      /\ faults \in 0..MaxFaults
  BY <1>1, Bounds DEF Version
<1>4. source \in [Key -> Version]
  BY <1>1, <1>3
<1>5. TypeOK
  BY <1>2, <1>3, <1>4, NothingTyped DEF Init, TypeOK
<1>6. PlaceInv
  BY <1>2 DEF Init, PlaceInv
<1>7. SourceInv
  BY <1>1 DEF SourceInv
<1> QED BY <1>5, <1>6, <1>7 DEF Typed

LEMMA SourceChangesTyped ==
  ASSUME Typed, NEW k \in Key, SourceChanges(k)
  PROVE  Typed' /\ source'[k] = source[k] + 1 /\ \A m \in Key \ {k} : source'[m] = source[m]
<1>1. source \in [Key -> Version] /\ changes \in 0..MaxChanges /\ source[k] <= 1 + changes
      /\ source[k] \in Version
  BY DEF Typed, TypeOK, SourceInv
<1>2. changes < MaxChanges /\ changes' = changes + 1 /\ source' = [source EXCEPT ![k] = @ + 1]
  BY DEF SourceChanges
<1>3. changes' \in 0..MaxChanges /\ source[k] + 1 \in Version /\ source[k] + 1 <= 1 + changes'
  BY <1>1, <1>2, Bounds DEF Version
<1>4. source' \in [Key -> Version] /\ source'[k] = source[k] + 1
      /\ \A m \in Key \ {k} : source'[m] = source[m]
  BY <1>1, <1>2, <1>3
<1>5. \A m \in Key : source[m] <= 1 + changes /\ source[m] \in Nat /\ changes \in Nat
  BY <1>1, Bounds DEF Typed, TypeOK, SourceInv, Version
<1>6. SourceInv'
  BY <1>2, <1>3, <1>4, <1>5 DEF SourceInv
<1>7. TypeOK' /\ PlaceInv'
  BY <1>3, <1>4 DEF SourceChanges, Typed, TypeOK, PlaceInv
<1> QED BY <1>4, <1>6, <1>7 DEF Typed

LEMMA FaultsTyped == ASSUME Typed, SomethingFails PROVE faults' \in 0..MaxFaults
BY Bounds DEF Typed, TypeOK, SomethingFails

LEMMA FreedTyped == ASSUME Typed, NEW s \in Sync PROVE Freed(s) \in [Key -> Sync \cup {NoSync}]
BY DEF Typed, TypeOK, Freed

LEMMA KeptTyped == ASSUME Typed, NEW s \in Sync PROVE Kept(s) \in [Key -> Version]
BY DEF Typed, TypeOK, Kept, Job

LEMMA SyncTyped ==
  ASSUME Typed, NEW s \in Sync, Start(s) \/ SyncStep(s) \/ ConnectionLost(s)
  PROVE  Typed'
<1>1. CASE Start(s)
  <2>1. syncs' \in 0..MaxSyncs
    BY <1>1, Bounds DEF Start, Typed, TypeOK
  <2> QED BY <1>1, <2>1, StartRows, JobStepPlace DEF Start, Typed, TypeOK, SourceInv, JobStep
<1>2. CASE Fetch(s)
  BY <1>2, FetchRows, JobStepPlace DEF Fetch, Typed, TypeOK, SourceInv, JobStep
<1>3. CASE Passes(s)
  BY <1>3, PassesRows, JobStepPlace
     DEF Passes, FetchEmpty, FailsAtOnce, Typed, TypeOK, SourceInv, JobStep
<1>4. CASE GivesUp(s)
  <2>1. UNCHANGED <<source, changes, stored, syncs, faults>>
    BY <1>4 DEF GivesUp, FetchRaises, CommitAborted, CommitRaises
  <2>2. holder' \in [Key -> Sync \cup {NoSync}] /\ newer' \in [Sync -> SUBSET Key]
    BY <1>4, FreedTyped DEF GivesUp, FetchRaises, CommitAborted, CommitRaises, Fails, Typed, TypeOK
  <2> QED BY <1>4, <2>1, <2>2, GivesUpRows, JobStepPlace
          DEF EndsWith, Typed, TypeOK, SourceInv, JobStep
<1>5. CASE Insert(s)
  <2>1. holder' \in [Key -> Sync \cup {NoSync}]
    BY <1>5 DEF Insert, Typed, TypeOK
  <2> QED BY <1>5, <2>1, InsertRows, JobStepPlace DEF Insert, Typed, TypeOK, SourceInv, JobStep
<1>6. CASE Refused(s)
  <2>1. faults' \in 0..MaxFaults
    BY <1>6, FaultsTyped DEF Refused, Typed, TypeOK
  <2> QED BY <1>6, <2>1, RefusedRows, FreedTyped, JobStepPlace
          DEF Refused, Typed, TypeOK, SourceInv, JobStep
<1>7. CASE Unsendable(s)
  BY <1>7, FaultsTyped, UnsendableRows, JobStepPlace
     DEF Unsendable, Typed, TypeOK, SourceInv, JobStep
<1>8. CASE ConnectionLost(s)
  BY <1>8, FaultsTyped, FreedTyped, ConnectionLostRows, JobStepPlace
     DEF ConnectionLost, Typed, TypeOK, SourceInv, JobStep
<1>9. CASE Commit(s)
  <2>1. faults' \in 0..MaxFaults /\ stored' \in [Key -> Version]
        /\ holder' \in [Key -> Sync \cup {NoSync}]
    BY <1>9, FaultsTyped, FreedTyped, KeptTyped DEF Commit, Typed, TypeOK
  <2>2. newer' \in [Sync -> SUBSET Key]
    BY <1>9 DEF Commit, Typed, TypeOK, Job
  <2> QED BY <1>9, <2>1, <2>2, CommitRows, JobStepPlace
          DEF Commit, EndsWith, Typed, TypeOK, SourceInv, JobStep
<1> QED
  BY <1>1, <1>2, <1>3, <1>4, <1>5, <1>6, <1>7, <1>8, <1>9 DEF SyncStep, Passes, GivesUp

LEMMA StutterTyped == ASSUME Typed, UNCHANGED vars PROVE Typed'
BY DEF Typed, TypeOK, PlaceInv, SourceInv, vars

LEMMA NextTyped == Typed /\ [Next]_vars => Typed'
BY SyncTyped, SourceChangesTyped, StutterTyped DEF Next

\* The records, the rows, the jobs and the counters are well typed.
THEOREM TypeCorrect == Spec => []TypeOK
<1>1. Typed => TypeOK
  BY DEF Typed
<1> QED BY <1>1, InitTyped, NextTyped, PTL DEF Spec

-----------------------------------------------------------------------------
(* A sync is stored whole.                                                 *)

\* Until a statement is refused every row fetched is counted, unsendable or
\* still to do; and it has a version.
WholeJob(j) ==
  /\ j.pc # "idle" /\ j.tx = "open" => j.fetched = j.counted \cup j.unsent \cup Rest(j)
  /\ j.kept => j.pc = "idle" /\ j.fetched = j.counted \cup j.unsent
  /\ j.pc # "idle" => \A k \in j.fetched : j.got[k] # 0

WholeInv == \A s \in Sync : WholeJob(job[s])

LEMMA InitWhole == Init => WholeInv
BY DEF Init, WholeInv, WholeJob, NewJob

LEMMA JobStepWhole ==
  ASSUME WholeInv, NEW s \in Sync, JobStep(s), WholeJob(job'[s])
  PROVE  WholeInv'
BY DEF WholeInv, JobStep, Others

LEMMA SyncWhole ==
  ASSUME Typed, WholeInv, NEW s \in Sync, Start(s) \/ SyncStep(s) \/ ConnectionLost(s)
  PROVE  WholeInv'
<1>0. /\ WholeJob(job[s]) /\ job[s] \in Job
      /\ job[s].pc = "persist" => Rest(job[s]) = job[s].todo \cup {job[s].at}
      /\ job[s].pc # "persist" => Rest(job[s]) = {} /\ job[s].todo = {}
  BY Active DEF WholeInv, PlaceOK
<1>1. CASE Start(s)
  BY <1>1, StartRows, JobStepWhole DEF WholeJob
<1>2. CASE Fetch(s)
  <2> DEFINE present == {k \in Kind[job[s].kind] : source[k] # 0}
             n == job'[s]
  <2>1. job[s].pc = "fetch" /\ job[s].kept = FALSE
    BY <1>0, <1>2 DEF Fetch, WholeJob, Job
  <2>2. /\ JobStep(s) /\ n.kept = FALSE /\ Rest(n) = present /\ n.fetched = job[s].fetched \cup present
        /\ n.got = [k \in Key |-> IF k \in present THEN source[k] ELSE job[s].got[k]]
        /\ n.counted = job[s].counted /\ n.unsent = job[s].unsent /\ n.tx = job[s].tx
        /\ present \subseteq Key
    BY <1>2, <2>1, FetchRows
  <2>3. \A k \in present : source[k] # 0
    OBVIOUS
  <2> HIDE DEF present, n
  <2>4. \A k \in n.fetched : n.got[k] # 0
    BY <1>0, <2>1, <2>2, <2>3 DEF WholeJob, Job
  <2>5. n.tx = "open" => n.fetched = n.counted \cup n.unsent \cup Rest(n)
    BY <1>0, <2>1, <2>2 DEF WholeJob
  <2>6. WholeJob(n)
    BY <2>2, <2>4, <2>5 DEF WholeJob
  <2> QED BY <2>2, <2>6, JobStepWhole DEF n
<1>3. CASE FetchEmpty(s)
  BY <1>0, <1>3, PassesRows, JobStepWhole DEF Passes, FetchEmpty, WholeJob, SameRows
<1>4. CASE FailsAtOnce(s)
  BY <1>0, <1>4, PassesRows, JobStepWhole DEF Passes, FailsAtOnce, Inserting, WholeJob, SameRows
<1>5. CASE GivesUp(s)
  BY <1>5, GivesUpRows, JobStepWhole DEF EndsWith, WholeJob
<1>6. CASE Insert(s)
  BY <1>0, <1>6, InsertRows, JobStepWhole DEF Insert, Inserting, WholeJob
<1>7. CASE Refused(s)
  BY <1>0, <1>7, RefusedRows, JobStepWhole, ZenonT(30) DEF Refused, Inserting, WholeJob
<1>8. CASE Unsendable(s)
  BY <1>0, <1>8, UnsendableRows, JobStepWhole DEF Unsendable, Inserting, WholeJob
<1>9. CASE ConnectionLost(s)
  BY <1>0, <1>9, ConnectionLostRows, JobStepWhole DEF WholeJob
<1>10. CASE Commit(s)
  BY <1>0, <1>10, CommitRows, JobStepWhole DEF Commit, EndsWith, WholeJob
<1> QED
  BY <1>1, <1>2, <1>3, <1>4, <1>5, <1>6, <1>7, <1>8, <1>9, <1>10 DEF SyncStep, GivesUp

LEMMA NextWhole == Typed /\ WholeInv /\ [Next]_vars => WholeInv'
<1> SUFFICES ASSUME Typed, WholeInv, [Next]_vars PROVE WholeInv'
  OBVIOUS
<1>1. CASE job' = job
  BY <1>1 DEF WholeInv
<1>2. CASE \E s \in Sync : Start(s) \/ SyncStep(s) \/ ConnectionLost(s)
  BY <1>2, SyncWhole
<1> QED BY <1>1, <1>2 DEF Next, SourceChanges, vars

\* A commit that took effect stored every row that was fetched and could be
\* sent.
THEOREM StoredAsWhole == Spec => []StoredWhole
<1>1. Typed /\ WholeInv => StoredWhole
  BY DEF WholeInv, WholeJob, StoredWhole
<1> QED BY <1>1, InitTyped, InitWhole, NextTyped, NextWhole, PTL DEF Spec

-----------------------------------------------------------------------------
(* The rows a transaction has written are locked, and nobody else's.       *)

\* A row that was not written by the statement that counted it is there.
LockJob(s) ==
  /\ \A k \in job[s].wrote :
       /\ holder[k] = s /\ k \in job[s].counted /\ job[s].tx = "open" /\ job[s].pc # "idle"
       /\ k \in Failure => stored[k] = 0
  /\ job[s].pc # "idle" /\ job[s].tx = "open" =>
       \A k \in job[s].counted \ job[s].wrote : stored[k] # 0
  /\ job[s].kept => \A k \in job[s].counted : stored[k] # 0

LockInv == \A s \in Sync : LockJob(s)

LEMMA InitLock == Init => LockInv
BY DEF Init, LockInv, LockJob, NewJob

\* What Commit does to the rows: those written appear, the others stay.
LEMMA CommitStores ==
  ASSUME Typed, WholeInv, LockInv, NEW s \in Sync, Commit(s)
  PROVE  /\ \A k \in job[s].wrote : k \in Key /\ stored'[k] = job[s].got[k] /\ stored'[k] # 0
         /\ \A k \in Key \ job[s].wrote : stored'[k] = stored[k]
         /\ \A k \in job[s].fetched : k \in Key
         /\ job[s].counted \subseteq job[s].fetched
<1>1. job[s] \in Job /\ WholeJob(job[s]) /\ LockJob(s)
  BY Active DEF WholeInv, LockInv
<1>2. job[s].pc = "commit" /\ job[s].tx = "open" /\ stored' = Kept(s)
  BY DEF Commit
<1>3. job[s].counted \subseteq job[s].fetched /\ job[s].wrote \subseteq job[s].counted
  BY <1>1, <1>2 DEF WholeJob, LockJob
<1> QED BY <1>1, <1>2, <1>3 DEF WholeJob, Kept, Job

\* A job whose rows stay keeps LockJob when locks of others go and come.
LEMMA OtherLock ==
  ASSUME Typed, LockInv, NEW s \in Sync, NEW q \in Sync \ {s}, job'[q] = job[q],
         \A k \in Key : holder[k] = q => holder'[k] = q,
         \A k \in Key : stored[k] # 0 => stored'[k] # 0,
         \A k \in job[q].wrote : stored'[k] = stored[k]
  PROVE  LockJob(q)'
<1>1. job[q] \in Job /\ LockJob(q)
  BY Active DEF LockInv
<1> QED BY <1>1 DEF LockJob, Job

LEMMA FreedKeeps ==
  ASSUME NEW s \in Sync, NEW q \in Sync \ {s}, holder' = Freed(s)
  PROVE  \A k \in Key : holder[k] = q => holder'[k] = q
BY DEF Freed

LEMMA SyncLock ==
  ASSUME Typed, WholeInv, LockInv, NEW s \in Sync, Start(s) \/ SyncStep(s) \/ ConnectionLost(s)
  PROVE  LockInv'
<1>0. LockJob(s) /\ WholeJob(job[s]) /\ job[s] \in Job
  BY Active DEF LockInv, WholeInv
<1> SUFFICES ASSUME NEW q \in Sync PROVE LockJob(q)'
  BY DEF LockInv
<1>1. CASE Start(s)
  <2>1. holder' = holder /\ stored' = stored
    BY <1>1 DEF Start
  <2>2. CASE q = s
    BY <1>1, <2>2, StartRows DEF LockJob
  <2>3. CASE q # s
    BY <1>1, <2>1, <2>3, StartRows, OtherLock DEF JobStep, Others
  <2> QED BY <2>2, <2>3
<1>2. CASE Fetch(s) \/ Passes(s) \/ Unsendable(s)
  <2>1. holder' = holder /\ stored' = stored /\ job[s].pc # "idle"
    BY <1>2 DEF Fetch, Passes, FetchEmpty, FailsAtOnce, Unsendable, Inserting
  <2>2. /\ JobStep(s) /\ job'[s].wrote = job[s].wrote /\ job'[s].counted = job[s].counted
        /\ job'[s].tx = job[s].tx /\ job'[s].kept = job[s].kept /\ job'[s].pc # "idle"
    BY <1>2, FetchRows, PassesRows, UnsendableRows DEF SameRows
  <2> QED BY <1>0, <2>1, <2>2, OtherLock DEF JobStep, Others, LockJob
<1>3. CASE GivesUp(s)
  <2>1. stored' = stored /\ EndsWith(s, FALSE)
    BY <1>3, GivesUpRows DEF GivesUp, FetchRaises, CommitAborted, CommitRaises
  <2>2. holder' = Freed(s) \/ holder' = holder
    BY <1>3 DEF GivesUp, FetchRaises, CommitAborted, CommitRaises, Fails
  <2>3. q # s => \A k \in Key : holder[k] = q => holder'[k] = q
    BY <2>2, FreedKeeps
  <2> QED BY <2>1, <2>3, OtherLock DEF EndsWith, JobStep, Others, LockJob
<1>4. CASE Insert(s)
  <2> DEFINE k == job[s].at
             writes == ~(k \in Failure /\ stored[k] # 0)
             n == job'[s]
  <2>1. /\ JobStep(s) /\ k \in Key /\ n.pc # "idle" /\ n.counted = job[s].counted \cup {k}
        /\ n.wrote = IF writes THEN job[s].wrote \cup {k} ELSE job[s].wrote
        /\ n.tx = "open" /\ n.kept = job[s].kept
    BY <1>4, InsertRows
  <2>2. /\ stored' = stored /\ job[s].tx = "open" /\ job[s].pc # "idle"
        /\ holder[k] \in {s, NoSync}
        /\ holder' = IF writes THEN [holder EXCEPT ![k] = s] ELSE holder
    BY <1>4 DEF Insert, Blocked, Inserting
  <2>3. holder \in [Key -> Sync \cup {NoSync}]
    BY DEF Typed, TypeOK
  <2>4. job[s].kept = FALSE
    BY <1>0, <2>2 DEF WholeJob, Job
  <2>5. CASE q = s
    <3>1. \A m \in n.wrote : holder'[m] = s
      BY <1>0, <2>1, <2>2, <2>3 DEF LockJob, Job
    <3>2. \A m \in n.wrote \cap Failure : stored'[m] = 0
      BY <1>0, <2>1, <2>2 DEF LockJob
    <3>3. \A m \in n.counted \ n.wrote : stored'[m] # 0
      BY <1>0, <2>1, <2>2 DEF LockJob
    <3>4. n.wrote \subseteq n.counted
      BY <1>0, <2>1 DEF LockJob
    <3> QED BY <2>1, <2>4, <2>5, <3>1, <3>2, <3>3, <3>4 DEF LockJob
  <2>6. CASE q # s
    <3>1. \A m \in Key : holder[m] = q => holder'[m] = q
      BY <2>2, <2>3, <2>6, Bounds
    <3> QED BY <2>1, <2>2, <2>6, <3>1, OtherLock DEF JobStep, Others
  <2> QED BY <2>5, <2>6
<1>5. CASE Refused(s) \/ ConnectionLost(s)
  <2>1. stored' = stored /\ holder' = Freed(s) /\ job[s].pc # "idle"
    BY <1>5 DEF Refused, ConnectionLost, Inserting
  <2>2. JobStep(s) /\ job'[s].wrote = {} /\ job'[s].tx # "open" /\ job'[s].kept = job[s].kept
    BY <1>5, RefusedRows, ConnectionLostRows
  <2>3. job[s].kept = FALSE
    BY <1>0, <2>1 DEF WholeJob, Job
  <2> QED BY <2>1, <2>2, <2>3, FreedKeeps, OtherLock DEF JobStep, Others, LockJob
<1>6. CASE Commit(s)
  <2>1. /\ \A k \in job[s].wrote : k \in Key /\ stored'[k] # 0
        /\ \A k \in Key \ job[s].wrote : stored'[k] = stored[k]
    BY <1>6, CommitStores
  <2>2. holder' = Freed(s) /\ EndsWith(s, TRUE) /\ job[s].tx = "open" /\ job[s].pc # "idle"
    BY <1>6, CommitRows DEF Commit
  <2>3. CASE q = s
    <3>1. \A k \in job[s].counted : stored'[k] # 0
      BY <1>0, <2>1, <2>2 DEF LockJob, Job
    <3> QED BY <2>2, <2>3, <3>1 DEF EndsWith, LockJob
  <2>4. CASE q # s
    <3>1. \A k \in job[q].wrote : k \in Key /\ k \notin job[s].wrote
      BY <1>0, <2>4, Active DEF LockInv, LockJob, Job
    <3> QED BY <2>1, <2>2, <2>4, <3>1, FreedKeeps, OtherLock DEF EndsWith, JobStep, Others
  <2> QED BY <2>3, <2>4
<1> QED
  BY <1>1, <1>2, <1>3, <1>4, <1>5, <1>6 DEF SyncStep, Passes, GivesUp

LEMMA NextLock == Typed /\ WholeInv /\ LockInv /\ [Next]_vars => LockInv'
<1> SUFFICES ASSUME Typed, WholeInv, LockInv, [Next]_vars PROVE LockInv'
  OBVIOUS
<1>1. CASE UNCHANGED <<stored, holder, job>>
  BY <1>1 DEF LockInv, LockJob
<1>2. CASE \E s \in Sync : Start(s) \/ SyncStep(s) \/ ConnectionLost(s)
  BY <1>2, SyncLock
<1> QED BY <1>1, <1>2 DEF Next, SourceChanges, vars

\* The counts of a sync that was stored count rows that are there.
THEOREM CountsAreTrue == Spec => []CountedIsThere
<1>1. LockInv => CountedIsThere
  BY DEF LockInv, LockJob, CountedIsThere
<1> QED
  BY <1>1, InitTyped, InitWhole, InitLock, NextTyped, NextWhole, NextLock, PTL DEF Spec

\* Only a commit changes rows.
LEMMA OnlyCommitStores ==
  ASSUME [Next]_vars, ~\E s \in Sync : Commit(s)
  PROVE  stored' = stored
BY DEF Next, SyncStep, SourceChanges, Start, ConnectionLost, Fetch, FetchEmpty, FetchRaises,
       Insert, Refused, FailsAtOnce, Unsendable, CommitAborted, CommitRaises, vars

\* A failure event in the table is changed by no sync.
THEOREM FailuresStay == Spec => FirstReportStays
<1>1. ASSUME Typed, WholeInv, LockInv, [Next]_vars
      PROVE  [\A k \in Failure : stored[k] # 0 => stored'[k] = stored[k]]_vars
  <2>1. CASE ~\E s \in Sync : Commit(s)
    BY <1>1, <2>1, OnlyCommitStores
  <2>2. ASSUME NEW s \in Sync, Commit(s), NEW k \in Failure, stored[k] # 0
        PROVE  stored'[k] = stored[k]
    <3>1. k \notin job[s].wrote
      BY <1>1, <2>2 DEF LockInv, LockJob
    <3>2. k \in Key
      BY DEF Key
    <3> QED BY <1>1, <2>2, <3>1, <3>2, CommitStores
  <2> QED BY <2>1, <2>2
<1> QED
  BY <1>1, InitTyped, InitWhole, InitLock, NextTyped, NextWhole, NextLock, PTL
     DEF Spec, FirstReportStays

-----------------------------------------------------------------------------
(* The age of what is stored.                                              *)

(***************************************************************************)
(* Nothing is newer than the source's record, and what a sync has fetched  *)
(* is no older than the stored row unless another sync has stored it since.*)
(***************************************************************************)
AgeInv ==
  /\ \A k \in Key : stored[k] <= source[k]
  /\ \A s \in Sync, k \in Key : job[s].got[k] <= source[k]
  /\ \A s \in Sync : job[s].pc # "idle" =>
       \A k \in job[s].fetched \ newer[s] : stored[k] <= job[s].got[k]

LEMMA Numbers ==
  ASSUME Typed
  PROVE  \A k \in Key : /\ stored[k] \in Nat /\ source[k] \in Nat
                        /\ \A s \in Sync : job[s].got[k] \in Nat
BY Bounds DEF Typed, TypeOK, Job, Version

LEMMA InitAge == Init => AgeInv
<1> SUFFICES ASSUME Init PROVE AgeInv
  OBVIOUS
<1>1. \A k \in Key : source[k] \in 0..1 /\ stored[k] = 0
  BY DEF Init, Nothing
<1>2. \A s \in Sync : job[s].pc = "idle" /\ \A k \in Key : job[s].got[k] = 0
  BY DEF Init, NewJob, Nothing
<1> QED BY <1>1, <1>2 DEF AgeInv

\* A step of a job that fetches nothing and stores nothing.
LEMMA QuietAge ==
  ASSUME Typed, AgeInv, NEW s \in Sync, JobStep(s), source' = source, stored' = stored,
         \A q \in Sync \ {s} : newer'[q] = newer[q],
         \/ job'[s].got = Nothing /\ (job'[s].pc = "idle" \/ job'[s].fetched = {})
         \/ /\ job'[s].got = job[s].got /\ job'[s].fetched = job[s].fetched
            /\ job[s].pc # "idle" /\ newer'[s] = newer[s]
  PROVE  AgeInv'
<1>1. \A q \in Sync \ {s} : job'[q] = job[q]
  BY DEF JobStep, Others
<1>2. \A k \in Key : 0 <= source[k]
  BY Numbers
<1>3. \A q \in Sync, k \in Key : job'[q].got[k] <= source'[k]
  BY <1>1, <1>2 DEF AgeInv, Nothing
<1>4. \A q \in Sync : job'[q].pc # "idle" =>
        \A k \in job'[q].fetched \ newer'[q] : stored'[k] <= job'[q].got[k]
  BY <1>1 DEF AgeInv
<1> QED BY <1>3, <1>4 DEF AgeInv

LEMMA FetchAge ==
  ASSUME Typed, WholeInv, AgeInv, NEW s \in Sync, Fetch(s)
  PROVE  AgeInv'
<1> DEFINE present == {k \in Kind[job[s].kind] : source[k] # 0}
           n == job'[s]
<1>1. /\ JobStep(s) /\ present \subseteq Key /\ n.fetched = job[s].fetched \cup present
      /\ n.got = [k \in Key |-> IF k \in present THEN source[k] ELSE job[s].got[k]]
  BY FetchRows
<1>2. /\ source' = source /\ stored' = stored /\ job[s].pc = "fetch"
      /\ newer' = [newer EXCEPT ![s] = @ \ Kind[job[s].kind]]
  BY DEF Fetch
<1>3. newer'[s] = newer[s] \ Kind[job[s].kind] /\ \A q \in Sync \ {s} : newer'[q] = newer[q]
  BY <1>2 DEF Typed, TypeOK
<1>4. \A q \in Sync \ {s} : job'[q] = job[q]
  BY <1>1 DEF JobStep, Others
<1>5. job[s].fetched \subseteq Key /\ \A k \in job[s].fetched : job[s].got[k] # 0
  BY <1>2, Active DEF WholeInv, WholeJob, Job
<1>6. \A k \in Key : n.got[k] <= source[k]
  BY <1>1, Numbers DEF AgeInv
<1>7. ASSUME NEW k \in n.fetched \ newer'[s] PROVE stored[k] <= n.got[k]
  <2>1. CASE k \in present
    BY <1>1, <2>1 DEF AgeInv
  <2>2. CASE k \notin present
    <3>1. k \in job[s].fetched /\ k \in Key /\ n.got[k] = job[s].got[k]
      BY <1>1, <1>5, <1>7, <2>2
    <3>2. source[k] # 0
      BY <1>5, <3>1, Numbers DEF AgeInv
    <3>3. k \notin newer[s]
      BY <1>3, <1>7, <2>2, <3>2
    <3> QED BY <1>2, <3>1, <3>3 DEF AgeInv
  <2> QED BY <2>1, <2>2
<1> HIDE DEF n, present
<1>8. \A q \in Sync, k \in Key : job'[q].got[k] <= source'[k]
  BY <1>2, <1>4, <1>6 DEF AgeInv, n
<1>9. \A q \in Sync : job'[q].pc # "idle" =>
        \A k \in job'[q].fetched \ newer'[q] : stored'[k] <= job'[q].got[k]
  BY <1>2, <1>3, <1>4, <1>7 DEF AgeInv, n
<1> QED BY <1>2, <1>8, <1>9 DEF AgeInv

LEMMA CommitAge ==
  ASSUME Typed, WholeInv, LockInv, AgeInv, NEW s \in Sync, Commit(s)
  PROVE  AgeInv'
<1>1. EndsWith(s, TRUE) /\ source' = source
  BY CommitRows DEF Commit
<1>2. /\ \A k \in job[s].wrote : k \in Key /\ stored'[k] = job[s].got[k]
      /\ \A k \in Key \ job[s].wrote : stored'[k] = stored[k]
  BY CommitStores
<1>3. \A q \in Sync \ {s} : job'[q] = job[q] /\ job[q].fetched \subseteq Key
  BY <1>1, Active DEF EndsWith, JobStep, Others, Job
<1>4. \A q \in Sync \ {s} : job[q].pc # "idle" => newer'[q] = newer[q] \cup job[s].wrote
  BY DEF Commit
<1>5. job'[s].pc = "idle" /\ job'[s].got = Nothing
  BY <1>1 DEF EndsWith
<1>6. \A k \in Key : 0 <= source[k]
  BY Numbers
<1>7. \A k \in Key : stored'[k] <= source'[k]
  BY <1>1, <1>2 DEF AgeInv
<1>8. \A q \in Sync, k \in Key : job'[q].got[k] <= source'[k]
  BY <1>1, <1>3, <1>5, <1>6 DEF AgeInv, Nothing
<1>9. \A q \in Sync : job'[q].pc # "idle" =>
        \A k \in job'[q].fetched \ newer'[q] : stored'[k] <= job'[q].got[k]
  BY <1>2, <1>3, <1>4, <1>5 DEF AgeInv
<1> QED BY <1>7, <1>8, <1>9 DEF AgeInv

LEMMA SyncAge ==
  ASSUME Typed, WholeInv, LockInv, AgeInv, NEW s \in Sync,
         Start(s) \/ SyncStep(s) \/ ConnectionLost(s)
  PROVE  AgeInv'
<1>1. CASE Start(s)
  BY <1>1, StartRows, QuietAge DEF Start
<1>2. CASE GivesUp(s)
  <2>1. source' = source /\ stored' = stored /\ \A q \in Sync \ {s} : newer'[q] = newer[q]
    BY <1>2 DEF GivesUp, FetchRaises, CommitAborted, CommitRaises, Fails, Typed, TypeOK
  <2> QED BY <1>2, <2>1, GivesUpRows, QuietAge DEF EndsWith
<1>3. CASE Passes(s) \/ Insert(s) \/ Refused(s) \/ Unsendable(s) \/ ConnectionLost(s)
  <2>1. UNCHANGED <<source, stored, newer>> /\ job[s].pc # "idle"
    BY <1>3 DEF Passes, FetchEmpty, FailsAtOnce, Insert, Refused, Unsendable, ConnectionLost,
                Inserting
  <2>2. JobStep(s) /\ job'[s].got = job[s].got /\ job'[s].fetched = job[s].fetched
    BY <1>3, PassesRows, InsertRows, RefusedRows, UnsendableRows, ConnectionLostRows DEF SameRows
  <2> QED BY <2>1, <2>2, QuietAge
<1>4. CASE Fetch(s)
  BY <1>4, FetchAge
<1>5. CASE Commit(s)
  BY <1>5, CommitAge
<1> QED BY <1>1, <1>2, <1>3, <1>4, <1>5 DEF SyncStep, Passes, GivesUp

LEMMA NextAge == Typed /\ WholeInv /\ LockInv /\ AgeInv /\ [Next]_vars => AgeInv'
<1> SUFFICES ASSUME Typed, WholeInv, LockInv, AgeInv, [Next]_vars PROVE AgeInv'
  OBVIOUS
<1>1. CASE UNCHANGED vars
  BY <1>1 DEF AgeInv, vars
<1>2. ASSUME NEW k \in Key, SourceChanges(k) PROVE AgeInv'
  <2>1. \A m \in Key : source[m] <= source'[m]
    BY <1>2, SourceChangesTyped, Numbers
  <2>2. UNCHANGED <<stored, job, newer>>
    BY <1>2 DEF SourceChanges
  <2>3. \A m \in Key : source'[m] \in Nat
    BY <1>2, SourceChangesTyped, Numbers
  <2>4. \A m \in Key : stored'[m] <= source'[m]
    BY <2>1, <2>2, <2>3, Numbers DEF AgeInv
  <2>5. \A s \in Sync, m \in Key : job'[s].got[m] <= source'[m]
    BY <2>1, <2>2, <2>3, Numbers DEF AgeInv
  <2> QED BY <2>2, <2>4, <2>5 DEF AgeInv
<1>3. CASE \E s \in Sync : Start(s) \/ SyncStep(s) \/ ConnectionLost(s)
  BY <1>3, SyncAge
<1> QED BY <1>1, <1>2, <1>3 DEF Next

IInv == Typed /\ WholeInv /\ LockInv /\ AgeInv

\* A work order goes back to an older state only when the sync that takes it
\* there had fetched it before another one stored it.
THEOREM RegressionTakesOverlap == Spec => OnlyOverlapRegresses
<1>1. ASSUME IInv, [Next]_vars
      PROVE  [\A k \in WorkOrder : stored'[k] < stored[k] =>
                \E s \in Sync : job[s].pc = "commit" /\ k \in job[s].wrote \cap newer[s]]_vars
  <2>1. CASE ~\E s \in Sync : Commit(s)
    <3>1. stored' = stored /\ \A k \in WorkOrder : stored[k] \in Nat
      BY <1>1, <2>1, OnlyCommitStores, Numbers DEF IInv, Key
    <3> QED BY <3>1
  <2>2. ASSUME NEW s \in Sync, Commit(s), NEW k \in WorkOrder, stored'[k] < stored[k]
        PROVE  job[s].pc = "commit" /\ k \in job[s].wrote \cap newer[s]
    <3>1. k \in Key /\ job[s].pc = "commit"
      BY <2>2 DEF Key, Commit
    <3>2. k \in job[s].wrote /\ stored'[k] = job[s].got[k]
      BY <1>1, <2>2, <3>1, CommitStores, Numbers DEF IInv
    <3>3. k \in job[s].fetched
      BY <1>1, <2>2, <3>2, CommitStores DEF IInv, LockInv, LockJob
    <3>4. k \in newer[s]
      BY <1>1, <2>2, <3>1, <3>2, <3>3, Numbers DEF IInv, AgeInv
    <3> QED BY <3>1, <3>2, <3>4
  <2> QED BY <2>1, <2>2
<1>2. Init => IInv
  BY InitTyped, InitWhole, InitLock, InitAge DEF IInv
<1>3. IInv /\ [Next]_vars => IInv'
  BY NextTyped, NextWhole, NextLock, NextAge DEF IInv
<1> QED BY <1>1, <1>2, <1>3, PTL DEF Spec, OnlyOverlapRegresses
=============================================================================

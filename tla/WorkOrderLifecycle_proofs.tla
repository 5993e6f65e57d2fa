---------------------- MODULE WorkOrderLifecycle_proofs -----------------------
(***************************************************************************)
(* What holds of a work order's row for any number of writers and calls    *)
(* and whatever the CMMS answers.                                          *)
(***************************************************************************)
EXTENDS WorkOrderLifecycle, TLAPS

LEMMA NormalizedType ==
  ASSUME NEW a \in Answer, NEW t \in Nat
  PROVE  Normalized(a, t) \in Result
BY DEF Normalized, Answer, Result, When

LEMMA PhaseType ==
  ASSUME NEW status \in Status, NEW handoff \in Nat, NEW completed \in Nat
  PROVE  Phase(status, handoff, completed) \in Phases
<1>1. CASE completed # 0 \/ Terminal(status)
  BY <1>1 DEF Phase, Phases
<1>2. CASE ~(completed # 0 \/ Terminal(status)) /\ handoff # 0
  BY <1>2 DEF Phase, Phases
<1>3. CASE ~(completed # 0 \/ Terminal(status)) /\ ~(handoff # 0)
  BY <1>3 DEF Phase, Phases
<1> QED BY <1>1, <1>2, <1>3

\* What the phase says, one case each.
LEMMA PhaseMeaning ==
  ASSUME NEW status, NEW handoff, NEW completed
  PROVE  /\ completed # 0 \/ Terminal(status) <=> Phase(status, handoff, completed) = "completed"
         /\ Phase(status, handoff, completed) = "handoff-complete" => handoff # 0
         /\ handoff # 0 => Phase(status, handoff, completed) \in {"completed", "handoff-complete"}
<1>1. CASE completed # 0 \/ Terminal(status)
  BY <1>1 DEF Phase
<1>2. CASE ~(completed # 0 \/ Terminal(status)) /\ handoff # 0
  BY <1>2 DEF Phase
<1>3. CASE ~(completed # 0 \/ Terminal(status)) /\ ~(handoff # 0)
  BY <1>3 DEF Phase
<1> QED BY <1>1, <1>2, <1>3

\* A row that was never read or written keeps no status, for it has no date.
LEMMA MergedType ==
  ASSUME NEW seen \in RowSet, NEW new \in Result,
         seen.status = "absent" => seen.completed = 0 /\ seen.handoff = 0
  PROVE  Merged(seen, new) \in Result
<1>1. KeepsStatus(seen, new) => seen.status \in Status
  BY DEF KeepsStatus, RowSet, Terminal
<1>2. MergedStatus(seen, new) \in Status
  BY <1>1 DEF MergedStatus, Result
<1> QED BY <1>2 DEF Merged, Result, RowSet, First

LEMMA UpsertedType ==
  ASSUME NEW r \in RowSet, NEW seen \in RowSet, NEW m \in Result
  PROVE  Upserted(r, seen, m) \in RowSet
<1>1. PhaseOf(m) \in Phases
  BY PhaseType DEF PhaseOf, Result
<1> QED BY <1>1 DEF Upserted, RowSet, Result, First

-----------------------------------------------------------------------------
(* The inductive invariant.                                                *)

Dateless(r) == r.status = "absent" => r.completed = 0 /\ r.handoff = 0

Dated(r) == r.created # 0 => r.handoff # 0

(***************************************************************************)
(* HandoffDated alone is not inductive: the dates written are those a      *)
(* writer read earlier and those it was answered.                          *)
(***************************************************************************)
WritersDated ==
  /\ Dateless(row) /\ Dated(row)
  /\ \A w \in Writer : Dateless(writer[w].seen) /\ Dated(writer[w].seen) /\ Dated(writer[w].new)

IInv == TypeOK /\ WritersDated /\ PhaseClaimsNoMore

LEMMA InitInv == Init => IInv
BY LifecycleAssumption
   DEF Init, IInv, TypeOK, WritersDated, PhaseClaimsNoMore, Dateless, Dated,
       Absent, Resting, NoResult, RowSet, WriterSet, Result, Status, Phases

LEMMA AnsweredInv == ASSUME IInv, NEW w \in Writer, Answered(w) PROVE IInv'
<1> USE DEF IInv
<1>1. calls' \in 0..MaxCalls /\ calls' \in Nat
  BY LifecycleAssumption DEF TypeOK, Answered
<1>2. PICK a \in Answer :
        writer' = [writer EXCEPT ![w].pc = "answered", ![w].new = Normalized(a, calls')]
  BY LifecycleAssumption DEF Answered
<1>3. Normalized(a, calls') \in Result
  BY <1>1, NormalizedType
<1>4. Dated(Normalized(a, calls'))
  BY <1>1 DEF Dated, Normalized, When
<1>5. UNCHANGED row
  BY DEF Answered
<1>6. TypeOK'
  BY <1>1, <1>2, <1>3, <1>5 DEF TypeOK, WriterSet
<1>7. WritersDated'
  BY <1>2, <1>4, <1>5 DEF WritersDated, TypeOK, WriterSet
<1> QED BY <1>5, <1>6, <1>7 DEF PhaseClaimsNoMore, Completed

LEMMA ReadInv == ASSUME IInv, NEW w \in Writer, Read(w) PROVE IInv'
<1> USE DEF IInv, Read
<1>1. TypeOK'
  BY DEF TypeOK, WriterSet
<1>2. WritersDated'
  BY DEF WritersDated, TypeOK, WriterSet
<1> QED BY <1>1, <1>2 DEF PhaseClaimsNoMore, Completed

LEMMA WriteInv == ASSUME IInv, NEW w \in Writer, Write(w) PROVE IInv'
<1> USE DEF IInv
<1> DEFINE seen == writer[w].seen
           new == writer[w].new
           m == Merged(seen, new)
<1>1. seen \in RowSet /\ new \in Result /\ row \in RowSet
  BY DEF TypeOK, WriterSet
<1>2. Dateless(seen) /\ Dated(seen) /\ Dated(new) /\ Dated(row)
  BY DEF WritersDated
<1>3. m \in Result
  BY <1>1, <1>2, MergedType DEF Dateless
<1>4. row' = Upserted(row, seen, m) /\ writer' = [writer EXCEPT ![w] = Resting] /\ calls' = calls
  BY DEF Write
<1> HIDE DEF seen, new
<1>5. Dated(m)
  BY <1>1, <1>2 DEF Dated, Merged, First, RowSet, Result
<1> HIDE DEF m
<1>6. row' \in RowSet
  BY <1>1, <1>3, <1>4, UpsertedType
<1>7. Resting \in WriterSet
  BY DEF Resting, WriterSet, NoResult, Result, Absent, RowSet, Status
<1>8. TypeOK'
  BY <1>4, <1>6, <1>7 DEF TypeOK
<1>9. Dated(row') /\ Dateless(row')
  BY <1>1, <1>2, <1>3, <1>4, <1>5
     DEF Dated, Dateless, Upserted, First, RowSet, Result, Status
<1>10. WritersDated'
  BY <1>4, <1>9 DEF WritersDated, TypeOK, Resting, Absent, NoResult, Dated, Dateless
<1>11. PhaseClaimsNoMore'
  <2>1. row'.phase = Phase(m.status, m.handoff, m.completed)
    BY <1>4 DEF Upserted, PhaseOf
  <2>2. /\ row'.status = m.status
        /\ m.handoff # 0 => row'.handoff # 0
        /\ m.completed # 0 => row'.completed # 0
    BY <1>4 DEF Upserted, First
  <2> QED BY <2>1, <2>2, PhaseMeaning DEF PhaseClaimsNoMore, Completed
<1> QED BY <1>8, <1>10, <1>11

LEMMA AbandonInv == ASSUME IInv, NEW w \in Writer, Abandon(w) PROVE IInv'
<1> USE DEF IInv, Abandon
<1>1. Resting \in WriterSet
  BY DEF Resting, WriterSet, NoResult, Result, Absent, RowSet, Status
<1>2. TypeOK'
  BY <1>1 DEF TypeOK
<1>3. WritersDated'
  BY DEF WritersDated, TypeOK, Resting, Absent, NoResult, Dated, Dateless
<1> QED BY <1>2, <1>3 DEF PhaseClaimsNoMore, Completed

LEMMA NextInv == IInv /\ [Next]_vars => IInv'
<1>1. ASSUME IInv, Next PROVE IInv'
  BY <1>1, AnsweredInv, ReadInv, WriteInv, AbandonInv DEF Next
<1>2. ASSUME IInv, UNCHANGED vars PROVE IInv'
  BY <1>2 DEF vars, IInv, TypeOK, WritersDated, PhaseClaimsNoMore, Completed
<1> QED BY <1>1, <1>2

LEMMA Invariant == Spec => []IInv
BY InitInv, NextInv, PTL DEF Spec

-----------------------------------------------------------------------------

\* The row, and what every writer holds, have their types.
THEOREM TypeCorrect == Spec => []TypeOK
<1>1. IInv => TypeOK
  BY DEF IInv
<1> QED BY <1>1, Invariant, PTL

\* An order with a creation date has a handoff date, however the dates of
\* overlapping writers are merged.  (persist_work_order)
THEOREM CreationIsHandedOff == Spec => []HandoffDated
<1>1. IInv => HandoffDated
  BY DEF IInv, WritersDated, Dated, HandoffDated
<1> QED BY <1>1, Invariant, PTL

\* The recorded phase never claims more than the columns show, although it
\* is computed from a row that may have changed since.  (persist_work_order)
THEOREM PhaseIsBacked == Spec => []PhaseClaimsNoMore
<1>1. IInv => PhaseClaimsNoMore
  BY DEF IInv
<1> QED BY <1>1, Invariant, PTL

\* A date once in the row stays, for any interleaving of the writers.
\* (the COALESCE of persist_work_order's ON CONFLICT)
THEOREM DatesStay == Spec => FirstDateKept
<1> DEFINE Kept == /\ row.created # 0 => row'.created = row.created
                   /\ row.handoff # 0 => row'.handoff = row.handoff
                   /\ row.completed # 0 => row'.completed = row.completed
<1>1. ASSUME NEW w \in Writer, Write(w) PROVE Kept
  BY <1>1 DEF Write, Upserted, First
<1>2. [Next]_vars => [Kept]_vars
  BY <1>1 DEF Next, Answered, Read, Abandon, vars
<1> QED BY <1>2, PTL DEF Spec, FirstDateKept

\* A write based on a current read leaves the phase the columns imply.
\* (_lifecycle_phase)
THEOREM FreshPhaseAgrees == Spec => FreshPhase
<1> DEFINE Agrees == \A w \in Writer : Write(w) /\ writer[w].seen = row => row'.phase = PhaseOf(row')
<1>1. ASSUME NEW w \in Writer, Write(w), writer[w].seen = row PROVE row'.phase = PhaseOf(row')
  <2> DEFINE m == Merged(row, writer[w].new)
  <2>1. row' = Upserted(row, row, m)
    BY <1>1 DEF Write
  <2>2. /\ m.handoff = First(row.handoff, writer[w].new.handoff)
        /\ m.completed = First(row.completed, writer[w].new.completed)
    BY DEF Merged
  <2> HIDE DEF m
  <2>3. /\ row'.status = m.status /\ row'.phase = PhaseOf(m)
        /\ row'.handoff = m.handoff /\ row'.completed = m.completed
    BY <2>1, <2>2 DEF Upserted, First
  <2> QED BY <2>3 DEF PhaseOf
<1>2. Agrees
  BY <1>1
<1> QED BY <1>2, PTL DEF FreshPhase

\* A write based on a current read never reopens a completed order.
\* (_merged_status)
THEOREM FreshWritesKeepCompletion == Spec => FreshNeverReopens
<1> DEFINE Stays(w) ==
      /\ Completed(row) =>
           /\ row'.phase = "completed"
           /\ row'.status = row.status \/ Terminal(row'.status) \/ writer[w].new.completed # 0
      /\ row.handoff # 0 => row'.phase \in {"handoff-complete", "completed"}
<1>1. ASSUME NEW w \in Writer, Write(w), writer[w].seen = row PROVE Stays(w)
  <2> DEFINE new == writer[w].new
             m == Merged(row, new)
  <2>1. row' = Upserted(row, row, m)
    BY <1>1 DEF Write
  <2>2. m.handoff = First(row.handoff, new.handoff) /\ m.completed = First(row.completed, new.completed)
        /\ m.status = MergedStatus(row, new)
    BY DEF Merged
  <2>3. Completed(row) => m.completed # 0 \/ Terminal(m.status)
    BY <2>2 DEF Completed, First, MergedStatus, KeepsStatus
  <2>4. Completed(row) => m.status = row.status \/ Terminal(m.status) \/ new.completed # 0
    BY <2>2 DEF Completed, MergedStatus, KeepsStatus
  <2>5. row'.status = m.status /\ row'.phase = Phase(m.status, m.handoff, m.completed)
    BY <2>1 DEF Upserted, PhaseOf
  <2>6. row.handoff # 0 => m.handoff # 0
    BY <2>2 DEF First
  <2> HIDE DEF m
  <2> QED BY <2>3, <2>4, <2>5, <2>6, PhaseMeaning
<1>2. \A w \in Writer : Write(w) /\ writer[w].seen = row => Stays(w)
  BY <1>1
<1> QED BY <1>2, PTL DEF FreshNeverReopens
=============================================================================

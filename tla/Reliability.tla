----------------------------- MODULE Reliability -----------------------------
(***************************************************************************)
(* core/reliability/calculator.py: the figures computed from the failures  *)
(* of one unit.  Times are hours; a figure is the pair of the numbers it   *)
(* divides, or None.  The four figures are properties of the set of the    *)
(* failures: the code sorts them, and nothing depends on the order once    *)
(* the window is given, as every caller gives it.                          *)
(*                                                                         *)
(* A failure has a start, and None or a value for its restoration and for  *)
(* the hours of downtime somebody stated.                                  *)
(***************************************************************************)
EXTENDS Integers, FiniteSetsExt

CONSTANT NoValue \* NULL, or None in the code

Larger(a, b) == IF a < b THEN b ELSE a

\* computed_downtime_hours: what was stated counts, whatever it is.
Downtime(f) ==
  IF f.down # NoValue THEN f.down
  ELSE IF f.restored # NoValue THEN Larger(f.restored - f.start, 0)
  ELSE NoValue

\* Mutant: a stated downtime below zero counts as well.
WithDowntime_AnyStated(failures) == {f \in failures : Downtime(f) # NoValue}

WithDowntime(failures) ==
  {f \in failures : Downtime(f) # NoValue /\ Downtime(f) >= 0}

TotalDowntime(failures) == MapThenSumSet(Downtime, WithDowntime(failures))

CalculateMtbf(operating, failures) ==
  IF failures <= 0 \/ operating <= 0 THEN NoValue ELSE <<operating, failures>>

CalculateMttr(downtime, failures) ==
  IF failures <= 0 THEN NoValue ELSE <<downtime, failures>>

\* MTBF / (MTBF + MTTR), of two fractions.
CalculateAvailability(mtbf, mttr) ==
  IF mtbf = NoValue \/ mttr = NoValue THEN NoValue
  ELSE LET up == mtbf[1] * mttr[2]
           down == mttr[1] * mtbf[2]
       IN  IF up + down <= 0 THEN NoValue ELSE <<up, up + down>>

CalculateFailureRate(operating, failures) ==
  IF failures <= 0 \/ operating <= 0 THEN NoValue ELSE <<failures, operating>>

\* Overlapping or long downtimes may add up to more than was observed: the
\* operating hours stop at zero.
CalculateReliability(failures, observed) ==
  LET count == Cardinality(failures)
      downtime == TotalDowntime(failures)
      known == Cardinality(WithDowntime(failures))
      operating == IF failures = {} THEN 0 ELSE Larger(observed - downtime, 0)
      mtbf == CalculateMtbf(operating, count)
      mttr == CalculateMttr(downtime, known)
  IN  [count |-> count, known |-> known, downtime |-> downtime,
       operating |-> operating, mtbf |-> mtbf, mttr |-> mttr,
       availability |-> CalculateAvailability(mtbf, mttr),
       rate |-> CalculateFailureRate(operating, count)]
=============================================================================

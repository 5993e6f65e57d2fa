------------------------------ MODULE PdmScorer ------------------------------
(***************************************************************************)
(* services/pdm_scorer.py: the early-warning score of an asset, from its   *)
(* events and its signal rollups, and the summary over all assets.         *)
(*                                                                         *)
(* Times are hours, and a number the row does not give is Absent.  Scores  *)
(* are whole: every term is.  The reasons, which are wording, are left     *)
(* out.                                                                    *)
(***************************************************************************)
EXTENDS Integers, FiniteSets, SequencesExt

Absent == 0 - 1

\* _max_value over all rows: Absent when no row gives the value.
Peak(values) == Max(values \cup {Absent})

SeverityPoints(severity) ==
  CASE severity = "critical" -> 28
    [] severity = "high" -> 20
    [] severity = "medium" -> 12
    [] severity = "low" -> 6
    [] OTHER -> 0

PeriodPoints(period) ==
  CASE period = "1h" -> 8
    [] period = "6h" -> 5
    [] period = "24h" -> 3
    [] OTHER -> 2

Breached(event) ==
  /\ event.threshold # Absent
  /\ event.vibration > event.threshold \/ event.temperature > event.threshold

RollupPeak(rollup) == IF rollup.max # Absent THEN rollup.max ELSE rollup.mean

\* The points of the anomaly flags that rows of rollups still carry.
FlagPoints(rollups, rows) ==
  MapThenSumSet(LAMBDA i : PeriodPoints(rollups[i].period) * rollups[i].flags, rows)

\* Mutant: the last row of the asset is taken for the worst.
AssetState_LastRow(asset, events, rollups) ==
  LET own == {i \in DOMAIN events : events[i].asset = asset}
      Of(field) == IF own = {} THEN {} ELSE {events[Max(own)][field]}
  IN  [events |-> Cardinality(own), lastEvent |-> Peak(Of("time")),
       severity |-> Max({SeverityPoints(s) : s \in Of("severity")} \cup {0}),
       breaches |-> 0, flags |-> 0,
       vibration |-> Peak(Of("vibration")), temperature |-> Peak(Of("temperature"))]

\* _update_event_state and _update_rollup_state, over all rows of the asset.
AssetState(asset, events, rollups) ==
  LET own == {i \in DOMAIN events : events[i].asset = asset}
      signals == {i \in DOMAIN rollups : rollups[i].asset = asset}
      Of(field) == {events[i][field] : i \in own}
      Rolled(type) == {RollupPeak(rollups[i]) : i \in {j \in signals : rollups[j].type = type}}
  IN  [events |-> Cardinality(own),
       lastEvent |-> Peak(Of("time")),
       severity |-> Max({SeverityPoints(s) : s \in Of("severity")} \cup {0}),
       breaches |-> Cardinality({i \in own : Breached(events[i])}),
       flags |-> FlagPoints(rollups, signals),
       vibration |-> Peak(Of("vibration") \cup Rolled("vibration")),
       temperature |-> Peak(Of("temperature") \cup Rolled("temperature"))]

AtMost(cap, points) == IF points < cap THEN points ELSE cap

Step(value, high, higher) == IF value >= higher THEN 18 ELSE IF value >= high THEN 10 ELSE 0

Recency(lastEvent, now) ==
  IF lastEvent = Absent THEN 0
  ELSE IF now - lastEvent <= 24 THEN 12 ELSE IF now - lastEvent <= 72 THEN 6 ELSE 0

\* _score_asset; vibration is in tenths of mm/s.
Score(state, now) ==
  AtMost(100, state.severity + AtMost(18, 6 * state.events) + AtMost(24, state.flags)
                + AtMost(10, 4 * state.breaches) + Step(state.vibration, 75, 100)
                + Step(state.temperature, 80, 90) + Recency(state.lastEvent, now))

Status(score) ==
  CASE score >= 70 -> "critical"
    [] score >= 45 /\ score < 70 -> "elevated"
    [] score >= 25 /\ score < 45 -> "watch"
    [] OTHER -> "normal"

StatusNames == {"critical", "elevated", "watch", "normal"}

\* build_early_warning_report: every asset a row names, and the topN worst.
EarlyWarningReport(events, rollups, now, topN) ==
  LET assets == {events[i].asset : i \in DOMAIN events}
                  \cup {rollups[i].asset : i \in DOMAIN rollups}
      score == [a \in assets |-> Score(AssetState(a, events, rollups), now)]
      ranked == SetToSortSeq(assets, LAMBDA a, b : score[a] > score[b])
  IN  [scores |-> score,
       counts |-> [s \in StatusNames |-> Cardinality({a \in assets : Status(score[a]) = s})],
       top |-> SubSeq(ranked, 1, AtMost(topN, Len(ranked)))]
=============================================================================

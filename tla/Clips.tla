------------------------------- MODULE Clips --------------------------------
(***************************************************************************)
(* A master and a rendition as /v1/scan and /v1/analyze receive them: two  *)
(* lists of measured transitions, in any order and with any values the     *)
(* request models admit (safe_frame/models.py).  The rendition grows one   *)
(* transition at a time beside a given master; the properties compare the  *)
(* verdicts of the criteria's several implementations on the two.          *)
(***************************************************************************)
EXTENDS Criteria

CONSTANTS Times,    \* presentation times
          Samples,  \* the measurements a transition may have, less its time
          Masters,  \* the masters a rendition may be compared with
          MaxRows,  \* bound: transitions of the rendition
          InOrder   \* are they in order of time, as safe_frame.ingest measures them

Rows == [pts : Times, luma : Nat, darker : Nat, red : Nat, area : Nat, direction : Directions]

ASSUME ClipsAssumption ==
  /\ Times \subseteq Nat /\ MaxRows \in Nat /\ InOrder \in BOOLEAN
  /\ Samples \subseteq [luma : Nat, darker : Nat, red : Nat, area : Nat, direction : Directions]
  /\ Masters \subseteq Seq(Rows)

VARIABLES master, rendition  \* parent_metrics and child_metrics

vars == <<master, rendition>>

Init == master \in Masters /\ rendition = <<>>

At(t, sample) ==
  [pts |-> t, luma |-> sample.luma, darker |-> sample.darker, red |-> sample.red,
   area |-> sample.area, direction |-> sample.direction]

\* Mutant of Measure: presentation times start one too early.
MeasureEarly(t, sample) ==
  /\ Len(rendition) < MaxRows
  /\ InOrder => \A i \in DOMAIN rendition : rendition[i].pts <= t
  /\ rendition' = Append(rendition, At(t - 1, sample))
  /\ UNCHANGED master

\* One more transition of the rendition.
Measure(t, sample) ==
  /\ Len(rendition) < MaxRows
  /\ InOrder => \A i \in DOMAIN rendition : rendition[i].pts <= t
  /\ rendition' = Append(rendition, At(t, sample))
  /\ UNCHANGED master

Next == \E t \in Times, sample \in Samples : Measure(t, sample)

Spec == Init /\ [][Next]_vars

Parent == DetectAll(master)
Child == DetectAll(rendition)

-----------------------------------------------------------------------------
(* Properties. *)

\* A clip is a list of measurements.
TypeOK == master \in Seq(Rows) /\ rendition \in Seq(Rows)

\* "tests/test_sql_parity.py asserts the two agree" (detector.py:35), on fixtures; here
\* for every list, in any order and with simultaneous transitions: both report the
\* same windows, with the same count and peak.
DetectorMatchesSql ==
  \A rule \in Rules : Detect(rendition, rule) = SqlViolations(rendition, rule)

\* A second is over the limit if more transitions than allowed count in it, in both
\* directions.
Burst(rows, rule, t) ==
  Exceeds(rows, {i \in Qualified(rows, rule) : rows[i].pts \in t..(t + Span - 1)})

\* Anchoring windows on the transitions that count misses nothing: if any second, from
\* any instant, is over the limit, a violation is reported that starts before it ends
\* (detector.py:37-58).
NoBurstMissed ==
  \A rule \in Rules, t \in Times :
    Burst(rendition, rule, t) =>
      \E v \in Detect(rendition, rule) : v.start < t + Span

\* The three isolations - lineage.regressions, the partition window of the inline SQL
\* and of sql/006, the anti-join of regression_sql - agree on every pair, so an endpoint
\* and its fallback cannot disagree (lineage.py:8-26, clickhouse_mcp.py:284-288, 481-488).
IsolationsAgree ==
  LET local == Regressions(Parent, Child)
      sqlParent == SqlAll(master)
      sqlChild == SqlAll(rendition)
  IN local = SqlIsolated(sqlParent, sqlChild) /\ local = SqlAntiJoin(sqlParent, sqlChild)

\* A chart never shows fewer flashes than the verdict rests on: in the calendar second a
\* violation starts in and the next, more transitions are counted than the limit, in the
\* chart of a submitted clip and in that of the catalogue (analyze.py:126-131,
\* clickhouse_mcp.py:539-551).
ChartsShowViolations ==
  \A rule \in Rules : \A v \in Detect(rendition, rule) :
    LET second == v.start \div Span
        shown(chart(_, _, _)) == chart(rendition, rule, second) + chart(rendition, rule, second + 1)
    IN shown(PerSecond) >= v.transitions /\ shown(SqlTimeline) >= v.transitions

\* More evidence never acquits: a clip that violates a rule violates it with any further
\* transition, from the same time or an earlier one (detector.py:39-58).
StaysViolated ==
  [][\A rule \in Rules : \A v \in Detect(rendition, rule) :
       \E w \in Detect(rendition', rule) : w.start <= v.start]_vars

\* "did this conversion introduce a flash the approved master did not have"
\* (main.py:471): if a second of the rendition is over the limit of a rule and none of
\* the master that starts within a second of it is, something is reported for the rule.
IntroducedIsReported ==
  \A rule \in Rules, t \in Times :
    /\ Burst(rendition, rule, t)
    /\ \A u \in Times : Distance(t, u) <= Span => ~Burst(master, rule, u)
    => \E r \in Regressions(Parent, Child) : r.rule = rule
=============================================================================

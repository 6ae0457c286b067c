----------------------------- MODULE ClipsProofs -----------------------------
(***************************************************************************)
(* The detector's verdict on a clip, for every clip the request models     *)
(* admit, every limit and every length of the rolling second: no burst is  *)
(* missed, further evidence never acquits, and the SQL reports the same.   *)
(***************************************************************************)
EXTENDS Clips, CriteriaProofs

\* What a transition is made of.
LEMMA RowType ==
  ASSUME NEW row \in Rows
  PROVE  row.pts \in Nat /\ row.area \in Nat /\ row.direction \in {"up", "down", "flat"}
  BY ClipsAssumption DEF Rows, Directions

\* A list of transitions is a clip.
LEMMA ClipOfRows ==
  ASSUME NEW rows \in Seq(Rows) PROVE IsClip(rows)
  <1>1. Len(rows) \in Nat /\ DOMAIN rows = 1..Len(rows) /\ \A i \in DOMAIN rows : rows[i] \in Rows
    OBVIOUS
  <1> QED
    BY <1>1, RowType DEF IsClip, Directions

-----------------------------------------------------------------------------
(* A clip is a list of transitions. *)

\* Every state of a behaviour holds two clips.
THEOREM TypeCorrect == Spec => []TypeOK
  <1>1. Init => TypeOK
    BY ClipsAssumption DEF Init, TypeOK
  <1>2. TypeOK /\ [Next]_vars => TypeOK'
    <2> SUFFICES ASSUME TypeOK, [Next]_vars PROVE TypeOK'
      OBVIOUS
    <2>1. ASSUME NEW t \in Times, NEW sample \in Samples, Measure(t, sample) PROVE TypeOK'
      <3>1. At(t, sample) \in Rows
        BY ClipsAssumption DEF At, Rows
      <3>2. rendition' \in Seq(Rows)
        BY <2>1, <3>1, AppendProperties DEF Measure, TypeOK
      <3> QED
        BY <2>1, <3>2 DEF Measure, TypeOK
    <2>2. CASE UNCHANGED vars
      BY <2>2 DEF vars, TypeOK
    <2> QED
      BY <2>1, <2>2 DEF Next
  <1> QED
    BY <1>1, <1>2, PTL DEF Spec

-----------------------------------------------------------------------------
(* No burst is missed. *)

\* A second over the limit is reported.
LEMMA BurstIsReported ==
  ASSUME NEW rows \in Seq(Rows), NEW rule, NEW t \in Times, Burst(rows, rule, t)
  PROVE  \E v \in Detect(rows, rule) : v.start < t + Span
  <1> DEFINE B == {i \in Qualified(rows, rule) : rows[i].pts \in t..(t + Span - 1)}
  <1>1. t \in Nat /\ IsClip(rows)
    BY ClipsAssumption, ClipOfRows
  <1>2. B \in SUBSET Qualified(rows, rule) /\ Exceeds(rows, B) /\ \A i \in B : rows[i].pts \in t..(t + Span - 1)
    BY DEF Burst
  <1> HIDE DEF B
  <1> QED
    BY <1>1, <1>2, BurstIsDetected

\* Whatever the clip, the limit and the length of the second: a second over the limit,
\* from any instant, is reported before it ends, though windows start only at the
\* transitions that count (detector.py:37-58).
THEOREM NothingMissed == Spec => []NoBurstMissed
  <1>1. TypeOK => NoBurstMissed
    BY BurstIsReported DEF TypeOK, NoBurstMissed
  <1> QED
    BY <1>1, TypeCorrect, PTL

-----------------------------------------------------------------------------
(* Further evidence. *)

\* A transition more leaves the transitions there were, in their windows.
LEMMA OverStays ==
  ASSUME NEW rows \in Seq(Rows), NEW row \in Rows, NEW rule, NEW i \in Over(rows, rule)
  PROVE  i \in Over(Append(rows, row), rule) /\ Append(rows, row)[i].pts = rows[i].pts
  <1> DEFINE more == Append(rows, row)
  <1>0. more \in Seq(Rows) /\ \A j \in DOMAIN rows : j \in DOMAIN more /\ more[j] = rows[j]
    BY AppendProperties, LenProperties
  <1>1. IsClip(more) /\ \A j \in DOMAIN rows : j \in DOMAIN more /\ more[j] = rows[j]
    BY <1>0, ClipOfRows
  <1>2. \A j \in Qualified(rows, rule) : j \in Qualified(more, rule) /\ more[j] = rows[j]
    BY <1>1 DEF Qualified
  <1>3. i \in Qualified(rows, rule) /\ Exceeds(rows, WindowFrom(rows, rule, i))
    BY DEF Over
  <1>4. WindowFrom(rows, rule, i) \subseteq WindowFrom(more, rule, i)
    BY <1>2, <1>3 DEF WindowFrom, Before
  <1>5. Exceeds(more, WindowFrom(rows, rule, i))
    <2>1. \A j \in WindowFrom(rows, rule, i) : more[j].direction = rows[j].direction
      BY <1>2 DEF WindowFrom
    <2>2. {more[j].direction : j \in WindowFrom(rows, rule, i)}
            = {rows[j].direction : j \in WindowFrom(rows, rule, i)}
      BY <2>1
    <2> QED
      BY <1>3, <2>2 DEF Exceeds
  <1>6. Exceeds(more, WindowFrom(more, rule, i))
    <2>1. WindowFrom(more, rule, i) \in SUBSET Qualified(more, rule)
      BY DEF WindowFrom
    <2>2. WindowFrom(rows, rule, i) \in SUBSET Qualified(more, rule)
      BY <1>4, <2>1
    <2> QED
      BY <1>1, <1>4, <1>5, <2>1, <2>2, MoreExceeds
  <1> QED
    BY <1>2, <1>3, <1>6 DEF Over

\* A violation once found is found with any further transitions, at its time or earlier:
\* no clip is acquitted by measuring more of it (detector.py:39-58).
THEOREM EvidenceNeverAcquits == Spec => StaysViolated
  <1>1. TypeOK /\ [Next]_vars =>
          [\A rule \in Rules : \A v \in Detect(rendition, rule) :
             \E w \in Detect(rendition', rule) : w.start <= v.start]_vars
    <2> SUFFICES ASSUME TypeOK, NEW t \in Times, NEW sample \in Samples, Measure(t, sample),
                        NEW rule \in Rules, NEW v \in Detect(rendition, rule)
                 PROVE  \E w \in Detect(rendition', rule) : w.start <= v.start
      BY DEF Next
    <2>1. At(t, sample) \in Rows
      BY ClipsAssumption DEF At, Rows
    <2>2. rendition \in Seq(Rows) /\ rendition' = Append(rendition, At(t, sample))
      BY DEF TypeOK, Measure
    <2>3. rendition' \in Seq(Rows)
      BY <2>1, <2>2, AppendProperties
    <2>4. PICK i \in Over(rendition, rule) : v = ViolationAt(rendition, rule, i)
      BY DEF Detect, Over
    <2>5. i \in Over(rendition', rule) /\ rendition'[i].pts = rendition[i].pts
      BY <2>1, <2>2, OverStays
    <2>6. PICK w \in Detect(rendition', rule) : w.start <= rendition'[i].pts
      BY <2>3, <2>5, ClipOfRows, DetectsFirst
    <2> QED
      BY <2>4, <2>5, <2>6 DEF ViolationAt
  <1> QED
    BY <1>1, TypeCorrect, PTL DEF Spec, StaysViolated

-----------------------------------------------------------------------------
(* The SQL. *)

\* What "tests/test_sql_parity.py asserts" on its fixtures (detector.py:35) holds of every
\* clip: an endpoint and the statement it stands for report one window per rule, with the
\* same start, count and peak.
THEOREM DetectorIsSql == Spec => []DetectorMatchesSql
  <1>1. TypeOK => DetectorMatchesSql
    BY SameViolations, ClipOfRows DEF TypeOK, DetectorMatchesSql
  <1> QED
    BY <1>1, TypeCorrect, PTL

-----------------------------------------------------------------------------
(* The isolations. *)

\* On every pair of clips the three isolations name the same violations, whatever the
\* tolerance (lineage.py:8-26, clickhouse_mcp.py:284-288, 481-488).  They do because a clip
\* has at most one violation of a rule: the partition window's first is the only one.
THEOREM OneIsolation == Spec => []IsolationsAgree
  <1>1. ASSUME TypeOK PROVE IsolationsAgree
    <2>1. IsClip(master) /\ IsClip(rendition)
      BY <1>1, ClipOfRows DEF TypeOK
    <2> QED
      BY <2>1, SameIsolation DEF IsolationsAgree, Parent, Child
  <1> QED
    BY <1>1, TypeCorrect, PTL

-----------------------------------------------------------------------------
(* The charts. *)

\* Whatever the clip, neither chart shows fewer flashes than the verdict rests on
\* (analyze.py:126-131, clickhouse_mcp.py:539-551).
THEOREM ChartsAreComplete == Spec => []ChartsShowViolations
  <1>1. ASSUME TypeOK PROVE ChartsShowViolations
    <2> SUFFICES ASSUME NEW rule \in Rules, NEW v \in Detect(rendition, rule)
                 PROVE  LET second == v.start \div Span
                        IN /\ PerSecond(rendition, rule, second)
                                + PerSecond(rendition, rule, second + 1) >= v.transitions
                           /\ SqlTimeline(rendition, rule, second)
                                + SqlTimeline(rendition, rule, second + 1) >= v.transitions
      BY DEF ChartsShowViolations
    <2>1. PICK i \in Qualified(rendition, rule) : v = ViolationAt(rendition, rule, i)
      BY DEF Detect
    <2>2. /\ v.start = rendition[i].pts
          /\ v.transitions = Cardinality(WindowFrom(rendition, rule, i))
      BY <2>1 DEF ViolationAt
    <2>3. IsClip(rendition)
      BY <1>1, ClipOfRows DEF TypeOK
    <2> QED
      BY <2>2, <2>3, WindowIsCharted
  <1> QED
    BY <1>1, TypeCorrect, PTL
=============================================================================

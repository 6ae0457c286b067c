------------------------------- MODULE Criteria -------------------------------
(***************************************************************************)
(* The published flash criteria, and the isolation of what a rendition     *)
(* introduced, in the forms the code has them: the reference detector in   *)
(* Python (detector.py, lineage.py) and the SQL that ClickHouse evaluates  *)
(* (clickhouse_mcp.py, sql/006).  A clip is the sequence of its measured   *)
(* transitions, in the order they were submitted.  Times are in a coarse   *)
(* unit and levels are small numbers, compared with the floors as in the   *)
(* code.                                                                   *)
(***************************************************************************)
EXTENDS Integers, Sequences, FiniteSets, FiniteSetsExt

CONSTANTS Span,           \* the rolling second, 1000 ms
          MaxTransitions, \* MAX_TRANSITIONS_PER_SECOND
          Tolerance,      \* tolerance_ms
          LumaFloor, DarkerCeiling, RedFloor, AreaFloor

ASSUME CriteriaAssumption ==
  /\ Span \in Nat \ {0} /\ MaxTransitions \in Nat /\ Tolerance \in Nat
  /\ LumaFloor \in Nat /\ DarkerCeiling \in Nat /\ RedFloor \in Nat /\ AreaFloor \in Nat

Rules == {"general_flash", "red_flash"}
Directions == {"up", "down", "flat"}

Distance(a, b) == IF a <= b THEN b - a ELSE a - b

-----------------------------------------------------------------------------
(* The reference detector. *)

\* Mutant of Qualifies: a swing between two bright images counts as a flash.
QualifiesWhenBright(row, rule) ==
  /\ row.area >= AreaFloor /\ row.direction # "flat"
  /\ rule = "general_flash" => row.luma >= LumaFloor
  /\ rule = "red_flash" => row.red >= RedFloor

\* Does a transition count towards a rule.
Qualifies(row, rule) ==
  /\ row.area >= AreaFloor /\ row.direction # "flat"
  /\ rule = "general_flash" => row.luma >= LumaFloor /\ row.darker < DarkerCeiling
  /\ rule = "red_flash" => row.red >= RedFloor

\* sorted() is stable: transitions at one time stay in the order of submission.
Before(rows, i, j) == rows[i].pts < rows[j].pts \/ (rows[i].pts = rows[j].pts /\ i < j)

\* qualified: the transitions that count, by their positions.
Qualified(rows, rule) == {i \in DOMAIN rows : Qualifies(rows[i], rule)}

\* Mutant of WindowFrom: the window keeps its far end.
WindowFromClosed(rows, rule, i) ==
  {j \in Qualified(rows, rule) : ~Before(rows, j, i) /\ rows[j].pts <= rows[i].pts + Span}

\* qualified[index:], less what starts a second or more after the anchor.
WindowFrom(rows, rule, i) ==
  {j \in Qualified(rows, rule) : ~Before(rows, j, i) /\ rows[j].pts < rows[i].pts + Span}

Exceeds(rows, window) ==
  /\ Cardinality(window) > MaxTransitions
  /\ {rows[j].direction : j \in window} = {"up", "down"}

ViolationAt(rows, rule, i) ==
  LET window == WindowFrom(rows, rule, i)
  IN [rule |-> rule, start |-> rows[i].pts, transitions |-> Cardinality(window),
      peak |-> Max({rows[j].area : j \in window})]

\* Mutant of Detect: only the first window with too many transitions is looked at.
DetectGivesUp(rows, rule) ==
  LET over == {i \in Qualified(rows, rule) :
                 Cardinality(WindowFrom(rows, rule, i)) > MaxTransitions}
      first == {k \in over : \A j \in over : ~Before(rows, j, k)}
  IN {ViolationAt(rows, rule, i) : i \in {k \in first : Exceeds(rows, WindowFrom(rows, rule, k))}}

\* Mutant of Detect: the last window over the limit is reported.
DetectLast(rows, rule) ==
  LET over == {i \in Qualified(rows, rule) : Exceeds(rows, WindowFrom(rows, rule, i))}
  IN {ViolationAt(rows, rule, i) : i \in {k \in over : \A j \in over : ~Before(rows, k, j)}}

\* _window_violations: the first window over the limit, and no other.
Detect(rows, rule) ==
  LET over == {i \in Qualified(rows, rule) : Exceeds(rows, WindowFrom(rows, rule, i))}
  IN {ViolationAt(rows, rule, i) : i \in {k \in over : \A j \in over : ~Before(rows, j, k)}}

DetectAll(rows) == UNION {Detect(rows, rule) : rule \in Rules}

\* Mutant of Regressions: a match at the very tolerance does not count.
RegressionsStrict(parent, child) ==
  {c \in child : ~\E p \in parent : p.rule = c.rule /\ Distance(p.start, c.start) < Tolerance}

\* lineage.regressions: an anti-join by rule and presentation time.  The callers give
\* both sides one lineage.
Regressions(parent, child) ==
  {c \in child : ~\E p \in parent : p.rule = c.rule /\ Distance(p.start, c.start) <= Tolerance}

-----------------------------------------------------------------------------
(* The SQL. *)

\* WHERE of general_flash_qualifying and red_flash_qualifying.
SqlQualifying(rows, rule) ==
  {i \in DOMAIN rows :
     /\ CASE rule = "general_flash" -> rows[i].luma >= LumaFloor /\ rows[i].darker < DarkerCeiling
          [] rule = "red_flash" -> rows[i].red >= RedFloor
     /\ rows[i].area >= AreaFloor
     /\ rows[i].direction # "flat"}

DirCode(direction) == CASE direction = "flat" -> 0 [] direction = "up" -> 1 [] direction = "down" -> 2

\* RANGE BETWEEN CURRENT ROW AND 999 FOLLOWING: peers of the row are in its frame.
SqlFrame(rows, rule, i) ==
  {j \in SqlQualifying(rows, rule) : rows[j].pts \in rows[i].pts..(rows[i].pts + Span - 1)}

SqlExceeds(rows, frame) ==
  LET codes == {DirCode(rows[j].direction) : j \in frame}
  IN Cardinality(frame) > MaxTransitions /\ Min(codes) # Max(codes)

\* The grouped row: min(win_start), and argMin of the count and the peak by it.
SqlViolations(rows, rule) ==
  LET over == {i \in SqlQualifying(rows, rule) : SqlExceeds(rows, SqlFrame(rows, rule, i))}
      first == {i \in over : \A j \in over : rows[i].pts <= rows[j].pts}
      chosen == CHOOSE i \in first : TRUE
      frame == SqlFrame(rows, rule, chosen)
  IN IF over = {} THEN {}
     ELSE {[rule |-> rule, start |-> rows[chosen].pts, transitions |-> Cardinality(frame),
            peak |-> Max({rows[j].area : j \in frame})]}

SqlAll(rows) == UNION {SqlViolations(rows, rule) : rule \in Rules}

\* Mutant of SqlIsolated: one partition for both rules.
SqlIsolatedAnyRule(parent, child) ==
  {c \in child :
     LET masterStarts == {p.start : p \in parent}
     IN masterStarts = {} \/ Distance(c.start, Min(masterStarts)) > Tolerance}

\* submitted_regression_sql and sql/006: a partition window over each rule compares a
\* violation with the master's first one.
SqlIsolated(parent, child) ==
  {c \in child :
     LET masterStarts == {p.start : p \in {q \in parent : q.rule = c.rule}}
     IN masterStarts = {} \/ Distance(c.start, Min(masterStarts)) > Tolerance}

\* regression_sql: LEFT ANTI JOIN of one plane of violations with the other.
SqlAntiJoin(parent, child) ==
  child \ {c \in child : \E p \in parent :
             p.rule = c.rule /\ Distance(c.start, p.start) <= Tolerance}

\* timeline_sql: how many transitions counted in a second, per rule.
SqlTimeline(rows, rule, second) ==
  Cardinality({i \in DOMAIN rows :
    /\ rows[i].pts \div Span = second
    /\ CASE rule = "general_flash" -> rows[i].luma >= LumaFloor
         [] rule = "red_flash" -> rows[i].red >= RedFloor
    /\ rows[i].area >= AreaFloor /\ rows[i].direction # "flat"})

\* Mutant of PerSecond: the first second is not charted.
PerSecondFromOne(rows, rule, second) ==
  Cardinality({i \in Qualified(rows, rule) : second > 0 /\ rows[i].pts \div Span = second})

\* analyze.per_second_counts: the same chart, for a submitted clip.
PerSecond(rows, rule, second) ==
  Cardinality({i \in Qualified(rows, rule) : rows[i].pts \div Span = second})
=============================================================================

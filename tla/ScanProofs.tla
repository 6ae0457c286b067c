----------------------------- MODULE ScanProofs -----------------------------
(***************************************************************************)
(* The verdicts of /v1/scan, for any number of overlapping scans of any    *)
(* assets and lineages, any findings and any number of failures.           *)
(***************************************************************************)
EXTENDS Scan, TLAPS

\* Every row in the table is of a scan that was submitted, and came with all its rows.
RowsAreSubmitted ==
  \A row \in stored : \E s \in Submitted : row \in Rows(scan[s]) /\ Rows(scan[s]) \subseteq stored

\* What a scan counts over, or has counted over, holds its own rows.
OwnRowsAreStored ==
  \A s \in Scans : pc[s] = "count" \/ (configured /\ s \in Judged) => Rows(scan[s]) \subseteq stored

\* Only a scan that has ended has an answer.
AnsweredAtEnd == \A s \in Scans : answer[s] # "none" => pc[s] = "done"

ScanInv ==
  TypeOK /\ RowsAreSubmitted /\ OwnRowsAreStored /\ AnsweredAtEnd /\ ScanIsItsOwn /\ NeverCleared

-----------------------------------------------------------------------------
(* One table. *)

\* A pair has two sides with findings of their own.
LEMMA PairType ==
  ASSUME NEW p \in Pairs
  PROVE  /\ p.lineage \in Lineages
         /\ p.parent \in Assets /\ p.child \in Assets /\ p.parent # p.child
         /\ p.inParent \in Findings /\ p.inChild \in Findings
  BY DEF Pairs

\* There is a pair.
LEMMA SomePair == Pairs # {}
  <1>1. PICK a \in Assets, b \in Assets : a # b
    BY ScanAssumption
  <1>2. PICK f \in Findings : TRUE
    BY ScanAssumption
  <1>3. PICK l \in Lineages : TRUE
    BY ScanAssumption
  <1>4. [lineage |-> l, parent |-> a, child |-> b, inParent |-> f, inChild |-> f] \in Pairs
    BY <1>1, <1>2, <1>3 DEF Pairs
  <1> QED
    BY <1>4

\* A finding has a rule and a start.
LEMMA FindingType ==
  ASSUME NEW f \in Findings, NEW v \in f
  PROVE  v.rule \in Rules /\ v.start \in Starts /\ v.start \in Nat
         /\ v = [rule |-> v.rule, start |-> v.start]
  <1>1. v \in [rule : Rules, start : Starts]
    BY ScanAssumption
  <1> QED
    BY <1>1, ScanAssumption

\* The rows of a pair are violations of its two assets.
LEMMA RowsType ==
  ASSUME NEW p \in Pairs
  PROVE  Rows(p) \subseteq [lineage : Lineages, asset : Assets, rule : Rules, start : Starts]
  BY PairType, FindingType DEF Rows, RowsOf, Row

\* The distance of two times does not depend on their order.
LEMMA DistanceIsSymmetric ==
  ASSUME NEW a \in Nat, NEW b \in Nat PROVE Distance(a, b) = Distance(b, a)
  BY DEF Distance

\* A row of a scan is a finding of it, in one of its assets, under its lineage.
LEMMA RowSays ==
  ASSUME TypeOK, NEW r \in Submitted, NEW row \in Rows(scan[r])
  PROVE  /\ row.asset \in Names(r) /\ row.lineage = scan[r].lineage
         /\ \E v \in Says(r, row.asset) : v.rule = row.rule /\ v.start = row.start
  <1>1. scan[r] \in Pairs
    BY DEF Submitted, TypeOK
  <1>2. CASE row \in RowsOf(scan[r].lineage, scan[r].parent, scan[r].inParent)
    <2>1. PICK v \in scan[r].inParent : row = Row(scan[r].lineage, scan[r].parent, v)
      BY <1>2 DEF RowsOf
    <2>2. /\ row.lineage = scan[r].lineage /\ row.asset = scan[r].parent
          /\ row.rule = v.rule /\ row.start = v.start
      BY <2>1 DEF Row
    <2>3. row.asset \in Names(r) /\ Says(r, row.asset) = scan[r].inParent
      BY <2>2 DEF Names, Says
    <2> QED
      BY <2>1, <2>2, <2>3
  <1>3. CASE row \in RowsOf(scan[r].lineage, scan[r].child, scan[r].inChild)
    <2>1. PICK v \in scan[r].inChild : row = Row(scan[r].lineage, scan[r].child, v)
      BY <1>3 DEF RowsOf
    <2>2. /\ row.lineage = scan[r].lineage /\ row.asset = scan[r].child
          /\ row.rule = v.rule /\ row.start = v.start
      BY <2>1 DEF Row
    <2>3. row.asset \in Names(r) /\ Says(r, row.asset) = scan[r].inChild
      BY <1>1, <2>2, PairType DEF Names, Says
    <2> QED
      BY <2>1, <2>2, <2>3
  <1> QED
    BY <1>2, <1>3 DEF Rows

\* A stored row of an asset and the lineage that s names is a finding of s in it, if the
\* scans of the lineage agree on that asset.
LEMMA OwnRow ==
  ASSUME TypeOK, RowsAreSubmitted, NEW s \in Scans, NEW row \in stored,
         row.lineage = scan[s].lineage, Agreed(s, row.asset)
  PROVE  \E v \in Says(s, row.asset) : v.rule = row.rule /\ v.start = row.start
  <1>1. PICK r \in Submitted : row \in Rows(scan[r])
    BY DEF RowsAreSubmitted
  <1>2. /\ row.asset \in Names(r) /\ row.lineage = scan[r].lineage
        /\ \E v \in Says(r, row.asset) : v.rule = row.rule /\ v.start = row.start
    BY <1>1, RowSays
  <1>3. Says(r, row.asset) = Says(s, row.asset)
    BY <1>2 DEF Agreed
  <1> QED
    BY <1>2, <1>3

\* The rows of a pair, one by one.
LEMMA RowOfFinding ==
  ASSUME NEW p \in Pairs
  PROVE  /\ \A v \in p.inParent : \E row \in Rows(p) :
              /\ row.lineage = p.lineage /\ row.asset = p.parent
              /\ row.rule = v.rule /\ row.start = v.start
         /\ \A v \in p.inChild : \E row \in Rows(p) :
              /\ row.lineage = p.lineage /\ row.asset = p.child
              /\ row.rule = v.rule /\ row.start = v.start
  <1>1. ASSUME NEW asset, NEW found, NEW v \in found
        PROVE  \E row \in RowsOf(p.lineage, asset, found) :
                 /\ row.lineage = p.lineage /\ row.asset = asset
                 /\ row.rule = v.rule /\ row.start = v.start
    <2>1. Row(p.lineage, asset, v) \in RowsOf(p.lineage, asset, found)
      BY DEF RowsOf
    <2> QED
      BY <2>1 DEF Row
  <1> QED
    BY <1>1 DEF Rows

\* Where nobody of its lineage disputes the master's clip, what the rendition introduced
\* is counted.
LEMMA IntroducedIsCounted ==
  ASSUME TypeOK, RowsAreSubmitted, NEW s \in Scans, Rows(scan[s]) \subseteq stored,
         Agreed(s, scan[s].parent), Count(scan[s], stored) = {}
  PROVE  Introduced(scan[s]) = {}
  <1> DEFINE p == scan[s]
  <1>1. p \in Pairs
    BY DEF TypeOK
  <1>2. SUFFICES ASSUME NEW v \in Introduced(p) PROVE FALSE
    OBVIOUS
  <1>3. v \in p.inChild /\ ~\E q \in p.inParent : q.rule = v.rule /\ Distance(q.start, v.start) <= Tolerance
    BY <1>2 DEF Introduced, Regressions
  <1>4. v.start \in Nat
    BY <1>1, <1>3, PairType, FindingType
  <1>5. PICK row \in stored : /\ row.lineage = p.lineage /\ row.asset = p.child
                             /\ row.rule = v.rule /\ row.start = v.start
    BY <1>1, <1>3, RowOfFinding
  <1>6. PICK q \in stored : /\ q.asset = p.parent /\ q.lineage = row.lineage /\ q.rule = row.rule
                            /\ Distance(row.start, q.start) <= Tolerance
    BY <1>5 DEF Count
  <1>7. PICK w \in p.inParent : w.rule = q.rule /\ w.start = q.start
    <2>1. Agreed(s, q.asset) /\ Says(s, q.asset) = p.inParent
      BY <1>6 DEF Says
    <2> QED
      BY <1>5, <1>6, <2>1, OwnRow
  <1>8. w.start \in Nat
    BY <1>1, <1>7, PairType, FindingType
  <1> QED
    BY <1>3, <1>4, <1>5, <1>6, <1>7, <1>8, DistanceIsSymmetric

\* A row of the rendition whose scan introduces nothing joins one of the master.
LEMMA InheritedIsJoined ==
  ASSUME NEW p \in Pairs, Rows(p) \subseteq stored, Introduced(p) = {},
         NEW c, c.lineage = p.lineage,
         \E v \in p.inChild : v.rule = c.rule /\ v.start = c.start
  PROVE  \E q \in stored : /\ q.asset = p.parent /\ q.lineage = c.lineage /\ q.rule = c.rule
                           /\ Distance(c.start, q.start) <= Tolerance
  <1>1. PICK v \in p.inChild : v.rule = c.rule /\ v.start = c.start
    OBVIOUS
  <1>2. PICK w \in p.inParent : w.rule = v.rule /\ Distance(w.start, v.start) <= Tolerance
    BY <1>1 DEF Introduced, Regressions
  <1>3. v.start \in Nat /\ w.start \in Nat
    BY <1>1, <1>2, PairType, FindingType
  <1>4. PICK row \in stored : /\ row.lineage = p.lineage /\ row.asset = p.parent
                             /\ row.rule = w.rule /\ row.start = w.start
    BY <1>2, RowOfFinding
  <1> QED
    BY <1>1, <1>2, <1>3, <1>4, DistanceIsSymmetric

\* Where nobody disputes either clip, nothing else is counted.
LEMMA CountedIsIntroduced ==
  ASSUME TypeOK, RowsAreSubmitted, NEW s \in Scans, Rows(scan[s]) \subseteq stored,
         Undisputed(s), Introduced(scan[s]) = {}
  PROVE  Count(scan[s], stored) = {}
  <1> DEFINE p == scan[s]
  <1>1. p \in Pairs
    BY DEF TypeOK
  <1>2. SUFFICES ASSUME NEW c \in Count(p, stored) PROVE FALSE
    OBVIOUS
  <1>3. /\ c \in stored /\ c.asset = p.child
        /\ ~\E q \in stored : /\ q.asset = p.parent /\ q.lineage = c.lineage /\ q.rule = c.rule
                              /\ Distance(c.start, q.start) <= Tolerance
    BY <1>2 DEF Count
  <1>4. CASE c.lineage = p.lineage
    <2>1. c.asset \in Names(s) /\ Says(s, c.asset) = p.inChild
      BY <1>1, <1>3, PairType DEF Names, Says
    <2>2. \E v \in p.inChild : v.rule = c.rule /\ v.start = c.start
      BY <1>3, <1>4, <2>1, OwnRow DEF Undisputed
    <2> QED
      BY <1>1, <1>3, <1>4, <2>2, InheritedIsJoined
  <1>5. CASE c.lineage # p.lineage
    <2>1. PICK r \in Submitted : c \in Rows(scan[r]) /\ Rows(scan[r]) \subseteq stored
      BY <1>3 DEF RowsAreSubmitted
    <2>2. /\ c.asset \in Names(r) /\ c.lineage = scan[r].lineage
          /\ \E v \in Says(r, c.asset) : v.rule = c.rule /\ v.start = c.start
      BY <2>1, RowSays
    <2>3. scan[r] = [p EXCEPT !.lineage = scan[r].lineage]
      BY <1>3, <1>5, <2>2 DEF Undisputed
    <2>4. scan[r] \in Pairs
      BY DEF TypeOK, Submitted
    <2>5. /\ scan[r].parent = p.parent /\ scan[r].child = p.child
          /\ scan[r].inParent = p.inParent /\ scan[r].inChild = p.inChild
      BY <1>1, <2>3 DEF Pairs
    <2>6. Introduced(scan[r]) = {}
      BY <2>5 DEF Introduced
    <2>7. Says(r, c.asset) = scan[r].inChild
      BY <1>3, <2>4, <2>5, PairType DEF Says
    <2> QED
      BY <1>3, <2>1, <2>2, <2>4, <2>5, <2>6, <2>7, InheritedIsJoined
  <1> QED
    BY <1>4, <1>5

\* So a count over a table that holds the scan's rows is the detector's verdict.
LEMMA CountIsOwn ==
  ASSUME TypeOK, RowsAreSubmitted, NEW s \in Scans, Rows(scan[s]) \subseteq stored,
         pc[s] # "idle", Undisputed(s)
  PROVE  Verdict(Count(scan[s], stored)) = Verdict(Introduced(scan[s]))
  <1>1. scan[s] \in Pairs /\ s \in Submitted
    BY DEF TypeOK, Submitted
  <1>2. Agreed(s, scan[s].parent)
    BY DEF Undisputed, Names
  <1>3. Introduced(scan[s]) = {} <=> Count(scan[s], stored) = {}
    BY <1>2, IntroducedIsCounted, CountedIsIntroduced
  <1> QED
    BY <1>3 DEF Verdict

-----------------------------------------------------------------------------
(* One step. *)

\* What has been submitted stays so.
Lasting == \A s \in Submitted : s \in Submitted' /\ scan'[s] = scan[s]

\* No step of a scan changes what another submitted.
LEMMA StepsLast ==
  ASSUME TypeOK, [Next]_vars PROVE Lasting
  <1>1. ASSUME NEW s \in Scans, NEW p \in Pairs, Submit(s, p) PROVE Lasting
    BY <1>1 DEF Submit, TypeOK, Lasting, Submitted
  <1>2. ASSUME NEW s \in Scans, Persist(s) \/ PersistFails(s) \/ CountBack(s) \/ CountFails(s)
        PROVE  Lasting
    BY <1>2 DEF Persist, PersistFails, CountBack, CountFails, TypeOK, Lasting, Submitted
  <1>3. CASE UNCHANGED vars
    BY <1>3 DEF vars, Lasting, Submitted
  <1> QED
    BY <1>1, <1>2, <1>3 DEF Next, Finished

\* Later scans can only dispute more.
LEMMA DisputesLast ==
  ASSUME Lasting, NEW s \in Submitted
  PROVE  /\ Undisputed(s)' => Undisputed(s)
         /\ Agreed(s, scan[s].parent)' => Agreed(s, scan[s].parent)
  <1>1. s \in Submitted' /\ scan'[s] = scan[s]
    BY DEF Lasting
  <1>2. ASSUME NEW r \in Submitted
        PROVE  /\ r \in Submitted' /\ scan'[r] = scan[r] /\ Names(r)' = Names(r)
               /\ \A asset : Says(r, asset)' = Says(r, asset)
    BY DEF Lasting, Names, Says
  <1>3. ASSUME NEW asset PROVE Agreed(s, asset)' => Agreed(s, asset)
    BY <1>1, <1>2 DEF Agreed
  <1>4. Agreed(s, scan[s].parent)' => Agreed(s, scan[s].parent)
    BY <1>1, <1>2 DEF Agreed
  <1>5. Undisputed(s)' => Undisputed(s)
    BY <1>1, <1>2, <1>3 DEF Undisputed
  <1> QED
    BY <1>4, <1>5

LEMMA StepTypes ==
  ASSUME TypeOK, [Next]_vars PROVE TypeOK'
  <1>1. ASSUME NEW s \in Scans, NEW p \in Pairs, Submit(s, p) PROVE TypeOK'
    BY <1>1 DEF Submit, TypeOK, Verdict
  <1>2. ASSUME NEW s \in Scans, Persist(s) PROVE TypeOK'
    <2>1. Rows(scan[s]) \subseteq [lineage : Lineages, asset : Assets, rule : Rules, start : Starts]
      BY RowsType DEF TypeOK
    <2> QED
      BY <1>2, <2>1 DEF Persist, TypeOK
  <1>3. ASSUME NEW s \in Scans, PersistFails(s) PROVE TypeOK'
    <2>1. Rows(scan[s]) \subseteq [lineage : Lineages, asset : Assets, rule : Rules, start : Starts]
      BY RowsType DEF TypeOK
    <2>2. stored' \subseteq [lineage : Lineages, asset : Assets, rule : Rules, start : Starts]
      BY <1>3, <2>1 DEF PersistFails, TypeOK
    <2>3. faults' \in 0..MaxFaults
      BY <1>3, ScanAssumption DEF PersistFails, TypeOK
    <2> QED
      BY <1>3, <2>2, <2>3 DEF PersistFails, TypeOK
  <1>4. ASSUME NEW s \in Scans, CountBack(s) PROVE TypeOK'
    BY <1>4 DEF CountBack, TypeOK, Verdict
  <1>5. ASSUME NEW s \in Scans, CountFails(s) PROVE TypeOK'
    <2>1. faults' \in 0..MaxFaults
      BY <1>5, ScanAssumption DEF CountFails, TypeOK
    <2> QED
      BY <1>5, <2>1 DEF CountFails, TypeOK
  <1>6. CASE UNCHANGED vars
    BY <1>6 DEF vars, TypeOK
  <1> QED
    BY <1>1, <1>2, <1>3, <1>4, <1>5, <1>6 DEF Next, Finished

\* The table gains the rows of a scan that is underway, and loses none.
LEMMA StepRows ==
  ASSUME TypeOK, RowsAreSubmitted, [Next]_vars PROVE RowsAreSubmitted' /\ stored \subseteq stored'
  <1>1. \A row \in stored : \E s \in Submitted' : row \in Rows(scan'[s]) /\ Rows(scan'[s]) \subseteq stored
    BY StepsLast DEF RowsAreSubmitted, Lasting
  <1>2. ASSUME NEW s \in Scans, Persist(s) \/ PersistFails(s)
        PROVE  s \in Submitted' /\ scan' = scan /\ stored' \in {stored, stored \cup Rows(scan[s])}
    BY <1>2 DEF Persist, PersistFails, Submitted, TypeOK
  <1>3. stored' = stored \/ \E s \in Scans : Persist(s) \/ PersistFails(s)
    BY DEF Next, Finished, vars, Submit, CountBack, CountFails
  <1>4. CASE stored' = stored
    BY <1>1, <1>4 DEF RowsAreSubmitted
  <1>5. ASSUME NEW s \in Scans, Persist(s) \/ PersistFails(s)
        PROVE  RowsAreSubmitted' /\ stored \subseteq stored'
    BY <1>1, <1>2, <1>5 DEF RowsAreSubmitted
  <1> QED
    BY <1>3, <1>4, <1>5

\* A scan counts only after its insert.
LEMMA StepOwnRows ==
  ASSUME ScanInv, [Next]_vars PROVE OwnRowsAreStored' /\ AnsweredAtEnd'
  <1> USE DEF ScanInv
  <1>0. stored \subseteq stored'
    BY StepRows
  <1>1. ASSUME NEW s \in Scans, NEW p \in Pairs, Submit(s, p)
        PROVE  OwnRowsAreStored' /\ AnsweredAtEnd'
    BY <1>1 DEF Submit, TypeOK, OwnRowsAreStored, AnsweredAtEnd, Judged, Verdict
  <1>2. ASSUME NEW s \in Scans, Persist(s) PROVE OwnRowsAreStored' /\ AnsweredAtEnd'
    BY <1>0, <1>2 DEF Persist, TypeOK, OwnRowsAreStored, AnsweredAtEnd, Judged
  <1>3. ASSUME NEW s \in Scans, PersistFails(s) \/ CountBack(s) \/ CountFails(s)
        PROVE  OwnRowsAreStored' /\ AnsweredAtEnd'
    BY <1>0, <1>3 DEF PersistFails, CountBack, CountFails, TypeOK, OwnRowsAreStored, AnsweredAtEnd, Judged
  <1>4. CASE UNCHANGED vars
    BY <1>4 DEF vars, OwnRowsAreStored, AnsweredAtEnd, Judged
  <1> QED
    BY <1>1, <1>2, <1>3, <1>4 DEF Next, Finished

\* A verdict is given by Submit, where ClickHouse is not configured, or by CountBack, and
\* never changed.
LEMMA GivenOnce ==
  ASSUME ScanInv, [Next]_vars, NEW s \in Judged'
  PROVE  \/ s \in Judged /\ answer'[s] = answer[s]
         \/ answer'[s] = Verdict(Introduced(scan'[s]))
         \/ /\ pc[s] = "count" /\ scan' = scan
            /\ answer'[s] = Verdict(Count(scan[s], stored))
  <1> USE DEF ScanInv
  <1>1. ASSUME NEW r \in Scans, NEW p \in Pairs, Submit(r, p)
        PROVE  \/ s \in Judged /\ answer'[s] = answer[s]
               \/ answer'[s] = Verdict(Introduced(scan'[s]))
    BY <1>1 DEF Submit, TypeOK, Judged
  <1>2. ASSUME NEW r \in Scans, CountBack(r)
        PROVE  \/ s \in Judged /\ answer'[s] = answer[s]
               \/ pc[s] = "count" /\ scan' = scan /\ answer'[s] = Verdict(Count(scan[s], stored))
    BY <1>2 DEF CountBack, TypeOK, Judged
  <1>3. ASSUME NEW r \in Scans, Persist(r) \/ PersistFails(r) \/ CountFails(r)
        PROVE  s \in Judged /\ answer'[s] = answer[s]
    BY <1>3 DEF Persist, PersistFails, CountFails, TypeOK, Judged
  <1>4. CASE UNCHANGED vars
    BY <1>4 DEF vars, Judged
  <1> QED
    BY <1>1, <1>2, <1>3, <1>4 DEF Next, Finished

LEMMA StepVerdicts ==
  ASSUME ScanInv, [Next]_vars PROVE ScanIsItsOwn' /\ NeverCleared'
  <1> USE DEF ScanInv
  <1>1. Lasting
    BY StepsLast
  <1>2. Judged \subseteq Submitted /\ \A s \in Scans : pc[s] = "count" => s \in Submitted
    BY DEF Judged, Submitted, AnsweredAtEnd
  <1>3. ASSUME NEW s \in Judged', Undisputed(s)'
        PROVE  answer'[s] = Verdict(Introduced(scan'[s]))
    <2>1. CASE s \in Judged /\ answer'[s] = answer[s]
      <3>1. Undisputed(s) /\ scan'[s] = scan[s]
        BY <1>1, <1>2, <1>3, <2>1, DisputesLast DEF Lasting
      <3> QED
        BY <2>1, <3>1 DEF ScanIsItsOwn
    <2>2. CASE pc[s] = "count" /\ scan' = scan /\ answer'[s] = Verdict(Count(scan[s], stored))
      <3>1. s \in Scans /\ s \in Submitted
        BY <1>2, <2>2 DEF Judged
      <3>2. Undisputed(s) /\ Rows(scan[s]) \subseteq stored
        BY <1>1, <1>3, <2>2, <3>1, DisputesLast DEF OwnRowsAreStored
      <3> QED
        BY <2>2, <3>1, <3>2, CountIsOwn
    <2> QED
      BY <2>1, <2>2, GivenOnce
  <1>4. ASSUME NEW s \in Judged', answer'[s] = "pass", Agreed(s, scan[s].parent)'
        PROVE  Introduced(scan'[s]) = {}
    <2>1. CASE s \in Judged /\ answer'[s] = answer[s]
      <3>1. scan'[s] = scan[s] /\ Agreed(s, scan[s].parent)
        BY <1>1, <1>2, <1>4, <2>1, DisputesLast DEF Lasting
      <3> QED
        BY <1>4, <2>1, <3>1 DEF NeverCleared
    <2>2. CASE answer'[s] = Verdict(Introduced(scan'[s]))
      BY <1>4, <2>2 DEF Verdict
    <2>3. CASE pc[s] = "count" /\ scan' = scan /\ answer'[s] = Verdict(Count(scan[s], stored))
      <3>1. s \in Scans /\ s \in Submitted
        BY <1>2, <2>3 DEF Judged
      <3>2. Rows(scan[s]) \subseteq stored /\ Agreed(s, scan[s].parent)
        BY <1>1, <1>4, <2>3, <3>1, DisputesLast DEF OwnRowsAreStored
      <3>3. Count(scan[s], stored) = {}
        BY <1>4, <2>3 DEF Verdict
      <3> QED
        BY <2>3, <3>1, <3>2, <3>3, IntroducedIsCounted
    <2> QED
      BY <2>1, <2>2, <2>3, GivenOnce
  <1>5. NeverCleared'
    BY <1>4 DEF NeverCleared
  <1> QED
    BY <1>3, <1>5 DEF ScanIsItsOwn

-----------------------------------------------------------------------------
(* The theorems. *)

\* The invariant of the scans and their table.
THEOREM ScanSafety == Spec => []ScanInv
  <1>1. Init => ScanInv
    <2> SUFFICES ASSUME Init PROVE ScanInv
      OBVIOUS
    <2>1. TypeOK
      BY SomePair, ScanAssumption DEF Init, TypeOK
    <2> QED
      BY <2>1 DEF Init, ScanInv, RowsAreSubmitted, OwnRowsAreStored, AnsweredAtEnd, ScanIsItsOwn,
                  NeverCleared, Judged
  <1>2. ScanInv /\ [Next]_vars => ScanInv'
    BY StepTypes, StepRows, StepOwnRows, StepVerdicts DEF ScanInv
  <1> QED
    BY <1>1, <1>2, PTL DEF Spec

\* Every variable keeps its type; in particular the stored rows are violations of assets.
THEOREM TypeCorrect == Spec => []TypeOK
  <1>1. ScanInv => TypeOK
    BY DEF ScanInv
  <1> QED
    BY ScanSafety, <1>1, PTL

\* A verdict of /v1/scan is the detector's on the clips submitted, where no other scan of
\* the lineage says otherwise of either asset, nor one of another lineage finds anything in
\* the rendition, but for the same two clips (main.py:428-442).
THEOREM ScansAreTheirOwn == Spec => []ScanIsItsOwn
  <1>1. ScanInv => ScanIsItsOwn
    BY DEF ScanInv
  <1> QED
    BY ScanSafety, <1>1, PTL

\* Who asks for the pair later is told the same (clickhouse_mcp.py:249).
THEOREM VerdictsStand == Spec => []VerdictStands
  <1>1. ScanInv => VerdictStands
    <2> SUFFICES ASSUME ScanInv, NEW s \in Judged, configured, Undisputed(s)
                 PROVE  Verdict(Count(scan[s], stored)) = answer[s]
      BY DEF VerdictStands
    <2>1. s \in Scans /\ pc[s] # "idle" /\ Rows(scan[s]) \subseteq stored
      BY DEF ScanInv, OwnRowsAreStored, AnsweredAtEnd, Judged
    <2>2. Verdict(Count(scan[s], stored)) = Verdict(Introduced(scan[s]))
      BY <2>1, CountIsOwn DEF ScanInv
    <2> QED
      BY <2>2 DEF ScanInv, ScanIsItsOwn
  <1> QED
    BY ScanSafety, <1>1, PTL

\* No rows that other scans left behind clear a rendition that introduced a violation,
\* where nobody of its lineage disputes the master's clip (clickhouse_mcp.py:255-256).
THEOREM NothingIsCleared == Spec => []NeverCleared
  <1>1. ScanInv => NeverCleared
    BY DEF ScanInv
  <1> QED
    BY ScanSafety, <1>1, PTL
=============================================================================

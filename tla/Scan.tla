--------------------------------- MODULE Scan ---------------------------------
(***************************************************************************)
(* POST /v1/scan (safe_frame/main.py:413-462): a pair of clips is judged   *)
(* in process, its violations are inserted into the violations table, and  *)
(* the verdict is counted back by SQL over the stored rows.  Scans run     *)
(* concurrently, may name the same assets, under one lineage or another,   *)
(* and fail halfway.                                                       *)
(***************************************************************************)
EXTENDS Criteria

CONSTANTS Scans,     \* the requests
          Assets,    \* the identifiers their callers use, none of them reserved
          Lineages,  \* the lineages they name, one to a request
          Starts,    \* window starts of violations
          Findings,  \* what detect_violations may find in a clip
          MaxFaults  \* bound: failed inserts and counts

ASSUME ScanAssumption ==
  /\ Starts \subseteq Nat /\ MaxFaults \in Nat
  /\ Findings # {} /\ Lineages # {} /\ \E a, b \in Assets : a # b
  /\ Findings \subseteq SUBSET [rule : Rules, start : Starts]
  /\ \A f \in Findings : \A v, w \in f : v.rule = w.rule => v = w \* one window of a rule

VARIABLES configured, \* is this deployment wired to ClickHouse
          stored,     \* the violations table, FINAL
          pc, scan,   \* per request: where it is, and what it submitted
          answer,     \* per request: its verdict, or the error it ended with
          faults

vars == <<configured, stored, pc, scan, answer, faults>>

\* A row of the table, by its sorting key: a later insert of the key replaces it.
Row(lineage, asset, v) == [lineage |-> lineage, asset |-> asset, rule |-> v.rule, start |-> v.start]
RowsOf(lineage, asset, found) == {Row(lineage, asset, v) : v \in found}

Pairs == {p \in [lineage : Lineages, parent : Assets, child : Assets,
                 inParent : Findings, inChild : Findings] : p.parent # p.child}

Introduced(p) == Regressions(p.inParent, p.inChild)

\* Mutant of Count: a master's violation of any lineage excuses one.
CountAnyLineage(p, table) ==
  {c \in table : c.asset = p.child
     /\ ~\E q \in table : /\ q.asset = p.parent /\ q.rule = c.rule
                          /\ Distance(c.start, q.start) <= Tolerance}

\* regression_count: the anti-join over what is stored for the pair.  Both sides are
\* selected by their asset alone, and joined on the lineage.
Count(p, table) ==
  {c \in table : c.asset = p.child
     /\ ~\E q \in table : /\ q.asset = p.parent
                          /\ q.lineage = c.lineage /\ q.rule = c.rule
                          /\ Distance(c.start, q.start) <= Tolerance}

Verdict(regressions) == IF regressions = {} THEN "pass" ELSE "fail"

Init ==
  /\ configured \in BOOLEAN
  /\ stored = {} /\ faults = 0
  /\ pc = [s \in Scans |-> "idle"]
  /\ scan = [s \in Scans |-> CHOOSE p \in Pairs : TRUE]
  /\ answer = [s \in Scans |-> "none"]

\* Mutant of Submit: the two sides may name one asset.
SubmitSame(s, p) ==
  /\ pc[s] = "idle"
  /\ scan' = [scan EXCEPT ![s] = [p EXCEPT !.child = p.parent]]
  /\ pc' = [pc EXCEPT ![s] = "persist"]
  /\ UNCHANGED <<configured, stored, answer, faults>>

\* A valid request: judged in process, and there is no more to it where ClickHouse is
\* not configured.
Submit(s, p) ==
  /\ pc[s] = "idle"
  /\ scan' = [scan EXCEPT ![s] = p]
  /\ IF configured
     THEN pc' = [pc EXCEPT ![s] = "persist"] /\ UNCHANGED answer
     ELSE /\ pc' = [pc EXCEPT ![s] = "done"]
          /\ answer' = [answer EXCEPT ![s] = Verdict(Introduced(p))]
  /\ UNCHANGED <<configured, stored, faults>>

\* Mutant of Rows: the approved master's own violations are not stored.
RowsOfChild(p) == RowsOf(p.lineage, p.child, p.inChild)

\* [*parent, *child]: one batch, one insert.
Rows(p) == RowsOf(p.lineage, p.parent, p.inParent) \cup RowsOf(p.lineage, p.child, p.inChild)

\* persist_violations, in a thread: nothing to insert touches no database.
Persist(s) ==
  /\ pc[s] = "persist"
  /\ stored' = stored \cup Rows(scan[s])
  /\ pc' = [pc EXCEPT ![s] = "count"]
  /\ UNCHANGED <<configured, scan, answer, faults>>

\* The insert raises, with or without the rows in the table: a plain 500.
PersistFails(s) ==
  /\ pc[s] = "persist" /\ Rows(scan[s]) # {}
  /\ faults < MaxFaults /\ faults' = faults + 1
  /\ stored' \in {stored, stored \cup Rows(scan[s])}
  /\ pc' = [pc EXCEPT ![s] = "done"]
  /\ answer' = [answer EXCEPT ![s] = "error"]
  /\ UNCHANGED <<configured, scan>>

\* Mutant of CountBack: the rows have served their purpose and are removed.
CountAndForget(s) ==
  /\ pc[s] = "count"
  /\ answer' = [answer EXCEPT ![s] = Verdict(Count(scan[s], stored))]
  /\ stored' = stored \ Rows(scan[s])
  /\ pc' = [pc EXCEPT ![s] = "done"]
  /\ UNCHANGED <<configured, scan, faults>>

\* The count comes back over MCP and decides.
CountBack(s) ==
  /\ pc[s] = "count"
  /\ answer' = [answer EXCEPT ![s] = Verdict(Count(scan[s], stored))]
  /\ pc' = [pc EXCEPT ![s] = "done"]
  /\ UNCHANGED <<configured, stored, scan, faults>>

\* The MCP path fails: 502, and no local guess.  The rows stay.
CountFails(s) ==
  /\ pc[s] = "count"
  /\ faults < MaxFaults /\ faults' = faults + 1
  /\ answer' = [answer EXCEPT ![s] = "error"]
  /\ pc' = [pc EXCEPT ![s] = "done"]
  /\ UNCHANGED <<configured, stored, scan>>

Finished == (\A s \in Scans : pc[s] = "done") /\ UNCHANGED vars

Next ==
  \/ \E s \in Scans :
       \/ \E p \in Pairs : Submit(s, p)
       \/ Persist(s) \/ PersistFails(s) \/ CountBack(s) \/ CountFails(s)
  \/ Finished

Spec == Init /\ [][Next]_vars

-----------------------------------------------------------------------------
(* Properties. *)

\* The types; a pair has two sides; stored rows are violations of assets.
TypeOK ==
  /\ configured \in BOOLEAN /\ faults \in 0..MaxFaults
  /\ stored \subseteq [lineage : Lineages, asset : Assets, rule : Rules, start : Starts]
  /\ pc \in [Scans -> {"idle", "persist", "count", "done"}]
  /\ scan \in [Scans -> Pairs]
  /\ answer \in [Scans -> {"none", "pass", "fail", "error"}]

Submitted == {s \in Scans : pc[s] # "idle"}
Judged == {s \in Scans : answer[s] \in {"pass", "fail"}}

\* What a scan says of an asset.
Says(s, asset) ==
  IF asset = scan[s].parent THEN scan[s].inParent ELSE scan[s].inChild
Names(s) == {scan[s].parent, scan[s].child}

\* What scans of the lineage of s say of an asset is what s says of it.
Agreed(s, asset) ==
  \A r \in Submitted :
    scan[r].lineage = scan[s].lineage /\ asset \in Names(r) => Says(r, asset) = Says(s, asset)

\* Both clips are agreed on, and under another lineage the rendition has no violation,
\* unless the scan that says so is of the same two clips.
Undisputed(s) ==
  /\ \A asset \in Names(s) : Agreed(s, asset)
  /\ \A r \in Submitted :
       scan[r].lineage # scan[s].lineage /\ scan[s].child \in Names(r) =>
         \/ Says(r, scan[s].child) = {}
         \/ scan[r] = [scan[s] EXCEPT !.lineage = scan[r].lineage]

\* The stored verdict of a scan is that of the detector on the very clips submitted,
\* though other scans share its assets, retry it, under another lineage even, run in
\* between or died halfway: persisting and counting again changes nothing (main.py:428-442).
ScanIsItsOwn ==
  \A s \in Judged : Undisputed(s) => answer[s] = Verdict(Introduced(scan[s]))

\* "Both must feed one verdict" (clickhouse_mcp.py:249): whoever asks for the pair later,
\* at /v1/catalogue/regressions or /v1/explain, is told what the scan was told.
VerdictStands ==
  \A s \in Judged : configured /\ Undisputed(s) =>
    Verdict(Count(scan[s], stored)) = answer[s]

\* The two error directions are not alike: rows that other scans left behind may fail a
\* clean rendition, but where nobody of its lineage disputes the master's clip they never
\* clear one that introduced a violation (clickhouse_mcp.py:255-256); a master's violation
\* that is stored under another lineage excuses nothing.
NeverCleared ==
  \A s \in Judged : Agreed(s, scan[s].parent) => (answer[s] = "pass" => Introduced(scan[s]) = {})
=============================================================================

------------------------------ MODULE Catalogue ------------------------------
(***************************************************************************)
(* The catalogue and the endpoints that read it (safe_frame/catalogue.py,  *)
(* safe_frame/main.py, sql/006, sql/008): the transitions table is filled  *)
(* asset by asset by a script that may stop and be run again, callers of   *)
(* /v1/scan store violations beside it, and requests of two statements     *)
(* read it while it changes.                                               *)
(***************************************************************************)
EXTENDS Corpus

CONSTANTS Titles,      \* lineages, in the order they are seeded: 1, 2, ...
          Authored,    \* those of them that sql/005 wrote, title_NNNN
          TossSets,    \* what may be planted, per title
          Scanned,     \* what callers may scan: two assets' bursts, under a lineage they choose
          MaxRuns,     \* bound: the last run of the seeding script, at most MaxCopies
          MaxScans     \* bound: the last scan that is stored

Assets == Titles \X {Transforms[i] : i \in DOMAIN Transforms}
Master(asset) == <<asset[1], "master">>

ASSUME CatalogueAssumption ==
  /\ Titles \in SUBSET Nat /\ IsFiniteSet(Titles) /\ Authored \subseteq Titles
  /\ TossSets \in [Titles -> SUBSET Tosses]
  /\ Scanned \subseteq [lineage : Nat, parent : Assets, child : Assets,
                       inParent : SUBSET Bursts, inChild : SUBSET Bursts]
  /\ MaxRuns \in 1..MaxCopies /\ MaxScans \in Nat

VARIABLES tosses,   \* what is planted in each title
          copies,   \* transitions: how many times each asset's rows are in it
          next,     \* what the seeding script inserts next: a title and a position
          runs,     \* runs of the script so far
          stored,   \* violations: the rows that scans stored
          scans,
          request   \* the request underway, or the one that the last step answered

vars == <<tosses, copies, next, runs, stored, scans, request>>

Idle == [kind |-> "none", step |-> "done", moved |-> FALSE]
MeasuredTitles == Titles \ Authored
Stopped == [title |-> 0, position |-> 0]
Start == IF MeasuredTitles = {} THEN Stopped ELSE [title |-> Min(MeasuredTitles), position |-> 1]

\* The request after a step of the seeding or of a scan: an answer is gone with it.
Kept(moved) ==
  IF request.step = "done" THEN Idle ELSE [request EXCEPT !.moved = @ \/ moved]

Init ==
  /\ tosses \in {f \in [Titles -> Tosses] : \A t \in Titles : f[t] \in TossSets[t]}
  /\ copies = [a \in Assets |-> IF a[1] \in Authored THEN 1 ELSE 0]
  /\ next = Start /\ runs \in 1..MaxRuns
  /\ stored = {} /\ scans \in 0..MaxScans
  /\ request = Idle

-----------------------------------------------------------------------------
(* What the statements read. *)

Present == {a \in Assets : copies[a] > 0}
Violations(a) == Judged[a[1] \notin Authored][Plan(tosses[a[1]], a[2])][copies[a]]

\* sql/006: each rendition's violations, less those of its master.
Introduced(a) ==
  LET plan(asset) == Plan(tosses[a[1]], asset[2])
  IN Isolated[a[1] \notin Authored][plan(Master(a))][plan(a)][copies[Master(a)]][copies[a]]
PresentRenditions == {a \in Present : a[2] # "master"}
Sweep == UNION {{a} \X Introduced(a) : a \in PresentRenditions}

\* scale_sql.
Scale == [assets |-> Cardinality(Present), titles |-> Cardinality({a[1] : a \in Present})]

\* sql/008: read of the assets there are and of the tosses, never of a measurement.
GroundTruth ==
  [expected |-> UNION {{a} \X Expected(tosses[a[1]], a[2]) : a \in PresentRenditions},
   decoys |-> {a \in PresentRenditions : Decoy(tosses[a[1]], a[2])}]

Row(lineage, a, v) == [lineage |-> lineage, asset |-> a, rule |-> v.rule, start |-> v.start]

\* Both planes: what is measured of an asset, and what scans stored under its name.
Evaluated(a) == {Row(a[1], a, v) : v \in Violations(a)} \cup {r \in stored : r.asset = a}

\* Mutant of PairRegressions: a violation of any lineage excuses one.
PairRegressionsAnyLineage(parent, child) ==
  {c \in Evaluated(child) :
     ~\E p \in Evaluated(parent) : p.rule = c.rule /\ Distance(c.start, p.start) <= Tolerance}

\* regression_sql, for any two names.
PairRegressions(parent, child) ==
  {c \in Evaluated(child) :
     ~\E p \in Evaluated(parent) : /\ p.lineage = c.lineage /\ p.rule = c.rule
                                   /\ Distance(c.start, p.start) <= Tolerance}

\* Mutant of Regressed: the row a left join fills a miss with is counted.
RegressedOrMissed(hits) == Max({1, Cardinality({f[1] : f \in hits})})

\* countDistinctIf(asset_id, asset_id != '').
Regressed(hits) == Cardinality({f[1] : f \in hits})

\* transform_risk_sql, a left join of what was produced with the sweep.
Profiles(sweep) ==
  [transform \in {a[2] : a \in PresentRenditions} |->
     LET hits == {f \in sweep : f[1][2] = transform}
     IN [renditions |-> Cardinality({a \in Present : a[2] = transform}),
         regressed |-> Regressed(hits),
         general |-> Regressed({h \in hits : h[2] = "general_flash"}),
         red |-> Regressed({h \in hits : h[2] = "red_flash"})]]

\* transform_risk: the profiles and their totals.
RiskOf(profiles) ==
  LET redOnly == {t \in DOMAIN profiles : profiles[t].red > 0 /\ profiles[t].general = 0}
  IN [implicated |-> {t \in DOMAIN profiles : profiles[t].regressed > 0},
      total |-> SumFunction([t \in DOMAIN profiles |-> profiles[t].regressed]),
      redOnly |-> SumFunction([t \in redOnly |-> profiles[t].red])]
TransformRisk == RiskOf(Profiles(Sweep))

\* timeline: the peak of an asset's chart for a rule.
Peak(a, rule) ==
  Max({Charted[a[1] \notin Authored][Plan(tosses[a[1]], a[2])][copies[a]][rule][second] :
         second \in 0..(Seconds + 1)})

-----------------------------------------------------------------------------
(* The seeding script. *)

Seeding == next # Stopped

\* Mutant of After: the inner loop runs once too often.
AfterLast(place) ==
  LET later == {t \in MeasuredTitles : t > place.title}
  IN IF place.position <= Len(Transforms) THEN [place EXCEPT !.position = @ + 1]
     ELSE IF later = {} THEN Stopped ELSE [title |-> Min(later), position |-> 1]

\* The script's two loops: for idx in range(args.titles), for transform in TRANSFORMS.
After(place) ==
  LET later == {t \in MeasuredTitles : t > place.title}
  IN IF place.position < Len(Transforms) THEN [place EXCEPT !.position = @ + 1]
     ELSE IF later = {} THEN Stopped ELSE [title |-> Min(later), position |-> 1]

\* The rows of one asset, measured and inserted in one block.
Insert ==
  /\ Seeding
  /\ copies' = [copies EXCEPT ![<<next.title, Transforms[next.position]>>] = @ + 1]
  /\ next' = After(next)
  /\ request' = Kept(TRUE)
  /\ UNCHANGED <<tosses, runs, stored, scans>>

\* The script dies between two inserts, or in one that the server refused.
Die ==
  /\ Seeding
  /\ next' = Stopped
  /\ request' = Kept(FALSE)
  /\ UNCHANGED <<tosses, copies, runs, stored, scans>>

\* It is run again, from its first title: it looks at nothing that is there.
RunAgain ==
  /\ ~Seeding /\ runs < MaxRuns
  /\ next' = Start /\ runs' = runs + 1
  /\ request' = Kept(FALSE)
  /\ UNCHANGED <<tosses, copies, stored, scans>>

-----------------------------------------------------------------------------
(* The endpoints. *)

\* Mutant of Reserved: no asset name is.
ReservedNone(asset) == asset = <<0, "master">>

\* _reserved: the names of the authored cohort.
Reserved(asset) == asset[1] \in Authored

\* /v1/scan of two clips under names of the catalogue; Scan is about the endpoint itself.
StoreScan(scan) ==
  /\ scans < MaxScans /\ scans' = scans + 1
  /\ scan.parent # scan.child /\ ~Reserved(scan.parent) /\ ~Reserved(scan.child)
  /\ LET rows(a, bursts) == {Row(scan.lineage, a, v) : v \in Judged[TRUE][bursts][1]}
     IN stored' = stored \cup rows(scan.parent, scan.inParent) \cup rows(scan.child, scan.inChild)
  /\ request' = Kept(FALSE)
  /\ UNCHANGED <<tosses, copies, next, runs>>

\* Mutant of Evaluate: the sweep is run first, the ground truth after it.
EvaluateSweepFirst ==
  /\ request.step = "done"
  /\ request' = [kind |-> "evaluation", step |-> "truth", moved |-> FALSE, found |-> Sweep]
  /\ UNCHANGED <<tosses, copies, next, runs, stored, scans>>

\* /v1/evaluation: its first statement is the ground truth,
Evaluate ==
  /\ request.step = "done"
  /\ request' = [kind |-> "evaluation", step |-> "sweep", moved |-> FALSE, truth |-> GroundTruth]
  /\ UNCHANGED <<tosses, copies, next, runs, stored, scans>>

\* decoys.wrongly_flagged: the decoys that were found, for whatever rule.
WronglyFlagged(truth, found) == truth.decoys \cap {f[1] : f \in found}

\* and its second the sweep.
Score ==
  /\ request.kind = "evaluation" /\ request.step # "done"
  /\ LET truth == IF request.step = "truth" THEN GroundTruth ELSE request.truth
         found == IF request.step = "sweep" THEN Sweep ELSE request.found
     IN request' = [kind |-> "evaluation", step |-> "done", moved |-> request.moved,
                    truth |-> truth, found |-> found, wrong |-> WronglyFlagged(truth, found)]
  /\ UNCHANGED <<tosses, copies, next, runs, stored, scans>>

\* Mutant of AskSweep: the size of the corpus is read first.
AskScaleFirst ==
  /\ request.step = "done"
  /\ request' = [kind |-> "sweep", step |-> "sweep", moved |-> FALSE, corpus |-> Scale]
  /\ UNCHANGED <<tosses, copies, next, runs, stored, scans>>

\* /v1/catalogue/sweep: its first statement is the sweep,
AskSweep ==
  /\ request.step = "done"
  /\ request' = [kind |-> "sweep", step |-> "scale", moved |-> FALSE, found |-> Sweep]
  /\ UNCHANGED <<tosses, copies, next, runs, stored, scans>>

\* and its second the size of what it searched.
AskScale ==
  /\ request.kind = "sweep" /\ request.step # "done"
  /\ request' = [kind |-> "sweep", step |-> "done", moved |-> request.moved,
                 found |-> IF request.step = "sweep" THEN Sweep ELSE request.found,
                 corpus |-> IF request.step = "scale" THEN Scale ELSE request.corpus]
  /\ UNCHANGED <<tosses, copies, next, runs, stored, scans>>

\* Either statement fails: 502 or 503, and no part of an answer.
Fail ==
  /\ request.step # "done"
  /\ request' = Idle
  /\ UNCHANGED <<tosses, copies, next, runs, stored, scans>>

Fill == Insert \/ Die \/ RunAgain

Read == Evaluate \/ Score \/ AskSweep \/ AskScale \/ Fail

Next ==
  \/ Fill
  \/ Read
  \/ \E scan \in Scanned : StoreScan(scan)

Spec == Init /\ [][Next]_vars

-----------------------------------------------------------------------------
(* The scores of an evaluation. *)

\* score: a cohort's part of what was planted, against its part of what was found.
ScoreOf(planted, found) ==
  [missed |-> planted \ found, spurious |-> found \ planted, right |-> planted \cap found]

\* by_cohort: an asset is of the measured cohort if the ground truth has a row for it
\* that says so, and of the authored one otherwise.
Cohorts(truth, found) ==
  LET measured == {a \in {e[1] : e \in truth.expected} \cup truth.decoys : a[1] \notin Authored}
      ofMeasured(pairs) == {p \in pairs : p[1] \in measured}
  IN [measured |-> ScoreOf(ofMeasured(truth.expected), ofMeasured(found)),
      authored |-> ScoreOf(truth.expected \ ofMeasured(truth.expected), found \ ofMeasured(found))]

-----------------------------------------------------------------------------
(* Properties. *)

Flags == Assets \X Rules

\* The types.
TypeOK ==
  /\ tosses \in [Titles -> Tosses]
  /\ copies \in [Assets -> 0..MaxCopies]
  /\ next = Stopped \/ next \in [title : MeasuredTitles, position : DOMAIN Transforms]
  /\ runs \in 1..MaxRuns /\ scans \in 0..MaxScans
  /\ stored \subseteq [lineage : Nat, asset : Assets, rule : Rules, start : Nat]
  /\ request.step \in {"done", "truth", "sweep", "scale"}

SeededOnce == \A a \in Assets : copies[a] <= 1

\* Decoys in which the other rule's burst was planted as well.
ExpectedDecoys(truth) == {a \in truth.decoys : \E e \in truth.expected : e[1] = a}

\* "the sweep must return it" (sql/008:33-36): at every moment of the seeding, a title half
\* inserted included, the sweep finds what was planted in the assets there are and nothing
\* else, unless the script was run twice.  Of the decoys, which "the sweep must therefore
\* NOT return" (sql/008:37-43), it returns those that are expected of the other rule.
SweepIsExact ==
  LET truth == GroundTruth
      sweep == Sweep
  IN SeededOnce => sweep = truth.expected /\ WronglyFlagged(truth, sweep) = ExpectedDecoys(truth)

\* The two statements of an evaluation see two states of the table, and what is there for
\* the first is there for the second: nothing planted is ever missed (catalogue.py:250), and
\* what is inserted in between makes no decoy count as wrongly flagged (catalogue.py:304).
EvaluationMissesNothing ==
  LET score == ScoreOf(request.truth.expected, request.found)
      cohorts == Cohorts(request.truth, request.found)
  IN request.kind = "evaluation" /\ request.step = "done" /\ SeededOnce =>
       /\ score.missed = {} /\ request.wrong = ExpectedDecoys(request.truth)
       /\ ~request.moved =>
            score.spurious = {} /\ \A p \in cohorts.authored.right : p[1][1] \in Authored

\* What a sweep reports is of the corpus it says it searched (catalogue.py:62-68),
\* whatever was inserted between its two statements.
SweepIsOfItsCorpus ==
  request.kind = "sweep" /\ request.step = "done" =>
    LET flagged == {f[1] : f \in request.found}
    IN /\ Cardinality({a[1] : a \in flagged}) <= request.corpus.titles
       /\ Cardinality(flagged) <= request.corpus.assets - request.corpus.titles

\* The risk profile accounts for every rendition the sweep flags, once, and for no other,
\* though a rendition may break both rules (clickhouse_mcp.py:580-587); and the number of
\* those that only the red rule finds, added up by transform, is theirs one by one
\* (catalogue.py:164-167).
RiskAddsUp ==
  LET sweep == Sweep
      risk == TransformRisk
      flagged(rules) == {f[1] : f \in {g \in sweep : g[2] \in rules}}
  IN /\ risk.total = Cardinality(flagged(Rules))
     /\ risk.implicated = {a[2] : a \in flagged(Rules)}
     /\ SeededOnce =>
          risk.redOnly = Cardinality(flagged({"red_flash"}) \ flagged({"general_flash"}))

\* "the sweep, /v1/catalogue/regressions and /v1/explain cannot disagree about the same
\* pair" (clickhouse_mcp.py:251-253): nor do they, for a pair of the authored cohort or
\* one that nobody scanned, however often its rows were inserted.
PairAgrees(a) ==
  {v.rule : v \in PairRegressions(Master(a), a)} = Introduced(a)
UnscannedPairsAgree ==
  \A a \in PresentRenditions :
    a[1] \in Authored \/ ~(\E r \in stored : r.asset \in {a, Master(a)}) => PairAgrees(a)
=============================================================================

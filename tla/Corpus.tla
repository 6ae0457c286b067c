------------------------------- MODULE Corpus -------------------------------
(***************************************************************************)
(* The two cohorts of the catalogue and what is planted in them: titles    *)
(* whose rows scripts/seed_measured_corpus.py measures from constructed    *)
(* frames, and titles whose rows sql/005_catalogue_generator.sql writes.   *)
(* A toss is what the generator decided for a title, by arithmetic over    *)
(* its index or by sipHash64: the bursts the whole lineage inherits, and   *)
(* the transforms that introduce one of their own.  The scale is smaller:  *)
(* fewer seconds, and a burst is in the same one in every title.           *)
(***************************************************************************)
EXTENDS Measure

CONSTANTS FrameRate,  \* FRAME_RATE, and the samples a second of the authored rows
          Every,      \* frames a baseline picture is held for
          Seconds,    \* SECONDS
          BurstSecond, RedSecond, BrightSecond,
          MaxCopies   \* bound: times one asset's rows are in the table

\* Mutant of Transforms: the master is the last of a title's assets.
TransformsMasterLast ==
  <<"sdr_tonemap", "1080p_downscale", "60fps_interp", "social_crop_v", "adbreak_insert",
    "subtitle_burnin", "hdr10_passthrough", "master">>

Transforms == <<"master", "sdr_tonemap", "1080p_downscale", "60fps_interp", "social_crop_v",
                "adbreak_insert", "subtitle_burnin", "hdr10_passthrough">>
BurstCapable == {"60fps_interp", "adbreak_insert"}
RedCapable == {"social_crop_v", "subtitle_burnin"}
BrightCapable == {"hdr10_passthrough"}
Renditions == {Transforms[i] : i \in DOMAIN Transforms} \ {"master"}

Bursts == {"general", "red", "bright"}

\* What may be planted in one asset, one by one: TLC then keeps the tables below.
BurstSets == {bursts : bursts \in SUBSET Bursts}

ASSUME CorpusAssumption ==
  /\ FrameRate \in Nat \ {0} /\ Every \in Nat \ {0} /\ Seconds \in Nat /\ MaxCopies \in Nat \ {0}
  /\ {BurstSecond, RedSecond, BrightSecond} \subseteq 0..(Seconds - 1)
  /\ BurstSecond # RedSecond /\ RedSecond # BrightSecond /\ BurstSecond # BrightSecond

Tosses == [inherited : SUBSET {"general", "red"},
           introduced : SUBSET (BurstCapable \cup RedCapable \cup BrightCapable)]

-----------------------------------------------------------------------------
(* What is planted, and what must be found. *)

\* plan: the bursts of one asset.  What is inherited is in every transform.
Plan(toss, transform) ==
  toss.inherited
  \cup (IF transform \in BurstCapable /\ transform \in toss.introduced THEN {"general"} ELSE {})
  \cup (IF transform \in RedCapable /\ transform \in toss.introduced THEN {"red"} ELSE {})
  \cup (IF transform \in BrightCapable /\ transform \in toss.introduced THEN {"bright"} ELSE {})

\* sql/008: expect_general and expect_red, from the tosses alone.
Expected(toss, transform) ==
  {rule \in Rules :
     CASE rule = "general_flash" -> /\ transform \in BurstCapable \cap toss.introduced
                                    /\ "general" \notin toss.inherited
       [] rule = "red_flash" -> /\ transform \in RedCapable \cap toss.introduced
                                /\ "red" \notin toss.inherited}

\* sql/008: bright_decoy or inherited_decoy.
Decoy(toss, transform) ==
  transform \in BrightCapable \cap toss.introduced \/ toss.inherited # {}

-----------------------------------------------------------------------------
(* The rows of an asset. *)

\* The colours of the constructed frames, one pixel each: they are solid.
Constructed ==
  LET grey(s) == <<[r |-> s, g |-> s, b |-> s]>>
  IN [f \in {"base_a", "base_b", "burst_dark", "burst_light", "bright_low", "bright_high",
             "red", "teal"} |->
        CASE f = "base_a" -> grey(100) [] f = "base_b" -> grey(550)
          [] f = "burst_dark" -> grey(20) [] f = "burst_light" -> grey(950)
          [] f = "bright_low" -> grey(930) [] f = "bright_high" -> grey(1000)
          [] f = "red" -> <<[r |-> 1000, g |-> 0, b |-> 0]>>
          [] f = "teal" -> <<[r |-> 0, g |-> 556, b |-> 556]>>]

\* _linearise: of the samples of these frames.
Linearised ==
  [s \in {0, 20, 100, 550, 556, 930, 950, 1000} |->
     CASE s = 0 -> 0 [] s = 20 -> 15 [] s = 100 -> 100 [] s = 550 -> 2633 [] s = 556 -> 2696
       [] s = 930 -> 8481 [] s = 950 -> 8900 [] s = 1000 -> 10000]

\* The seeding script measures no other pictures.
ASSUME ConstructedAssumption == Picture = Constructed /\ Linear = Linearised

\* The criteria's numbers (detector.py:14-18, clickhouse_mcp.py), and ingest.py:60.
ASSUME FloorsAssumption ==
  /\ Span = 1000 /\ LumaFloor = 1000 /\ DarkerCeiling = 8000 /\ RedFloor = 2000 /\ AreaFloor = 2500
  /\ LumaThreshold = 1000

Alternating(i, odd, even) == IF i % 2 = 1 THEN odd ELSE even

\* frames_for: the bursts' seconds in a baseline that changes every few frames.
FramesFor(bursts) ==
  [n \in 1..(Seconds * FrameRate + 1) |->
     LET i == n - 1
         second == i \div FrameRate
     IN IF "general" \in bursts /\ second = BurstSecond
        THEN Alternating(i, "burst_dark", "burst_light")
        ELSE IF "red" \in bursts /\ second = RedSecond THEN Alternating(i, "red", "teal")
        ELSE IF "bright" \in bursts /\ second = BrightSecond
        THEN Alternating(i, "bright_low", "bright_high")
        ELSE Alternating(i \div Every, "base_a", "base_b")]

MeasuredRows(bursts) == FramesToTransitions(FramesFor(bursts), 1000 * FrameRate)

\* sql/005: the values of one sample, with the noise at its least.
AuthoredRow(bursts, seq) ==
  LET pts == (seq * 1000) \div FrameRate
      second == pts \div 1000
      red == "red" \in bursts /\ second = RedSecond
      bright == "bright" \in bursts /\ second = BrightSecond
      general == "general" \in bursts /\ second = BurstSecond
      baseline == seq % Every = 0
      pick(whenRed, whenBright, whenGeneral, whenBaseline, otherwise) ==
        CASE red -> whenRed [] bright -> whenBright [] general -> whenGeneral
          [] ~(red \/ bright \/ general) /\ baseline -> whenBaseline
          [] OTHER -> otherwise
  IN [pts |-> pts,
      luma |-> pick(200, 4000, 3400, 1200, 0),
      darker |-> pick(1000, 8600, 300, 800, 800),
      red |-> pick(2400, 0, 500, 200, 0),
      area |-> pick(4800, 6000, 5200, 2800, 0),
      direction |-> IF red \/ bright \/ general \/ baseline
                    THEN Alternating(seq, "down", "up") ELSE "flat"]

AuthoredRows(bursts) == [n \in 1..(Seconds * FrameRate) |-> AuthoredRow(bursts, n - 1)]

RowsOf(measured, bursts) == IF measured THEN MeasuredRows(bursts) ELSE AuthoredRows(bursts)

\* A plain MergeTree keeps every copy of a row.
Repeated(rows, n) == [i \in 1..(n * Len(rows)) |-> rows[((i - 1) % Len(rows)) + 1]]

\* The criteria over the rows of an asset, the rules of which its violations are not its
\* master's (sql/006), and its chart.
Judged == [measured \in BOOLEAN |-> [bursts \in BurstSets |-> [n \in 0..MaxCopies |->
             SqlAll(Repeated(RowsOf(measured, bursts), n))]]]
Isolated ==
  [measured \in BOOLEAN |-> [parent \in BurstSets |-> [child \in BurstSets |->
     [m \in 0..MaxCopies |-> [n \in 0..MaxCopies |->
       LET found == Judged[measured]
       IN {v.rule : v \in SqlIsolated(found[parent][m], found[child][n])}]]]]]
Charted == [measured \in BOOLEAN |-> [bursts \in BurstSets |-> [n \in 0..MaxCopies |->
              LET rows == Repeated(RowsOf(measured, bursts), n)
              IN [rule \in Rules |-> [second \in 0..(Seconds + 1) |->
                    SqlTimeline(rows, rule, second)]]]]]

-----------------------------------------------------------------------------
(* What the generators are for. *)

\* The bursts that the criteria find: a bright one is a decoy.
RulesOf(bursts) == {rule \in Rules : CASE rule = "general_flash" -> "general" \in bursts
                                      [] rule = "red_flash" -> "red" \in bursts}

\* A transition is of the baseline or at the edge of a second.
Quiet(i) == i % Every = 0 \/ i % FrameRate = 0

\* "Baseline changes only every sixth frame, [...] deliberately just under the criterion"
\* (seed_measured_corpus.py:132-134), with the edge of a burst too; but inserted twice it is
\* over it.  A burst lasts a second, and so do the seconds around it that have none.
ASSUME QuietAssumption ==
  /\ 1000 % FrameRate = 0 /\ FrameRate > MaxTransitions + 1 /\ FrameRate > 2
  /\ \A first \in 0..(Seconds * FrameRate) :
       Cardinality({i \in first..(first + FrameRate - 1) : Quiet(i)}) <= MaxTransitions
  /\ LET first == BurstSecond * FrameRate
     IN 2 * Cardinality({i \in first..(first + FrameRate - 1) : i % Every = 0}) > MaxTransitions
  /\ BurstSecond > 0
  /\ \A s, t \in {BurstSecond, RedSecond, BrightSecond} : s # t => Distance(s, t) > 1
=============================================================================

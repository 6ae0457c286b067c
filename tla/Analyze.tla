------------------------------- MODULE Analyze -------------------------------
(***************************************************************************)
(* POST /v1/analyze (safe_frame/main.py, safe_frame/analyze.py): a clip    *)
(* that the browser decoded frame by frame is uploaded, alone or beside    *)
(* its approved master, measured, and judged by SQL over inline rows.      *)
(* Nothing is stored, so one request is all there is to see: a clip grows  *)
(* frame by frame until a request is made of it.                           *)
(***************************************************************************)
EXTENDS Measure

CONSTANTS Rates,     \* frame rates, frames per 1000 s
          Masters,   \* master clips as recorded, less their rate
          NoMaster,  \* the request has none
          MaxClip    \* bound: frames of a recorded clip, below MAX_FRAMES

MinFrames == 2             \* MIN_FRAMES
MinRate == 1000            \* MIN_FRAME_RATE
MaxRate == 240000          \* MAX_FRAME_RATE

Frames == DOMAIN Picture

ASSUME AnalyzeAssumption ==
  /\ Rates \subseteq Nat \ {0}
  /\ Masters \subseteq Seq(Frames) /\ NoMaster \notin Masters /\ MaxClip \in Nat

\* GENERAL_LUMA_FLOOR (detector.py:15) and luma_threshold (ingest.py:60) are both 0.1.
ASSUME FloorAssumption == LumaFloor \in 1..LumaThreshold

VARIABLES rate,   \* of the recorded clip
          clip,   \* the frames of it that the browser has decoded
          answer  \* to the request made of it

vars == <<rate, clip, answer>>

NoAnswer == [status |-> "none"]

Init == rate \in Rates /\ clip = <<>> /\ answer = NoAnswer

\* The player has decoded one more frame.
Decode(frame) ==
  /\ answer = NoAnswer /\ Len(clip) < MaxClip
  /\ clip' = Append(clip, frame)
  /\ UNCHANGED <<rate, answer>>

-----------------------------------------------------------------------------
(* The handler. *)

\* An upload declares its shape: bytes is what arrived, frame_count what was sent.
Upload(frames, count, r) == [bytes |-> frames, frame_count |-> count, frame_rate |-> r]

\* Mutant of Whole: a short buffer is measured as the shorter clip it is.
WholeOrShort(upload) ==
  /\ upload.frame_rate \in MinRate..MaxRate /\ upload.frame_count >= MinFrames
  /\ Len(upload.bytes) <= upload.frame_count

\* measure_clip and decode_frames raise no FrameDecodeError: a rate in range, two
\* frames or more, and exactly as many bytes as declared.
Whole(upload) ==
  /\ upload.frame_rate \in MinRate..MaxRate /\ upload.frame_count >= MinFrames
  /\ Len(upload.bytes) = upload.frame_count

MeasureClip(upload) == FramesToTransitions(upload.bytes, upload.frame_rate)

Failed(status) == [status |-> status]

\* findings: what the rendition introduced, or all there is in it.
FindingsOf(mode, parent, child) ==
  IF mode = "regression" THEN Regressions(DetectAll(parent), DetectAll(child)) ELSE DetectAll(child)

\* verdict_count: the rows of submitted_regressions or of parity_violations.
SqlRows(mode, parent, child) ==
  IF mode = "regression" THEN SqlIsolated(SqlAll(parent), SqlAll(child)) ELSE SqlAll(child)

\* Both clips are measured, then ClickHouse decides; where it is not configured, the
\* local detector does.
Answer(rendition, master, configured, fails) ==
  IF ~Whole(rendition) \/ (master # NoMaster /\ ~Whole(master)) THEN Failed("invalid_frames")
  ELSE LET child == MeasureClip(rendition)
           parent == IF master = NoMaster THEN <<>> ELSE MeasureClip(master)
           mode == IF parent = <<>> THEN "absolute" ELSE "regression"
           findings == FindingsOf(mode, parent, child)
           count == Cardinality(IF configured THEN SqlRows(mode, parent, child) ELSE findings)
       IN IF child = <<>> THEN Failed("no_transitions")
          ELSE IF configured /\ fails THEN Failed("clickhouse_mcp_verdict_failed")
          ELSE [status |-> "ok", mode |-> mode,
                verdict |-> IF count = 0 THEN "pass" ELSE "fail",
                source |-> IF configured THEN "clickhouse_sql_via_official_mcp"
                                         ELSE "local_reference_precheck",
                findings |-> findings, measured |-> Len(child)]

\* A request for the clip, of which the first n frames arrive.
Analyze(n, master, masterRate, configured, fails) ==
  /\ answer = NoAnswer /\ clip # <<>>
  /\ answer' = Answer(Upload(SubSeq(clip, 1, n), Len(clip), rate),
                      IF master = NoMaster THEN NoMaster ELSE Upload(master, Len(master), masterRate),
                      configured, fails)
  /\ UNCHANGED <<rate, clip>>

Next ==
  \/ \E frame \in Frames : Decode(frame)
  \/ \E n \in 0..Len(clip), master \in Masters \cup {NoMaster}, masterRate \in Rates,
        configured, fails \in BOOLEAN : Analyze(n, master, masterRate, configured, fails)

Spec == Init /\ [][Next]_vars

-----------------------------------------------------------------------------
(* Properties. *)

Measured == FramesToTransitions(clip, rate)

\* The types; what is measured is within the bounds of TransitionMetric.
TypeOK ==
  /\ rate \in Rates /\ clip \in Seq(Frames) /\ Len(clip) <= MaxClip
  /\ answer.status \in
       {"none", "ok", "invalid_frames", "no_transitions", "clickhouse_mcp_verdict_failed"}
  /\ \A i \in DOMAIN Measured :
       Measured[i] \in [pts : Nat, luma : Levels, darker : Levels, red : Levels, area : Levels,
                        direction : Directions]

\* "a truncated upload fails loudly instead of being measured as a shorter clip and
\* silently passing" (analyze.py:65-67): a verdict is one on every frame decoded.
WholeClipIsJudged == answer.status = "ok" => answer.measured = Len(clip) - 1

\* The verdict, counted by one implementation of the criteria and of the isolation, is
\* that of the findings it is returned with, which are another's, in both modes
\* (main.py:524-566).
VerdictMatchesFindings ==
  answer.status = "ok" => (answer.verdict = "fail" <=> answer.findings # {})

\* The transitions within a second from t.
Within(t) == {i \in DOMAIN Measured : Measured[i].pts \in t..(t + Span - 1)}
Instants == {Measured[i].pts : i \in DOMAIN Measured}

\* More transitions than allowed, each in one of the two directions, and not all in one.
Opposing(burst, heading) ==
  /\ Cardinality(burst) > MaxTransitions
  /\ {heading[clip[i]][clip[i + 1]] : i \in burst} = {"up", "down"}

LumaHeadings == [f \in Frames |-> [g \in Frames |-> LumaHeading(Picture[f], Picture[g])]]
RedHeadings == [f \in Frames |-> [g \in Frames |-> RedHeading(Picture[f], Picture[g])]]

\* Luminance moves on enough of the screen, on as much of it as red does, and every
\* pixel that moved was under the ceiling in its darker state.
IsLumaFlash(previous, current) ==
  LET changed == Changed(previous, current)
  IN /\ Fraction(changed) >= AreaFloor
     /\ Cardinality(changed) >= Cardinality(RedFlashMask(previous, current))
     /\ \A p \in changed : Darker(previous, current, p) < DarkerCeiling
LumaFlash == [f \in Frames |-> [g \in Frames |-> IsLumaFlash(Picture[f], Picture[g])]]

\* "what lets each floor mean what it says" (ingest.py:16-19): a flash of a part of the
\* screen that meets the area floor is reported, however dark, bright or still the rest
\* of the screen is.
FlashIsReported ==
  \A t \in Instants :
    Opposing({i \in Within(t) : LumaFlash[clip[i]][clip[i + 1]]}, LumaHeadings) =>
      \E v \in Detect(Measured, "general_flash") : v.start < t + Span

\* Red flashes on enough of the screen, and on more of it than luminance moves on.
IsRedFlash(previous, current) ==
  LET red == RedFlashMask(previous, current)
  IN /\ Fraction(red) >= AreaFloor /\ Fraction(red) >= RedFloor
     /\ Cardinality(red) > Cardinality(Changed(previous, current))
RedFlash == [f \in Frames |-> [g \in Frames |-> IsRedFlash(Picture[f], Picture[g])]]

\* An alternation of a saturated red at matched luminance is "the very case the red rule
\* exists to catch" (ingest.py:98-102), even where luminance moves too, on less of the
\* screen.
RedFlashIsReported ==
  \A t \in Instants :
    Opposing({i \in Within(t) : RedFlash[clip[i]][clip[i + 1]]}, RedHeadings) =>
      \E v \in Detect(Measured, "red_flash") : v.start < t + Span

\* "a large swing between two bright images is not a general flash" (models.py:17-18):
\* no clip is reported in which only bright images flash, however dark the rest of the
\* screen is.
IsOnlyBright(previous, current) ==
  \A p \in Changed(previous, current) : Darker(previous, current, p) >= DarkerCeiling
OnlyBright == [f \in Frames |-> [g \in Frames |-> IsOnlyBright(Picture[f], Picture[g])]]
BrightIsNoFlash ==
  (\A i \in DOMAIN Measured : OnlyBright[clip[i]][clip[i + 1]]) => Detect(Measured, "general_flash") = {}

\* Every frame shown twice, at twice the rate.
Doubled == [i \in 1..(2 * Len(clip)) |-> clip[(i + 1) \div 2]]

\* "the index is meaningless across a frame-rate conversion" (ingest.py:65-67): one that
\* changes no picture introduces nothing and hides nothing.
ConversionIsNeutral ==
  Len(clip) > 0 =>
    DetectAll(FramesToTransitions(Doubled, 2 * rate)) = DetectAll(Measured)

\* "'Opposing' for the red rule is opposing in *red*, not in luminance" (ingest.py:98):
\* more red flashes than allowed in a second, in both directions of red, are reported.
RedOpposesInRed ==
  \A t \in Instants :
    LET red(i) == Fraction(RedFlashMask(Picture[clip[i]], Picture[clip[i + 1]]))
    IN Opposing({i \in Within(t) : red(i) >= AreaFloor /\ red(i) >= RedFloor}, RedHeadings) =>
         \E v \in Detect(Measured, "red_flash") : v.start < t + Span
=============================================================================

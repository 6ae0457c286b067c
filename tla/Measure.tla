------------------------------- MODULE Measure -------------------------------
(***************************************************************************)
(* From decoded frames to measured transitions (safe_frame/metrics.py,     *)
(* safe_frame/ingest.py).  A frame is a function from its pixels to their  *)
(* colours; samples are in thousandths, luminance and areas in             *)
(* ten-thousandths, times in milliseconds, rates in frames per 1000 s.     *)
(***************************************************************************)
EXTENDS Criteria

CONSTANTS Pixels,        \* pixels of a frame, height * width
          Linear,        \* _linearise: of a sample, in ten-thousandths
          LumaThreshold, \* luma_threshold
          Picture        \* the frames there are, by name

\* Luminances, areas: ten-thousandths of a whole.
Levels == 0..10000

ASSUME MeasureAssumption ==
  /\ Pixels \in Nat \ {0} /\ LumaThreshold \in Nat
  /\ DOMAIN Linear \subseteq 0..1000 /\ \A s \in DOMAIN Linear : Linear[s] \in Levels
  /\ \A s, t \in DOMAIN Linear : s < t => Linear[s] < Linear[t]

Colours == [r : DOMAIN Linear, g : DOMAIN Linear, b : DOMAIN Linear]

ASSUME PictureAssumption ==
  \A f \in DOMAIN Picture : Picture[f] \in [1..Pixels -> Colours]

Fraction(part) == (Cardinality(part) * 10000) \div Pixels
Mean(values, part) == SumFunctionOnSet(values, part) \div Cardinality(part)

-----------------------------------------------------------------------------
(* The pixel measurements. *)

\* relative_luminance: the weights apply to the linearised samples.
RelativeLuminance(c) ==
  (2126 * Linear[c.r] + 7152 * Linear[c.g] + 722 * Linear[c.b]) \div 10000

\* saturated_red: R / (R + G + B) >= 0.8, and never of black.
SaturatedRed(c) == LET total == c.r + c.g + c.b IN total > 0 /\ 10 * c.r >= 8 * total

\* red_difference: (R - G - B) x 320, of the samples as given.
RedDifference(c) == (c.r - c.g - c.b) * 320

\* red_flash_mask: a saturated red in either state, and a swing of more than 20.
RedFlashMask(previous, current) ==
  {p \in 1..Pixels : /\ SaturatedRed(previous[p]) \/ SaturatedRed(current[p])
                     /\ Distance(RedDifference(previous[p]), RedDifference(current[p])) > 20 * 1000}

\* How far a pixel's luminance moved.
Step(previous, current, p) ==
  Distance(RelativeLuminance(previous[p]), RelativeLuminance(current[p]))

\* changed: where luminance moved by the threshold or more.
Changed(previous, current) ==
  {p \in 1..Pixels : Step(previous, current, p) >= LumaThreshold}

-----------------------------------------------------------------------------
(* One transition. *)

Steps(previous, current) == [p \in 1..Pixels |-> Step(previous, current, p)]

\* Mutant of LumaDelta: the step is averaged over the whole frame.
LumaDeltaOfFrame(previous, current) == Mean(Steps(previous, current), 1..Pixels)

\* Mutant of LumaDelta: the steps are added up.
LumaDeltaSum(previous, current) ==
  SumFunctionOnSet(Steps(previous, current), Changed(previous, current))

\* luma_delta: the step where it happened (_step_and_area).
LumaDelta(previous, current) ==
  LET changed == Changed(previous, current)
  IN IF changed = {} THEN 0 ELSE Mean(Steps(previous, current), changed)

Darker(previous, current, p) ==
  LET a == RelativeLuminance(previous[p])
      b == RelativeLuminance(current[p])
  IN IF a <= b THEN a ELSE b
DarkerStates(previous, current) == [p \in 1..Pixels |-> Darker(previous, current, p)]

\* Mutant of LumaMin: the darker state is averaged over the whole frame.
LumaMinOfFrame(previous, current) == Mean(DarkerStates(previous, current), 1..Pixels)

\* luma_min: the darker of the two states where it changed, or of the frame if nothing did.
LumaMin(previous, current) ==
  LET changed == Changed(previous, current)
  IN Mean(DarkerStates(previous, current), IF changed = {} THEN 1..Pixels ELSE changed)

Heading(sum) == IF sum > 0 THEN "up" ELSE IF sum < 0 THEN "down" ELSE "flat"

\* The luminance step, and the red swing, summed where they happened.
LumaSwing(previous, current) ==
  SumFunctionOnSet(
    [p \in 1..Pixels |-> RelativeLuminance(current[p]) - RelativeLuminance(previous[p])],
    Changed(previous, current))
RedSwing(previous, current) ==
  SumFunctionOnSet([p \in 1..Pixels |-> RedDifference(current[p]) - RedDifference(previous[p])],
                   RedFlashMask(previous, current))

\* The signs of their means.
LumaHeading(previous, current) == Heading(LumaSwing(previous, current))
RedHeading(previous, current) == Heading(RedSwing(previous, current))

\* Mutant of Direction: luminance alone gives the direction.
DirectionOfLuma(previous, current) == LumaHeading(previous, current)

\* dominant: luminance, unless red changed on more of the screen.
Direction(previous, current) ==
  IF Cardinality(Changed(previous, current)) >= Cardinality(RedFlashMask(previous, current))
  THEN LumaHeading(previous, current)
  ELSE RedHeading(previous, current)

\* int(round(index * 1000 / frame_rate)): half to even.
Round(n, d) ==
  LET up == 2 * (n % d) > d \/ (2 * (n % d) = d /\ (n \div d) % 2 = 1)
  IN n \div d + (IF up THEN 1 ELSE 0)

\* Mutant of Pts: 25 frames a second, whatever the clip's rate.
PtsOfIndex(index, rate) == Round(index * 1000000, 25000)

Pts(index, rate) == Round(index * 1000000, rate)

\* What is measured of a transition; its time is its frame's.
Sample(previous, current) ==
  LET red == Fraction(RedFlashMask(previous, current))
  IN [pts |-> 0, luma |-> LumaDelta(previous, current), darker |-> LumaMin(previous, current),
      red |-> red, area |-> Max({Fraction(Changed(previous, current)), red}),
      direction |-> Direction(previous, current)]

Sampled ==
  [f \in DOMAIN Picture |-> [g \in DOMAIN Picture |-> Sample(Picture[f], Picture[g])]]

\* frames_to_transitions: one for each consecutive pair of frames, counted from 0.
FramesToTransitions(frames, rate) ==
  [i \in 1..(Len(frames) - 1) |->
     [Sampled[frames[i]][frames[i + 1]] EXCEPT !.pts = Pts(i, rate)]]
=============================================================================

---------------------------- MODULE AnalyzeProofs ----------------------------
(***************************************************************************)
(* The answers of /v1/analyze, for all pictures of any size, all rates,    *)
(* masters and limits.                                                     *)
(***************************************************************************)
EXTENDS Analyze, CriteriaProofs, FunctionTheorems

-----------------------------------------------------------------------------
(* Findings and rows. *)

\* A clip has finitely many violations.
LEMMA FewViolations ==
  ASSUME NEW rows, IsClip(rows) PROVE IsFiniteSet(DetectAll(rows))
  <1> DEFINE of(rule) == {v \in DetectAll(rows) : v.rule = rule}
  <1>1. ASSUME NEW rule PROVE IsFiniteSet(of(rule))
    <2>1. \A v, w \in of(rule) : v = w
      BY OnePerRule
    <2>2. CASE of(rule) = {}
      BY <2>2, FS_EmptySet
    <2>3. ASSUME NEW v \in of(rule) PROVE IsFiniteSet(of(rule))
      <3>1. of(rule) = {v}
        BY <2>1, <2>3
      <3> QED
        BY <3>1, FS_Singleton
    <2> QED
      BY <2>2, <2>3
  <1>2. DetectAll(rows) = of("general_flash") \cup of("red_flash")
    BY OnePerRule DEF Rules
  <1> HIDE DEF of
  <1> QED
    BY <1>1, <1>2, FS_Union

\* Both modes' findings and rows are the same sets.
LEMMA SameFindings ==
  ASSUME NEW parent, NEW child, IsClip(parent), IsClip(child), NEW mode
  PROVE  /\ SqlRows(mode, parent, child) = FindingsOf(mode, parent, child)
         /\ IsFiniteSet(FindingsOf(mode, parent, child))
  <1>1. Regressions(DetectAll(parent), DetectAll(child)) \subseteq DetectAll(child)
    BY DEF Regressions
  <1>2. IsFiniteSet(FindingsOf(mode, parent, child))
    BY <1>1, FewViolations, FS_Subset DEF FindingsOf
  <1>3. SqlRows(mode, parent, child) = FindingsOf(mode, parent, child)
    BY SameIsolation DEF SqlRows, FindingsOf
  <1> QED
    BY <1>2, <1>3

-----------------------------------------------------------------------------
(* The measurements of one transition. *)

\* The pixels of a frame are finitely many, and so is a part of them.
LEMMA PartType ==
  ASSUME NEW part \in SUBSET (1..Pixels)
  PROVE  /\ IsFiniteSet(part) /\ Cardinality(part) \in Nat /\ Cardinality(part) <= Pixels
         /\ Cardinality(part) = 0 <=> part = {}
         /\ Pixels \in Nat \ {0}
  <1>1. Pixels \in Nat \ {0}
    BY MeasureAssumption
  <1>2. IsFiniteSet(1..Pixels) /\ Cardinality(1..Pixels) = Pixels
    BY <1>1, FS_Interval, 1 \in Int
  <1>3. IsFiniteSet(part) /\ Cardinality(part) <= Pixels
    BY <1>2, FS_Subset
  <1> QED
    BY <1>1, <1>3, FS_CardinalityType, FS_EmptySet

\* A quotient lies between two bounds if the dividend does between their multiples.
LEMMA Quotient ==
  ASSUME NEW s \in Int, NEW n \in Nat \ {0}, NEW lo \in Int, NEW hi \in Int,
         lo * n <= s, s <= hi * n
  PROVE  s \div n \in Int /\ lo <= s \div n /\ s \div n <= hi
  <1> DEFINE q == s \div n
  <1>1. q \in Int /\ n * q <= s /\ s < n * q + n
    OBVIOUS
  <1> HIDE DEF q
  <1>2. lo <= q
    <2> SUFFICES ASSUME q + 1 <= lo PROVE FALSE
      BY <1>1
    <2>1. n * (q + 1) <= n * lo /\ n * (q + 1) = n * q + n /\ n * lo = lo * n
      BY <1>1
    <2> QED
      BY <1>1, <2>1
  <1>3. q <= hi
    <2> SUFFICES ASSUME hi + 1 <= q PROVE FALSE
      BY <1>1
    <2>1. n * (hi + 1) <= n * q /\ n * (hi + 1) = n * hi + n /\ n * hi = hi * n
      BY <1>1
    <2> QED
      BY <1>1, <2>1
  <1> QED
    BY <1>1, <1>2, <1>3 DEF q

\* What a level is.
LEMMA LevelType == ASSUME NEW x \in Levels PROVE x \in Int /\ 0 <= x /\ x <= 10000
  BY DEF Levels
LEMMA TypeLevel == ASSUME NEW x \in Int, 0 <= x, x <= 10000 PROVE x \in Levels
  BY SMTT(30) DEF Levels
LEMMA LevelIs == \A x : x \in Levels <=> x \in Int /\ 0 <= x /\ x <= 10000
  BY LevelType, TypeLevel

\* A part of a frame is no more than all of it.
LEMMA FractionBound ==
  ASSUME NEW part \in SUBSET (1..Pixels) PROVE Fraction(part) \in Levels
  <1> DEFINE n == Cardinality(part)
  <1>1. n \in Nat /\ n <= Pixels /\ Pixels \in Nat \ {0}
    BY PartType
  <1> HIDE DEF n
  <1>2. 0 * Pixels <= n * 10000 /\ n * 10000 <= 10000 * Pixels /\ n * 10000 \in Int
    BY <1>1
  <1>3. (n * 10000) \div Pixels \in Int /\ 0 <= (n * 10000) \div Pixels
        /\ (n * 10000) \div Pixels <= 10000
    BY <1>1, <1>2, Quotient
  <1> QED
    BY <1>3, LevelIs DEF Fraction, n

\* A mean lies between the bounds of what it is of.
LEMMA MeanBounds ==
  ASSUME NEW values, NEW part \in SUBSET (1..Pixels), part # {}, NEW lo \in Int, NEW hi \in Int,
         \A p \in part : values[p] \in Int /\ lo <= values[p] /\ values[p] <= hi
  PROVE  Mean(values, part) \in Int /\ lo <= Mean(values, part) /\ Mean(values, part) <= hi
  <1> DEFINE n == Cardinality(part)
             sum == SumFunctionOnSet(values, part)
  <1>1. n \in Nat \ {0} /\ IsFiniteSet(part)
    BY PartType
  <1>2. sum \in Int /\ lo * n <= sum /\ sum <= hi * n
    BY <1>1, SumBounds
  <1> HIDE DEF n, sum
  <1>3. sum \div n \in Int /\ lo <= sum \div n /\ sum \div n <= hi
    BY <1>1, <1>2, Quotient
  <1> QED
    BY <1>3 DEF Mean, n, sum

LEMMA MeanLevel ==
  ASSUME NEW values, NEW part \in SUBSET (1..Pixels), part # {},
         \A p \in part : values[p] \in Levels
  PROVE  Mean(values, part) \in Levels
  <1> DEFINE top == 10000
             mean == Mean(values, part)
  <1>1. 0 \in Int /\ top \in Int
    OBVIOUS
  <1>2. \A x : x \in Levels <=> x \in Int /\ 0 <= x /\ x <= top
    BY LevelIs
  <1> HIDE DEF top
  <1>3. mean \in Int /\ 0 <= mean /\ mean <= top
    BY <1>1, <1>2, MeanBounds
  <1> QED
    BY <1>2, <1>3

\* The luminance of a colour, and what is made of two frames' at a pixel.
LEMMA LuminanceType ==
  ASSUME NEW previous \in [1..Pixels -> Colours], NEW current \in [1..Pixels -> Colours],
         NEW p \in 1..Pixels
  PROVE  /\ RelativeLuminance(previous[p]) \in Levels
         /\ RelativeLuminance(current[p]) \in Levels
         /\ Step(previous, current, p) \in Levels
         /\ Darker(previous, current, p) \in Levels
  <1>1. ASSUME NEW c \in Colours PROVE RelativeLuminance(c) \in Levels
    <2>1. Linear[c.r] \in Levels /\ Linear[c.g] \in Levels /\ Linear[c.b] \in Levels
      BY MeasureAssumption DEF Colours
    <2> DEFINE r == Linear[c.r]
               g == Linear[c.g]
               b == Linear[c.b]
    <2> HIDE DEF r, g, b
    <2>2. r \in Levels /\ g \in Levels /\ b \in Levels
      BY <2>1 DEF r, g, b
    <2>3. /\ r \in Int /\ 0 <= r /\ r <= 10000 /\ g \in Int /\ 0 <= g /\ g <= 10000
          /\ b \in Int /\ 0 <= b /\ b <= 10000
      BY <2>2, LevelIs
    <2>4. (2126 * r + 7152 * g + 722 * b) \div 10000 \in Levels
      BY <2>3, LevelIs
    <2> QED
      BY <2>4 DEF RelativeLuminance, r, g, b
  <1>2. /\ RelativeLuminance(previous[p]) \in Levels
        /\ RelativeLuminance(current[p]) \in Levels
    BY <1>1
  <1> QED
    BY <1>2, LevelIs DEF Step, Darker, Distance

\* The masks are parts of the frame, and the sum over none of it is none.
LEMMA MaskType ==
  ASSUME NEW previous, NEW current
  PROVE  /\ Changed(previous, current) \in SUBSET (1..Pixels)
         /\ RedFlashMask(previous, current) \in SUBSET (1..Pixels)
  BY DEF Changed, RedFlashMask

LEMMA EmptySum == ASSUME NEW f PROVE SumFunctionOnSet(f, {}) = 0
  <1>1. IsFiniteSet({}) /\ Cardinality({}) = 0
    BY FS_EmptySet
  <1>2. LET sum == SumFunctionOnSet(f, {}) IN sum \in Int /\ 0 * 0 <= sum /\ sum <= 0 * 0
    <2>1. \A x \in {} : f[x] \in Int /\ 0 <= f[x] /\ f[x] <= 0
      OBVIOUS
    <2> QED
      BY <1>1, <2>1, SumBounds
  <1> QED
    BY <1>2

\* The larger of two numbers.
LEMMA LargerOf ==
  ASSUME NEW a \in Int, NEW b \in Int
  PROVE  Max({a, b}) \in {a, b} /\ a <= Max({a, b}) /\ b <= Max({a, b})
  <1>1. \E x \in {a, b} : \A y \in {a, b} : x >= y
    OBVIOUS
  <1> QED
    BY <1>1 DEF Max

\* What is measured of a transition is within the bounds of TransitionMetric.
LEMMA SampleBounds ==
  ASSUME NEW previous \in [1..Pixels -> Colours], NEW current \in [1..Pixels -> Colours]
  PROVE  LET it == Sample(previous, current)
         IN /\ it.luma \in Levels /\ it.darker \in Levels /\ it.red \in Levels
            /\ it.area \in Levels /\ it.direction \in Directions
            /\ Fraction(Changed(previous, current)) <= it.area /\ it.red <= it.area
            /\ it.red = Fraction(RedFlashMask(previous, current))
            /\ it.luma = LumaDelta(previous, current) /\ it.darker = LumaMin(previous, current)
            /\ it.direction = Direction(previous, current)
  <1> DEFINE changed == Changed(previous, current)
             red == RedFlashMask(previous, current)
             steps == Steps(previous, current)
             darker == DarkerStates(previous, current)
  <1>1. changed \in SUBSET (1..Pixels) /\ red \in SUBSET (1..Pixels)
    BY MaskType
  <1>2. \A p \in 1..Pixels : steps[p] \in Levels /\ darker[p] \in Levels
    BY LuminanceType DEF Steps, DarkerStates
  <1> HIDE DEF changed, red, steps, darker
  <1>3. LumaDelta(previous, current) \in Levels
    <2>1. CASE changed = {}
      BY <2>1, LevelIs DEF LumaDelta, changed
    <2>2. CASE changed # {}
      <3>1. \A p \in changed : steps[p] \in Levels
        BY <1>1, <1>2
      <3>2. Mean(steps, changed) \in Levels
        BY <1>1, <2>2, <3>1, MeanLevel
      <3> QED
        BY <2>2, <3>2 DEF LumaDelta, changed, steps
    <2> QED
      BY <2>1, <2>2
  <1>4. LumaMin(previous, current) \in Levels
    <2> DEFINE part == IF changed = {} THEN 1..Pixels ELSE changed
    <2>1. part \in SUBSET (1..Pixels) /\ part # {}
      <3>1. 1 \in 1..Pixels
        BY MeasureAssumption
      <3> QED
        BY <1>1, <3>1
    <2> HIDE DEF part
    <2>2. \A p \in part : darker[p] \in Levels
      BY <1>2, <2>1
    <2>3. Mean(darker, part) \in Levels
      BY <2>1, <2>2, MeanLevel
    <2> QED
      BY <2>3 DEF LumaMin, part, changed, darker
  <1>5. Fraction(changed) \in Levels /\ Fraction(red) \in Levels
    BY <1>1, FractionBound
  <1>6. /\ Max({Fraction(changed), Fraction(red)}) \in Levels
        /\ Fraction(changed) <= Max({Fraction(changed), Fraction(red)})
        /\ Fraction(red) <= Max({Fraction(changed), Fraction(red)})
    <2>1. Fraction(changed) \in Int /\ Fraction(red) \in Int
      BY <1>5, LevelIs
    <2> QED
      BY <1>5, <2>1, LargerOf
  <1>7. Direction(previous, current) \in Directions
    BY DEF Direction, LumaHeading, RedHeading, Heading, Directions
  <1>8. Sample(previous, current)
          = [pts |-> 0, luma |-> LumaDelta(previous, current), darker |-> LumaMin(previous, current),
             red |-> Fraction(red), area |-> Max({Fraction(changed), Fraction(red)}),
             direction |-> Direction(previous, current)]
    BY DEF Sample, changed, red
  <1> QED
    BY <1>3, <1>4, <1>5, <1>6, <1>7, <1>8 DEF red, changed

-----------------------------------------------------------------------------
(* The transitions of a clip. *)

\* Each is what is measured of two consecutive frames, at its frame's time.
LEMMA Transitions ==
  ASSUME NEW frames \in Seq(Frames), NEW r \in Nat \ {0}, Len(frames) >= 1
  PROVE  LET rows == FramesToTransitions(frames, r)
         IN /\ IsClip(rows) /\ Len(rows) = Len(frames) - 1 /\ DOMAIN rows = 1..(Len(frames) - 1)
            /\ \A i \in DOMAIN rows :
                 /\ frames[i] \in Frames /\ frames[i + 1] \in Frames
                 /\ rows[i] = [Sample(Picture[frames[i]], Picture[frames[i + 1]])
                                 EXCEPT !.pts = Pts(i, r)]
                 /\ Pts(i, r) \in Nat
  <1> DEFINE rows == FramesToTransitions(frames, r)
             n == Len(frames) - 1
  <1>1. IsClip(rows) /\ Len(rows) = n
    BY MeasuredIsClip DEF Frames
  <1>2. n \in Nat
    OBVIOUS
  <1>3. DOMAIN rows = 1..n
    BY DEF FramesToTransitions
  <1>4. ASSUME NEW i \in 1..n
        PROVE  /\ frames[i] \in Frames /\ frames[i + 1] \in Frames
               /\ rows[i] = [Sample(Picture[frames[i]], Picture[frames[i + 1]])
                               EXCEPT !.pts = Pts(i, r)]
               /\ Pts(i, r) \in Nat
    <2>1. frames[i] \in Frames /\ frames[i + 1] \in Frames
      BY <1>2
    <2>2. rows[i] = [Sampled[frames[i]][frames[i + 1]] EXCEPT !.pts = Pts(i, r)]
      BY DEF FramesToTransitions
    <2>3. Sampled[frames[i]][frames[i + 1]] = Sample(Picture[frames[i]], Picture[frames[i + 1]])
      BY <2>1 DEF Sampled, Frames
    <2>4. i \in Nat
      <3> HIDE DEF n
      <3> QED
        BY <1>2
    <2> QED
      BY <2>1, <2>2, <2>3, <2>4, PtsType
  <1> HIDE DEF rows, n
  <1>5. IsClip(rows) /\ Len(rows) = n /\ DOMAIN rows = 1..n
    BY <1>1, <1>3
  <1> QED
    BY <1>4, <1>5 DEF rows, n

-----------------------------------------------------------------------------
(* The flashes. *)

\* A clip as the browser decodes it.
IsRecorded == clip \in Seq(Frames) /\ rate \in Nat \ {0}

\* A transition of the recorded clip, and what is measured of its two frames.
LEMMA MeasuredIs ==
  ASSUME IsRecorded, NEW i \in DOMAIN Measured
  PROVE  LET it == Sample(Picture[clip[i]], Picture[clip[i + 1]])
         IN /\ IsClip(Measured) /\ clip[i] \in Frames /\ clip[i + 1] \in Frames
            /\ Picture[clip[i]] \in [1..Pixels -> Colours]
            /\ Picture[clip[i + 1]] \in [1..Pixels -> Colours]
            /\ Measured[i].pts \in Nat
            /\ Measured[i] = [it EXCEPT !.pts = Measured[i].pts]
            /\ Measured[i].luma = it.luma /\ Measured[i].darker = it.darker
            /\ Measured[i].red = it.red /\ Measured[i].area = it.area
            /\ Measured[i].direction = it.direction
  <1>1. Len(clip) \in Nat /\ DOMAIN Measured = 1..(Len(clip) - 1)
    BY DEF IsRecorded, Measured, FramesToTransitions
  <1>2. Len(clip) >= 1
    <2> DEFINE n == Len(clip)
    <2>1. n \in Nat /\ i \in 1..(n - 1)
      BY <1>1
    <2> HIDE DEF n
    <2>2. n >= 1
      BY <2>1
    <2> QED
      BY <2>2 DEF n
  <1>3. /\ IsClip(Measured) /\ clip[i] \in Frames /\ clip[i + 1] \in Frames
        /\ Measured[i] = [Sample(Picture[clip[i]], Picture[clip[i + 1]]) EXCEPT !.pts = Pts(i, rate)]
        /\ Pts(i, rate) \in Nat
    BY <1>2, Transitions DEF IsRecorded, Measured
  <1>4. /\ Measured[i].pts = Pts(i, rate)
        /\ \A field \in {"luma", "darker", "red", "area", "direction"} :
             Measured[i][field] = Sample(Picture[clip[i]], Picture[clip[i + 1]])[field]
    BY <1>3 DEF Sample
  <1>5. /\ Picture[clip[i]] \in [1..Pixels -> Colours]
        /\ Picture[clip[i + 1]] \in [1..Pixels -> Colours]
    BY <1>3, PictureAssumption DEF Frames
  <1> QED
    BY <1>3, <1>4, <1>5

\* Transitions within a second that count and oppose, more than allowed, are reported.
LEMMA OpposingIsReported ==
  ASSUME IsRecorded, NEW rule \in Rules, NEW t \in Instants, NEW B \in SUBSET Within(t),
         NEW heading, Opposing(B, heading),
         \A i \in B : /\ Qualifies(Measured[i], rule)
                      /\ Measured[i].direction = heading[clip[i]][clip[i + 1]]
  PROVE  \E v \in Detect(Measured, rule) : v.start < t + Span
  <1>1. B \subseteq DOMAIN Measured /\ \A i \in B : Measured[i].pts \in t..(t + Span - 1)
    BY DEF Within
  <1>2. PICK i \in DOMAIN Measured : t = Measured[i].pts
    BY DEF Instants
  <1>3. t \in Nat /\ IsClip(Measured)
    BY <1>2, MeasuredIs
  <1>4. B \in SUBSET Qualified(Measured, rule)
    BY <1>1 DEF Qualified
  <1>5. Exceeds(Measured, B)
    BY DEF Exceeds, Opposing
  <1> QED
    BY <1>1, <1>3, <1>4, <1>5, BurstIsDetected

\* A flash of luminance on enough of the screen counts, in its own direction: each pixel
\* that moved did so by the threshold, which is no lower than the floor.
LEMMA LumaFlashCounts ==
  ASSUME NEW previous \in [1..Pixels -> Colours], NEW current \in [1..Pixels -> Colours],
         IsLumaFlash(previous, current), LumaHeading(previous, current) # "flat"
  PROVE  LET it == Sample(previous, current)
         IN /\ it.area >= AreaFloor /\ it.direction = LumaHeading(previous, current)
            /\ it.luma >= LumaFloor /\ it.darker < DarkerCeiling
  <1> DEFINE changed == Changed(previous, current)
             steps == Steps(previous, current)
             darker == DarkerStates(previous, current)
             it == Sample(previous, current)
  <1>1. /\ it.luma = LumaDelta(previous, current) /\ it.darker = LumaMin(previous, current)
        /\ it.direction = Direction(previous, current)
        /\ it.area \in Int /\ Fraction(changed) \in Int /\ Fraction(changed) <= it.area
    <2>1. it.area \in Levels /\ Fraction(changed) <= it.area
      BY SampleBounds
    <2>2. Fraction(changed) \in Levels
      BY MaskType, FractionBound
    <2> QED
      BY <2>1, <2>2, SampleBounds, LevelIs
  <1>2. changed \in SUBSET (1..Pixels)
    BY MaskType
  <1>3. changed # {}
    <2> SUFFICES ASSUME changed = {} PROVE LumaHeading(previous, current) = "flat"
      OBVIOUS
    <2>1. LumaSwing(previous, current) = 0
      BY EmptySum DEF LumaSwing
    <2> QED
      BY <2>1 DEF LumaHeading, Heading
  <1>4. Fraction(changed) >= AreaFloor /\ Cardinality(changed) >= Cardinality(RedFlashMask(previous, current))
        /\ \A p \in changed : Darker(previous, current, p) < DarkerCeiling
    BY DEF IsLumaFlash
  <1>5. it.direction = LumaHeading(previous, current)
    BY <1>1, <1>4 DEF Direction
  <1>6. \A p \in changed : /\ steps[p] \in Int /\ LumaThreshold <= steps[p] /\ steps[p] <= 10000
                           /\ darker[p] \in Int /\ 0 <= darker[p] /\ darker[p] <= DarkerCeiling - 1
    <2> TAKE p \in changed
    <2>1. p \in 1..Pixels /\ Step(previous, current, p) >= LumaThreshold
      BY DEF Changed
    <2>2. Step(previous, current, p) \in Levels /\ Darker(previous, current, p) \in Levels
      BY <2>1, LuminanceType
    <2>3. steps[p] = Step(previous, current, p) /\ darker[p] = Darker(previous, current, p)
      BY <2>1 DEF Steps, DarkerStates
    <2>4. Darker(previous, current, p) < DarkerCeiling
      BY <1>4
    <2> HIDE DEF steps, darker, changed
    <2> QED
      BY <2>1, <2>2, <2>3, <2>4, LevelIs, CriteriaAssumption
  <1> HIDE DEF steps, darker, changed, it
  <1>7. Mean(steps, changed) \in Int /\ LumaThreshold <= Mean(steps, changed)
    <2> DEFINE top == 10000
    <2>1. top \in Int /\ LumaThreshold \in Int
      BY FloorAssumption, CriteriaAssumption, MeasureAssumption
    <2>2. \A p \in changed : steps[p] \in Int /\ LumaThreshold <= steps[p] /\ steps[p] <= top
      BY <1>6
    <2> HIDE DEF top
    <2> QED
      BY <1>2, <1>3, <2>1, <2>2, MeanBounds
  <1>8. Mean(darker, changed) \in Int /\ Mean(darker, changed) <= DarkerCeiling - 1
    <2> DEFINE top == DarkerCeiling - 1
    <2>1. top \in Int /\ 0 \in Int
      BY CriteriaAssumption
    <2>2. \A p \in changed : darker[p] \in Int /\ 0 <= darker[p] /\ darker[p] <= top
      BY <1>6
    <2> HIDE DEF top
    <2>3. Mean(darker, changed) \in Int /\ Mean(darker, changed) <= top
      BY <1>2, <1>3, <2>1, <2>2, MeanBounds
    <2> QED
      BY <2>3 DEF top
  <1>9. it.luma = Mean(steps, changed)
    BY <1>1, <1>3 DEF LumaDelta, steps, changed
  <1>10. it.darker = Mean(darker, changed)
    BY <1>1, <1>3 DEF LumaMin, darker, changed
  <1>11. it.luma >= LumaFloor
    BY <1>7, <1>9, FloorAssumption, CriteriaAssumption, MeasureAssumption
  <1>12. it.darker < DarkerCeiling
    BY <1>8, <1>10, CriteriaAssumption
  <1>13. it.area >= AreaFloor
    BY <1>1, <1>4, CriteriaAssumption
  <1> QED
    BY <1>5, <1>11, <1>12, <1>13 DEF it

\* A flash of red on more of the screen than luminance moves on counts, in its own direction.
LEMMA RedFlashCounts ==
  ASSUME NEW previous \in [1..Pixels -> Colours], NEW current \in [1..Pixels -> Colours],
         IsRedFlash(previous, current)
  PROVE  LET it == Sample(previous, current)
         IN /\ it.area >= AreaFloor /\ it.red >= RedFloor
            /\ it.direction = RedHeading(previous, current)
  <1> DEFINE changed == Changed(previous, current)
             red == RedFlashMask(previous, current)
             it == Sample(previous, current)
  <1>1. it.area \in Levels /\ it.red \in Levels /\ it.red <= it.area /\ it.red = Fraction(red)
        /\ it.direction = Direction(previous, current)
    BY SampleBounds
  <1>2. Fraction(red) >= AreaFloor /\ Fraction(red) >= RedFloor /\ Cardinality(red) > Cardinality(changed)
    BY DEF IsRedFlash
  <1>3. Cardinality(red) \in Nat /\ Cardinality(changed) \in Nat
    BY MaskType, PartType
  <1> HIDE DEF it, red, changed
  <1>4. ~(Cardinality(changed) >= Cardinality(red))
    BY <1>2, <1>3
  <1>5. it.direction = RedHeading(previous, current)
    BY <1>1, <1>4 DEF Direction, red, changed
  <1>6. it.area >= AreaFloor /\ it.red >= RedFloor
    BY <1>1, <1>2, LevelIs, CriteriaAssumption
  <1> QED
    BY <1>5, <1>6 DEF it

\* A change between two bright states, however dark the rest of the frame is, does not.
LEMMA OnlyBrightCountsNot ==
  ASSUME NEW previous \in [1..Pixels -> Colours], NEW current \in [1..Pixels -> Colours],
         IsOnlyBright(previous, current)
  PROVE  LET it == Sample(previous, current)
         IN ~(it.luma >= LumaFloor /\ it.darker < DarkerCeiling)
  <1> DEFINE changed == Changed(previous, current)
             darker == DarkerStates(previous, current)
             it == Sample(previous, current)
  <1>1. it.luma = LumaDelta(previous, current) /\ it.darker = LumaMin(previous, current)
    BY SampleBounds
  <1>2. changed \in SUBSET (1..Pixels)
    BY MaskType
  <1>3. CASE changed = {}
    <2>1. it.luma = 0
      BY <1>1, <1>3 DEF LumaDelta
    <2> HIDE DEF it
    <2>2. ~(it.luma >= LumaFloor)
      BY <2>1, FloorAssumption, MeasureAssumption
    <2> QED
      BY <2>2 DEF it
  <1>4. CASE changed # {}
    <2>1. \A p \in changed : /\ darker[p] \in Levels /\ DarkerCeiling <= darker[p]
      <3> TAKE p \in changed
      <3>1. p \in 1..Pixels /\ Darker(previous, current, p) >= DarkerCeiling
        BY <1>2 DEF IsOnlyBright
      <3>2. Darker(previous, current, p) \in Levels /\ darker[p] = Darker(previous, current, p)
        BY <3>1, LuminanceType DEF DarkerStates
      <3> HIDE DEF darker
      <3> QED
        BY <3>1, <3>2, LevelIs, CriteriaAssumption
    <2>2. it.darker = Mean(darker, changed)
      BY <1>1, <1>4 DEF LumaMin
    <2> HIDE DEF darker, changed, it
    <2>3. DarkerCeiling <= Mean(darker, changed) /\ Mean(darker, changed) \in Int
      <3> DEFINE top == 10000
      <3>1. top \in Int /\ DarkerCeiling \in Int
        BY CriteriaAssumption
      <3>2. \A p \in changed : darker[p] \in Int /\ DarkerCeiling <= darker[p] /\ darker[p] <= top
        BY <2>1, LevelIs
      <3> HIDE DEF top
      <3> QED
        BY <1>2, <1>4, <3>1, <3>2, MeanBounds
    <2>4. ~(it.darker < DarkerCeiling)
      BY <2>2, <2>3, CriteriaAssumption
    <2> QED
      BY <2>4 DEF it
  <1> QED
    BY <1>3, <1>4

\* The three properties, of a recorded clip.
LEMMA FlashesAreReported == ASSUME IsRecorded PROVE FlashIsReported /\ RedFlashIsReported
  <1>1. ASSUME NEW t \in Instants,
               Opposing({i \in Within(t) : LumaFlash[clip[i]][clip[i + 1]]}, LumaHeadings)
        PROVE  \E v \in Detect(Measured, "general_flash") : v.start < t + Span
    <2> DEFINE B == {i \in Within(t) : LumaFlash[clip[i]][clip[i + 1]]}
    <2>1. \A i \in B : LumaHeadings[clip[i]][clip[i + 1]] \in {"up", "down"}
      BY <1>1 DEF Opposing
    <2>2. ASSUME NEW i \in B
          PROVE  /\ Qualifies(Measured[i], "general_flash")
                 /\ Measured[i].direction = LumaHeadings[clip[i]][clip[i + 1]]
      <3>1. i \in DOMAIN Measured
        BY DEF Within
      <3> DEFINE previous == Picture[clip[i]]
                 current == Picture[clip[i + 1]]
                 it == Sample(previous, current)
      <3>2. /\ clip[i] \in Frames /\ clip[i + 1] \in Frames
            /\ previous \in [1..Pixels -> Colours] /\ current \in [1..Pixels -> Colours]
            /\ Measured[i].luma = it.luma /\ Measured[i].darker = it.darker
            /\ Measured[i].area = it.area /\ Measured[i].direction = it.direction
        BY <3>1, MeasuredIs
      <3>3. /\ LumaHeadings[clip[i]][clip[i + 1]] = LumaHeading(previous, current)
            /\ IsLumaFlash(previous, current)
        BY <3>2 DEF LumaHeadings, LumaFlash
      <3>4. LumaHeading(previous, current) \in {"up", "down"}
        BY <2>1, <3>3
      <3> HIDE DEF previous, current, it
      <3>5. /\ it.area >= AreaFloor /\ it.direction = LumaHeading(previous, current)
            /\ it.luma >= LumaFloor /\ it.darker < DarkerCeiling
        BY <3>2, <3>3, <3>4, LumaFlashCounts DEF it
      <3> QED
        BY <3>2, <3>3, <3>4, <3>5 DEF Qualifies
    <2>3. B \in SUBSET Within(t) /\ Opposing(B, LumaHeadings) /\ "general_flash" \in Rules
      BY <1>1 DEF Rules
    <2> HIDE DEF B
    <2> QED
      BY <2>2, <2>3, OpposingIsReported
  <1>2. ASSUME NEW t \in Instants,
               Opposing({i \in Within(t) : RedFlash[clip[i]][clip[i + 1]]}, RedHeadings)
        PROVE  \E v \in Detect(Measured, "red_flash") : v.start < t + Span
    <2> DEFINE B == {i \in Within(t) : RedFlash[clip[i]][clip[i + 1]]}
    <2>1. \A i \in B : RedHeadings[clip[i]][clip[i + 1]] \in {"up", "down"}
      BY <1>2 DEF Opposing
    <2>2. ASSUME NEW i \in B
          PROVE  /\ Qualifies(Measured[i], "red_flash")
                 /\ Measured[i].direction = RedHeadings[clip[i]][clip[i + 1]]
      <3>1. i \in DOMAIN Measured
        BY DEF Within
      <3> DEFINE previous == Picture[clip[i]]
                 current == Picture[clip[i + 1]]
                 it == Sample(previous, current)
      <3>2. /\ clip[i] \in Frames /\ clip[i + 1] \in Frames
            /\ previous \in [1..Pixels -> Colours] /\ current \in [1..Pixels -> Colours]
            /\ Measured[i].red = it.red
            /\ Measured[i].area = it.area /\ Measured[i].direction = it.direction
        BY <3>1, MeasuredIs
      <3>3. /\ RedHeadings[clip[i]][clip[i + 1]] = RedHeading(previous, current)
            /\ IsRedFlash(previous, current)
        BY <3>2 DEF RedHeadings, RedFlash
      <3>4. RedHeading(previous, current) \in {"up", "down"}
        BY <2>1, <3>3
      <3> HIDE DEF previous, current, it
      <3>5. /\ it.area >= AreaFloor /\ it.red >= RedFloor
            /\ it.direction = RedHeading(previous, current)
        BY <3>2, <3>3, RedFlashCounts DEF it
      <3> QED
        BY <3>2, <3>3, <3>4, <3>5 DEF Qualifies
    <2>3. B \in SUBSET Within(t) /\ Opposing(B, RedHeadings) /\ "red_flash" \in Rules
      BY <1>2 DEF Rules
    <2> HIDE DEF B
    <2> QED
      BY <2>2, <2>3, OpposingIsReported
  <1> QED
    BY <1>1, <1>2 DEF FlashIsReported, RedFlashIsReported

LEMMA BrightIsNot == ASSUME IsRecorded PROVE BrightIsNoFlash
  <1> SUFFICES ASSUME \A i \in DOMAIN Measured : OnlyBright[clip[i]][clip[i + 1]]
               PROVE  Detect(Measured, "general_flash") = {}
    BY DEF BrightIsNoFlash
  <1>1. ASSUME NEW i \in DOMAIN Measured PROVE ~Qualifies(Measured[i], "general_flash")
    <2> DEFINE previous == Picture[clip[i]]
               current == Picture[clip[i + 1]]
               it == Sample(previous, current)
    <2>1. /\ clip[i] \in Frames /\ clip[i + 1] \in Frames
          /\ previous \in [1..Pixels -> Colours] /\ current \in [1..Pixels -> Colours]
          /\ Measured[i].luma = it.luma /\ Measured[i].darker = it.darker
      BY MeasuredIs
    <2>2. IsOnlyBright(previous, current)
      BY <2>1 DEF OnlyBright
    <2> HIDE DEF previous, current, it
    <2>3. ~(it.luma >= LumaFloor /\ it.darker < DarkerCeiling)
      BY <2>1, <2>2, OnlyBrightCountsNot DEF it
    <2> QED
      BY <2>1, <2>3 DEF Qualifies
  <1>2. Qualified(Measured, "general_flash") = {}
    BY <1>1 DEF Qualified
  <1> QED
    BY <1>2 DEF Detect

-----------------------------------------------------------------------------
(* A conversion of the frame rate. *)

\* Rows with those of a clip among them, in their order, and otherwise flat.
IsStretch(to, rows, more) ==
  /\ IsClip(rows) /\ IsClip(more) /\ to \in [DOMAIN rows -> DOMAIN more]
  /\ \A i, j \in DOMAIN rows : i < j <=> to[i] < to[j]
  /\ \A i \in DOMAIN rows : more[to[i]] = rows[i]
  /\ \A k \in DOMAIN more : more[k].direction = "flat" \/ \E i \in DOMAIN rows : k = to[i]

ImageOf(to, S) == {to[i] : i \in S}

\* As many rows are found at the places they went to.
LEMMA ImageSize ==
  ASSUME NEW to, NEW rows, NEW more, IsStretch(to, rows, more), NEW S \in SUBSET DOMAIN rows
  PROVE  Cardinality(ImageOf(to, S)) = Cardinality(S)
  <1> DEFINE f == [i \in S |-> to[i]]
  <1>1. IsFiniteSet(S) /\ \A i \in DOMAIN rows : i \in Int
    <2>1. Len(rows) \in Nat /\ DOMAIN rows = 1..Len(rows)
      BY DEF IsStretch, IsClip
    <2>2. IsFiniteSet(1..Len(rows))
      BY <2>1, FS_Interval, 1 \in Int
    <2> QED
      BY <2>1, <2>2, FS_Subset
  <1>2. ASSUME NEW i \in S, NEW j \in S, to[i] = to[j] PROVE i = j
    <2>1. ~(to[i] < to[j]) /\ ~(to[j] < to[i])
      <3>1. to[i] \in Int
        BY DEF IsStretch, IsClip
      <3> QED
        BY <1>2, <3>1
    <2>2. ~(i < j) /\ ~(j < i)
      BY <2>1 DEF IsStretch
    <2> QED
      BY <1>1, <2>2
  <1>3. f \in [S -> ImageOf(to, S)] /\ \A k \in ImageOf(to, S) : \E i \in S : f[i] = k
    BY DEF ImageOf
  <1>4. \A i, j \in S : f[i] = f[j] => i = j
    BY <1>2
  <1> HIDE DEF f
  <1>5. f \in Bijection(S, ImageOf(to, S))
    BY <1>3, <1>4, Fun_IsBij
  <1> QED
    BY <1>1, <1>5, FS_Bijection DEF ExistsBijection

\* The same rows count, each with the same window, and the same is reported.
LEMMA StretchedQualify ==
  ASSUME NEW to, NEW rows, NEW more, IsStretch(to, rows, more), NEW rule
  PROVE  Qualified(more, rule) = ImageOf(to, Qualified(rows, rule))
  <1>1. ASSUME NEW k \in Qualified(more, rule) PROVE k \in ImageOf(to, Qualified(rows, rule))
    <2>1. more[k].direction # "flat" /\ k \in DOMAIN more
      BY DEF Qualified, Qualifies
    <2>2. PICK i \in DOMAIN rows : k = to[i]
      BY <2>1 DEF IsStretch
    <2>3. rows[i] = more[k] /\ Qualifies(more[k], rule)
      BY <2>2 DEF IsStretch, Qualified
    <2> QED
      BY <2>2, <2>3 DEF Qualified, ImageOf
  <1>2. ASSUME NEW i \in Qualified(rows, rule) PROVE to[i] \in Qualified(more, rule)
    BY DEF IsStretch, Qualified
  <1> QED
    BY <1>1, <1>2 DEF ImageOf

LEMMA StretchedOrder ==
  ASSUME NEW to, NEW rows, NEW more, IsStretch(to, rows, more),
         NEW i \in DOMAIN rows, NEW j \in DOMAIN rows
  PROVE  Before(more, to[i], to[j]) <=> Before(rows, i, j)
  BY DEF IsStretch, Before

LEMMA StretchedWindow ==
  ASSUME NEW to, NEW rows, NEW more, IsStretch(to, rows, more), NEW rule,
         NEW i \in Qualified(rows, rule)
  PROVE  /\ WindowFrom(more, rule, to[i]) = ImageOf(to, WindowFrom(rows, rule, i))
         /\ Exceeds(more, WindowFrom(more, rule, to[i])) <=> Exceeds(rows, WindowFrom(rows, rule, i))
         /\ ViolationAt(more, rule, to[i]) = ViolationAt(rows, rule, i)
  <1> DEFINE narrow == WindowFrom(rows, rule, i)
             wide == WindowFrom(more, rule, to[i])
  <1>1. Qualified(rows, rule) \subseteq DOMAIN rows
    BY DEF Qualified
  <1>2. narrow \in SUBSET DOMAIN rows
    BY <1>1 DEF WindowFrom
  <1>3. \A j \in DOMAIN rows : more[to[j]] = rows[j]
    BY DEF IsStretch
  <1>4. wide = ImageOf(to, narrow)
    <2>1. ASSUME NEW j \in Qualified(rows, rule)
          PROVE  to[j] \in wide <=> j \in narrow
      <3>1. to[j] \in Qualified(more, rule)
        BY StretchedQualify DEF ImageOf
      <3>2. more[to[j]] = rows[j] /\ more[to[i]] = rows[i]
        BY <1>1, <1>3
      <3>3. Before(more, to[j], to[i]) <=> Before(rows, j, i)
        BY <1>1, StretchedOrder
      <3> QED
        BY <3>1, <3>2, <3>3 DEF WindowFrom
    <2>2. wide \subseteq ImageOf(to, Qualified(rows, rule)) /\ narrow \subseteq Qualified(rows, rule)
      BY StretchedQualify DEF WindowFrom
    <2> HIDE DEF wide, narrow
    <2> QED
      BY <2>1, <2>2 DEF ImageOf
  <1> HIDE DEF wide, narrow
  <1>5. Cardinality(wide) = Cardinality(narrow)
    BY <1>2, <1>4, ImageSize
  <1>6. /\ {more[k].direction : k \in wide} = {rows[j].direction : j \in narrow}
        /\ {more[k].area : k \in wide} = {rows[j].area : j \in narrow}
    BY <1>2, <1>3, <1>4 DEF ImageOf
  <1>7. Exceeds(more, wide) <=> Exceeds(rows, narrow)
    BY <1>5, <1>6 DEF Exceeds
  <1>8. more[to[i]].pts = rows[i].pts
    BY <1>1, <1>3
  <1>9. ViolationAt(more, rule, to[i]) = ViolationAt(rows, rule, i)
    BY <1>5, <1>6, <1>8 DEF ViolationAt, wide, narrow
  <1> QED
    BY <1>4, <1>7, <1>9 DEF wide, narrow

LEMMA StretchedDetect ==
  ASSUME NEW to, NEW rows, NEW more, IsStretch(to, rows, more)
  PROVE  DetectAll(more) = DetectAll(rows)
  <1>1. ASSUME NEW rule PROVE Detect(more, rule) = Detect(rows, rule)
    <2> DEFINE over == Over(rows, rule)
               overMore == Over(more, rule)
               first == {k \in over : \A j \in over : ~Before(rows, j, k)}
               firstMore == {k \in overMore : \A j \in overMore : ~Before(more, j, k)}
    <2>1. over \in SUBSET Qualified(rows, rule) /\ over \in SUBSET DOMAIN rows
      BY DEF Over, Qualified
    <2>2. overMore = ImageOf(to, over)
      <3>1. Qualified(more, rule) = ImageOf(to, Qualified(rows, rule))
        BY StretchedQualify
      <3>2. \A i \in Qualified(rows, rule) :
              Exceeds(more, WindowFrom(more, rule, to[i])) <=> Exceeds(rows, WindowFrom(rows, rule, i))
        BY StretchedWindow
      <3> QED
        BY <3>1, <3>2 DEF Over, ImageOf
    <2> HIDE DEF over, overMore
    <2>3. \A i, j \in over : Before(more, to[i], to[j]) <=> Before(rows, i, j)
      BY <2>1, StretchedOrder
    <2>4. firstMore = ImageOf(to, first)
      BY <2>2, <2>3 DEF ImageOf
    <2>5. first \subseteq over
      OBVIOUS
    <2>6. Detect(rows, rule) = {ViolationAt(rows, rule, k) : k \in first}
      BY DEF Detect, Over, over
    <2>7. Detect(more, rule) = {ViolationAt(more, rule, k) : k \in firstMore}
      BY DEF Detect, Over, overMore
    <2> HIDE DEF first, firstMore
    <2>8. \A k \in first : ViolationAt(more, rule, to[k]) = ViolationAt(rows, rule, k)
      BY <2>1, <2>5, StretchedWindow
    <2> QED
      BY <2>4, <2>6, <2>7, <2>8 DEF ImageOf
  <1> QED
    BY <1>1 DEF DetectAll

\* Twice the numerator and twice the denominator round to the same.
LEMMA RoundOfDouble ==
  ASSUME NEW n \in Nat, NEW d \in Nat \ {0} PROVE Round(2 * n, 2 * d) = Round(n, d)
  <1> DEFINE q == n \div d
             m == n % d
             e == 2 * d
  <1>1. q \in Nat /\ m \in Nat /\ m < d /\ n = d * q + m
    OBVIOUS
  <1> HIDE DEF q, m
  <1>2. e \in Nat \ {0} /\ 2 * m \in Nat /\ 2 * m < e
    BY <1>1
  <1>3. 2 * n = e * q + 2 * m
    <2>1. d * q \in Nat /\ 2 * n = 2 * (d * q) + 2 * m
      BY <1>1
    <2>2. e * q = 2 * (d * q)
      BY <1>1
    <2> QED
      BY <2>1, <2>2
  <1> HIDE DEF e
  <1>4. ASSUME NEW x \in Nat, NEW b \in Nat \ {0}, NEW a \in Nat, NEW r \in Nat, r < b,
               x = b * a + r
        PROVE  x \div b = a /\ x % b = r
    <2> DEFINE a2 == x \div b
               r2 == x % b
    <2>1. a2 \in Nat /\ r2 \in Nat /\ r2 < b /\ x = b * a2 + r2
      OBVIOUS
    <2> HIDE DEF a2, r2
    <2>2. a2 = a
      <3>1. CASE a + 1 <= a2
        <4>1. b * (a + 1) <= b * a2 /\ b * (a + 1) = b * a + b
          BY <2>1, <3>1
        <4>2. b * a \in Nat /\ b * a2 \in Nat
          BY <2>1
        <4> QED
          BY <1>4, <2>1, <4>1, <4>2
      <3>2. CASE a2 + 1 <= a
        <4>1. b * (a2 + 1) <= b * a /\ b * (a2 + 1) = b * a2 + b
          BY <2>1, <3>2
        <4>2. b * a \in Nat /\ b * a2 \in Nat
          BY <2>1
        <4> QED
          BY <1>4, <2>1, <4>1, <4>2
      <3> QED
        BY <2>1, <3>1, <3>2
    <2>3. r2 = r
      <3>1. b * a \in Nat
        OBVIOUS
      <3> QED
        BY <1>4, <2>1, <2>2, <3>1
    <2> QED
      BY <2>2, <2>3 DEF a2, r2
  <1>5. (2 * n) \div e = q /\ (2 * n) % e = 2 * m
    <2>1. 2 * n \in Nat
      OBVIOUS
    <2> QED
      BY <1>1, <1>2, <1>3, <1>4, <2>1
  <1>6. /\ 2 * (2 * m) > e <=> 2 * m > d
        /\ 2 * (2 * m) = e <=> 2 * m = d
    BY <1>1 DEF e
  <1>7. Round(2 * n, e) = q + (IF 2 * (2 * m) > e \/ (2 * (2 * m) = e /\ q % 2 = 1) THEN 1 ELSE 0)
    BY <1>5 DEF Round
  <1>8. Round(n, d) = q + (IF 2 * m > d \/ (2 * m = d /\ q % 2 = 1) THEN 1 ELSE 0)
    BY DEF Round, q, m
  <1> QED
    BY <1>6, <1>7, <1>8 DEF e

LEMMA PtsOfDouble ==
  ASSUME NEW i \in Nat, NEW r \in Nat \ {0} PROVE Pts(2 * i, 2 * r) = Pts(i, r)
  <1> DEFINE n == i * 1000000
  <1>1. n \in Nat /\ (2 * i) * 1000000 = 2 * n
    BY SMT
  <1> HIDE DEF n
  <1>2. Round(2 * n, 2 * r) = Round(n, r)
    BY <1>1, RoundOfDouble
  <1> QED
    BY <1>1, <1>2 DEF Pts, n

\* Half of an even number and of the odd one below it.
LEMMA Halves ==
  ASSUME NEW i \in Nat
  PROVE  (2 * i) \div 2 = i /\ (2 * i + 1) \div 2 = i /\ ((2 * i + 1) + 1) \div 2 = i + 1
  OBVIOUS

LEMMA EvenOrOdd ==
  ASSUME NEW k \in Nat
  PROVE  (k + 1) \div 2 \in Nat /\ (k = 2 * ((k + 1) \div 2) \/ k = 2 * ((k + 1) \div 2) - 1)
  <1> DEFINE m == k + 1
             h == m \div 2
  <1>1. m \in Nat /\ m - 1 = k
    OBVIOUS
  <1> HIDE DEF m
  <1>2. h \in Nat /\ 2 * h <= m /\ m <= 2 * h + 1
    BY <1>1
  <1> HIDE DEF h
  <1>3. k = 2 * h \/ k = 2 * h - 1
    BY <1>1, <1>2
  <1> QED
    BY <1>2, <1>3 DEF h, m

\* A clip with every frame shown twice: the two of an even position are of one transition of
\* the clip, those of an odd one are one frame.
LEMMA DoubledIs ==
  ASSUME clip \in Seq(Frames)
  PROVE  /\ Doubled \in Seq(Frames) /\ Len(Doubled) = 2 * Len(clip)
         /\ \A i \in 1..(Len(clip) - 1) :
              Doubled[2 * i] = clip[i] /\ Doubled[2 * i + 1] = clip[i + 1]
         /\ \A i \in 1..Len(clip) : Doubled[2 * i - 1] = clip[i] /\ Doubled[2 * i] = clip[i]
  <1> DEFINE n == Len(clip)
             m == 2 * n
  <1>1. n \in Nat /\ m \in Nat /\ Len(clip) = n
    OBVIOUS
  <1>2. Doubled = [i \in 1..m |-> clip[(i + 1) \div 2]]
    BY DEF Doubled
  <1>3. \A i \in 1..n : clip[i] \in Frames
    OBVIOUS
  <1> HIDE DEF n
  <1>4. ASSUME NEW i \in 1..m PROVE (i + 1) \div 2 \in 1..n
    BY <1>1
  <1>5. Doubled \in [1..m -> Frames]
    BY <1>2, <1>3, <1>4
  <1> HIDE DEF m
  <1>6. Doubled \in Seq(Frames) /\ Len(Doubled) = m
    BY <1>1, <1>2, <1>5
  <1>7. ASSUME NEW i \in 1..n
        PROVE  Doubled[2 * i - 1] = clip[i] /\ Doubled[2 * i] = clip[i]
    <2>1. i \in Nat /\ 2 * i - 1 \in 1..m /\ 2 * i \in 1..m
      BY <1>1 DEF m
    <2>2. (2 * i - 1) + 1 = 2 * i /\ (2 * i) \div 2 = i /\ (2 * i + 1) \div 2 = i
      BY <2>1, Halves
    <2>3. \A k \in 1..m : Doubled[k] = clip[(k + 1) \div 2]
      BY <1>2
    <2> QED
      BY <2>1, <2>2, <2>3
  <1>8. ASSUME NEW i \in 1..(n - 1)
        PROVE  Doubled[2 * i] = clip[i] /\ Doubled[2 * i + 1] = clip[i + 1]
    <2>1. i \in 1..n /\ i + 1 \in 1..n /\ 2 * (i + 1) - 1 = 2 * i + 1
      BY <1>1
    <2> QED
      BY <1>7, <2>1
  <1> QED
    BY <1>6, <1>7, <1>8 DEF m, n

\* Nothing moves between a frame and itself.
LEMMA StillIsFlat ==
  ASSUME NEW frame \in [1..Pixels -> Colours] PROVE Direction(frame, frame) = "flat"
  <1> DEFINE swing == [p \in 1..Pixels |-> RelativeLuminance(frame[p]) - RelativeLuminance(frame[p])]
             changed == Changed(frame, frame)
  <1>1. RedFlashMask(frame, frame) = {}
    <2>1. ASSUME NEW p \in 1..Pixels
          PROVE  ~(Distance(RedDifference(frame[p]), RedDifference(frame[p])) > 20 * 1000)
      <3>1. frame[p].r \in Int /\ frame[p].g \in Int /\ frame[p].b \in Int
        <4> DEFINE top == 1000
                   samples == 0..top
        <4>0. top \in Int
          OBVIOUS
        <4>1. DOMAIN Linear \subseteq samples
          BY MeasureAssumption, Zenon
        <4> HIDE DEF top
        <4>2. \A s \in samples : s \in Int
          BY <4>0
        <4>3. frame[p] \in Colours
          OBVIOUS
        <4> HIDE DEF samples
        <4> QED
          BY <4>1, <4>2, <4>3 DEF Colours
      <3>2. RedDifference(frame[p]) \in Int
        BY <3>1 DEF RedDifference
      <3> QED
        BY <3>2 DEF Distance
    <2> QED
      BY <2>1 DEF RedFlashMask
  <1>2. changed \in SUBSET (1..Pixels)
    BY MaskType
  <1>3. \A p \in changed : swing[p] \in Int /\ 0 <= swing[p] /\ swing[p] <= 0
    <2> TAKE p \in changed
    <2>1. p \in 1..Pixels
      BY <1>2
    <2>2. RelativeLuminance(frame[p]) \in Levels
      BY <2>1, LuminanceType
    <2>3. RelativeLuminance(frame[p]) \in Int
      BY <2>2, LevelIs
    <2> QED
      BY <2>1, <2>3
  <1>4. IsFiniteSet(changed) /\ Cardinality(changed) \in Nat /\ Cardinality({}) = 0
    BY <1>2, PartType, FS_EmptySet
  <1> HIDE DEF changed, swing
  <1>5. LumaSwing(frame, frame) = 0
    <2> DEFINE sum == SumFunctionOnSet(swing, changed)
    <2>1. sum \in Int /\ 0 * Cardinality(changed) <= sum /\ sum <= 0 * Cardinality(changed)
      BY <1>3, <1>4, SumBounds
    <2>2. LumaSwing(frame, frame) = sum
      BY DEF LumaSwing, swing, changed
    <2> QED
      BY <1>4, <2>1, <2>2
  <1> QED
    BY <1>1, <1>4, <1>5 DEF Direction, LumaHeading, Heading, changed

\* Shown twice at twice the rate, a clip keeps its transitions at their times.
LEMMA ConversionHolds == ASSUME IsRecorded PROVE ConversionIsNeutral
  <1> SUFFICES ASSUME Len(clip) > 0
               PROVE  DetectAll(FramesToTransitions(Doubled, 2 * rate)) = DetectAll(Measured)
    BY DEF ConversionIsNeutral
  <1> DEFINE n == Len(clip)
             rows == Measured
             more == FramesToTransitions(Doubled, 2 * rate)
             to == [i \in DOMAIN rows |-> 2 * i]
  <1>1. n \in Nat /\ n >= 1 /\ clip \in Seq(Frames) /\ rate \in Nat \ {0} /\ 2 * rate \in Nat \ {0}
    BY DEF IsRecorded
  <1>2. Doubled \in Seq(Frames) /\ Len(Doubled) = 2 * n /\ Len(Doubled) >= 1
    BY <1>1, DoubledIs
  <1>3. /\ IsClip(rows) /\ DOMAIN rows = 1..(n - 1)
        /\ \A i \in DOMAIN rows :
             /\ clip[i] \in Frames /\ clip[i + 1] \in Frames
             /\ rows[i] = [Sample(Picture[clip[i]], Picture[clip[i + 1]]) EXCEPT !.pts = Pts(i, rate)]
    BY <1>1, Transitions DEF Measured
  <1>4. /\ IsClip(more) /\ DOMAIN more = 1..(2 * n - 1)
        /\ \A k \in DOMAIN more :
             /\ Doubled[k] \in Frames /\ Doubled[k + 1] \in Frames
             /\ more[k] = [Sample(Picture[Doubled[k]], Picture[Doubled[k + 1]])
                             EXCEPT !.pts = Pts(k, 2 * rate)]
    BY <1>1, <1>2, Transitions, ZenonT(60)
  <1>5. /\ \A i \in 1..(n - 1) : Doubled[2 * i] = clip[i] /\ Doubled[2 * i + 1] = clip[i + 1]
        /\ \A i \in 1..n : Doubled[2 * i - 1] = clip[i] /\ Doubled[2 * i] = clip[i]
    BY <1>1, DoubledIs
  <1> HIDE DEF n, rows, more
  <1>6. to \in [DOMAIN rows -> DOMAIN more] /\ \A i, j \in DOMAIN rows : i < j <=> to[i] < to[j]
    <2>1. \A i \in DOMAIN rows : i \in Nat /\ 2 * i \in DOMAIN more
      BY <1>1, <1>3, <1>4
    <2>2. \A i, j \in DOMAIN rows : i < j <=> 2 * i < 2 * j
      BY <2>1
    <2> QED
      BY <2>1, <2>2
  <1>7. ASSUME NEW i \in DOMAIN rows PROVE more[2 * i] = rows[i]
    <2>1. i \in Nat /\ i \in 1..(n - 1) /\ 2 * i \in DOMAIN more
      BY <1>1, <1>3, <1>4
    <2>2. Pts(2 * i, 2 * rate) = Pts(i, rate)
      BY <1>1, <2>1, PtsOfDouble
    <2>3. Doubled[2 * i] = clip[i] /\ Doubled[2 * i + 1] = clip[i + 1]
      BY <1>5, <2>1
    <2>4. more[2 * i] = [Sample(Picture[Doubled[2 * i]], Picture[Doubled[2 * i + 1]])
                           EXCEPT !.pts = Pts(2 * i, 2 * rate)]
      BY <1>4, <2>1
    <2> QED
      BY <1>3, <2>2, <2>3, <2>4
  <1>8. ASSUME NEW k \in DOMAIN more
        PROVE  more[k].direction = "flat" \/ \E i \in DOMAIN rows : k = 2 * i
    <2>1. k \in Nat /\ k >= 1 /\ k <= 2 * n - 1
      BY <1>1, <1>4
    <2>2. (\E i \in 1..(n - 1) : k = 2 * i) \/ (\E i \in 1..n : k = 2 * i - 1)
      <3> DEFINE half == (k + 1) \div 2
      <3>1. half \in Nat /\ (k = 2 * half \/ k = 2 * half - 1)
        BY <2>1, EvenOrOdd
      <3> HIDE DEF half
      <3>2. CASE k = 2 * half
        BY <1>1, <2>1, <3>1, <3>2
      <3>3. CASE k = 2 * half - 1
        BY <1>1, <2>1, <3>1, <3>3
      <3> QED
        BY <3>1, <3>2, <3>3
    <2>3. CASE \E i \in 1..(n - 1) : k = 2 * i
      BY <1>3, <2>3
    <2>4. ASSUME NEW i \in 1..n, k = 2 * i - 1 PROVE more[k].direction = "flat"
      <3>1. k + 1 = 2 * i
        BY <1>1, <2>4
      <3>2. Doubled[k] = clip[i] /\ Doubled[k + 1] = clip[i]
        BY <1>5, <2>4, <3>1
      <3>3. clip[i] \in Frames
        BY <1>4, <3>2
      <3>4. Picture[clip[i]] \in [1..Pixels -> Colours]
        BY <3>3, PictureAssumption DEF Frames
      <3>5. more[k].direction = Sample(Picture[clip[i]], Picture[clip[i]]).direction
        <4>1. more[k] = [Sample(Picture[clip[i]], Picture[clip[i]]) EXCEPT !.pts = Pts(k, 2 * rate)]
          BY <1>4, <3>2
        <4> QED
          BY <4>1 DEF Sample
      <3>6. Sample(Picture[clip[i]], Picture[clip[i]]).direction = "flat"
        BY <3>4, SampleBounds, StillIsFlat
      <3> QED
        BY <3>5, <3>6
    <2> QED
      BY <2>2, <2>3, <2>4
  <1>9. IsStretch(to, rows, more)
    BY <1>3, <1>4, <1>6, <1>7, <1>8 DEF IsStretch
  <1> HIDE DEF to
  <1> QED
    BY <1>9, StretchedDetect DEF rows, more

-----------------------------------------------------------------------------
(* One answer. *)

\* An upload as the request model admits it.
IsUpload(upload) == upload.bytes \in Seq(Frames) /\ upload.frame_rate \in Nat \ {0}

\* A whole upload has a transition.
LEMMA WholeIsMeasured ==
  ASSUME NEW upload, IsUpload(upload), Whole(upload)
  PROVE  /\ IsClip(MeasureClip(upload)) /\ MeasureClip(upload) # <<>>
         /\ Len(MeasureClip(upload)) = upload.frame_count - 1
  <1>1. Len(upload.bytes) = upload.frame_count /\ Len(upload.bytes) >= 2
    BY DEF Whole, MinFrames
  <1>2. /\ IsClip(MeasureClip(upload))
        /\ Len(MeasureClip(upload)) = Len(upload.bytes) - 1
    <2>1. upload.bytes \in Seq(Frames) /\ upload.frame_rate \in Nat \ {0}
      BY DEF IsUpload
    <2>2. Len(upload.bytes) >= 1
      BY <1>1, <2>1
    <2>3. /\ IsClip(FramesToTransitions(upload.bytes, upload.frame_rate))
          /\ Len(FramesToTransitions(upload.bytes, upload.frame_rate)) = Len(upload.bytes) - 1
      BY <2>1, <2>2, MeasuredIsClip, Zenon DEF Frames
    <2> QED
      BY <2>3 DEF MeasureClip
  <1> DEFINE rows == MeasureClip(upload)
  <1>3. upload.frame_count - 1 >= 1
    <2>1. Len(upload.bytes) \in Nat
      BY DEF IsUpload
    <2> QED
      BY <1>1, <2>1
  <1>4. Len(rows) = upload.frame_count - 1
    BY <1>1, <1>2 DEF rows
  <1>5. rows # <<>>
    <2> HIDE DEF rows
    <2>1. Len(<<>>) = 0
      OBVIOUS
    <2> QED
      BY <1>3, <1>4, <2>1, SMT
  <1> QED
    BY <1>2, <1>4, <1>5 DEF rows

\* An answer that is a verdict is one on a whole rendition, and is that of its findings.
LEMMA AnswerIsSound ==
  ASSUME NEW rendition, IsUpload(rendition), NEW given, given = NoMaster \/ IsUpload(given),
         NEW configured, NEW fails, Answer(rendition, given, configured, fails).status = "ok"
  PROVE  LET it == Answer(rendition, given, configured, fails)
         IN /\ Whole(rendition) /\ it.measured = rendition.frame_count - 1
            /\ it.verdict = "fail" <=> it.findings # {}
  <1> DEFINE child == MeasureClip(rendition)
             parent == IF given = NoMaster THEN <<>> ELSE MeasureClip(given)
             mode == IF parent = <<>> THEN "absolute" ELSE "regression"
             findings == FindingsOf(mode, parent, child)
             count == Cardinality(IF configured THEN SqlRows(mode, parent, child) ELSE findings)
             ok == [status |-> "ok", mode |-> mode,
                    verdict |-> IF count = 0 THEN "pass" ELSE "fail",
                    source |-> IF configured THEN "clickhouse_sql_via_official_mcp"
                                             ELSE "local_reference_precheck",
                    findings |-> findings, measured |-> Len(child)]
  <1>1. Whole(rendition) /\ (given = NoMaster \/ Whole(given))
    BY DEF Answer, Failed
  <1>2. IsClip(child) /\ Len(child) = rendition.frame_count - 1
    BY <1>1, WholeIsMeasured
  <1>3. IsClip(parent)
    <2>1. IsClip(<<>>)
      BY DEF IsClip
    <2> QED
      BY <1>1, <2>1, WholeIsMeasured
  <1>4. Answer(rendition, given, configured, fails) = ok
    <2> HIDE DEF findings, count
    <2>1. CASE child = <<>>
      BY <1>1, <2>1 DEF Answer, Failed
    <2>2. CASE child # <<>> /\ configured /\ fails
      BY <1>1, <2>2 DEF Answer, Failed
    <2>3. CASE child # <<>> /\ ~(configured /\ fails)
      BY <1>1, <2>3 DEF Answer, findings, count
    <2> QED
      BY <2>1, <2>2, <2>3
  <1>5. count = Cardinality(findings) /\ IsFiniteSet(findings)
    <2> HIDE DEF child, parent, mode
    <2> QED
      BY <1>2, <1>3, SameFindings
  <1>6. count = 0 <=> findings = {}
    <2> HIDE DEF findings, count
    <2> QED
      BY <1>5, FS_EmptySet
  <1>7. ok.verdict = "fail" <=> findings # {}
    <2> HIDE DEF findings, count
    <2> QED
      BY <1>6
  <1>8. ok.findings = findings /\ ok.measured = Len(child)
    OBVIOUS
  <1> HIDE DEF ok, findings, child
  <1> QED
    BY <1>1, <1>2, <1>4, <1>7, <1>8

\* The statuses of the answers there are.
Statuses == {"none", "ok", "invalid_frames", "no_transitions", "clickhouse_mcp_verdict_failed"}

LEMMA AnswerStatus ==
  ASSUME NEW rendition, NEW given, NEW configured, NEW fails
  PROVE  Answer(rendition, given, configured, fails).status \in Statuses
  <1>1. \A status : Failed(status).status = status
    BY DEF Failed
  <1>2. CASE ~Whole(rendition) \/ (given # NoMaster /\ ~Whole(given))
    BY <1>1, <1>2 DEF Answer, Statuses
  <1>3. CASE ~(~Whole(rendition) \/ (given # NoMaster /\ ~Whole(given)))
    <2>1. CASE MeasureClip(rendition) = <<>>
      BY <1>1, <1>3, <2>1 DEF Answer, Statuses
    <2>2. CASE MeasureClip(rendition) # <<>> /\ configured /\ fails
      BY <1>1, <1>3, <2>2 DEF Answer, Statuses
    <2>3. CASE MeasureClip(rendition) # <<>> /\ ~(configured /\ fails)
      BY <1>3, <2>3 DEF Answer, Statuses
    <2> QED
      BY <2>1, <2>2, <2>3
  <1> QED
    BY <1>2, <1>3

-----------------------------------------------------------------------------
(* The theorems. *)

\* What is recorded is a clip, there is an answer or none, and the two properties.
ClipInv ==
  /\ rate \in Rates /\ clip \in Seq(Frames) /\ Len(clip) <= MaxClip
  /\ answer.status \in Statuses
  /\ WholeClipIsJudged /\ VerdictMatchesFindings

\* The two properties hold of every state, once the clip is known to be one.
THEOREM AnalyzeSafety == Spec => []ClipInv
  <1>1. Init => ClipInv
    <2>1. <<>> \in Seq(Frames) /\ Len(<<>>) = 0 /\ 0 <= MaxClip
      BY AnalyzeAssumption
    <2>2. ASSUME Init PROVE answer.status = "none"
      BY <2>2 DEF Init, NoAnswer
    <2> QED
      BY <2>1, <2>2 DEF Init, ClipInv, WholeClipIsJudged, VerdictMatchesFindings, Statuses
  <1>2. ClipInv /\ [Next]_vars => ClipInv'
    <2> SUFFICES ASSUME ClipInv, [Next]_vars PROVE ClipInv'
      OBVIOUS
    <2>1. ASSUME NEW frame \in Frames, Decode(frame) PROVE ClipInv'
      <3>1. clip' \in Seq(Frames) /\ rate' \in Rates
        BY <2>1, AppendProperties DEF ClipInv, Decode
      <3>2. answer'.status = "none"
        BY <2>1 DEF Decode, NoAnswer
      <3>3. Len(clip') <= MaxClip
        <4>1. Len(clip') = Len(clip) + 1 /\ Len(clip) \in Nat /\ Len(clip) < MaxClip
          BY <2>1, AppendProperties DEF ClipInv, Decode
        <4> QED
          BY <4>1, AnalyzeAssumption
      <3> QED
        BY <3>1, <3>2, <3>3 DEF ClipInv, WholeClipIsJudged, VerdictMatchesFindings, Statuses
    <2>2. ASSUME NEW n \in 0..Len(clip), NEW given \in Masters \cup {NoMaster}, NEW r \in Rates,
                 NEW configured, NEW fails, Analyze(n, given, r, configured, fails)
          PROVE  ClipInv'
      <3> DEFINE sent == Upload(SubSeq(clip, 1, n), Len(clip), rate)
                 other == IF given = NoMaster THEN NoMaster ELSE Upload(given, Len(given), r)
      <3>0. clip \in Seq(Frames) /\ rate \in Rates /\ Len(clip) \in Nat
        BY DEF ClipInv
      <3>1. rate \in Nat \ {0} /\ r \in Nat \ {0} /\ Masters \subseteq Seq(Frames) /\ NoMaster \notin Masters
        BY <3>0, AnalyzeAssumption
      <3>2. SubSeq(clip, 1, n) \in Seq(Frames)
        BY <3>0, SubSeqProperties
      <3>3. IsUpload(sent) /\ sent.frame_count = Len(clip)
        BY <3>1, <3>2 DEF IsUpload, Upload
      <3>4. other = NoMaster \/ IsUpload(other)
        BY <3>1 DEF IsUpload, Upload
      <3>5. answer' = Answer(sent, other, configured, fails) /\ rate' = rate /\ clip' = clip
        BY <2>2 DEF Analyze
      <3> HIDE DEF sent, other
      <3>6. answer'.status = "ok" =>
              answer'.measured = Len(clip) - 1 /\ (answer'.verdict = "fail" <=> answer'.findings # {})
        BY <3>3, <3>4, <3>5, AnswerIsSound
      <3>7. answer'.status \in Statuses /\ Len(clip') <= MaxClip
        BY <3>5, AnswerStatus DEF ClipInv
      <3> QED
        BY <3>0, <3>5, <3>6, <3>7 DEF ClipInv, WholeClipIsJudged, VerdictMatchesFindings
    <2>3. CASE UNCHANGED vars
      BY <2>3 DEF vars, ClipInv, WholeClipIsJudged, VerdictMatchesFindings
    <2> QED
      BY <2>1, <2>2, <2>3 DEF Next
  <1> QED
    BY <1>1, <1>2, PTL DEF Spec

\* A verdict is on every frame that was decoded: a truncated upload never gets one
\* (analyze.py:65-67).
THEOREM OnlyWholeClipsAreJudged == Spec => []WholeClipIsJudged
  <1>1. ClipInv => WholeClipIsJudged
    BY DEF ClipInv
  <1> QED
    BY AnalyzeSafety, <1>1, PTL

\* Whatever the pictures, the master and the limits, the SQL's verdict is that of the
\* findings returned beside it, which Python isolated (main.py:524-566).
THEOREM VerdictIsOfFindings == Spec => []VerdictMatchesFindings
  <1>1. ClipInv => VerdictMatchesFindings
    BY DEF ClipInv
  <1> QED
    BY AnalyzeSafety, <1>1, PTL

\* The types, and with them that what is measured of any frames is within the bounds that
\* TransitionMetric puts on a measurement (models.py).
THEOREM AnalyzeTypes == Spec => []TypeOK
  <1>1. ASSUME ClipInv, NEW i \in DOMAIN Measured
        PROVE  Measured[i] \in [pts : Nat, luma : Levels, darker : Levels, red : Levels,
                                area : Levels, direction : Directions]
    <2> DEFINE it == Sample(Picture[clip[i]], Picture[clip[i + 1]])
    <2>1. IsRecorded
      BY <1>1, AnalyzeAssumption DEF ClipInv, IsRecorded
    <2>2. /\ Measured[i].pts \in Nat /\ Measured[i] = [it EXCEPT !.pts = Measured[i].pts]
          /\ it.luma \in Levels /\ it.darker \in Levels /\ it.red \in Levels
          /\ it.area \in Levels /\ it.direction \in Directions
      BY <1>1, <2>1, MeasuredIs, SampleBounds
    <2>3. it = [pts |-> 0, luma |-> it.luma, darker |-> it.darker, red |-> it.red,
                area |-> it.area, direction |-> it.direction]
      BY DEF Sample
    <2> HIDE DEF it
    <2>4. Measured[i] = [pts |-> Measured[i].pts, luma |-> it.luma, darker |-> it.darker,
                         red |-> it.red, area |-> it.area, direction |-> it.direction]
      BY <2>2, <2>3
    <2> QED
      BY <2>2, <2>4
  <1>2. ClipInv => TypeOK
    BY <1>1 DEF ClipInv, TypeOK, Statuses
  <1> QED
    BY AnalyzeSafety, <1>2, PTL

\* A flash of a part of the screen that meets the area floor is reported, whatever the
\* rest of the screen does and whatever the pictures, the rate and the length of the clip
\* (ingest.py:16-19).
THEOREM FlashReported == Spec => []FlashIsReported
  <1>1. ClipInv => FlashIsReported
    BY FlashesAreReported, AnalyzeAssumption DEF ClipInv, IsRecorded
  <1> QED
    BY AnalyzeSafety, <1>1, PTL

\* An alternation of a saturated red is reported even where luminance moves too, on less
\* of the screen (ingest.py:98-102).
THEOREM RedFlashReported == Spec => []RedFlashIsReported
  <1>1. ClipInv => RedFlashIsReported
    BY FlashesAreReported, AnalyzeAssumption DEF ClipInv, IsRecorded
  <1> QED
    BY AnalyzeSafety, <1>1, PTL

\* A clip in which only bright images flash has no general flash, however dark the rest
\* of the screen is (models.py:17-18).
THEOREM BrightNoFlash == Spec => []BrightIsNoFlash
  <1>1. ClipInv => BrightIsNoFlash
    BY BrightIsNot, AnalyzeAssumption DEF ClipInv, IsRecorded
  <1> QED
    BY AnalyzeSafety, <1>1, PTL

\* Showing every frame twice at twice the rate introduces nothing and hides nothing: times,
\* rounded as they are, are the same, and a picture does not flash against itself
\* (ingest.py:65-67).
THEOREM ConversionNeutral == Spec => []ConversionIsNeutral
  <1>1. ClipInv => ConversionIsNeutral
    BY ConversionHolds, AnalyzeAssumption DEF ClipInv, IsRecorded
  <1> QED
    BY AnalyzeSafety, <1>1, PTL
=============================================================================

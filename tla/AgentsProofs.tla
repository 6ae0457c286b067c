---------------------------- MODULE AgentsProofs ----------------------------
(***************************************************************************)
(* The corpus, the catalogue, its endpoints and its agents, for any        *)
(* titles, tosses, runs of the seeding script, scans and calls.            *)
(***************************************************************************)
EXTENDS Agents, CriteriaProofs, FunctionTheorems

-----------------------------------------------------------------------------
(* The rows of an asset are a clip, however often they are inserted. *)

\* Copies of a clip, one after the other, are a clip.
LEMMA RepeatedIsClip ==
  ASSUME NEW rows, IsClip(rows), NEW n \in Nat
  PROVE  IsClip(Repeated(rows, n))
  <1> DEFINE length == Len(rows)
             total == n * length
             place(i) == ((i - 1) % length) + 1
             copy == [i \in 1..total |-> rows[place(i)]]
  <1>1. length \in Nat /\ DOMAIN rows = 1..length
    BY DEF IsClip
  <1>2. total \in Nat
    <2> HIDE DEF length
    <2> QED
      BY <1>1
  <1>3. ASSUME NEW i \in 1..total PROVE place(i) \in DOMAIN rows
    <2>1. length # 0
      <3> HIDE DEF length
      <3>1. length = 0 => total = 0
        BY <1>1
      <3> HIDE DEF total
      <3> QED
        BY <1>2, <3>1
    <2>2. i - 1 \in Nat
      <3> HIDE DEF total
      <3> QED
        BY <1>2
    <2>3. (i - 1) % length \in 0..(length - 1)
      <3> HIDE DEF length
      <3> QED
        BY <1>1, <2>1, <2>2
    <2> HIDE DEF length
    <2> QED
      BY <1>1, <2>3
  <1> HIDE DEF total, place
  <1>4. Len(copy) = total /\ DOMAIN copy = 1..total /\ \A i \in 1..total : copy[i] = rows[place(i)]
    BY <1>2
  <1>5. \A i \in 1..total : /\ copy[i].pts \in Nat /\ copy[i].area \in Nat
                            /\ copy[i].direction \in Directions
    BY <1>3, <1>4 DEF IsClip
  <1>6. IsClip(copy)
    <2> HIDE DEF copy
    <2> QED
      BY <1>2, <1>4, <1>5 DEF IsClip
  <1> QED
    BY <1>6 DEF Repeated, total, place

\* The frames constructed for a measured asset are such as there are.
LEMMA FramesForType ==
  ASSUME NEW bursts
  PROVE  FramesFor(bursts) \in Seq(DOMAIN Picture) /\ Len(FramesFor(bursts)) >= 1
  <1> DEFINE length == Seconds * FrameRate + 1
             Kinds == {"base_a", "base_b", "burst_dark", "burst_light", "bright_low",
                       "bright_high", "red", "teal"}
  <1>1. length \in Nat \ {0}
    BY CorpusAssumption
  <1>2. DOMAIN Picture = Kinds
    BY ConstructedAssumption DEF Constructed
  <1>3. DOMAIN FramesFor(bursts) = 1..length /\ \A n \in 1..length : FramesFor(bursts)[n] \in Kinds
    BY DEF FramesFor, Alternating
  <1>4. FramesFor(bursts) = [n \in 1..length |-> FramesFor(bursts)[n]]
    BY DEF FramesFor
  <1> DEFINE frames == FramesFor(bursts)
  <1> HIDE DEF length, frames, Kinds
  <1>5. frames \in Seq(Kinds) /\ Len(frames) = length
    BY <1>1, <1>3, <1>4 DEF frames
  <1> QED
    BY <1>1, <1>2, <1>5 DEF frames

\* What is measured of an asset is a clip.
LEMMA MeasuredRowsAreClip ==
  ASSUME NEW bursts PROVE IsClip(MeasuredRows(bursts))
  <1>1. 1000 * FrameRate \in Nat \ {0}
    BY CorpusAssumption
  <1>2. FramesFor(bursts) \in Seq(DOMAIN Picture) /\ Len(FramesFor(bursts)) >= 1
    BY FramesForType
  <1> DEFINE frames == FramesFor(bursts)
             speed == 1000 * FrameRate
  <1> HIDE DEF frames, speed
  <1>3. frames \in Seq(DOMAIN Picture) /\ Len(frames) >= 1 /\ speed \in Nat \ {0}
    BY <1>1, <1>2 DEF frames, speed
  <1>4. IsClip(FramesToTransitions(frames, speed))
    BY <1>3, MeasuredIsClip, Zenon
  <1> QED
    BY <1>4 DEF MeasuredRows, frames, speed

\* What sql/005 writes of an asset is a clip.
LEMMA AuthoredRowsAreClip ==
  ASSUME NEW bursts PROVE IsClip(AuthoredRows(bursts))
  <1> DEFINE length == Seconds * FrameRate
  <1>1. length \in Nat /\ FrameRate \in Nat \ {0}
    BY CorpusAssumption
  <1>2. ASSUME NEW seq \in Nat
        PROVE  /\ AuthoredRow(bursts, seq).pts \in Nat /\ AuthoredRow(bursts, seq).area \in Nat
               /\ AuthoredRow(bursts, seq).direction \in Directions
    <2>1. (seq * 1000) \div FrameRate \in Nat
      BY <1>1
    <2>2. AuthoredRow(bursts, seq).pts \in Nat
      BY <2>1 DEF AuthoredRow
    <2>3. AuthoredRow(bursts, seq).area \in {4800, 6000, 5200, 2800, 0}
      BY DEF AuthoredRow
    <2>4. AuthoredRow(bursts, seq).direction \in Directions
      BY DEF AuthoredRow, Alternating, Directions
    <2> QED
      BY <2>2, <2>3, <2>4
  <1> DEFINE row(n) == AuthoredRow(bursts, n - 1)
             rows == [n \in 1..length |-> row(n)]
  <1>3. ASSUME NEW n \in 1..length
        PROVE  row(n).pts \in Nat /\ row(n).area \in Nat /\ row(n).direction \in Directions
    <2>1. n - 1 \in Nat
      <3> HIDE DEF length
      <3> QED
        BY <1>1
    <2> QED
      BY <1>2, <2>1
  <1> HIDE DEF length, row
  <1>4. Len(rows) = length /\ DOMAIN rows = 1..length /\ \A n \in 1..length : rows[n] = row(n)
    BY <1>1
  <1>5. IsClip(rows)
    BY <1>1, <1>3, <1>4 DEF IsClip
  <1> QED
    BY <1>5 DEF AuthoredRows, row, length

-----------------------------------------------------------------------------
(* The tables of what is found. *)

\* The rows that the table holds of an asset with the given bursts and copies.
Held(measured, bursts, n) == Repeated(RowsOf(measured, bursts), n)

\* The violations there are in an asset's rows are those of the reference detector.
LEMMA JudgedIs ==
  ASSUME NEW measured \in BOOLEAN, NEW bursts \in SUBSET Bursts, NEW n \in 0..MaxCopies
  PROVE  /\ IsClip(Held(measured, bursts, n))
         /\ Judged[measured][bursts][n] = SqlAll(Held(measured, bursts, n))
         /\ Judged[measured][bursts][n] = DetectAll(Held(measured, bursts, n))
  <1>1. n \in Nat
    BY CorpusAssumption
  <1>2. IsClip(RowsOf(measured, bursts))
    BY MeasuredRowsAreClip, AuthoredRowsAreClip DEF RowsOf
  <1>3. IsClip(Held(measured, bursts, n))
    BY <1>1, <1>2, RepeatedIsClip DEF Held
  <1>4. Judged[measured][bursts][n] = SqlAll(Held(measured, bursts, n))
    BY DEF Judged, BurstSets, Held
  <1>5. SqlAll(Held(measured, bursts, n)) = DetectAll(Held(measured, bursts, n))
    BY <1>3, SameViolations DEF SqlAll, DetectAll
  <1> QED
    BY <1>3, <1>4, <1>5

\* At most one of a rule is found in an asset, at some time.
LEMMA JudgedType ==
  ASSUME NEW measured \in BOOLEAN, NEW bursts \in SUBSET Bursts, NEW n \in 0..MaxCopies
  PROVE  /\ \A v \in Judged[measured][bursts][n] : v.rule \in Rules /\ v.start \in Nat
         /\ \A v, w \in Judged[measured][bursts][n] : v.rule = w.rule => v = w
  <1> DEFINE rows == Held(measured, bursts, n)
  <1>1. IsClip(rows) /\ Judged[measured][bursts][n] = DetectAll(rows)
    BY JudgedIs
  <1> HIDE DEF rows
  <1>2. /\ \A v \in DetectAll(rows) : v.rule \in Rules /\ v.start \in Nat
        /\ \A v, w \in DetectAll(rows) : v.rule = w.rule => v = w
    BY <1>1, OnePerRule
  <1> QED
    BY <1>1, <1>2

\* The isolations of what is found in two assets name the same violations.
LEMMA JudgedIsolation ==
  ASSUME NEW measured \in BOOLEAN, NEW parent \in SUBSET Bursts, NEW child \in SUBSET Bursts,
         NEW m \in 0..MaxCopies, NEW n \in 0..MaxCopies,
         NEW P, P = Judged[measured][parent][m], NEW C, C = Judged[measured][child][n]
  PROVE  /\ SqlIsolated(P, C) = Regressions(P, C)
         /\ SqlAntiJoin(P, C) = Regressions(P, C)
         /\ Isolated[measured][parent][child][m][n] = {v.rule : v \in Regressions(P, C)}
         /\ Isolated[measured][parent][child][m][n] \subseteq Rules
         /\ Isolated[measured][parent][child][m][n] # {} => C # {}
  <1>1. Isolated[measured][parent][child][m][n] = {v.rule : v \in SqlIsolated(P, C)}
    BY DEF Isolated, BurstSets
  <1>2. /\ IsClip(Held(measured, parent, m)) /\ P = DetectAll(Held(measured, parent, m))
        /\ IsClip(Held(measured, child, n)) /\ C = DetectAll(Held(measured, child, n))
    BY JudgedIs
  <1>3. SqlIsolated(P, C) = Regressions(P, C) /\ SqlAntiJoin(P, C) = Regressions(P, C)
    BY <1>2, SameIsolation
  <1>4. Regressions(P, C) \subseteq C
    BY DEF Regressions
  <1>5. \A v \in C : v.rule \in Rules
    BY JudgedType
  <1> QED
    BY <1>1, <1>3, <1>4, <1>5

\* Nothing is found in an asset that is not there.
LEMMA AbsentIsClean ==
  ASSUME NEW measured \in BOOLEAN, NEW bursts \in SUBSET Bursts
  PROVE  Judged[measured][bursts][0] = {}
  <1> DEFINE rows == RowsOf(measured, bursts)
             none == Held(measured, bursts, 0)
  <1>1. 0 \in 0..MaxCopies
    BY CorpusAssumption
  <1>2. Judged[measured][bursts][0] = DetectAll(none)
    BY <1>1, JudgedIs
  <1>3. Len(rows) \in Nat
    BY MeasuredRowsAreClip, AuthoredRowsAreClip DEF RowsOf, IsClip
  <1>4. DOMAIN none = 1..(0 * Len(rows))
    BY DEF Held, Repeated
  <1> HIDE DEF rows, none
  <1>5. 0 * Len(rows) = 0
    BY <1>3
  <1>6. DOMAIN none = {}
    BY <1>4, <1>5
  <1>7. \A rule : Detect(none, rule) = {}
    <2>1. \A rule : Qualified(none, rule) = {}
      BY <1>6 DEF Qualified
    <2> QED
      BY <2>1 DEF Detect
  <1> QED
    BY <1>2, <1>7 DEF DetectAll

-----------------------------------------------------------------------------
(* What is measured of the constructed frames. *)

\* Pixels is 1: the frames constructed are of one pixel each.
LEMMA OnePixel == Pixels = 1 /\ Pixels \in Nat
  <1>1. DOMAIN Picture["red"] = 1..Pixels
    <2>1. "red" \in DOMAIN Picture
      BY ConstructedAssumption DEF Constructed
    <2> QED
      BY <2>1, PictureAssumption
  <1>2. Picture["red"] = <<[r |-> 1000, g |-> 0, b |-> 0]>>
    BY ConstructedAssumption DEF Constructed
  <1>3. DOMAIN Picture["red"] = 1..1
    BY <1>2
  <1>4. Pixels \in Nat \ {0}
    BY MeasureAssumption
  <1>5. Pixels \in 1..1
    <2>1. 1..Pixels = 1..1
      BY <1>1, <1>3
    <2>2. Pixels \in 1..Pixels
      BY <1>4
    <2> QED
      BY <2>1, <2>2
  <1> QED
    BY <1>4, <1>5

\* The sum of the values of one thing is its value.
LEMMA SumOfOne ==
  ASSUME NEW f, NEW x, f[x] \in Int
  PROVE  SumFunctionOnSet(f, {x}) = f[x] /\ SumFunctionOnSet(f, {}) = 0
  <1>1. IsFiniteSet({x}) /\ IsFiniteSet({})
    BY FS_Singleton, FS_EmptySet
  <1>2. PICK g : IsSums(g, f, {x})
    BY <1>1, SumDef
  <1>3. PICK h : IsSums(h, f, {})
    BY <1>1, SumDef
  <1>4. Pick({x}) = x
    BY DEF Pick
  <1>5. g[{x}] = f[x] + g[{}]
    <2>1. {x} \in SUBSET {x} /\ {x} # {} /\ {x} \ {x} = {}
      OBVIOUS
    <2> QED
      BY <1>2, <1>4, <2>1 DEF IsSums
  <1> QED
    BY <1>2, <1>3, <1>5 DEF IsSums

\* The luminance of a constructed frame, and its swing towards red.
Light(f) == RelativeLuminance(Picture[f][1])
Redness(f) == RedDifference(Picture[f][1])

Moved(f, g) == Distance(Light(f), Light(g)) >= 1000
Reddened(f, g) == 
  /\ SaturatedRed(Picture[f][1]) \/ SaturatedRed(Picture[g][1])
  /\ Distance(Redness(f), Redness(g)) > 20000

\* What is measured of two frames of one pixel.
LEMMA SampleOfOne ==
  ASSUME NEW f \in DOMAIN Picture, NEW g \in DOMAIN Picture,
         Light(f) \in Nat, Light(g) \in Nat, Redness(f) \in Int, Redness(g) \in Int
  PROVE  /\ Sampled[f][g].pts = 0
         /\ Moved(f, g) => /\ Sampled[f][g].luma = Distance(Light(f), Light(g))
                           /\ Sampled[f][g].area = 10000
                           /\ Sampled[f][g].direction = Heading(Light(g) - Light(f))
         /\ ~Moved(f, g) => Sampled[f][g].luma = 0
         /\ Sampled[f][g].darker = IF Light(f) <= Light(g) THEN Light(f) ELSE Light(g)
         /\ Sampled[f][g].red = IF Reddened(f, g) THEN 10000 ELSE 0
         /\ Reddened(f, g) => Sampled[f][g].area = 10000
         /\ Reddened(f, g) /\ ~Moved(f, g) =>
              Sampled[f][g].direction = Heading(Redness(g) - Redness(f))
         /\ ~Reddened(f, g) /\ ~Moved(f, g) => Sampled[f][g].direction = "flat"
  <1> DEFINE p == Picture[f]
             c == Picture[g]
             changed == Changed(p, c)
             mask == RedFlashMask(p, c)
  <1>1. Sampled[f][g] = Sample(p, c)
    BY DEF Sampled
  <1>2. 1..Pixels = {1}
    BY OnePixel
  <1>3. changed = IF Moved(f, g) THEN {1} ELSE {}
    BY <1>2, FloorsAssumption DEF Changed, Step, Moved, Light
  <1>4. mask = IF Reddened(f, g) THEN {1} ELSE {}
    BY <1>2 DEF RedFlashMask, Reddened, Redness
  <1>5. Fraction({1}) = 10000 /\ Fraction({}) = 0 /\ Cardinality({1}) = 1 /\ Cardinality({}) = 0
    <2>1. Cardinality({1}) = 1 /\ Cardinality({}) = 0
      BY FS_Singleton, FS_EmptySet
    <2> QED
      BY <2>1, OnePixel DEF Fraction
  <1>6. Steps(p, c)[1] = Distance(Light(f), Light(g)) /\ Distance(Light(f), Light(g)) \in Nat
    BY <1>2 DEF Steps, Step, Light, Distance
  <1>7. /\ DarkerStates(p, c)[1] = IF Light(f) <= Light(g) THEN Light(f) ELSE Light(g)
        /\ DarkerStates(p, c)[1] \in Nat
    BY <1>2 DEF DarkerStates, Darker, Light
  <1>8. ASSUME NEW values, values[1] \in Nat PROVE Mean(values, {1}) = values[1]
    <2>1. SumFunctionOnSet(values, {1}) = values[1]
      BY <1>8, SumOfOne
    <2> QED
      BY <1>5, <1>8, <2>1 DEF Mean
  <1>9. LumaDelta(p, c) = IF Moved(f, g) THEN Distance(Light(f), Light(g)) ELSE 0
    BY <1>3, <1>6, <1>8 DEF LumaDelta
  <1>10. LumaMin(p, c) = IF Light(f) <= Light(g) THEN Light(f) ELSE Light(g)
    BY <1>2, <1>3, <1>7, <1>8 DEF LumaMin
  <1>11. LumaSwing(p, c) = IF Moved(f, g) THEN Light(g) - Light(f) ELSE 0
    <2> DEFINE swing == [q \in 1..Pixels |-> RelativeLuminance(c[q]) - RelativeLuminance(p[q])]
    <2>1. swing[1] = Light(g) - Light(f) /\ swing[1] \in Int
      BY <1>2 DEF Light
    <2> HIDE DEF swing
    <2>2. SumFunctionOnSet(swing, {1}) = Light(g) - Light(f) /\ SumFunctionOnSet(swing, {}) = 0
      BY <2>1, SumOfOne
    <2> QED
      BY <1>3, <2>2 DEF LumaSwing, swing
  <1>12. RedSwing(p, c) = IF Reddened(f, g) THEN Redness(g) - Redness(f) ELSE 0
    <2> DEFINE swing == [q \in 1..Pixels |-> RedDifference(c[q]) - RedDifference(p[q])]
    <2>1. swing[1] = Redness(g) - Redness(f) /\ swing[1] \in Int
      BY <1>2 DEF Redness
    <2> HIDE DEF swing
    <2>2. SumFunctionOnSet(swing, {1}) = Redness(g) - Redness(f) /\ SumFunctionOnSet(swing, {}) = 0
      BY <2>1, SumOfOne
    <2> QED
      BY <1>4, <2>2 DEF RedSwing, swing
  <1>13. /\ Moved(f, g) => Direction(p, c) = Heading(Light(g) - Light(f))
         /\ Reddened(f, g) /\ ~Moved(f, g) => Direction(p, c) = Heading(Redness(g) - Redness(f))
         /\ ~Reddened(f, g) /\ ~Moved(f, g) => Direction(p, c) = "flat"
    <2>1. Cardinality(changed) = (IF Moved(f, g) THEN 1 ELSE 0)
          /\ Cardinality(mask) = (IF Reddened(f, g) THEN 1 ELSE 0)
      BY <1>3, <1>4, <1>5
    <2> QED
      BY <1>11, <1>12, <2>1 DEF Direction, LumaHeading, RedHeading, Heading
  <1>14. Fraction(changed) = (IF Moved(f, g) THEN 10000 ELSE 0)
         /\ Fraction(mask) = (IF Reddened(f, g) THEN 10000 ELSE 0)
    BY <1>3, <1>4, <1>5
  <1>15. Moved(f, g) \/ Reddened(f, g) => Max({Fraction(changed), Fraction(mask)}) = 10000
    <2>1. SUFFICES ASSUME Moved(f, g) \/ Reddened(f, g)
                   PROVE  Max({Fraction(changed), Fraction(mask)}) = 10000
      OBVIOUS
    <2>2. {Fraction(changed), Fraction(mask)} \subseteq {0, 10000}
          /\ 10000 \in {Fraction(changed), Fraction(mask)}
      BY <1>14, <2>1
    <2> HIDE DEF changed, mask
    <2> DEFINE S == {Fraction(changed), Fraction(mask)}
    <2> HIDE DEF S
    <2>3. \A x \in S : x \in {0, 10000}
      BY <2>2 DEF S
    <2>4. 10000 \in S
      BY <2>2 DEF S
    <2> QED
      BY <2>3, <2>4 DEF Max, S
  <1> HIDE DEF p, c
  <1> QED
    BY <1>1, <1>9, <1>10, <1>13, <1>14, <1>15 DEF Sample, changed, mask

\* What the constructed frames look like.
LEMMA FrameColours ==
  /\ DOMAIN Picture = {"base_a", "base_b", "burst_dark", "burst_light", "bright_low",
                       "bright_high", "red", "teal"}
  /\ Light("base_a") = 100 /\ Light("base_b") = 2633
  /\ Light("burst_dark") = 15 /\ Light("burst_light") = 8900
  /\ Light("bright_low") = 8481 /\ Light("bright_high") = 10000
  /\ Light("red") = 2126 /\ Light("teal") = 2122
  /\ Redness("red") = 320000 /\ Redness("teal") = -355840
  /\ \A f \in DOMAIN Picture : /\ Redness(f) \in Int
                               /\ SaturatedRed(Picture[f][1]) <=> f = "red"
  <1> DEFINE grey(s) == [r |-> s, g |-> s, b |-> s]
  <1>1. /\ DOMAIN Picture = {"base_a", "base_b", "burst_dark", "burst_light", "bright_low",
                             "bright_high", "red", "teal"}
        /\ Picture["base_a"][1] = grey(100) /\ Picture["base_b"][1] = grey(550)
        /\ Picture["burst_dark"][1] = grey(20) /\ Picture["burst_light"][1] = grey(950)
        /\ Picture["bright_low"][1] = grey(930) /\ Picture["bright_high"][1] = grey(1000)
        /\ Picture["red"][1] = [r |-> 1000, g |-> 0, b |-> 0]
        /\ Picture["teal"][1] = [r |-> 0, g |-> 556, b |-> 556]
    BY ConstructedAssumption DEF Constructed
  <1>2. /\ Linear[0] = 0 /\ Linear[20] = 15 /\ Linear[100] = 100 /\ Linear[550] = 2633
        /\ Linear[556] = 2696 /\ Linear[930] = 8481 /\ Linear[950] = 8900 /\ Linear[1000] = 10000
    BY ConstructedAssumption DEF Linearised
  <1>3. ASSUME NEW s \in Nat \ {0}, Linear[s] \in Nat
        PROVE  /\ RelativeLuminance(grey(s)) = Linear[s]
               /\ RedDifference(grey(s)) \in Int /\ ~SaturatedRed(grey(s))
    <2>1. grey(s).r = s /\ grey(s).g = s /\ grey(s).b = s
      OBVIOUS
    <2> HIDE DEF grey
    <2>2. RelativeLuminance(grey(s)) = Linear[s]
      BY <1>3, <2>1 DEF RelativeLuminance
    <2> QED
      BY <2>1, <2>2 DEF RedDifference, SaturatedRed
  <1>4. /\ RelativeLuminance([r |-> 1000, g |-> 0, b |-> 0]) = 2126
        /\ RelativeLuminance([r |-> 0, g |-> 556, b |-> 556]) = 2122
    BY <1>2 DEF RelativeLuminance
  <1>5. /\ Light("base_a") = 100 /\ Light("base_b") = 2633
        /\ Light("burst_dark") = 15 /\ Light("burst_light") = 8900
        /\ Light("bright_low") = 8481 /\ Light("bright_high") = 10000
        /\ Light("red") = 2126 /\ Light("teal") = 2122
    <2> HIDE DEF grey
    <2> QED
      BY <1>1, <1>2, <1>3, <1>4 DEF Light
  <1>6. Redness("red") = 320000 /\ Redness("teal") = -355840
    BY <1>1 DEF Redness, RedDifference
  <1>7. SaturatedRed(Picture["red"][1]) /\ ~SaturatedRed(Picture["teal"][1])
    BY <1>1 DEF SaturatedRed
  <1>8. ASSUME NEW f \in DOMAIN Picture
        PROVE  Redness(f) \in Int /\ (SaturatedRed(Picture[f][1]) <=> f = "red")
    <2>1. CASE f \in {"red", "teal"}
      BY <1>6, <1>7, <2>1
    <2>2. CASE f \in {"base_a", "base_b", "burst_dark", "burst_light", "bright_low", "bright_high"}
      <3>1. PICK s \in {20, 100, 550, 930, 950, 1000} : Picture[f][1] = grey(s)
        <4> HIDE DEF grey
        <4> QED
          BY <1>1, <2>2
      <3>2. s \in Nat \ {0} /\ Linear[s] \in Nat
        BY <1>2
      <3> HIDE DEF grey
      <3>3. RedDifference(grey(s)) \in Int /\ ~SaturatedRed(grey(s))
        BY <1>3, <3>2
      <3> QED
        BY <2>2, <3>1, <3>3 DEF Redness
    <2> QED
      BY <1>1, <2>1, <2>2
  <1> QED
    BY <1>1, <1>5, <1>6, <1>8

\* Whether a transition counts in the chart of a rule.
Charts(row, rule) ==
  /\ CASE rule = "general_flash" -> row.luma >= LumaFloor
       [] rule = "red_flash" -> row.red >= RedFloor
  /\ row.area >= AreaFloor /\ row.direction # "flat"

\* A transition of the criteria's is a transition of the chart's.
LEMMA QualifiesCharts ==
  ASSUME NEW row, NEW rule \in Rules, Qualifies(row, rule) PROVE Charts(row, rule)
  BY Zenon DEF Qualifies, Charts, Rules

\* What is measured of the pairs of frames that follow one another in a second.
LEMMA FramePairs ==
  /\ /\ Qualifies(Sampled["burst_light"]["burst_dark"], "general_flash")
     /\ Sampled["burst_light"]["burst_dark"].direction = "down"
     /\ ~Qualifies(Sampled["burst_light"]["burst_dark"], "red_flash")
  /\ /\ Qualifies(Sampled["burst_dark"]["burst_light"], "general_flash")
     /\ Sampled["burst_dark"]["burst_light"].direction = "up"
     /\ ~Qualifies(Sampled["burst_dark"]["burst_light"], "red_flash")
  /\ /\ Qualifies(Sampled["teal"]["red"], "red_flash")
     /\ Sampled["teal"]["red"].direction = "up"
     /\ ~Qualifies(Sampled["teal"]["red"], "general_flash")
  /\ /\ Qualifies(Sampled["red"]["teal"], "red_flash")
     /\ Sampled["red"]["teal"].direction = "down"
     /\ ~Qualifies(Sampled["red"]["teal"], "general_flash")
  /\ \A f, g \in {"bright_low", "bright_high"}, rule \in Rules : ~Qualifies(Sampled[f][g], rule)
  /\ \A f \in {"base_a", "base_b"}, rule \in Rules : ~Qualifies(Sampled[f][f], rule)
  /\ Charts(Sampled["base_a"]["base_b"], "general_flash")
  /\ Charts(Sampled["base_b"]["base_a"], "general_flash")
  <1> DEFINE Kinds == {"base_a", "base_b", "burst_dark", "burst_light", "bright_low",
                       "bright_high", "red", "teal"}
  <1>1. ASSUME NEW f \in Kinds, NEW g \in Kinds
        PROVE  /\ f \in DOMAIN Picture /\ g \in DOMAIN Picture
               /\ Light(f) \in Nat /\ Light(g) \in Nat /\ Redness(f) \in Int /\ Redness(g) \in Int
               /\ f # "red" /\ g # "red" => ~Reddened(f, g)
    BY FrameColours DEF Reddened
  <1>2. ASSUME NEW f \in Kinds, NEW g \in Kinds, Moved(f, g), f # "red", g # "red"
        PROVE  /\ Qualifies(Sampled[f][g], "general_flash") <=>
                    (IF Light(f) <= Light(g) THEN Light(f) ELSE Light(g)) < 8000
               /\ Charts(Sampled[f][g], "general_flash")
               /\ ~Qualifies(Sampled[f][g], "red_flash")
               /\ Sampled[f][g].direction = IF Light(f) < Light(g) THEN "up" ELSE "down"
    <2>1. Distance(Light(f), Light(g)) >= 1000 /\ Light(f) # Light(g)
      BY <1>1, <1>2 DEF Moved, Distance
    <2>2. Sampled[f][g].direction = Heading(Light(g) - Light(f))
      BY <1>1, <1>2, SampleOfOne
    <2>3. Heading(Light(g) - Light(f)) = IF Light(f) < Light(g) THEN "up" ELSE "down"
      BY <1>1, <2>1 DEF Heading
    <2>4. /\ Sampled[f][g].luma >= 1000 /\ Sampled[f][g].area = 10000 /\ Sampled[f][g].red = 0
          /\ Sampled[f][g].darker = IF Light(f) <= Light(g) THEN Light(f) ELSE Light(g)
      BY <1>1, <1>2, <2>1, SampleOfOne
    <2> QED
      BY <2>2, <2>3, <2>4, FloorsAssumption DEF Qualifies, Charts
  <1>3. ASSUME NEW f \in Kinds, NEW g \in Kinds, ~Moved(f, g)
        PROVE  /\ ~Qualifies(Sampled[f][g], "general_flash")
               /\ ~Reddened(f, g) => ~Qualifies(Sampled[f][g], "red_flash")
               /\ Reddened(f, g) =>
                    /\ Sampled[f][g].direction = Heading(Redness(g) - Redness(f))
                    /\ Sampled[f][g].direction # "flat" => Qualifies(Sampled[f][g], "red_flash")
    BY <1>1, <1>3, SampleOfOne, FloorsAssumption DEF Qualifies
  <1>4. /\ Moved("burst_light", "burst_dark") /\ Moved("burst_dark", "burst_light")
        /\ Moved("base_a", "base_b") /\ Moved("base_b", "base_a")
        /\ Moved("bright_low", "bright_high") /\ Moved("bright_high", "bright_low")
    BY FrameColours DEF Moved, Distance
  <1>5. /\ ~Moved("red", "teal") /\ ~Moved("teal", "red")
        /\ \A f \in Kinds : ~Moved(f, f)
    BY <1>1, FrameColours DEF Moved, Distance
  <1>6. Reddened("red", "teal") /\ Reddened("teal", "red")
    BY FrameColours DEF Reddened, Distance
  <1>7. /\ Heading(Redness("red") - Redness("teal")) = "up"
        /\ Heading(Redness("teal") - Redness("red")) = "down"
    BY FrameColours DEF Heading
  <1>8. /\ {"base_a", "base_b", "burst_dark", "burst_light", "bright_low", "bright_high"} \subseteq Kinds
        /\ "red" \in Kinds /\ "teal" \in Kinds
    OBVIOUS
  <1> HIDE DEF Kinds
  <1>9. /\ Qualifies(Sampled["burst_light"]["burst_dark"], "general_flash")
        /\ Sampled["burst_light"]["burst_dark"].direction = "down"
        /\ ~Qualifies(Sampled["burst_light"]["burst_dark"], "red_flash")
    <2>1. 15 < 8000 /\ ~(8900 <= 15) /\ ~(8900 < 15) /\ "burst_light" # "red" /\ "burst_dark" # "red"
      OBVIOUS
    <2> QED
      BY <1>2, <1>4, <1>8, <2>1, FrameColours
  <1>10. /\ Qualifies(Sampled["burst_dark"]["burst_light"], "general_flash")
         /\ Sampled["burst_dark"]["burst_light"].direction = "up"
         /\ ~Qualifies(Sampled["burst_dark"]["burst_light"], "red_flash")
    <2>1. 15 < 8000 /\ 15 <= 8900 /\ 15 < 8900 /\ "burst_light" # "red" /\ "burst_dark" # "red"
      OBVIOUS
    <2> QED
      BY <1>2, <1>4, <1>8, <2>1, FrameColours
  <1>11. /\ Qualifies(Sampled["teal"]["red"], "red_flash")
         /\ Sampled["teal"]["red"].direction = "up"
         /\ ~Qualifies(Sampled["teal"]["red"], "general_flash")
    BY <1>3, <1>5, <1>6, <1>7, <1>8
  <1>12. /\ Qualifies(Sampled["red"]["teal"], "red_flash")
         /\ Sampled["red"]["teal"].direction = "down"
         /\ ~Qualifies(Sampled["red"]["teal"], "general_flash")
    BY <1>3, <1>5, <1>6, <1>7, <1>8
  <1>13. ASSUME NEW f \in {"base_a", "base_b", "burst_dark", "burst_light", "bright_low", "bright_high"},
                NEW rule \in Rules
         PROVE  ~Qualifies(Sampled[f][f], rule)
    <2>1. f \in Kinds /\ f # "red" /\ ~Moved(f, f)
      BY <1>5, <1>8
    <2>2. ~Reddened(f, f)
      BY <1>1, <2>1
    <2> QED
      BY <1>3, <2>1, <2>2 DEF Rules
  <1>14. ASSUME NEW rule \in Rules
         PROVE  /\ ~Qualifies(Sampled["bright_low"]["bright_high"], rule)
                /\ ~Qualifies(Sampled["bright_high"]["bright_low"], rule)
    <2>1. /\ ~Qualifies(Sampled["bright_low"]["bright_high"], "general_flash")
          /\ ~Qualifies(Sampled["bright_low"]["bright_high"], "red_flash")
      <3>1. ~(8481 < 8000) /\ 8481 <= 10000 /\ "bright_low" # "red" /\ "bright_high" # "red"
        OBVIOUS
      <3> QED
        BY <1>2, <1>4, <1>8, <3>1, FrameColours
    <2>2. /\ ~Qualifies(Sampled["bright_high"]["bright_low"], "general_flash")
          /\ ~Qualifies(Sampled["bright_high"]["bright_low"], "red_flash")
      <3>1. ~(8481 < 8000) /\ ~(10000 <= 8481) /\ "bright_low" # "red" /\ "bright_high" # "red"
        OBVIOUS
      <3> QED
        BY <1>2, <1>4, <1>8, <3>1, FrameColours
    <2> QED
      BY <2>1, <2>2 DEF Rules
  <1>15. /\ Charts(Sampled["base_a"]["base_b"], "general_flash")
         /\ Charts(Sampled["base_b"]["base_a"], "general_flash")
    <2>1. "base_a" # "red" /\ "base_b" # "red"
      OBVIOUS
    <2> QED
      BY <1>2, <1>4, <1>8, <2>1
  <1>16. ASSUME NEW f \in {"bright_low", "bright_high"}, NEW g \in {"bright_low", "bright_high"},
                NEW rule \in Rules
         PROVE  ~Qualifies(Sampled[f][g], rule)
    <2>1. CASE f = g
      BY <1>13, <2>1
    <2>2. CASE f # g
      BY <1>14, <2>2
    <2> QED
      BY <2>1, <2>2
  <1> QED
    BY <1>9, <1>10, <1>11, <1>12, <1>13, <1>15, <1>16

-----------------------------------------------------------------------------
(* The rows of an asset, by what is planted in it. *)

\* A frame lasts a whole number of milliseconds.
Tock == 1000 \div FrameRate

LEMMA Pace ==
  /\ FrameRate \in Nat /\ FrameRate > 2 /\ Tock \in Nat /\ Tock > 0
  /\ Tock * FrameRate = 1000 /\ Span = 1000
  <1>1. FrameRate \in Nat /\ FrameRate > 2 /\ 1000 % FrameRate = 0
    BY CorpusAssumption, QuietAssumption
  <1>2. Tock \in Nat /\ Tock * FrameRate = 1000
    BY <1>1 DEF Tock
  <1>3. Tock # 0
    BY <1>1, <1>2
  <1> QED
    BY <1>1, <1>2, <1>3, FloorsAssumption

\* A product is divided without rest.
LEMMA Quotient ==
  ASSUME NEW k \in Nat, NEW d \in Nat, d > 0
  PROVE  (k * d) \div d = k /\ (k * d) % d = 0
  <1> DEFINE q == (k * d) \div d
             r == (k * d) % d
  <1>1. q \in Int /\ r \in Int /\ k * d = d * q + r /\ 0 <= r /\ r < d
    BY SMT
  <1> HIDE DEF q, r
  <1>2. d * (k - q) = r
    BY <1>1
  <1>3. CASE k - q >= 1
    <2>1. d * (k - q) >= d
      BY <1>1, <1>3
    <2> QED
      BY <1>1, <1>2, <2>1
  <1>4. CASE k - q <= -1
    <2>1. d * (k - q) <= -d
      BY <1>1, <1>4
    <2> QED
      BY <1>1, <1>2, <2>1
  <1>5. CASE k - q = 0
    BY <1>1, <1>2, <1>5 DEF q, r
  <1> QED
    BY <1>1, <1>3, <1>4, <1>5

\* The time of a frame, and the second it is in.
LEMMA FrameTime ==
  ASSUME NEW t \in Nat
  PROVE  /\ t * Tock \in Nat
         /\ Pts(t, 1000 * FrameRate) = t * Tock
         /\ (t * 1000) \div FrameRate = t * Tock
         /\ (t * Tock) \div 1000 = t \div FrameRate
  <1>1. FrameRate \in Nat /\ FrameRate > 0 /\ Tock \in Nat /\ Tock > 0 /\ Tock * FrameRate = 1000
    BY Pace
  <1> DEFINE time == t * Tock
  <1>2. time \in Nat /\ t * 1000 = time * FrameRate
    BY <1>1
  <1> HIDE DEF time
  <1>3. t * 1000000 = time * (1000 * FrameRate)
    <2> DEFINE all == time * FrameRate
    <2>1. all \in Nat /\ t * 1000 = all
      BY <1>1, <1>2
    <2>2. all * 1000 = time * (1000 * FrameRate)
      BY <1>1, <1>2, SMT
    <2> HIDE DEF all
    <2>3. t * 1000000 = all * 1000
      BY <2>1, SMT
    <2> QED
      BY <2>2, <2>3, SMT
  <1>4. (t * 1000) \div FrameRate = time
    BY <1>1, <1>2, Quotient
  <1>5. (t * 1000000) \div (1000 * FrameRate) = time /\ (t * 1000000) % (1000 * FrameRate) = 0
    <2>1. 1000 * FrameRate \in Nat /\ 1000 * FrameRate > 0
      BY <1>1
    <2> QED
      BY <1>2, <1>3, <2>1, Quotient, SMT
  <1>6. Pts(t, 1000 * FrameRate) = time
    <2> DEFINE n == t * 1000000
               d == 1000 * FrameRate
    <2>1. d \in Nat /\ d > 0 /\ n \div d = time /\ n % d = 0
      BY <1>1, <1>5, SMT
    <2> HIDE DEF n, d
    <2>2. Round(n, d) = time
      BY <1>2, <2>1 DEF Round
    <2> QED
      BY <2>2, SMT DEF Pts, n, d
  <1> DEFINE q == t \div FrameRate
             r == t % FrameRate
  <1>7. q \in Nat /\ r \in Nat /\ r < FrameRate /\ t = FrameRate * q + r
    BY <1>1
  <1> HIDE DEF q, r
  <1>8. time = 1000 * q + r * Tock
    <2>1. time = (FrameRate * q + r) * Tock
      BY <1>7 DEF time
    <2>2. (FrameRate * q + r) * Tock = (Tock * FrameRate) * q + r * Tock
      BY <1>1, <1>7
    <2> QED
      BY <1>1, <2>1, <2>2
  <1>9. r * Tock \in 0..999
    <2>1. (FrameRate - 1 - r) * Tock >= 0 /\ r * Tock >= 0
      BY <1>1, <1>7
    <2>2. (FrameRate - 1 - r) * Tock = Tock * FrameRate - Tock - r * Tock
      BY <1>1, <1>7
    <2> QED
      BY <1>1, <1>7, <2>1, <2>2
  <1>10. time \div 1000 = q
    <2> DEFINE rest == r * Tock
    <2>1. rest \in Nat /\ rest < 1000 /\ time = 1000 * q + rest
      BY <1>8, <1>9
    <2> HIDE DEF rest
    <2> QED
      BY <1>7, <2>1
  <1> QED
    BY <1>2, <1>4, <1>6, <1>10 DEF time, q

\* A number and the one before it, divided.
LEMMA NextQuotient ==
  ASSUME NEW t \in Nat, t > 0, NEW d \in Nat, d > 0
  PROVE  /\ t % d # 0 => (t - 1) \div d = t \div d
         /\ t % d = 0 => t \div d = (t - 1) \div d + 1
         /\ (t - 1) \div d \in Nat /\ t \div d \in Nat
  <1> DEFINE q == t \div d
             r == t % d
             p == (t - 1) \div d
             s == (t - 1) % d
  <1>1. q \in Nat /\ r \in Nat /\ r < d /\ t = d * q + r
    OBVIOUS
  <1>2. p \in Nat /\ s \in Nat /\ s < d /\ t - 1 = d * p + s
    BY t - 1 \in Nat
  <1> HIDE DEF q, r, p, s
  <1>3. d * (q - p) = s + 1 - r
    BY <1>1, <1>2
  <1>4. ASSUME q - p >= 1 PROVE r = 0 /\ q - p = 1
    <2>1. d * (q - p) >= d
      BY <1>1, <1>2, <1>4
    <2>2. s + 1 - r >= d
      BY <1>3, <2>1
    <2>3. r = 0 /\ s + 1 = d
      BY <1>1, <1>2, <2>2
    <2>4. d * (q - p - 1) = 0
      BY <1>1, <1>2, <1>3, <2>3
    <2> QED
      BY <1>1, <1>2, <2>3, <2>4
  <1>5. ASSUME q - p <= 0 PROVE q - p = 0 /\ r # 0
    <2>1. d * (q - p) >= -d + 2
      BY <1>1, <1>2, <1>3
    <2>2. ASSUME q - p <= -1 PROVE FALSE
      <3>1. d * (q - p) <= -d
        BY <1>1, <1>2, <2>2
      <3> QED
        BY <2>1, <3>1, <1>1, <1>2
    <2>3. q - p = 0
      BY <1>1, <1>2, <1>5, <2>2
    <2> QED
      BY <1>1, <1>2, <1>3, <2>3
  <1>6. (r # 0 => p = q) /\ (r = 0 => q = p + 1) /\ p \in Nat /\ q \in Nat
    BY <1>1, <1>2, <1>4, <1>5
  <1> QED
    BY <1>6 DEF q, r, p

\* What is planted in an asset at a frame.
Planted(bursts, t) ==
  LET second == t \div FrameRate
  IN IF "general" \in bursts /\ second = BurstSecond THEN "general"
     ELSE IF "red" \in bursts /\ second = RedSecond THEN "red"
     ELSE IF "bright" \in bursts /\ second = BrightSecond THEN "bright" ELSE "none"

\* The frame constructed for it.
FrameOf(kind, t) ==
  CASE kind = "general" -> Alternating(t, "burst_dark", "burst_light")
    [] kind = "red" -> Alternating(t, "red", "teal")
    [] kind = "bright" -> Alternating(t, "bright_low", "bright_high")
    [] kind = "none" -> Alternating(t \div Every, "base_a", "base_b")

\* Rows in a clip.
Length == Seconds * FrameRate

\* The frame that the i-th row is of.
FrameNo(measured, i) == IF measured THEN i ELSE i - 1

LEMMA LengthType == Length \in Nat /\ Every \in Nat /\ Every > 0 /\ Seconds \in Nat
  BY CorpusAssumption DEF Length

\* A measured row is of two frames in a row.
LEMMA MeasuredRow ==
  ASSUME NEW bursts, NEW i \in 1..Length
  PROVE  LET f == FrameOf(Planted(bursts, i - 1), i - 1)
             g == FrameOf(Planted(bursts, i), i)
             row == MeasuredRows(bursts)[i]
         IN /\ f \in DOMAIN Picture /\ g \in DOMAIN Picture
            /\ row = [Sampled[f][g] EXCEPT !.pts = i * Tock]
            /\ row.pts = i * Tock /\ row.direction = Sampled[f][g].direction
            /\ \A rule \in Rules : /\ Qualifies(row, rule) <=> Qualifies(Sampled[f][g], rule)
                                   /\ Charts(row, rule) <=> Charts(Sampled[f][g], rule)
  <1> DEFINE f == FrameOf(Planted(bursts, i - 1), i - 1)
             g == FrameOf(Planted(bursts, i), i)
             row == MeasuredRows(bursts)[i]
             frames == FramesFor(bursts)
  <1>1. ASSUME NEW n \in 1..(Length + 1) PROVE frames[n] = FrameOf(Planted(bursts, n - 1), n - 1)
    BY DEF FramesFor, FrameOf, Planted, Length
  <1>2. Len(frames) = Length + 1
    BY LengthType DEF FramesFor, Length
  <1>3. i \in Nat /\ i \in 1..(Length + 1) /\ i + 1 \in 1..(Length + 1) /\ i \in 1..(Len(frames) - 1)
        /\ i + 1 - 1 = i
    BY <1>2, LengthType
  <1> HIDE DEF frames
  <1>4. f = frames[i] /\ g = frames[i + 1]
    <2>1. frames[i + 1] = FrameOf(Planted(bursts, i + 1 - 1), i + 1 - 1)
      BY <1>1, <1>3
    <2> QED
      BY <1>1, <1>3, <2>1
  <1>5. row = [Sampled[frames[i]][frames[i + 1]] EXCEPT !.pts = Pts(i, 1000 * FrameRate)]
    BY <1>3 DEF MeasuredRows, FramesToTransitions, frames
  <1>6. ASSUME NEW kind \in Bursts \cup {"none"}, NEW t PROVE FrameOf(kind, t) \in DOMAIN Picture
    BY FrameColours DEF FrameOf, Alternating, Bursts
  <1>7. \A t : Planted(bursts, t) \in Bursts \cup {"none"}
    BY DEF Planted, Bursts
  <1>8. f \in DOMAIN Picture /\ g \in DOMAIN Picture
    BY <1>6, <1>7
  <1> HIDE DEF f, g, row
  <1>9. row = [Sampled[f][g] EXCEPT !.pts = i * Tock]
    BY <1>3, <1>4, <1>5, FrameTime
  <1>10. /\ row.pts = i * Tock /\ row.direction = Sampled[f][g].direction
         /\ row.luma = Sampled[f][g].luma /\ row.darker = Sampled[f][g].darker
         /\ row.red = Sampled[f][g].red /\ row.area = Sampled[f][g].area
    <2>1. Sampled[f][g] = Sample(Picture[f], Picture[g])
      BY <1>8 DEF Sampled
    <2> QED
      BY <1>9, <2>1 DEF Sample
  <1>11. \A rule \in Rules : /\ Qualifies(row, rule) <=> Qualifies(Sampled[f][g], rule)
                             /\ Charts(row, rule) <=> Charts(Sampled[f][g], rule)
    BY <1>10 DEF Qualifies, Charts, Rules
  <1> QED
    BY <1>8, <1>9, <1>10, <1>11 DEF f, g, row

\* The kind of burst that a rule finds, and the way it heads.
KindOf(rule) == IF rule = "general_flash" THEN "general" ELSE "red"
HeadingOf(measured, rule, t) ==
  IF measured /\ rule = "red_flash" THEN Alternating(t, "up", "down") ELSE Alternating(t, "down", "up")

\* What a row does to the criteria, by what is planted at its frame and at the one before.
Behaves(row, measured, bursts, t) ==
  /\ row.pts = t * Tock
  /\ \A rule \in Rules :
       /\ t % FrameRate # 0 /\ Planted(bursts, t) = KindOf(rule) =>
            Qualifies(row, rule) /\ row.direction = HeadingOf(measured, rule, t)
       /\ ~Quiet(t) /\ Planted(bursts, t) # KindOf(rule) => ~Qualifies(row, rule)
  /\ t > 0 /\ t % Every = 0 /\ Planted(bursts, t) = "none" /\ Planted(bursts, t - 1) = "none" =>
       Charts(row, "general_flash")

\* A measured row does.
LEMMA MeasuredBehaves ==
  ASSUME NEW bursts, NEW i \in 1..Length
  PROVE  Behaves(MeasuredRows(bursts)[i], TRUE, bursts, i)
  <1> DEFINE f == FrameOf(Planted(bursts, i - 1), i - 1)
             g == FrameOf(Planted(bursts, i), i)
             row == MeasuredRows(bursts)[i]
             kind == Planted(bursts, i)
  <1>1. /\ row.pts = i * Tock /\ row.direction = Sampled[f][g].direction
        /\ \A rule \in Rules : /\ Qualifies(row, rule) <=> Qualifies(Sampled[f][g], rule)
                               /\ Charts(row, rule) <=> Charts(Sampled[f][g], rule)
    BY MeasuredRow
  <1>2. i \in Nat /\ i > 0
    BY LengthType
  <1>3. kind \in {"general", "red", "bright", "none"}
    BY DEF Planted
  <1>4. i % FrameRate # 0 => Planted(bursts, i - 1) = kind
    <2>1. i % FrameRate # 0 => (i - 1) \div FrameRate = i \div FrameRate
      BY <1>2, Pace, NextQuotient
    <2> QED
      BY <2>1 DEF Planted
  <1>5. (i % 2 = 1 /\ (i - 1) % 2 # 1) \/ (i % 2 # 1 /\ (i - 1) % 2 = 1)
    BY <1>2
  <1>6. (i \div Every) % 2 \in {0, 1} /\ ((i - 1) \div Every) % 2 \in {0, 1}
    BY <1>2, LengthType, NextQuotient
  <1>7. /\ i % Every # 0 => (i - 1) \div Every = i \div Every
        /\ i % Every = 0 => (i \div Every) % 2 # ((i - 1) \div Every) % 2
    <2> DEFINE q == i \div Every
               p == (i - 1) \div Every
    <2>1. /\ i % Every # 0 => p = q
          /\ i % Every = 0 => q = p + 1
          /\ p \in Nat /\ q \in Nat
      BY <1>2, LengthType, NextQuotient
    <2> HIDE DEF p, q
    <2>2. q = p + 1 => q % 2 # p % 2
      BY <2>1
    <2> QED
      BY <2>1, <2>2 DEF p, q
  <1>8. kind = "general" => g = Alternating(i, "burst_dark", "burst_light")
    BY DEF FrameOf
  <1>9. kind = "red" => g = Alternating(i, "red", "teal")
    BY DEF FrameOf
  <1>10. kind = "bright" => g \in {"bright_low", "bright_high"}
    BY DEF FrameOf, Alternating
  <1>11. kind = "none" => g = Alternating(i \div Every, "base_a", "base_b")
    BY DEF FrameOf
  <1>12. LET k == Planted(bursts, i - 1)
         IN /\ k = "general" => f = Alternating(i - 1, "burst_dark", "burst_light")
            /\ k = "red" => f = Alternating(i - 1, "red", "teal")
            /\ k = "bright" => f \in {"bright_low", "bright_high"}
            /\ k = "none" => f = Alternating((i - 1) \div Every, "base_a", "base_b")
    BY DEF FrameOf, Alternating
  <1> HIDE DEF f, g, row, kind
  <1>13. ASSUME i % FrameRate # 0, kind = "general"
         PROVE  /\ Qualifies(row, "general_flash") /\ ~Qualifies(row, "red_flash")
                /\ row.direction = Alternating(i, "down", "up")
    <2>1. CASE i % 2 = 1
      <3>1. f = "burst_light" /\ g = "burst_dark"
        BY <1>4, <1>5, <1>8, <1>12, <1>13, <2>1 DEF Alternating
      <3> QED
        BY <1>1, <2>1, <3>1, FramePairs DEF Alternating, Rules
    <2>2. CASE i % 2 # 1
      <3>1. f = "burst_dark" /\ g = "burst_light"
        BY <1>4, <1>5, <1>8, <1>12, <1>13, <2>2 DEF Alternating
      <3> QED
        BY <1>1, <2>2, <3>1, FramePairs DEF Alternating, Rules
    <2> QED
      BY <2>1, <2>2
  <1>14. ASSUME i % FrameRate # 0, kind = "red"
         PROVE  /\ Qualifies(row, "red_flash") /\ ~Qualifies(row, "general_flash")
                /\ row.direction = Alternating(i, "up", "down")
    <2>1. CASE i % 2 = 1
      <3>1. f = "teal" /\ g = "red"
        BY <1>4, <1>5, <1>9, <1>12, <1>14, <2>1 DEF Alternating
      <3> QED
        BY <1>1, <2>1, <3>1, FramePairs DEF Alternating, Rules
    <2>2. CASE i % 2 # 1
      <3>1. f = "red" /\ g = "teal"
        BY <1>4, <1>5, <1>9, <1>12, <1>14, <2>2 DEF Alternating
      <3> QED
        BY <1>1, <2>2, <3>1, FramePairs DEF Alternating, Rules
    <2> QED
      BY <2>1, <2>2
  <1>15. ASSUME i % FrameRate # 0, kind = "bright", NEW rule \in Rules PROVE ~Qualifies(row, rule)
    BY <1>1, <1>4, <1>10, <1>12, <1>15, FramePairs
  <1>16. ASSUME i % FrameRate # 0, i % Every # 0, kind = "none", NEW rule \in Rules
         PROVE  ~Qualifies(row, rule)
    <2>1. f = g /\ f \in {"base_a", "base_b"}
      BY <1>4, <1>7, <1>11, <1>12, <1>16 DEF Alternating
    <2> QED
      BY <1>1, <2>1, FramePairs
  <1>17. ASSUME i % Every = 0, kind = "none", Planted(bursts, i - 1) = "none"
         PROVE  Charts(row, "general_flash")
    <2>1. (f = "base_a" /\ g = "base_b") \/ (f = "base_b" /\ g = "base_a")
      BY <1>6, <1>7, <1>11, <1>12, <1>17 DEF Alternating
    <2> QED
      BY <1>1, <2>1, FramePairs DEF Rules
  <1>18. ASSUME NEW rule \in Rules
         PROVE  /\ i % FrameRate # 0 /\ kind = KindOf(rule) =>
                     Qualifies(row, rule) /\ row.direction = HeadingOf(TRUE, rule, i)
                /\ ~Quiet(i) /\ kind # KindOf(rule) => ~Qualifies(row, rule)
    <2>1. CASE rule = "general_flash"
      BY <1>3, <1>13, <1>14, <1>15, <1>16, <2>1 DEF KindOf, HeadingOf, Quiet
    <2>2. CASE rule = "red_flash"
      BY <1>3, <1>13, <1>14, <1>15, <1>16, <2>2 DEF KindOf, HeadingOf, Quiet
    <2> QED
      BY <2>1, <2>2 DEF Rules
  <1>19. Behaves(row, TRUE, bursts, i)
    BY <1>1, <1>17, <1>18 DEF Behaves, kind
  <1> QED
    BY <1>19 DEF row

\* So does an authored one.
LEMMA AuthoredBehaves ==
  ASSUME NEW bursts, NEW t \in Nat
  PROVE  Behaves(AuthoredRow(bursts, t), FALSE, bursts, t)
  <1> DEFINE row == AuthoredRow(bursts, t)
             kind == Planted(bursts, t)
             second == t \div FrameRate
             red == "red" \in bursts /\ second = RedSecond
             bright == "bright" \in bursts /\ second = BrightSecond
             general == "general" \in bursts /\ second = BurstSecond
             baseline == t % Every = 0
             pts == (t * 1000) \div FrameRate
  <1>1. pts = t * Tock /\ pts \div 1000 = second
    BY FrameTime
  <1>2. row.pts = t * Tock
    BY <1>1 DEF AuthoredRow
  <1>3. /\ kind = "general" => general /\ ~red /\ ~bright
        /\ kind = "red" => red /\ ~general /\ ~bright
        /\ kind = "bright" => bright /\ ~red /\ ~general
        /\ kind = "none" => ~red /\ ~general /\ ~bright
        /\ kind \in {"general", "red", "bright", "none"}
    BY CorpusAssumption DEF Planted
  <1>4. /\ row.luma = CASE red -> 200 [] bright -> 4000 [] general -> 3400
                        [] ~(red \/ bright \/ general) /\ baseline -> 1200 [] OTHER -> 0
        /\ row.darker = CASE red -> 1000 [] bright -> 8600 [] general -> 300
                        [] ~(red \/ bright \/ general) /\ baseline -> 800 [] OTHER -> 800
        /\ row.red = CASE red -> 2400 [] bright -> 0 [] general -> 500
                        [] ~(red \/ bright \/ general) /\ baseline -> 200 [] OTHER -> 0
        /\ row.area = CASE red -> 4800 [] bright -> 6000 [] general -> 5200
                        [] ~(red \/ bright \/ general) /\ baseline -> 2800 [] OTHER -> 0
        /\ row.direction = IF red \/ bright \/ general \/ baseline
                           THEN Alternating(t, "down", "up") ELSE "flat"
    BY <1>1 DEF AuthoredRow
  <1> HIDE DEF row, kind, red, bright, general, second
  <1>5. Alternating(t, "down", "up") # "flat"
    BY DEF Alternating
  <1>6. kind = "general" => /\ Qualifies(row, "general_flash") /\ ~Qualifies(row, "red_flash")
                            /\ row.direction = Alternating(t, "down", "up")
    BY <1>3, <1>4, <1>5, FloorsAssumption DEF Qualifies
  <1>7. kind = "red" => /\ Qualifies(row, "red_flash") /\ ~Qualifies(row, "general_flash")
                        /\ row.direction = Alternating(t, "down", "up")
    BY <1>3, <1>4, <1>5, FloorsAssumption DEF Qualifies
  <1>8. kind = "bright" => ~Qualifies(row, "red_flash") /\ ~Qualifies(row, "general_flash")
    BY <1>3, <1>4, FloorsAssumption DEF Qualifies
  <1>9. kind = "none" /\ ~baseline =>
          ~Qualifies(row, "red_flash") /\ ~Qualifies(row, "general_flash")
    BY <1>3, <1>4, FloorsAssumption DEF Qualifies
  <1>10. kind = "none" /\ baseline => Charts(row, "general_flash")
    BY <1>3, <1>4, <1>5, FloorsAssumption DEF Charts
  <1>11. ASSUME NEW rule \in Rules
         PROVE  /\ kind = KindOf(rule) =>
                     Qualifies(row, rule) /\ row.direction = HeadingOf(FALSE, rule, t)
                /\ ~Quiet(t) /\ kind # KindOf(rule) => ~Qualifies(row, rule)
    BY <1>3, <1>6, <1>7, <1>8, <1>9 DEF KindOf, HeadingOf, Quiet, Rules
  <1>12. Behaves(row, FALSE, bursts, t)
    BY <1>2, <1>10, <1>11 DEF Behaves, kind
  <1> QED
    BY <1>12 DEF row

\* The rows of an asset are a clip.
LEMMA RowsAreClip ==
  ASSUME NEW measured \in BOOLEAN, NEW bursts PROVE IsClip(RowsOf(measured, bursts))
  BY MeasuredRowsAreClip, AuthoredRowsAreClip DEF RowsOf

\* The rows of an asset, measured or authored.
LEMMA RowsBehave ==
  ASSUME NEW measured \in BOOLEAN, NEW bursts
  PROVE  /\ Len(RowsOf(measured, bursts)) = Length /\ DOMAIN RowsOf(measured, bursts) = 1..Length
         /\ \A i \in 1..Length : /\ FrameNo(measured, i) \in 0..Length
                                 /\ Behaves(RowsOf(measured, bursts)[i], measured, bursts,
                                            FrameNo(measured, i))
  <1>1. /\ Len(MeasuredRows(bursts)) = Length
        /\ Len(AuthoredRows(bursts)) = Length /\ DOMAIN AuthoredRows(bursts) = 1..Length
        /\ DOMAIN MeasuredRows(bursts) = 1..Length
    <2>1. Len(FramesFor(bursts)) = Length + 1
      BY LengthType DEF FramesFor, Length
    <2>2. Length \in Nat /\ Length + 1 - 1 = Length
      BY LengthType
    <2>3. Len(AuthoredRows(bursts)) = Length /\ DOMAIN AuthoredRows(bursts) = 1..Length
      BY <2>2 DEF AuthoredRows, Length
    <2> QED
      BY <2>1, <2>2, <2>3 DEF MeasuredRows, FramesToTransitions
  <1>2. ASSUME NEW i \in 1..Length
        PROVE  /\ FrameNo(measured, i) \in 0..Length
               /\ Behaves(RowsOf(measured, bursts)[i], measured, bursts, FrameNo(measured, i))
    <2>1. i - 1 \in Nat /\ FrameNo(measured, i) \in 0..Length
      BY LengthType DEF FrameNo
    <2>2. AuthoredRows(bursts)[i] = AuthoredRow(bursts, i - 1)
      BY DEF AuthoredRows, Length
    <2>3. Behaves(MeasuredRows(bursts)[i], TRUE, bursts, i)
      BY MeasuredBehaves
    <2>4. Behaves(AuthoredRows(bursts)[i], FALSE, bursts, i - 1)
      BY <2>1, <2>2, AuthoredBehaves
    <2> QED
      BY <2>1, <2>3, <2>4 DEF RowsOf, FrameNo
  <1> QED
    BY <1>1, <1>2 DEF RowsOf

\* What is planted around a frame decides its row.
LEMMA RowsAgree ==
  ASSUME NEW measured \in BOOLEAN, NEW b, NEW c, NEW i \in 1..Length,
         Planted(b, FrameNo(measured, i)) = Planted(c, FrameNo(measured, i)),
         measured => Planted(b, i - 1) = Planted(c, i - 1)
  PROVE  RowsOf(measured, b)[i] = RowsOf(measured, c)[i]
  <1>1. CASE measured
    <2>1. MeasuredRows(b)[i] = MeasuredRows(c)[i]
      <3> DEFINE row(x, y) == [Sampled[FrameOf(x, i - 1)][FrameOf(y, i)] EXCEPT !.pts = i * Tock]
      <3>1. \A bursts : MeasuredRows(bursts)[i] = row(Planted(bursts, i - 1), Planted(bursts, i))
        BY MeasuredRow
      <3>2. Planted(b, i) = Planted(c, i) /\ Planted(b, i - 1) = Planted(c, i - 1)
        BY <1>1 DEF FrameNo
      <3> HIDE DEF row
      <3> QED
        BY <3>1, <3>2
    <2> QED
      BY <1>1, <2>1 DEF RowsOf
  <1>2. CASE ~measured
    <2> DEFINE t == i - 1
               second == t \div FrameRate
    <2>1. t \in Nat /\ FrameNo(measured, i) = t
      BY <1>2, LengthType DEF FrameNo
    <2>2. ((t * 1000) \div FrameRate) \div 1000 = second
      BY <2>1, FrameTime
    <2> HIDE DEF t
    <2>3. /\ "red" \in b /\ second = RedSecond <=> "red" \in c /\ second = RedSecond
          /\ "bright" \in b /\ second = BrightSecond <=> "bright" \in c /\ second = BrightSecond
          /\ "general" \in b /\ second = BurstSecond <=> "general" \in c /\ second = BurstSecond
      BY <2>1, CorpusAssumption DEF Planted
    <2> HIDE DEF second
    <2>4. AuthoredRow(b, t) = AuthoredRow(c, t)
      BY <2>2, <2>3 DEF AuthoredRow
    <2> QED
      BY <1>2, <2>4 DEF RowsOf, AuthoredRows, Length, t
  <1> QED
    BY <1>1, <1>2

\* The second in which a rule's burst is planted, and its first frame.
SecondOf(rule) == IF rule = "general_flash" THEN BurstSecond ELSE RedSecond
FirstFrame(rule) == SecondOf(rule) * FrameRate

\* The frames of a second.
LEMMA InSecond ==
  ASSUME NEW t \in Nat, NEW s \in Nat
  PROVE  /\ t \div FrameRate = s <=> s * FrameRate <= t /\ t < s * FrameRate + FrameRate
         /\ s * FrameRate \in Nat
         /\ t = s * FrameRate => t % FrameRate = 0
         /\ s * FrameRate < t /\ t < s * FrameRate + FrameRate => t % FrameRate # 0
  <1> DEFINE q == t \div FrameRate
             r == t % FrameRate
  <1>1. FrameRate \in Nat /\ FrameRate > 0
    BY Pace
  <1>2. q \in Nat /\ r \in Nat /\ r < FrameRate /\ t = FrameRate * q + r
    BY <1>1
  <1> HIDE DEF q, r
  <1>3. s * FrameRate \in Nat
    BY <1>1
  <1>4. t - s * FrameRate = FrameRate * (q - s) + r
    BY <1>1, <1>2
  <1>5. ASSUME q - s >= 1 PROVE t >= s * FrameRate + FrameRate
    <2>1. FrameRate * (q - s) >= FrameRate
      BY <1>1, <1>2, <1>5
    <2> QED
      BY <1>1, <1>2, <1>3, <1>4, <2>1
  <1>6. ASSUME q - s <= -1 PROVE t < s * FrameRate
    <2>1. FrameRate * (q - s) <= -FrameRate
      BY <1>1, <1>2, <1>6
    <2> QED
      BY <1>1, <1>2, <1>3, <1>4, <2>1
  <1>7. ASSUME q = s PROVE t = s * FrameRate + r
    BY <1>1, <1>2, <1>7
  <1>8. q - s >= 1 \/ q - s <= -1 \/ q = s
    BY <1>2
  <1>9. /\ q = s <=> s * FrameRate <= t /\ t < s * FrameRate + FrameRate
        /\ t = s * FrameRate => r = 0
        /\ s * FrameRate < t /\ t < s * FrameRate + FrameRate => r # 0
    <2> DEFINE from == s * FrameRate
    <2> HIDE DEF from
    <2>1. from \in Nat
      BY <1>3 DEF from
    <2>2. /\ q - s >= 1 => t >= from + FrameRate
          /\ q - s <= -1 => t < from
          /\ q = s => t = from + r
      BY <1>5, <1>6, <1>7 DEF from
    <2>3. /\ q = s <=> from <= t /\ t < from + FrameRate
          /\ t = from => r = 0
          /\ from < t /\ t < from + FrameRate => r # 0
      BY <1>1, <1>2, <1>8, <2>1, <2>2
    <2> QED
      BY <2>3 DEF from
  <1> QED
    BY <1>3, <1>9 DEF q, r

\* A rule's burst is planted from the start of its second to the end.
LEMMA PlantedIn ==
  ASSUME NEW rule \in Rules, NEW bursts, NEW t \in Nat
  PROVE  /\ SecondOf(rule) \in Nat /\ FirstFrame(rule) \in Nat /\ FirstFrame(rule) + FrameRate <= Length
         /\ Planted(bursts, t) = KindOf(rule) <=>
              KindOf(rule) \in bursts /\ FirstFrame(rule) <= t /\ t < FirstFrame(rule) + FrameRate
         /\ t = FirstFrame(rule) => Quiet(t)
         /\ FirstFrame(rule) < t /\ t < FirstFrame(rule) + FrameRate => t % FrameRate # 0
  <1>1. SecondOf(rule) \in 0..(Seconds - 1) /\ Seconds \in Nat /\ FrameRate \in Nat
    BY CorpusAssumption DEF SecondOf
  <1>2. Planted(bursts, t) = KindOf(rule) <=>
          KindOf(rule) \in bursts /\ t \div FrameRate = SecondOf(rule)
    BY CorpusAssumption DEF Planted, KindOf, SecondOf, Rules
  <1>3. FirstFrame(rule) + FrameRate <= Length
    <2>1. (Seconds - 1 - SecondOf(rule)) * FrameRate >= 0
      BY <1>1
    <2>2. (Seconds - 1 - SecondOf(rule)) * FrameRate
            = Seconds * FrameRate - FrameRate - SecondOf(rule) * FrameRate
      BY <1>1
    <2> QED
      BY <1>1, <2>1, <2>2 DEF FirstFrame, Length
  <1>4. SecondOf(rule) \in Nat
    BY <1>1
  <1>5. /\ t \div FrameRate = SecondOf(rule) <=> FirstFrame(rule) <= t /\ t < FirstFrame(rule) + FrameRate
        /\ FirstFrame(rule) \in Nat
        /\ t = FirstFrame(rule) => t % FrameRate = 0
        /\ FirstFrame(rule) < t /\ t < FirstFrame(rule) + FrameRate => t % FrameRate # 0
    BY <1>4, InSecond DEF FirstFrame
  <1> QED
    BY <1>2, <1>3, <1>4, <1>5 DEF Quiet

-----------------------------------------------------------------------------
(* What the criteria find of what is planted. *)

\* The order of frames is that of their times.
LEMMA FrameOrder ==
  ASSUME NEW a \in Nat, NEW b \in Nat
  PROVE  /\ a * Tock \in Nat /\ b * Tock \in Nat
         /\ a * Tock < b * Tock <=> a < b
         /\ a * Tock = b * Tock <=> a = b
         /\ a * Tock < b * Tock + 1000 <=> a < b + FrameRate
  <1>1. Tock \in Nat /\ Tock > 0 /\ FrameRate \in Nat /\ Tock * FrameRate = 1000
    BY Pace
  <1>2. ASSUME NEW x \in Nat, NEW y \in Nat PROVE x < y => x * Tock + Tock <= y * Tock
    <2>1. x < y => (y - x - 1) * Tock >= 0
      BY <1>1
    <2>2. (y - x - 1) * Tock = y * Tock - x * Tock - Tock
      BY <1>1
    <2>3. x * Tock \in Nat /\ y * Tock \in Nat
      BY <1>1
    <2> QED
      BY <1>1, <2>1, <2>2, <2>3
  <1>3. a * Tock \in Nat /\ b * Tock \in Nat /\ (b + FrameRate) * Tock = b * Tock + 1000
    <2>1. (b + FrameRate) * Tock = b * Tock + Tock * FrameRate
      BY <1>1
    <2> QED
      BY <1>1, <2>1
  <1>4. b + FrameRate \in Nat
    BY <1>1
  <1>5. /\ a < b => a * Tock + Tock <= b * Tock
        /\ b < a => b * Tock + Tock <= a * Tock
        /\ a < b + FrameRate => a * Tock + Tock <= b * Tock + 1000
        /\ b + FrameRate < a => b * Tock + 1000 + Tock <= a * Tock
    BY <1>2, <1>3, <1>4
  <1>6. a = b => a * Tock = b * Tock
    OBVIOUS
  <1>7. a = b + FrameRate => a * Tock = b * Tock + 1000
    BY <1>3
  <1> DEFINE A == a * Tock
             B == b * Tock
  <1>8. /\ A \in Nat /\ B \in Nat
        /\ a < b => A + Tock <= B
        /\ b < a => B + Tock <= A
        /\ a < b + FrameRate => A + Tock <= B + 1000
        /\ b + FrameRate < a => B + 1000 + Tock <= A
        /\ a = b => A = B
        /\ a = b + FrameRate => A = B + 1000
    BY <1>3, <1>5, <1>6, <1>7
  <1> HIDE DEF A, B
  <1>9. /\ A \in Nat /\ B \in Nat
        /\ A < B <=> a < b
        /\ A = B <=> a = b
        /\ A < B + 1000 <=> a < b + FrameRate
    BY <1>1, <1>8
  <1> QED
    BY <1>9 DEF A, B

\* The window of a row is of the rows of a second from it.
LEMMA Windows ==
  ASSUME NEW measured \in BOOLEAN, NEW bursts, NEW rows, rows = RowsOf(measured, bursts), NEW rule
  PROVE  /\ Qualified(rows, rule) \subseteq 1..Length
         /\ \A i \in 1..Length : rows[i].pts = FrameNo(measured, i) * Tock
         /\ \A i, j \in 1..Length : Before(rows, j, i) <=> j < i
         /\ \A i \in 1..Length :
              WindowFrom(rows, rule, i) = {j \in Qualified(rows, rule) : i <= j /\ j < i + FrameRate}
  <1>1. Qualified(rows, rule) \subseteq 1..Length
    BY RowsBehave DEF Qualified
  <1>2. ASSUME NEW i \in 1..Length
        PROVE  rows[i].pts = FrameNo(measured, i) * Tock /\ FrameNo(measured, i) \in Nat /\ i \in Nat
    BY RowsBehave, LengthType DEF Behaves
  <1>3. ASSUME NEW i \in 1..Length, NEW j \in 1..Length
        PROVE  /\ Before(rows, j, i) <=> j < i
               /\ ~Before(rows, j, i) /\ rows[j].pts < rows[i].pts + Span <=> i <= j /\ j < i + FrameRate
    <2>1. /\ rows[j].pts < rows[i].pts <=> FrameNo(measured, j) < FrameNo(measured, i)
          /\ rows[j].pts = rows[i].pts <=> FrameNo(measured, j) = FrameNo(measured, i)
          /\ rows[j].pts < rows[i].pts + 1000 <=>
               FrameNo(measured, j) < FrameNo(measured, i) + FrameRate
      BY <1>2, FrameOrder
    <2>2. /\ FrameNo(measured, j) < FrameNo(measured, i) <=> j < i
          /\ FrameNo(measured, j) = FrameNo(measured, i) <=> j = i
          /\ FrameNo(measured, j) < FrameNo(measured, i) + FrameRate <=> j < i + FrameRate
      BY <1>2, Pace DEF FrameNo
    <2>3. Before(rows, j, i) <=> j < i
      BY <1>2, <2>1, <2>2 DEF Before
    <2> QED
      BY <1>2, <2>1, <2>2, <2>3, Pace
  <1>4. ASSUME NEW i \in 1..Length
        PROVE  WindowFrom(rows, rule, i) = {j \in Qualified(rows, rule) : i <= j /\ j < i + FrameRate}
    BY <1>1, <1>3 DEF WindowFrom
  <1> QED
    BY <1>1, <1>2, <1>3, <1>4

\* Quiet transitions are never over the limit.
LEMMA QuietIsUnderLimit ==
  ASSUME NEW measured \in BOOLEAN, NEW i \in 1..Length, NEW S,
         \A j \in S : /\ j \in Nat /\ i <= j /\ j < i + FrameRate
                      /\ Quiet(FrameNo(measured, j))
  PROVE  ~(Cardinality(S) > MaxTransitions)
  <1> DEFINE first == FrameNo(measured, i)
             last == first + FrameRate - 1
             quiet == {k \in first..last : Quiet(k)}
             number == [j \in S |-> FrameNo(measured, j)]
  <1>1. first \in 0..Length /\ i \in Nat /\ FrameRate \in Nat
    BY RowsBehave, LengthType, Pace
  <1>2. Cardinality(quiet) <= MaxTransitions
    BY <1>1, QuietAssumption DEF Length
  <1>3. IsFiniteSet(quiet)
    <2>1. first \in Int /\ last \in Int
      BY <1>1, LengthType
    <2> HIDE DEF first, last
    <2>2. IsFiniteSet(first..last)
      BY <2>1, FS_Interval
    <2> QED
      BY <2>2, FS_Subset
  <1>4. ASSUME NEW j \in S PROVE FrameNo(measured, j) \in quiet
    <2>1. FrameNo(measured, j) \in first..last
      BY <1>1 DEF FrameNo
    <2> QED
      BY <2>1
  <1>5. ASSUME NEW j \in S, NEW k \in S, FrameNo(measured, j) = FrameNo(measured, k) PROVE j = k
    BY <1>5 DEF FrameNo
  <1>6. number \in [S -> quiet] /\ \A j, k \in S : number[j] = number[k] => j = k
    <2> HIDE DEF quiet
    <2> QED
      BY <1>4, <1>5
  <1> HIDE DEF number, quiet
  <1>7. number \in Injection(S, quiet)
    BY <1>6, Fun_IsInj
  <1>8. IsFiniteSet(S) /\ Cardinality(S) <= Cardinality(quiet)
    BY <1>3, <1>7, FS_Injection
  <1>9. Cardinality(S) \in Nat /\ Cardinality(quiet) \in Nat /\ MaxTransitions \in Nat
    BY <1>3, <1>8, FS_CardinalityType, CriteriaAssumption
  <1> QED
    BY <1>2, <1>8, <1>9

\* A window that reaches no burst is not over the limit.
LEMMA NotOver ==
  ASSUME NEW measured \in BOOLEAN, NEW bursts, NEW rows, rows = RowsOf(measured, bursts),
         NEW rule \in Rules, NEW i \in 1..Length,
         KindOf(rule) \notin bursts \/ FrameNo(measured, i) + FrameRate <= FirstFrame(rule) + 1
  PROVE  i \notin Over(rows, rule)
  <1> DEFINE window == WindowFrom(rows, rule, i)
  <1>1. window = {j \in Qualified(rows, rule) : i <= j /\ j < i + FrameRate}
        /\ Qualified(rows, rule) \subseteq 1..Length
    BY Windows
  <1>2. ASSUME NEW j \in window
        PROVE  j \in Nat /\ i <= j /\ j < i + FrameRate /\ Quiet(FrameNo(measured, j))
    <2> DEFINE t == FrameNo(measured, j)
    <2>1. j \in 1..Length /\ i <= j /\ j < i + FrameRate /\ Qualifies(rows[j], rule)
      BY <1>1, RowsBehave DEF Qualified
    <2>2. t \in 0..Length /\ Behaves(rows[j], measured, bursts, t)
      BY <2>1, RowsBehave
    <2>3. j \in Nat /\ i \in Nat /\ t \in Nat /\ FrameRate \in Nat
      BY <2>1, <2>2, LengthType, Pace
    <2>4. Planted(bursts, t) = KindOf(rule) <=>
            KindOf(rule) \in bursts /\ FirstFrame(rule) <= t /\ t < FirstFrame(rule) + FrameRate
      BY <2>3, PlantedIn
    <2>5. t = FirstFrame(rule) => Quiet(t)
      BY <2>3, PlantedIn
    <2>6. KindOf(rule) \in bursts => t <= FirstFrame(rule)
      <3>1. t < FrameNo(measured, i) + FrameRate
        BY <2>1, <2>3 DEF FrameNo
      <3>2. FirstFrame(rule) \in Nat /\ FrameNo(measured, i) \in Nat
        BY <2>3, PlantedIn, RowsBehave, LengthType
      <3> HIDE DEF t
      <3> QED
        BY <2>3, <3>1, <3>2
    <2>7. Quiet(t)
      <3> HIDE DEF t
      <3>1. Planted(bursts, t) = KindOf(rule) => t = FirstFrame(rule)
        BY <2>3, <2>4, <2>6, PlantedIn
      <3> QED
        BY <2>1, <2>2, <2>5, <3>1 DEF Behaves
    <2> QED
      BY <2>1, <2>3, <2>7
  <1> HIDE DEF window
  <1>3. ~(Cardinality(window) > MaxTransitions)
    BY <1>2, QuietIsUnderLimit
  <1> QED
    BY <1>3 DEF Over, Exceeds, window

\* Where the row of a frame is.
RowNo(measured, t) == IF measured THEN t ELSE t + 1

\* The frames of a burst after its first alternate, and are all a rule needs.
LEMMA BurstIsOver ==
  ASSUME NEW measured \in BOOLEAN, NEW bursts, NEW rows, rows = RowsOf(measured, bursts),
         NEW rule \in Rules, KindOf(rule) \in bursts
  PROVE  /\ RowNo(measured, FirstFrame(rule) + 1) \in Over(rows, rule)
         /\ \A t \in (FirstFrame(rule) + 1)..(FirstFrame(rule) + FrameRate - 1) :
              RowNo(measured, t) \in Qualified(rows, rule)
  <1> DEFINE from == FirstFrame(rule) + 1
             p == RowNo(measured, from)
             B == p..(p + FrameRate - 2)
             window == WindowFrom(rows, rule, p)
  <1>1. /\ FirstFrame(rule) \in Nat /\ FirstFrame(rule) + FrameRate <= Length /\ Length \in Nat
        /\ FrameRate \in Nat /\ FrameRate > 2 /\ FrameRate > MaxTransitions + 1 /\ MaxTransitions \in Nat
    BY PlantedIn, LengthType, Pace, QuietAssumption, CriteriaAssumption, 0 \in Nat
  <1>2. ASSUME NEW t \in from..(from + FrameRate - 2)
        PROVE  /\ RowNo(measured, t) \in 1..Length /\ t \in Nat
               /\ RowNo(measured, t) \in Qualified(rows, rule)
               /\ rows[RowNo(measured, t)].direction = HeadingOf(measured, rule, t)
    <2>1. RowNo(measured, t) \in 1..Length /\ FrameNo(measured, RowNo(measured, t)) = t /\ t \in Nat
      BY <1>1 DEF RowNo, FrameNo
    <2>2. Behaves(rows[RowNo(measured, t)], measured, bursts, t) /\ DOMAIN rows = 1..Length
      BY <2>1, RowsBehave
    <2>3. FirstFrame(rule) <= t /\ t < FirstFrame(rule) + FrameRate /\ FirstFrame(rule) < t
      BY <1>1
    <2>4. Planted(bursts, t) = KindOf(rule) /\ t % FrameRate # 0
      BY <2>1, <2>3, PlantedIn
    <2> QED
      BY <2>1, <2>2, <2>4 DEF Behaves, Qualified
  <1>3. p \in Nat /\ p \in 1..Length /\ p + 1 = RowNo(measured, from + 1)
    BY <1>1 DEF RowNo
  <1>4. ASSUME NEW j \in B PROVE j \in Qualified(rows, rule)
    <2>1. PICK t \in from..(from + FrameRate - 2) : j = RowNo(measured, t)
      <3>1. CASE measured
        BY <1>1, <3>1 DEF RowNo
      <3>2. CASE ~measured
        <4>1. j - 1 \in from..(from + FrameRate - 2) /\ j = (j - 1) + 1
          BY <1>1, <3>2 DEF RowNo
        <4> QED
          BY <3>2, <4>1 DEF RowNo
      <3> QED
        BY <3>1, <3>2
    <2> QED
      BY <1>2, <2>1
  <1>5. Cardinality(B) = FrameRate - 1
    <2> DEFINE last == p + FrameRate - 2
    <2>1. p \in Int /\ last \in Int /\ ~(p > last) /\ last - p + 1 = FrameRate - 1
      BY <1>1, <1>3
    <2> HIDE DEF p, last
    <2>2. Cardinality(p..last) = FrameRate - 1
      BY <2>1, FS_Interval
    <2> QED
      BY <2>2 DEF last
  <1>6. rows[p].direction = HeadingOf(measured, rule, from)
        /\ rows[p + 1].direction = HeadingOf(measured, rule, from + 1)
    <2>1. from \in from..(from + FrameRate - 2) /\ from + 1 \in from..(from + FrameRate - 2)
      BY <1>1
    <2> QED
      BY <1>2, <1>3, <2>1
  <1>7. {HeadingOf(measured, rule, from), HeadingOf(measured, rule, from + 1)} = {"up", "down"}
    <2>0. from \in Nat
      BY <1>1
    <2> HIDE DEF from
    <2>1. (from % 2 = 1 /\ (from + 1) % 2 # 1) \/ (from % 2 # 1 /\ (from + 1) % 2 = 1)
      BY <2>0
    <2> QED
      BY <2>1 DEF HeadingOf, Alternating
  <1>8. p \in B /\ p + 1 \in B
    BY <1>1, <1>3
  <1>9. IsClip(rows)
    BY RowsAreClip
  <1>10. B \in SUBSET Qualified(rows, rule)
    BY <1>4
  <1>11. window = {j \in Qualified(rows, rule) : p <= j /\ j < p + FrameRate}
    BY <1>3, Windows
  <1>12. B \subseteq window /\ window \in SUBSET Qualified(rows, rule)
    <2>1. \A j \in B : p <= j /\ j < p + FrameRate
      BY <1>1, <1>3
    <2> HIDE DEF B
    <2> QED
      BY <1>10, <1>11, <2>1
  <1> HIDE DEF B, p, window
  <1>13. Exceeds(rows, B)
    <2>1. Cardinality(B) > MaxTransitions
      BY <1>1, <1>5
    <2>2. \A j \in B : rows[j].direction \in {"up", "down"}
      BY <1>9, <1>10, QualifiedType
    <2>3. {rows[j].direction : j \in B} = {"up", "down"}
      BY <1>6, <1>7, <1>8, <2>2
    <2> QED
      BY <2>1, <2>3 DEF Exceeds
  <1>14. Exceeds(rows, window)
    BY <1>9, <1>10, <1>12, <1>13, MoreExceeds
  <1>15. p \in Over(rows, rule)
    BY <1>8, <1>10, <1>14 DEF Over, window
  <1>16. \A t \in (FirstFrame(rule) + 1)..(FirstFrame(rule) + FrameRate - 1) : t \in from..(from + FrameRate - 2)
    BY <1>1
  <1> QED
    BY <1>2, <1>15, <1>16 DEF p

\* No other burst is planted in the seconds around a burst.
LEMMA AloneAround ==
  ASSUME NEW rule \in Rules,
         NEW t \in Nat, FirstFrame(rule) <= t + FrameRate, t <= FirstFrame(rule) + FrameRate
  PROVE  \A x \in {BurstSecond, RedSecond, BrightSecond} : x # SecondOf(rule) => x # t \div FrameRate
  <1> DEFINE s == SecondOf(rule)
             q == t \div FrameRate
  <1>1. s \in Nat /\ FrameRate \in Nat /\ FrameRate > 0 /\ q \in Nat
    BY PlantedIn, Pace
  <1>2. q <= s + 1 /\ s <= q + 1
    <2>1. q * FrameRate <= t /\ t < q * FrameRate + FrameRate
      BY <1>1, InSecond
    <2> HIDE DEF q, s
    <2>2. (s + 2 - q) * FrameRate > 0 /\ (q + 2 - s) * FrameRate > 0
      <3>1. (s + 2 - q) * FrameRate = s * FrameRate + 2 * FrameRate - q * FrameRate
        BY <1>1
      <3>2. (q + 2 - s) * FrameRate = q * FrameRate + 2 * FrameRate - s * FrameRate
        BY <1>1
      <3>3. FirstFrame(rule) = s * FrameRate
        BY DEF FirstFrame, s
      <3> DEFINE S == s * FrameRate
                 Q == q * FrameRate
      <3>4. S \in Nat /\ Q \in Nat
        BY <1>1
      <3> HIDE DEF S, Q
      <3>5. S + 2 * FrameRate - Q > 0 /\ Q + 2 * FrameRate - S > 0
        BY <1>1, <2>1, <3>3, <3>4 DEF S, Q
      <3> QED
        BY <3>1, <3>2, <3>5 DEF S, Q
    <2>3. ASSUME NEW d \in Int, d * FrameRate > 0 PROVE d > 0
      <3>1. d <= 0 => d * FrameRate <= 0
        BY <1>1
      <3> QED
        BY <1>1, <2>3, <3>1
    <2>4. s + 2 - q \in Int /\ q + 2 - s \in Int
      BY <1>1
    <2>5. s + 2 - q > 0 /\ q + 2 - s > 0
      BY <2>2, <2>3, <2>4
    <2> QED
      BY <1>1, <2>5
  <1>3. \A x \in {BurstSecond, RedSecond, BrightSecond} : x # s => x # q
    <2>1. s \in {BurstSecond, RedSecond, BrightSecond}
      BY DEF SecondOf
    <2>2. \A x \in {BurstSecond, RedSecond, BrightSecond} : x \in Nat /\ (x # s => Distance(x, s) > 1)
      BY <2>1, QuietAssumption, CorpusAssumption
    <2> HIDE DEF s, q
    <2> QED
      BY <1>1, <1>2, <2>2 DEF Distance
  <1> QED
    BY <1>3

\* Around a burst, all assets that have it are alike.
LEMMA BurstsAgree ==
  ASSUME NEW rule \in Rules, NEW b, NEW c, KindOf(rule) \in b, KindOf(rule) \in c,
         NEW t \in Nat, FirstFrame(rule) <= t + FrameRate, t <= FirstFrame(rule) + FrameRate
  PROVE  Planted(b, t) = Planted(c, t)
  <1> DEFINE q == t \div FrameRate
  <1>1. \A x \in {BurstSecond, RedSecond, BrightSecond} : x # SecondOf(rule) => x # q
    BY AloneAround
  <1> HIDE DEF q
  <1>2. CASE rule = "general_flash"
    BY <1>1, <1>2, CorpusAssumption DEF Planted, SecondOf, KindOf, q
  <1>3. CASE rule = "red_flash"
    BY <1>1, <1>3, CorpusAssumption DEF Planted, SecondOf, KindOf, q
  <1> QED
    BY <1>2, <1>3 DEF Rules

\* Assets with the same burst have the same windows over the limit up to it.
LEMMA SameOver ==
  ASSUME NEW measured \in BOOLEAN, NEW rule \in Rules,
         NEW b, NEW c, KindOf(rule) \in b, KindOf(rule) \in c,
         NEW i \in Over(RowsOf(measured, b), rule), FrameNo(measured, i) <= FirstFrame(rule) + 1
  PROVE  i \in Over(RowsOf(measured, c), rule)
  <1> DEFINE rows == RowsOf(measured, b)
             others == RowsOf(measured, c)
             near(S) == {j \in S : i <= j /\ j < i + FrameRate}
             window == near(Qualified(rows, rule))
  <1>1. i \in 1..Length /\ i \in Qualified(rows, rule) /\ Exceeds(rows, WindowFrom(rows, rule, i))
    BY Windows DEF Over
  <1>2. DOMAIN rows = 1..Length /\ DOMAIN others = 1..Length
    BY RowsBehave
  <1>3. /\ FirstFrame(rule) \in Nat /\ FrameRate \in Nat /\ FrameRate > 0 /\ Length \in Nat
        /\ FrameNo(measured, i) \in Nat /\ FrameNo(measured, i) + FrameRate > FirstFrame(rule) + 1
    <2>1. /\ FirstFrame(rule) \in Nat /\ FrameRate \in Nat /\ FrameRate > 0 /\ Length \in Nat
          /\ FrameNo(measured, i) \in Nat
      BY <1>1, PlantedIn, Pace, LengthType, RowsBehave
    <2>2. ~(FrameNo(measured, i) + FrameRate <= FirstFrame(rule) + 1)
      BY <1>1, NotOver
    <2> QED
      BY <2>1, <2>2
  <1>4. ASSUME NEW j \in 1..Length, i <= j, j < i + FrameRate PROVE rows[j] = others[j]
    <2>1. /\ FrameNo(measured, j) \in Nat /\ j - 1 \in Nat /\ j \in Nat /\ i \in Nat
          /\ FrameNo(measured, i) <= FrameNo(measured, j)
          /\ FrameNo(measured, j) < FrameNo(measured, i) + FrameRate
      BY <1>1, <1>3, <1>4, RowsBehave, LengthType DEF FrameNo
    <2>2. Planted(b, FrameNo(measured, j)) = Planted(c, FrameNo(measured, j))
      BY <1>3, <2>1, BurstsAgree
    <2>3. measured => Planted(b, j - 1) = Planted(c, j - 1)
      <3>1. ASSUME measured
            PROVE  FirstFrame(rule) <= j - 1 + FrameRate /\ j - 1 <= FirstFrame(rule) + FrameRate
        <4>1. FrameNo(measured, j) = j
          BY <3>1 DEF FrameNo
        <4> QED
          BY <1>3, <2>1, <4>1
      <3> QED
        BY <2>1, <3>1, BurstsAgree
    <2> QED
      BY <2>2, <2>3, RowsAgree
  <1> HIDE DEF rows, others
  <1>5. /\ window = near(Qualified(others, rule))
        /\ i \in Qualified(others, rule) /\ \A j \in window : rows[j] = others[j]
    <2>1. \A j \in 1..Length : i <= j /\ j < i + FrameRate =>
            (j \in Qualified(rows, rule) <=> j \in Qualified(others, rule))
      BY <1>2, <1>4 DEF Qualified
    <2>2. Qualified(rows, rule) \subseteq 1..Length /\ Qualified(others, rule) \subseteq 1..Length
      BY <1>2 DEF Qualified
    <2>3. i <= i /\ i < i + FrameRate
      BY <1>1, <1>3, LengthType
    <2> QED
      BY <1>1, <1>4, <2>1, <2>2, <2>3
  <1>6. WindowFrom(rows, rule, i) = window
    BY <1>1, Windows DEF rows
  <1>7. WindowFrom(others, rule, i) = window
    BY <1>1, <1>5, Windows DEF others
  <1> HIDE DEF window
  <1>8. Exceeds(others, window)
    <2>1. {rows[j].direction : j \in window} = {others[j].direction : j \in window}
      BY <1>5
    <2> QED
      BY <1>1, <1>6, <2>1 DEF Exceeds
  <1> QED
    BY <1>5, <1>7, <1>8 DEF Over, others

\* What is reported of an asset is at the first row over the limit.
LEMMA FirstIsReported ==
  ASSUME NEW measured \in BOOLEAN, NEW bursts, NEW rows, rows = RowsOf(measured, bursts),
         NEW rule \in Rules
  PROVE  /\ KindOf(rule) \notin bursts => Detect(rows, rule) = {}
         /\ KindOf(rule) \in bursts =>
              \E first \in Over(rows, rule) :
                /\ Detect(rows, rule) = {ViolationAt(rows, rule, first)}
                /\ \A i \in Over(rows, rule) : first <= i
                /\ FrameNo(measured, first) <= FirstFrame(rule) + 1
  <1> DEFINE over == Over(rows, rule)
  <1>1. over \in SUBSET (1..Length) /\ over \in SUBSET DOMAIN rows /\ Length \in Nat
    BY Windows, RowsBehave, LengthType DEF Over
  <1>2. Detect(rows, rule)
          = {ViolationAt(rows, rule, i) : i \in {k \in over : \A j \in over : ~Before(rows, j, k)}}
    BY DEF Detect, Over
  <1>3. ASSUME NEW i \in over, NEW j \in over PROVE Before(rows, j, i) <=> j < i
    BY <1>1, Windows
  <1>4. KindOf(rule) \notin bursts => over = {}
    BY <1>1, NotOver
  <1>5. ASSUME KindOf(rule) \in bursts
        PROVE  \E first \in over :
                 /\ Detect(rows, rule) = {ViolationAt(rows, rule, first)}
                 /\ \A i \in over : first <= i
                 /\ FrameNo(measured, first) <= FirstFrame(rule) + 1
    <2>1. RowNo(measured, FirstFrame(rule) + 1) \in over
      BY <1>5, BurstIsOver
    <2>2. over \in SUBSET Nat
      BY <1>1
    <2>3. PICK first \in over : \A i \in over : first <= i
      BY <2>1, <2>2, LeastNumber
    <2>4. {k \in over : \A j \in over : ~Before(rows, j, k)} = {first}
      <3>1. \A k \in over : (\A j \in over : ~Before(rows, j, k)) <=> k = first
        <4> TAKE k \in over
        <4>1. (\A j \in over : ~Before(rows, j, k)) => ~(first < k)
          BY <1>3
        <4>2. k = first => \A j \in over : ~Before(rows, j, k)
          <5>1. \A j \in over : ~(j < first)
            BY <2>2, <2>3
          <5> QED
            BY <1>3, <5>1
        <4>3. first <= k /\ first \in Nat /\ k \in Nat
          BY <2>2, <2>3
        <4>4. ~(first < k) => k = first
          BY <4>3
        <4> QED
          BY <4>1, <4>2, <4>4
      <3> HIDE DEF over
      <3> QED
        BY <2>3, <3>1
    <2>5. Detect(rows, rule) = {ViolationAt(rows, rule, first)}
      BY <1>2, <2>4
    <2>6. FrameNo(measured, first) <= FirstFrame(rule) + 1
      <3>1. FirstFrame(rule) \in Nat
        BY PlantedIn, 0 \in Nat
      <3>2. first \in Nat /\ first <= RowNo(measured, FirstFrame(rule) + 1)
        BY <2>1, <2>2, <2>3
      <3> QED
        BY <3>1, <3>2 DEF FrameNo, RowNo
    <2> QED
      BY <2>3, <2>5, <2>6
  <1> HIDE DEF over
  <1> QED
    BY <1>2, <1>4, <1>5 DEF over

\* Of what is planted, the criteria find what they are for, and at the same time in all assets.
LEMMA PlantedIsFound ==
  ASSUME NEW measured \in BOOLEAN, NEW b, NEW c
  PROVE  /\ {v.rule : v \in DetectAll(RowsOf(measured, b))} = RulesOf(b)
         /\ \A v \in DetectAll(RowsOf(measured, b)), w \in DetectAll(RowsOf(measured, c)) :
              v.rule = w.rule => v.start = w.start
  <1>1. ASSUME NEW rule \in Rules, NEW bursts
        PROVE  /\ KindOf(rule) \in bursts <=> rule \in RulesOf(bursts)
               /\ \A v \in Detect(RowsOf(measured, bursts), rule) : v.rule = rule
               /\ Detect(RowsOf(measured, bursts), rule) # {} <=> KindOf(rule) \in bursts
    <2>1. KindOf(rule) \in bursts <=> rule \in RulesOf(bursts)
      BY DEF KindOf, RulesOf, Rules
    <2>2. \A v \in Detect(RowsOf(measured, bursts), rule) : v.rule = rule
      <3> DEFINE rows == RowsOf(measured, bursts)
      <3>1. \A i : ViolationAt(rows, rule, i).rule = rule
        BY DEF ViolationAt
      <3> HIDE DEF rows
      <3>2. \A v \in Detect(rows, rule) : \E i : v = ViolationAt(rows, rule, i)
        BY Zenon DEF Detect
      <3>3. \A v \in Detect(rows, rule) : v.rule = rule
        BY <3>1, <3>2
      <3> QED
        BY <3>3 DEF rows
    <2>3. Detect(RowsOf(measured, bursts), rule) # {} <=> KindOf(rule) \in bursts
      BY FirstIsReported
    <2> QED
      BY <2>1, <2>2, <2>3
  <1>2. \A bursts, v : v \in DetectAll(RowsOf(measured, bursts)) <=>
          \E rule \in Rules : v \in Detect(RowsOf(measured, bursts), rule)
    BY DEF DetectAll
  <1>3. {v.rule : v \in DetectAll(RowsOf(measured, b))} = RulesOf(b)
    <2>1. RulesOf(b) \subseteq Rules
      BY DEF RulesOf
    <2>2. ASSUME NEW v \in DetectAll(RowsOf(measured, b)) PROVE v.rule \in RulesOf(b)
      <3>1. PICK rule \in Rules : v \in Detect(RowsOf(measured, b), rule)
        BY <1>2
      <3> QED
        BY <1>1, <3>1
    <2>3. ASSUME NEW rule \in RulesOf(b)
          PROVE  \E v \in DetectAll(RowsOf(measured, b)) : v.rule = rule
      <3>1. rule \in Rules /\ Detect(RowsOf(measured, b), rule) # {}
        BY <1>1, <2>1
      <3>2. PICK v : v \in Detect(RowsOf(measured, b), rule)
        BY <3>1
      <3> QED
        BY <1>1, <1>2, <3>1, <3>2
    <2> QED
      BY <2>2, <2>3
  <1>4. ASSUME NEW v \in DetectAll(RowsOf(measured, b)), NEW w \in DetectAll(RowsOf(measured, c)),
               v.rule = w.rule
        PROVE  v.start = w.start
    <2>1. PICK rule \in Rules : v \in Detect(RowsOf(measured, b), rule)
      BY <1>2
    <2>2. w \in Detect(RowsOf(measured, c), rule)
      BY <1>1, <1>2, <1>4, <2>1
    <2>3. KindOf(rule) \in b /\ KindOf(rule) \in c
      BY <1>1, <2>1, <2>2
    <2>4. PICK f \in Over(RowsOf(measured, b), rule) :
            /\ Detect(RowsOf(measured, b), rule) = {ViolationAt(RowsOf(measured, b), rule, f)}
            /\ \A i \in Over(RowsOf(measured, b), rule) : f <= i
            /\ FrameNo(measured, f) <= FirstFrame(rule) + 1
      BY <2>3, FirstIsReported
    <2>5. PICK g \in Over(RowsOf(measured, c), rule) :
            /\ Detect(RowsOf(measured, c), rule) = {ViolationAt(RowsOf(measured, c), rule, g)}
            /\ \A i \in Over(RowsOf(measured, c), rule) : g <= i
            /\ FrameNo(measured, g) <= FirstFrame(rule) + 1
      BY <2>3, FirstIsReported
    <2>6. f \in Over(RowsOf(measured, c), rule) /\ g \in Over(RowsOf(measured, b), rule)
      BY <2>3, <2>4, <2>5, SameOver
    <2>7. f \in 1..Length /\ g \in 1..Length
      BY <2>4, <2>5, Windows DEF Over
    <2>8. f = g
      BY <2>4, <2>5, <2>6, <2>7, LengthType
    <2>9. v.start = RowsOf(measured, b)[f].pts /\ w.start = RowsOf(measured, c)[g].pts
      BY <2>1, <2>2, <2>4, <2>5 DEF ViolationAt
    <2>10. ASSUME NEW bursts
           PROVE  RowsOf(measured, bursts)[f].pts = FrameNo(measured, f) * Tock
      BY <2>7, Windows
    <2> QED
      BY <2>8, <2>9, <2>10
  <1> QED
    BY <1>3, <1>4

-----------------------------------------------------------------------------
(* The charts of an asset, inserted once or more. *)

\* Copies of a clip, by their rows.
LEMMA CopiesOfClip ==
  ASSUME NEW rows, IsClip(rows), rows = [i \in DOMAIN rows |-> rows[i]], NEW n \in Nat
  PROVE  /\ DOMAIN Repeated(rows, n) = 1..(n * Len(rows))
         /\ n = 0 => DOMAIN Repeated(rows, n) = {}
         /\ n = 1 => Repeated(rows, n) = rows
         /\ \A i \in DOMAIN rows :
              /\ n >= 1 => i \in DOMAIN Repeated(rows, n) /\ Repeated(rows, n)[i] = rows[i]
              /\ n >= 2 => /\ Len(rows) + i \in DOMAIN Repeated(rows, n)
                           /\ Repeated(rows, n)[Len(rows) + i] = rows[i]
  <1> DEFINE length == Len(rows)
             total == n * length
             made == Repeated(rows, n)
  <1>1. length \in Nat /\ DOMAIN rows = 1..length
    BY DEF IsClip
  <1> HIDE DEF length
  <1>2. total \in Nat /\ (n >= 1 => length <= total) /\ (n >= 2 => length + length <= total)
        /\ (n = 0 => total = 0) /\ (n = 1 => total = length)
    <2>1. n >= 1 => (n - 1) * length >= 0
      BY <1>1
    <2>2. n >= 2 => (n - 2) * length >= 0
      BY <1>1
    <2>3. (n - 1) * length = total - length /\ (n - 2) * length = total - length - length
      BY <1>1
    <2>4. total \in Nat /\ (n = 0 => total = 0) /\ (n = 1 => total = length)
      BY <1>1
    <2> HIDE DEF total
    <2> QED
      BY <1>1, <2>1, <2>2, <2>3, <2>4
  <1> DEFINE place(i) == ((i - 1) % length) + 1
  <1>3. made = [i \in 1..total |-> rows[place(i)]]
    BY DEF Repeated, length
  <1> HIDE DEF total, made, place
  <1>4. DOMAIN made = 1..total /\ \A i \in 1..total : made[i] = rows[place(i)]
    BY <1>3
  <1>5. ASSUME NEW i \in 1..length
        PROVE  place(i) = i /\ place(length + i) = i
    <2>1. length > 0 /\ i - 1 \in Nat /\ i - 1 < length
      BY <1>1
    <2>2. ASSUME NEW k \in Nat, k < length PROVE k % length = k /\ (length + k) % length = k
      BY <1>1, <2>2
    <2>3. (length + i) - 1 = length + (i - 1)
      BY <1>1
    <2>4. (i - 1) % length = i - 1 /\ (length + (i - 1)) % length = i - 1
      BY <2>1, <2>2
    <2>5. ASSUME NEW x \in Int, NEW k \in Int, x - 1 = k, k % length = i - 1 PROVE place(x) = i
      BY <2>1, <2>5 DEF place
    <2>6. i \in Int /\ length + i \in Int /\ i - 1 \in Int /\ length + (i - 1) \in Int
      BY <1>1
    <2>7. place(i) = i
      BY <2>4, <2>5, <2>6
    <2>8. place(length + i) = i
      BY <2>3, <2>4, <2>5, <2>6
    <2> QED
      BY <2>7, <2>8
  <1>6. ASSUME NEW i \in 1..length
        PROVE  /\ n >= 1 => i \in DOMAIN made /\ made[i] = rows[i]
               /\ n >= 2 => length + i \in DOMAIN made /\ made[length + i] = rows[i]
    <2>1. /\ n >= 1 => i \in 1..total
          /\ n >= 2 => length + i \in 1..total
      BY <1>1, <1>2
    <2>2. /\ n >= 1 => made[i] = rows[place(i)]
          /\ n >= 2 => made[length + i] = rows[place(length + i)]
      BY <1>4, <2>1
    <2> QED
      BY <1>4, <1>5, <2>1, <2>2
  <1>7. n = 1 => made = rows
    <2> SUFFICES ASSUME n = 1 PROVE made = rows
      OBVIOUS
    <2>1. DOMAIN made = DOMAIN rows /\ \A i \in DOMAIN rows : made[i] = rows[i]
      BY <1>1, <1>2, <1>4, <1>6
    <2>2. made = [i \in DOMAIN made |-> made[i]]
      BY <1>3
    <2> QED
      BY <2>1, <2>2
  <1>8. n = 0 => DOMAIN made = {}
    BY <1>2, <1>4
  <1> QED
    BY <1>1, <1>4, <1>6, <1>7, <1>8 DEF made, length, total

\* The rows of a clip that its chart counts in a second.
ChartedIn(rows, rule, second) == {i \in DOMAIN rows : rows[i].pts \div Span = second /\ Charts(rows[i], rule)}

LEMMA ChartCounts ==
  ASSUME NEW rows, NEW rule, NEW second
  PROVE  SqlTimeline(rows, rule, second) = Cardinality(ChartedIn(rows, rule, second))
  BY Zenon DEF SqlTimeline, ChartedIn, Charts

\* A set that holds another, moved along, has as many members or more.
LEMMA MovedAlong ==
  ASSUME NEW A \in SUBSET Nat, NEW S, IsFiniteSet(S), NEW d \in Nat, \A t \in A : t + d \in S
  PROVE  Cardinality(A) \in Nat /\ Cardinality(S) \in Nat /\ Cardinality(A) <= Cardinality(S)
  <1> DEFINE move == [t \in A |-> t + d]
  <1>1. move \in [A -> S] /\ \A t, u \in A : move[t] = move[u] => t = u
    OBVIOUS
  <1> HIDE DEF move
  <1>2. move \in Injection(A, S)
    BY <1>1, Fun_IsInj
  <1> QED
    BY <1>2, FS_Injection, FS_CardinalityType

\* The chart of an asset that has a rule's burst is over the limit in the burst's second.
LEMMA BurstIsCharted ==
  ASSUME NEW measured \in BOOLEAN, NEW bursts, NEW rows, rows = RowsOf(measured, bursts),
         NEW table, IsClip(table),
         \A i \in DOMAIN rows : i \in DOMAIN table /\ table[i] = rows[i],
         NEW rule \in Rules, KindOf(rule) \in bursts
  PROVE  SqlTimeline(table, rule, SecondOf(rule)) > MaxTransitions
  <1> DEFINE from == FirstFrame(rule) + 1
             last == FirstFrame(rule) + FrameRate - 1
             A == from..last
             d == IF measured THEN 0 ELSE 1
             S == ChartedIn(table, rule, SecondOf(rule))
  <1>1. /\ FirstFrame(rule) \in Nat /\ FrameRate \in Nat /\ FrameRate > MaxTransitions + 1
        /\ MaxTransitions \in Nat /\ FrameRate > 2 /\ FirstFrame(rule) + FrameRate <= Length
        /\ SecondOf(rule) \in Nat /\ Length \in Nat
    BY PlantedIn, Pace, QuietAssumption, CriteriaAssumption, LengthType, 0 \in Nat
  <1>2. ASSUME NEW t \in A PROVE t + d \in S
    <2>1. t + d = RowNo(measured, t) /\ t \in Nat /\ RowNo(measured, t) \in 1..Length
          /\ FrameNo(measured, RowNo(measured, t)) = t
      BY <1>1 DEF RowNo, FrameNo
    <2>2. t + d \in Qualified(rows, rule)
      BY <2>1, BurstIsOver
    <2>3. Qualifies(rows[t + d], rule) /\ t + d \in DOMAIN rows
      BY <2>2 DEF Qualified
    <2>4. Charts(rows[t + d], rule)
      BY <2>3, QualifiesCharts
    <2>5. rows[t + d].pts = t * Tock
      BY <2>1, Windows
    <2>6. t \div FrameRate = SecondOf(rule)
      <3>1. FirstFrame(rule) <= t /\ t < FirstFrame(rule) + FrameRate
        BY <1>1, <2>1
      <3> QED
        BY <1>1, <2>1, <3>1, InSecond DEF FirstFrame
    <2>7. (t * Tock) \div 1000 = SecondOf(rule)
      BY <2>1, <2>6, FrameTime
    <2>8. t + d \in DOMAIN table /\ table[t + d] = rows[t + d]
      BY <2>3
    <2> HIDE DEF d
    <2> QED
      BY <2>4, <2>5, <2>7, <2>8, Pace DEF ChartedIn
  <1>3. IsFiniteSet(S)
    <2>1. DOMAIN table = 1..Len(table) /\ Len(table) \in Int /\ 1 \in Int
      BY DEF IsClip
    <2>2. IsFiniteSet(DOMAIN table)
      BY <2>1, FS_Interval
    <2> QED
      BY <2>2, FS_Subset DEF ChartedIn
  <1>4. Cardinality(A) = FrameRate - 1 /\ A \in SUBSET Nat
    <2>1. from \in Nat /\ last \in Nat /\ ~(from > last) /\ last - from + 1 = FrameRate - 1
      BY <1>1
    <2> HIDE DEF from, last
    <2> QED
      BY <2>1, FS_Interval
  <1>5. d \in Nat
    OBVIOUS
  <1> HIDE DEF A, S, d
  <1>6. Cardinality(A) <= Cardinality(S) /\ Cardinality(S) \in Nat
    BY <1>2, <1>3, <1>4, <1>5, MovedAlong
  <1> QED
    BY <1>1, <1>4, <1>6, ChartCounts DEF S

\* The chart of an asset with no such burst is over the limit if the asset is inserted twice.
LEMMA TwoCopiesAreCharted ==
  ASSUME NEW measured \in BOOLEAN, NEW bursts, "general" \notin bursts, "red" \notin bursts,
         NEW rows, rows = RowsOf(measured, bursts),
         NEW table, IsClip(table),
         \A i \in DOMAIN rows : /\ i \in DOMAIN table /\ table[i] = rows[i]
                                /\ Length + i \in DOMAIN table /\ table[Length + i] = rows[i]
  PROVE  SqlTimeline(table, "general_flash", BurstSecond) > MaxTransitions
  <1> DEFINE rule == "general_flash"
             first == BurstSecond * FrameRate
             A == {t \in first..(first + FrameRate - 1) : t % Every = 0}
             d == IF measured THEN 0 ELSE 1
             S == ChartedIn(table, rule, BurstSecond)
             S1 == {i \in S : i <= Length}
             S2 == {i \in S : ~(i <= Length)}
  <1>1. /\ first = FirstFrame(rule) /\ BurstSecond = SecondOf(rule) /\ rule \in Rules
        /\ BurstSecond \in Nat /\ BurstSecond > 0
    BY CorpusAssumption, QuietAssumption DEF FirstFrame, SecondOf, Rules
  <1>2. /\ first \in Nat /\ first >= FrameRate /\ first + FrameRate <= Length
        /\ FrameRate \in Nat /\ FrameRate > 2 /\ Length \in Nat
    <2>1. first \in Nat /\ first + FrameRate <= Length /\ FrameRate \in Nat /\ FrameRate > 2 /\ Length \in Nat
      BY <1>1, PlantedIn, Pace, LengthType, 0 \in Nat
    <2>2. (BurstSecond - 1) * FrameRate >= 0 /\ (BurstSecond - 1) * FrameRate = first - FrameRate
      BY <1>1, <2>1
    <2> HIDE DEF first
    <2> QED
      BY <2>1, <2>2
  <1> HIDE DEF first
  <1>3. ASSUME NEW t \in Nat, first <= t + FrameRate, t <= first + FrameRate
        PROVE  Planted(bursts, t) = "none"
    <2>1. t \div FrameRate # BrightSecond
      BY <1>1, <1>3, AloneAround, CorpusAssumption
    <2> QED
      BY <2>1 DEF Planted
  <1>4. ASSUME NEW t \in A PROVE t + d \in S1 /\ t + (Length + d) \in S2
    <2>1. t \in Nat /\ t > 0 /\ first <= t /\ t < first + FrameRate /\ t % Every = 0
      BY <1>2
    <2>2. t + d \in 1..Length /\ FrameNo(measured, t + d) = t
      BY <1>2, <2>1 DEF FrameNo
    <2>3. /\ Behaves(rows[t + d], measured, bursts, t) /\ DOMAIN rows = 1..Length
      BY <2>2, RowsBehave
    <2>4. Planted(bursts, t) = "none" /\ Planted(bursts, t - 1) = "none"
      BY <1>2, <1>3, <2>1
    <2>5. Charts(rows[t + d], rule) /\ rows[t + d].pts = t * Tock
      BY <2>1, <2>3, <2>4 DEF Behaves
    <2>6. (t * Tock) \div Span = BurstSecond
      <3>1. t \div FrameRate = BurstSecond
        BY <1>1, <2>1, InSecond DEF first
      <3> QED
        BY <2>1, <3>1, FrameTime, Pace
    <2>7. t + (Length + d) = Length + (t + d) /\ ~(Length + (t + d) <= Length) /\ t + d <= Length
      BY <1>2, <2>1, <2>2
    <2>8. /\ t + d \in DOMAIN table /\ table[t + d] = rows[t + d]
          /\ Length + (t + d) \in DOMAIN table /\ table[Length + (t + d)] = rows[t + d]
      BY <2>2, <2>3
    <2> HIDE DEF d
    <2>9. t + d \in S /\ Length + (t + d) \in S
      BY <2>5, <2>6, <2>8 DEF ChartedIn
    <2> HIDE DEF S
    <2> QED
      BY <2>7, <2>9
  <1>5. IsFiniteSet(S) /\ IsFiniteSet(S1) /\ IsFiniteSet(S2)
    <2>1. DOMAIN table = 1..Len(table) /\ Len(table) \in Int /\ 1 \in Int
      BY DEF IsClip
    <2>2. IsFiniteSet(DOMAIN table)
      BY <2>1, FS_Interval
    <2>3. IsFiniteSet(S)
      BY <2>2, FS_Subset DEF ChartedIn
    <2> QED
      BY <2>3, FS_Subset
  <1>6. A \in SUBSET Nat /\ d \in Nat /\ Length + d \in Nat
    BY <1>2
  <1>7. 2 * Cardinality(A) > MaxTransitions
    BY QuietAssumption DEF first
  <1>8. S1 \cap S2 = {} /\ S1 \cup S2 = S
    OBVIOUS
  <1> HIDE DEF A, S, S1, S2, d
  <1>9. /\ Cardinality(A) \in Nat /\ Cardinality(S1) \in Nat /\ Cardinality(S2) \in Nat
        /\ Cardinality(A) <= Cardinality(S1) /\ Cardinality(A) <= Cardinality(S2)
    BY <1>4, <1>5, <1>6, MovedAlong
  <1>10. Cardinality(S) = Cardinality(S1) + Cardinality(S2)
    <2>1. Cardinality(S) = Cardinality(S1) + Cardinality(S2) - Cardinality(S1 \cap S2)
      BY <1>5, <1>8, FS_Union
    <2>2. Cardinality(S1 \cap S2) = 0
      BY <1>8, FS_EmptySet
    <2> QED
      BY <1>9, <2>1, <2>2
  <1>11. MaxTransitions \in Nat
    BY CriteriaAssumption
  <1> QED
    BY <1>7, <1>9, <1>10, <1>11, ChartCounts DEF S

\* The rows of an asset are a table, one copy of which is itself.
LEMMA OneCopy ==
  ASSUME NEW measured \in BOOLEAN, NEW bursts
  PROVE  RowsOf(measured, bursts) = [i \in DOMAIN RowsOf(measured, bursts) |-> RowsOf(measured, bursts)[i]]
  <1>1. MeasuredRows(bursts) = [i \in DOMAIN MeasuredRows(bursts) |-> MeasuredRows(bursts)[i]]
    BY DEF MeasuredRows, FramesToTransitions
  <1>2. AuthoredRows(bursts) = [i \in DOMAIN AuthoredRows(bursts) |-> AuthoredRows(bursts)[i]]
    BY DEF AuthoredRows
  <1> QED
    BY <1>1, <1>2 DEF RowsOf

\* What the generators are for: in an asset inserted once the criteria find the bursts that were
\* planted, and no other, at the same time in every asset; and the chart of an asset in which
\* anything was ever found is over the limit (seed_measured_corpus.py, sql/005).
THEOREM Planting ==
  ASSUME NEW measured \in BOOLEAN, NEW bursts \in SUBSET Bursts
  PROVE  /\ {v.rule : v \in Judged[measured][bursts][1]} = RulesOf(bursts)
         /\ \A others \in SUBSET Bursts :
              \A v \in Judged[measured][bursts][1], w \in Judged[measured][others][1] :
                v.rule = w.rule => v.start = w.start
         /\ \A n \in 0..MaxCopies : \A m \in 0..n :
              Judged[measured][bursts][m] # {} =>
                \E rule \in Rules, second \in 0..(Seconds + 1) :
                  Charted[measured][bursts][n][rule][second] > MaxTransitions
  <1> DEFINE rows == RowsOf(measured, bursts)
  <1>1. MaxCopies \in Nat /\ 1 \in 0..MaxCopies /\ BurstSets = SUBSET Bursts /\ Seconds \in Nat
    BY CorpusAssumption DEF BurstSets
  <1>2. ASSUME NEW b \in SUBSET Bursts
        PROVE  Judged[measured][b][1] = DetectAll(RowsOf(measured, b))
    <2>1. Judged[measured][b][1] = DetectAll(Held(measured, b, 1))
      BY <1>1, JudgedIs
    <2>2. Held(measured, b, 1) = RowsOf(measured, b)
      BY RowsAreClip, OneCopy, CopiesOfClip DEF Held
    <2> QED
      BY <2>1, <2>2
  <1>3. {v.rule : v \in Judged[measured][bursts][1]} = RulesOf(bursts)
    BY <1>2, PlantedIsFound
  <1>4. \A others \in SUBSET Bursts :
          \A v \in Judged[measured][bursts][1], w \in Judged[measured][others][1] :
            v.rule = w.rule => v.start = w.start
    BY <1>2, PlantedIsFound
  <1>5. ASSUME NEW n \in 0..MaxCopies, NEW m \in 0..n, Judged[measured][bursts][m] # {}
        PROVE  \E rule \in Rules, second \in 0..(Seconds + 1) :
                 Charted[measured][bursts][n][rule][second] > MaxTransitions
    <2> DEFINE table == Held(measured, bursts, n)
    <2>1. n \in Nat /\ m \in Nat /\ m <= n /\ m \in 0..MaxCopies
      BY <1>1
    <2>2. IsClip(table)
      BY JudgedIs
    <2>3. IsClip(rows) /\ Len(rows) = Length /\ rows = [i \in DOMAIN rows |-> rows[i]]
      BY RowsAreClip, RowsBehave, OneCopy
    <2>4. m # 0
      <3>1. SUFFICES ASSUME m = 0 PROVE FALSE
        OBVIOUS
      <3>2. Judged[measured][bursts][0] = DetectAll(Held(measured, bursts, 0))
        BY <2>1, <3>1, JudgedIs
      <3>3. DOMAIN Held(measured, bursts, 0) = {}
        BY <2>3, CopiesOfClip DEF Held
      <3>4. DetectAll(Held(measured, bursts, 0)) = {}
        BY <3>3 DEF DetectAll, Detect, Qualified
      <3> QED
        BY <1>5, <3>1, <3>2, <3>4
    <2>5. ASSUME NEW rule \in Rules, NEW second \in 0..(Seconds + 1),
                 SqlTimeline(table, rule, second) > MaxTransitions
          PROVE  Charted[measured][bursts][n][rule][second] > MaxTransitions
      BY <1>1, <2>5 DEF Charted, Held
    <2>6. \A i \in DOMAIN rows :
            /\ i \in DOMAIN table /\ table[i] = rows[i]
            /\ n >= 2 => Length + i \in DOMAIN table /\ table[Length + i] = rows[i]
      <3>1. table = Repeated(rows, n)
        BY DEF Held
      <3>2. n >= 1
        BY <2>1, <2>4
      <3> HIDE DEF table, rows
      <3>3. \A i \in DOMAIN rows :
              /\ n >= 1 => i \in DOMAIN table /\ table[i] = rows[i]
              /\ n >= 2 => Len(rows) + i \in DOMAIN table /\ table[Len(rows) + i] = rows[i]
        BY <2>1, <2>3, <3>1, CopiesOfClip
      <3> QED
        BY <2>3, <3>2, <3>3
    <2>7. \A rule \in Rules : SecondOf(rule) \in 0..(Seconds + 1)
      BY CorpusAssumption DEF SecondOf
    <2>8. BurstSecond \in 0..(Seconds + 1) /\ "general_flash" \in Rules /\ "red_flash" \in Rules
      BY CorpusAssumption DEF Rules
    <2> HIDE DEF table, rows
    <2>9. CASE \E rule \in Rules : KindOf(rule) \in bursts
      <3>1. PICK rule \in Rules : KindOf(rule) \in bursts
        BY <2>9
      <3>2. SqlTimeline(table, rule, SecondOf(rule)) > MaxTransitions
        BY <2>2, <2>6, <3>1, BurstIsCharted DEF rows
      <3> QED
        BY <2>5, <2>7, <3>2
    <2>10. CASE \A rule \in Rules : KindOf(rule) \notin bursts
      <3>1. "general" \notin bursts /\ "red" \notin bursts
        BY <2>8, <2>10 DEF KindOf
      <3>2. m # 1
        <4>1. RulesOf(bursts) = {}
          BY <3>1 DEF RulesOf, Rules
        <4> QED
          BY <1>3, <1>5, <4>1
      <3>3. n >= 2
        BY <2>1, <2>4, <3>2
      <3>4. SqlTimeline(table, "general_flash", BurstSecond) > MaxTransitions
        BY <2>2, <2>6, <3>1, <3>3, TwoCopiesAreCharted DEF rows
      <3> QED
        BY <2>5, <2>8, <3>4
    <2> QED
      BY <2>9, <2>10
  <1> QED
    BY <1>3, <1>4, <1>5

-----------------------------------------------------------------------------
(* What an asset has introduced. *)

\* An asset seeded once has introduced what was planted in it and not in its master.
LEMMA PlannedIsExpected ==
  ASSUME NEW measured \in BOOLEAN, NEW toss \in Tosses, NEW transform \in Renditions
  PROVE  /\ Plan(toss, "master") \in SUBSET Bursts /\ Plan(toss, transform) \in SUBSET Bursts
         /\ Isolated[measured][Plan(toss, "master")][Plan(toss, transform)][1][1]
              = Expected(toss, transform)
  <1> DEFINE parent == Plan(toss, "master")
             child == Plan(toss, transform)
             P == Judged[measured][parent][1]
             C == Judged[measured][child][1]
  <1>1. parent = toss.inherited /\ toss.inherited \subseteq {"general", "red"}
    BY DEF Plan, Tosses, BurstCapable, RedCapable, BrightCapable
  <1>2. child \subseteq Bursts /\ parent \subseteq Bursts
    BY <1>1 DEF Plan, Tosses, Bursts
  <1>3. /\ "general" \in child <=> \/ "general" \in parent
                                   \/ transform \in BurstCapable \cap toss.introduced
        /\ "red" \in child <=> \/ "red" \in parent
                               \/ transform \in RedCapable \cap toss.introduced
    BY <1>1 DEF Plan, Tosses, BurstCapable, RedCapable, BrightCapable
  <1>4. 1 \in 0..MaxCopies /\ BurstSets = SUBSET Bursts
    BY CorpusAssumption DEF BurstSets
  <1>5. /\ {v.rule : v \in P} = RulesOf(parent) /\ {v.rule : v \in C} = RulesOf(child)
        /\ \A v \in C, w \in P : v.rule = w.rule => v.start = w.start
    BY <1>2, Planting
  <1>6. \A v \in P \cup C : v.rule \in Rules /\ v.start \in Nat
    BY <1>2, <1>4, JudgedType
  <1>7. Isolated[measured][parent][child][1][1] = {v.rule : v \in SqlAntiJoin(P, C)}
    BY <1>2, <1>4, JudgedIsolation
  <1>8. Expected(toss, transform) = RulesOf(child) \ RulesOf(parent)
    <2> HIDE DEF parent, child
    <2>1. \A rule \in Rules : rule \in Expected(toss, transform) <=>
            rule \in RulesOf(child) /\ rule \notin RulesOf(parent)
      BY <1>1, <1>3 DEF Rules, Expected, RulesOf
    <2> QED
      BY <2>1 DEF Expected, RulesOf
  <1> HIDE DEF parent, child, P, C
  <1>9. \A v \in C, w \in P : v.rule = w.rule => Distance(v.start, w.start) <= Tolerance
    BY <1>5, <1>6, CriteriaAssumption DEF Distance
  <1>10. {v.rule : v \in SqlAntiJoin(P, C)} = RulesOf(child) \ RulesOf(parent)
    BY <1>5, <1>6, <1>9 DEF SqlAntiJoin
  <1> QED
    BY <1>2, <1>7, <1>8, <1>10 DEF parent, child

-----------------------------------------------------------------------------
(* The seeding. *)

\* The places the seeding script may be at.
Places == [title : MeasuredTitles, position : DOMAIN Transforms]

\* A place is no later than an asset: the asset is still to be inserted from there.
From(place, t, i) == t > place.title \/ (t = place.title /\ i >= place.position)
Ahead(t, i) == next # Stopped /\ From(next, t, i)

\* What the script and the callers leave in the tables.  An asset is inserted at most once
\* a run, and what is ahead of the script was not inserted in this one; the master of a
\* title is there before its renditions are.
SeedInv ==
  /\ tosses \in [Titles -> Tosses]
  /\ copies \in [Assets -> Nat]
  /\ next = Stopped \/ next \in Places
  /\ runs \in 1..MaxRuns /\ scans \in 0..MaxScans
  /\ \A a \in Assets : a[1] \in Authored => copies[a] = 1
  /\ \A t \in MeasuredTitles, i \in DOMAIN Transforms :
       copies[<<t, Transforms[i]>>] <= IF Ahead(t, i) THEN runs - 1 ELSE runs
  /\ \A a \in Assets : copies[a] > 0 => copies[Master(a)] > 0
  /\ next # Stopped /\ next.position > 1 => copies[<<next.title, "master">>] > 0
  /\ stored \subseteq [lineage : Nat, asset : Assets, rule : Rules, start : Nat]
  /\ \A r \in stored : r.asset[1] \notin Authored

\* The eight transforms, each of a name of its own.
LEMMA TransformNames ==
  /\ DOMAIN Transforms = 1..8 /\ Len(Transforms) = 8 /\ Transforms[1] = "master"
  /\ \A i, j \in 1..8 : Transforms[i] = Transforms[j] => i = j
  BY DEF Transforms

\* An asset is of a title and a transform, and its master is an asset.
LEMMA AssetType ==
  /\ \A t \in Titles, i \in 1..8 : <<t, Transforms[i]>> \in Assets
  /\ \A t \in Titles : <<t, "master">> \in Assets
  /\ \A a \in Assets : /\ a[1] \in Titles /\ a = <<a[1], a[2]>>
                       /\ \E i \in 1..8 : a[2] = Transforms[i]
                       /\ Master(a) \in Assets /\ Master(a)[1] = a[1] /\ Master(a)[2] = "master"
                       /\ a[2] # "master" => a[2] \in Renditions
  BY TransformNames DEF Assets, Master, Renditions

\* The script starts before every asset, and with a master.
LEMMA StartType ==
  \/ Start = Stopped
  \/ Start \in Places /\ Start.position = 1
  <1>1. CASE MeasuredTitles # {}
    <2>1. MeasuredTitles \in SUBSET Nat
      BY CatalogueAssumption DEF MeasuredTitles
    <2>2. PICK t \in MeasuredTitles : \A u \in MeasuredTitles : t <= u
      BY <1>1, <2>1, LeastNumber
    <2>3. Min(MeasuredTitles) \in MeasuredTitles
      BY <2>2 DEF Min
    <2> QED
      BY <1>1, <2>3, TransformNames DEF Start, Places
  <1> QED
    BY <1>1 DEF Start

\* From one place the script goes to a later one, past the asset it has inserted.
LEMMA AfterType ==
  ASSUME NEW place \in Places
  PROVE  \/ After(place) = Stopped
         \/ /\ After(place) \in Places
            /\ \A t \in Nat, i \in Nat :
                 From(After(place), t, i) =>
                   From(place, t, i) /\ ~(t = place.title /\ i = place.position)
            /\ After(place).position > 1 => After(place).title = place.title
  <1> DEFINE later == {t \in MeasuredTitles : t > place.title}
  <1>1. /\ place.title \in Nat /\ place.position \in 1..8 /\ place.title \in MeasuredTitles
        /\ MeasuredTitles \subseteq Nat
    BY CatalogueAssumption, TransformNames DEF Places, MeasuredTitles
  <1>2. CASE place.position < 8
    <2>1. After(place) = [place EXCEPT !.position = @ + 1]
      BY <1>2, TransformNames DEF After
    <2>2. After(place) = [title |-> place.title, position |-> place.position + 1]
      BY <2>1 DEF Places
    <2>3. After(place) \in Places
      BY <1>1, <1>2, <2>2, TransformNames DEF Places
    <2> QED
      BY <1>1, <2>2, <2>3 DEF From
  <1>3. CASE ~(place.position < 8) /\ later = {}
    BY <1>3, TransformNames DEF After
  <1>4. CASE ~(place.position < 8) /\ later # {}
    <2>1. After(place) = [title |-> Min(later), position |-> 1]
      BY <1>4, TransformNames DEF After
    <2>2. PICK t \in later : \A u \in later : t <= u
      <3> HIDE DEF later
      <3>1. later \in SUBSET Nat
        BY <1>1 DEF later
      <3> QED
        BY <1>4, <3>1, LeastNumber
    <2>3. Min(later) \in later
      BY <2>2 DEF Min
    <2>4. Min(later) \in MeasuredTitles /\ Min(later) \in Nat /\ Min(later) > place.title
      BY <1>1, <2>3
    <2> HIDE DEF later
    <2>5. After(place) \in Places
      BY <2>1, <2>4, TransformNames DEF Places
    <2> QED
      BY <1>1, <2>1, <2>4, <2>5 DEF From
  <1> QED
    BY <1>2, <1>3, <1>4

\* Nothing has been inserted of the titles that are to be measured.
LEMMA SeedInit == Init => SeedInv
  <1> SUFFICES ASSUME Init PROVE SeedInv
    OBVIOUS
  <1>1. tosses \in [Titles -> Tosses]
    BY CatalogueAssumption DEF Init
  <1>2. /\ copies \in [Assets -> Nat] /\ \A a \in Assets : a[1] \in Authored => copies[a] = 1
        /\ \A a \in Assets : a[1] \notin Authored => copies[a] = 0
    BY DEF Init
  <1>3. \A t \in MeasuredTitles, i \in DOMAIN Transforms : copies[<<t, Transforms[i]>>] = 0
    <2>1. \A t \in MeasuredTitles, i \in 1..8 :
            <<t, Transforms[i]>> \in Assets /\ <<t, Transforms[i]>>[1] \notin Authored
      BY AssetType DEF MeasuredTitles
    <2> QED
      BY <1>2, <2>1, TransformNames
  <1>4. runs \in 1..MaxRuns /\ scans \in 0..MaxScans /\ stored = {} /\ next = Start
    BY DEF Init
  <1>5. next = Stopped \/ (next \in Places /\ next.position = 1)
    BY <1>4, StartType
  <1>6. \A t \in MeasuredTitles, i \in DOMAIN Transforms :
          copies[<<t, Transforms[i]>>] <= IF Ahead(t, i) THEN runs - 1 ELSE runs
    BY <1>3, <1>4, CatalogueAssumption
  <1>7. \A a \in Assets : copies[a] > 0 => copies[Master(a)] > 0
    BY <1>2, AssetType
  <1> QED
    BY <1>1, <1>2, <1>4, <1>5, <1>6, <1>7 DEF SeedInv

\* The tables only grow, and what was tossed stays.
Grown ==
  tosses' = tosses /\ stored \subseteq stored' /\ \A a \in Assets : copies[a] <= copies'[a]

\* An insert.
LEMMA InsertStep ==
  ASSUME SeedInv, Insert PROVE SeedInv' /\ Grown
  <1> DEFINE it == <<next.title, Transforms[next.position]>>
  <1>1. /\ next \in Places /\ next # Stopped /\ next.title \in MeasuredTitles /\ next.title \in Nat
        /\ next.position \in 1..8 /\ next.title \notin Authored /\ next.title \in Titles
    BY CatalogueAssumption, TransformNames DEF SeedInv, Insert, Seeding, Places, MeasuredTitles
  <1>2. it \in Assets /\ it[1] \notin Authored /\ it[1] = next.title
    BY <1>1, AssetType
  <1>3. /\ copies' = [copies EXCEPT ![it] = @ + 1] /\ next' = After(next)
        /\ tosses' = tosses /\ runs' = runs /\ scans' = scans /\ stored' = stored
    BY DEF Insert
  <1>4. copies \in [Assets -> Nat] /\ runs \in Nat
    BY CatalogueAssumption DEF SeedInv
  <1> HIDE DEF it
  <1>5. /\ copies' \in [Assets -> Nat] /\ copies'[it] = copies[it] + 1
        /\ \A a \in Assets : a # it => copies'[a] = copies[a]
        /\ \A a \in Assets : copies[a] <= copies'[a] /\ copies[a] \in Nat
    BY <1>2, <1>3, <1>4
  <1>6. next' = Stopped \/ next' \in Places
    BY <1>1, <1>3, AfterType
  <1>7. \A a \in Assets : a[1] \in Authored => copies'[a] = 1
    BY <1>2, <1>5 DEF SeedInv
  <1>8. ASSUME NEW t \in MeasuredTitles, NEW i \in DOMAIN Transforms
        PROVE  copies'[<<t, Transforms[i]>>] <= IF Ahead(t, i)' THEN runs' - 1 ELSE runs'
    <2>1. /\ t \in Nat /\ t \in Titles /\ i \in Nat /\ i \in 1..8 /\ <<t, Transforms[i]>> \in Assets
      <3>1. t \in Nat /\ t \in Titles
        BY CatalogueAssumption DEF MeasuredTitles
      <3>2. i \in 1..8
        BY TransformNames
      <3>3. <<t, Transforms[i]>> \in Assets
        BY <3>1, <3>2, AssetType
      <3>4. i \in Nat
        BY <3>2
      <3> QED
        BY <3>1, <3>2, <3>3, <3>4
    <2>2. copies[<<t, Transforms[i]>>] <= IF Ahead(t, i) THEN runs - 1 ELSE runs
      BY DEF SeedInv
    <2>3. CASE <<t, Transforms[i]>> = it
      <3>1. t = next.title /\ i = next.position
        BY <1>1, <2>1, <2>3, TransformNames DEF it
      <3>2. Ahead(t, i)
        BY <1>1, <3>1 DEF Ahead, From
      <3>3. ~Ahead(t, i)'
        BY <1>1, <1>3, <2>1, <3>1, AfterType DEF Ahead
      <3>4. copies[it] <= runs - 1
        BY <2>2, <2>3, <3>2
      <3> QED
        BY <1>2, <1>3, <1>4, <1>5, <2>3, <3>3, <3>4
    <2>4. CASE <<t, Transforms[i]>> # it
      <3>1. copies'[<<t, Transforms[i]>>] = copies[<<t, Transforms[i]>>]
        BY <1>5, <2>1, <2>4
      <3>2. Ahead(t, i)' => Ahead(t, i)
        BY <1>1, <1>3, <2>1, AfterType DEF Ahead
      <3>3. copies[<<t, Transforms[i]>>] \in Nat
        BY <1>5, <2>1
      <3> QED
        BY <1>3, <1>4, <2>2, <3>1, <3>2, <3>3
    <2> QED
      BY <2>3, <2>4
  <1>9. \A a \in Assets : copies'[a] > 0 => copies'[Master(a)] > 0
    <2> SUFFICES ASSUME NEW a \in Assets, copies'[a] > 0 PROVE copies'[Master(a)] > 0
      OBVIOUS
    <2>1. Master(a) \in Assets
      BY AssetType
    <2>2. CASE a # it
      BY <1>5, <2>1, <2>2 DEF SeedInv
    <2>3. CASE a = it /\ Master(a) = it
      BY <1>2, <1>5, <2>3
    <2>4. CASE a = it /\ Master(a) # it
      <3>1. next.position # 1 /\ Master(a) = <<next.title, "master">>
        BY <2>4, TransformNames DEF it, Master
      <3>2. copies[Master(a)] > 0
        BY <1>1, <3>1 DEF SeedInv
      <3> QED
        BY <1>5, <2>1, <3>2
    <2> QED
      BY <2>2, <2>3, <2>4
  <1>10. next' # Stopped /\ next'.position > 1 => copies'[<<next'.title, "master">>] > 0
    <2> SUFFICES ASSUME next' # Stopped, next'.position > 1
                 PROVE  copies'[<<next'.title, "master">>] > 0
      OBVIOUS
    <2>1. next'.title = next.title
      BY <1>1, <1>3, AfterType
    <2>2. <<next.title, "master">> \in Assets
      BY <1>1, AssetType, TransformNames
    <2>3. CASE next.position = 1
      BY <1>2, <1>5, <2>1, <2>3, TransformNames DEF it
    <2>4. CASE next.position # 1
      <3>1. copies[<<next.title, "master">>] > 0
        BY <1>1, <2>4 DEF SeedInv
      <3> QED
        BY <1>5, <2>1, <2>2, <3>1
    <2> QED
      BY <2>3, <2>4
  <1>11. SeedInv'
    BY <1>3, <1>5, <1>6, <1>7, <1>8, <1>9, <1>10 DEF SeedInv
  <1> QED
    BY <1>3, <1>5, <1>11 DEF Grown

\* The rows that a scan stores of an asset.
StoredOf(lineage, a, found) == {Row(lineage, a, v) : v \in found}

\* They are of that asset.
LEMMA StoredOfType ==
  ASSUME NEW lineage \in Nat, NEW a \in Assets,
         NEW found, \A v \in found : v.rule \in Rules /\ v.start \in Nat
  PROVE  /\ StoredOf(lineage, a, found)
               \subseteq [lineage : Nat, asset : Assets, rule : Rules, start : Nat]
         /\ \A r \in StoredOf(lineage, a, found) : r.asset = a
  BY DEF StoredOf, Row

\* A step of the catalogue or of an agent, as far as the tables go.
LEMMA SeedStep ==
  ASSUME SeedInv, [AgentsNext]_allVars PROVE SeedInv' /\ Grown
  <1>0. \A a \in Assets : copies[a] <= copies[a]
    BY DEF SeedInv
  <1>1. CASE Insert
    BY <1>1, InsertStep
  <1>2. CASE Die
    <2>1. /\ next' = Stopped /\ UNCHANGED <<tosses, copies, runs, scans, stored>>
          /\ runs \in Nat
      BY <1>2, CatalogueAssumption DEF Die, SeedInv
    <2>2. ASSUME NEW t \in MeasuredTitles, NEW i \in DOMAIN Transforms
          PROVE  copies'[<<t, Transforms[i]>>] <= IF Ahead(t, i)' THEN runs' - 1 ELSE runs'
      <3>1. <<t, Transforms[i]>> \in Assets
        BY AssetType, TransformNames DEF MeasuredTitles
      <3>2. /\ copies[<<t, Transforms[i]>>] \in Nat
            /\ copies[<<t, Transforms[i]>>] <= IF Ahead(t, i) THEN runs - 1 ELSE runs
        BY <3>1 DEF SeedInv
      <3>3. ~Ahead(t, i)'
        BY <2>1 DEF Ahead
      <3> QED
        BY <2>1, <3>2, <3>3
    <2>3. SeedInv'
      BY <2>1, <2>2 DEF SeedInv
    <2> QED
      BY <1>0, <2>1, <2>3 DEF Grown
  <1>3. CASE RunAgain
    <2>1. /\ next' = Start /\ runs' = runs + 1 /\ runs' \in 1..MaxRuns /\ runs \in Nat
          /\ UNCHANGED <<tosses, copies, stored, scans>> /\ next = Stopped
      BY <1>3, CatalogueAssumption DEF RunAgain, SeedInv, Seeding
    <2>2. next' = Stopped \/ (next' \in Places /\ next'.position = 1)
      BY <2>1, StartType
    <2>3. ASSUME NEW t \in MeasuredTitles, NEW i \in DOMAIN Transforms
          PROVE  copies'[<<t, Transforms[i]>>] <= IF Ahead(t, i)' THEN runs' - 1 ELSE runs'
      <3>1. ~Ahead(t, i) /\ copies[<<t, Transforms[i]>>] <= runs
        BY <2>1 DEF SeedInv, Ahead
      <3>2. copies[<<t, Transforms[i]>>] \in Nat
        BY AssetType, TransformNames DEF SeedInv, MeasuredTitles
      <3> QED
        BY <2>1, <3>1, <3>2
    <2>4. SeedInv'
      BY <2>1, <2>2, <2>3 DEF SeedInv
    <2> QED
      BY <1>0, <2>1, <2>4 DEF Grown
  <1>4. ASSUME NEW scan \in Scanned, StoreScan(scan) PROVE SeedInv' /\ Grown
    <2> DEFINE inParent == Judged[TRUE][scan.inParent][1]
               inChild == Judged[TRUE][scan.inChild][1]
               parents == StoredOf(scan.lineage, scan.parent, inParent)
               childs == StoredOf(scan.lineage, scan.child, inChild)
    <2>1. /\ scan.lineage \in Nat /\ scan.parent \in Assets /\ scan.child \in Assets
          /\ scan.inParent \in SUBSET Bursts /\ scan.inChild \in SUBSET Bursts
          /\ 1 \in 0..MaxCopies
      BY CatalogueAssumption, CorpusAssumption
    <2>2. /\ stored' = stored \cup parents \cup childs
          /\ scan.parent[1] \notin Authored /\ scan.child[1] \notin Authored
          /\ scans' = scans + 1 /\ scans < MaxScans
          /\ UNCHANGED <<tosses, copies, next, runs>>
      BY <1>4 DEF StoreScan, Reserved, StoredOf
    <2>3. /\ \A v \in inParent : v.rule \in Rules /\ v.start \in Nat
          /\ \A v \in inChild : v.rule \in Rules /\ v.start \in Nat
      BY <2>1, JudgedType
    <2> HIDE DEF inParent, inChild
    <2>4. /\ parents \subseteq [lineage : Nat, asset : Assets, rule : Rules, start : Nat]
          /\ childs \subseteq [lineage : Nat, asset : Assets, rule : Rules, start : Nat]
          /\ \A r \in parents : r.asset = scan.parent
          /\ \A r \in childs : r.asset = scan.child
      BY <2>1, <2>3, StoredOfType
    <2> HIDE DEF parents, childs
    <2>5. \A r \in parents \cup childs : r.asset[1] \notin Authored
      BY <2>2, <2>4
    <2>6. scans' \in 0..MaxScans
      BY <2>2, CatalogueAssumption DEF SeedInv
    <2>7. SeedInv'
      BY <2>2, <2>4, <2>5, <2>6 DEF SeedInv, Ahead
    <2> QED
      BY <1>0, <2>2, <2>7 DEF Grown
  <1>5. CASE UNCHANGED <<tosses, copies, next, runs, stored, scans>>
    <2>1. SeedInv'
      BY <1>5 DEF SeedInv, Ahead
    <2> QED
      BY <1>0, <1>5, <2>1 DEF Grown
  <1>6. Read => UNCHANGED <<tosses, copies, next, runs, stored, scans>>
    BY DEF Read, Evaluate, Score, AskSweep, AskScale, Fail
  <1> QED
    BY <1>1, <1>2, <1>3, <1>4, <1>5, <1>6 DEF AgentsNext, Next, Fill, allVars, vars

-----------------------------------------------------------------------------
(* What the statements find. *)

\* The image of a finite set, and of one under an injection.
LEMMA ImageSize ==
  ASSUME NEW S, IsFiniteSet(S), NEW T, NEW f \in [S -> T]
  PROVE  LET image == {f[x] : x \in S}
         IN /\ IsFiniteSet(image) /\ Cardinality(image) \in Nat
            /\ Cardinality(image) <= Cardinality(S)
            /\ (\A x, y \in S : f[x] = f[y] => x = y) => Cardinality(image) = Cardinality(S)
  <1> DEFINE image == {f[x] : x \in S}
  <1>1. f \in Surjection(S, image)
    BY DEF Surjection
  <1>2. /\ IsFiniteSet(image) /\ Cardinality(image) <= Cardinality(S)
        /\ Cardinality(image) = Cardinality(S) <=> f \in Injection(S, image)
    BY <1>1, FS_Surjection
  <1>3. (\A x, y \in S : f[x] = f[y] => x = y) => f \in Injection(S, image)
    BY DEF Injection, IsInjective
  <1> HIDE DEF image
  <1>4. Cardinality(image) \in Nat
    BY <1>2, FS_CardinalityType
  <1> QED
    BY <1>2, <1>3, <1>4 DEF image

\* The catalogue is finite.
LEMMA AssetsFinite ==
  /\ IsFiniteSet(Assets) /\ IsFiniteSet(Titles)
  /\ IsFiniteSet({Transforms[i] : i \in DOMAIN Transforms})
  <1> DEFINE names == {Transforms[i] : i \in DOMAIN Transforms}
  <1>1. IsFiniteSet(1..8)
    BY FS_Interval, 1 \in Int, 8 \in Int
  <1>2. Transforms \in [1..8 -> names]
    BY TransformNames DEF Transforms
  <1>3. IsFiniteSet({Transforms[i] : i \in 1..8})
    <2> HIDE DEF names
    <2> QED
      BY <1>1, <1>2, ImageSize
  <1>4. IsFiniteSet(names)
    BY <1>3, TransformNames
  <1>5. IsFiniteSet(Titles)
    BY CatalogueAssumption
  <1> HIDE DEF names
  <1> QED
    BY <1>4, <1>5, FS_Product DEF Assets, names

\* No asset's rows are in the table more often than the bound allows.
LEMMA CopiesType ==
  ASSUME SeedInv PROVE \A a \in Assets : copies[a] \in 0..MaxCopies
  <1> SUFFICES ASSUME NEW a \in Assets PROVE copies[a] \in 0..MaxCopies
    OBVIOUS
  <1>1. /\ copies[a] \in Nat /\ runs \in 1..MaxRuns /\ MaxRuns \in 1..MaxCopies
        /\ MaxCopies \in Nat \ {0}
    BY CatalogueAssumption, CorpusAssumption DEF SeedInv
  <1>2. CASE a[1] \in Authored
    BY <1>1, <1>2 DEF SeedInv
  <1>3. CASE a[1] \notin Authored
    <2>1. PICK i \in 1..8 : a[2] = Transforms[i]
      BY AssetType
    <2>2. a[1] \in MeasuredTitles /\ a = <<a[1], Transforms[i]>> /\ i \in DOMAIN Transforms
      BY <1>3, <2>1, AssetType, TransformNames DEF MeasuredTitles
    <2>3. copies[<<a[1], Transforms[i]>>] <= IF Ahead(a[1], i) THEN runs - 1 ELSE runs
      BY <2>2 DEF SeedInv
    <2>4. copies[a] <= IF Ahead(a[1], i) THEN runs - 1 ELSE runs
      BY <2>2, <2>3
    <2> QED
      BY <1>1, <2>4
  <1> QED
    BY <1>2, <1>3

\* What is planted is of the three bursts.
LEMMA PlanType ==
  ASSUME NEW toss \in Tosses, NEW transform PROVE Plan(toss, transform) \in SUBSET Bursts
  BY DEF Plan, Tosses, Bursts

\* What an asset introduced are rules, and only if it violates one.
LEMMA IntroducedType ==
  ASSUME SeedInv, NEW a \in Assets
  PROVE  Introduced(a) \subseteq Rules /\ (Introduced(a) # {} => Violations(a) # {})
  <1> DEFINE measured == a[1] \notin Authored
             parent == Plan(tosses[a[1]], "master")
             child == Plan(tosses[a[1]], a[2])
             m == copies[Master(a)]
             n == copies[a]
  <1>1. /\ a[1] \in Titles /\ Master(a) \in Assets /\ Master(a)[1] = a[1]
        /\ Master(a)[2] = "master"
    BY AssetType
  <1>2. parent \in SUBSET Bursts /\ child \in SUBSET Bursts /\ measured \in BOOLEAN
    BY <1>1, PlanType DEF SeedInv
  <1>3. m \in 0..MaxCopies /\ n \in 0..MaxCopies
    BY <1>1, CopiesType
  <1>4. /\ Introduced(a) = Isolated[measured][parent][child][m][n]
        /\ Violations(a) = Judged[measured][child][n]
    BY <1>1 DEF Introduced, Violations
  <1> HIDE DEF measured, parent, child, m, n
  <1> QED
    BY <1>2, <1>3, <1>4, JudgedIsolation

\* The renditions there are, and their masters.
LEMMA PresentType ==
  ASSUME SeedInv
  PROVE  /\ Present \subseteq Assets /\ PresentRenditions \subseteq Present
         /\ \A a \in PresentRenditions : a[2] \in Renditions
         /\ \A a \in Present : Master(a) \in Present
         /\ IsFiniteSet(Present) /\ IsFiniteSet(PresentRenditions)
  <1>1. /\ Present \subseteq Assets /\ PresentRenditions \subseteq Present
        /\ \A a \in PresentRenditions : a[2] \in Renditions
    BY AssetType DEF Present, PresentRenditions
  <1>2. \A a \in Present : Master(a) \in Present
    BY AssetType DEF Present, SeedInv
  <1>3. IsFiniteSet(Present) /\ IsFiniteSet(PresentRenditions)
    BY <1>1, AssetsFinite, FS_Subset
  <1> QED
    BY <1>1, <1>2, <1>3

\* The sweep flags renditions, for rules.
LEMMA SweepType ==
  ASSUME SeedInv
  PROVE  /\ Sweep \subseteq PresentRenditions \X Rules /\ Sweep \subseteq Flags
         /\ IsFiniteSet(Sweep)
  <1>1. \A a \in PresentRenditions : a \in Assets /\ Introduced(a) \subseteq Rules
    BY PresentType, IntroducedType
  <1>2. Sweep \subseteq PresentRenditions \X Rules /\ Sweep \subseteq Flags
    BY <1>1 DEF Sweep, Flags
  <1>3. IsFiniteSet(Rules)
    <2>1. Rules = {"general_flash"} \cup {"red_flash"}
      BY DEF Rules
    <2> QED
      BY <2>1, FS_Singleton, FS_Union
  <1>4. IsFiniteSet(PresentRenditions \X Rules)
    BY <1>3, PresentType, FS_Product
  <1> QED
    BY <1>2, <1>4, FS_Subset

\* In a table seeded once, a rendition introduced what was planted in it.
LEMMA IntroducedOnce ==
  ASSUME SeedInv, SeededOnce, NEW a \in PresentRenditions
  PROVE  Introduced(a) = Expected(tosses[a[1]], a[2]) /\ copies[a] = 1 /\ copies[Master(a)] = 1
  <1>1. /\ a \in Assets /\ Master(a) \in Assets /\ a[1] \in Titles /\ a[2] \in Renditions
        /\ Master(a)[1] = a[1] /\ Master(a)[2] = "master"
        /\ copies[a] > 0 /\ copies[Master(a)] > 0
    BY PresentType, AssetType DEF Present
  <1>2. copies[a] = 1 /\ copies[Master(a)] = 1
    BY <1>1 DEF SeededOnce, SeedInv
  <1>3. tosses[a[1]] \in Tosses
    BY <1>1 DEF SeedInv
  <1> DEFINE measured == a[1] \notin Authored
  <1>4. Introduced(a)
          = Isolated[measured][Plan(tosses[a[1]], "master")][Plan(tosses[a[1]], a[2])][1][1]
    BY <1>1, <1>2 DEF Introduced
  <1>5. measured \in BOOLEAN
    OBVIOUS
  <1> HIDE DEF measured
  <1> QED
    BY <1>1, <1>2, <1>3, <1>4, <1>5, PlannedIsExpected

\* In a table seeded once, the sweep is the ground truth.
LEMMA SweepOnce ==
  ASSUME SeedInv, SeededOnce PROVE Sweep = GroundTruth.expected
  <1>1. \A a \in PresentRenditions : Introduced(a) = Expected(tosses[a[1]], a[2])
    BY IntroducedOnce
  <1> QED
    BY <1>1 DEF Sweep, GroundTruth

\* While a table is seeded once, what the sweep found it goes on finding.
LEMMA SweepGrows ==
  ASSUME SeedInv, SeedInv', Grown, SeededOnce'
  PROVE  SeededOnce /\ Sweep \subseteq Sweep'
  <1>1. \A a \in Assets : copies[a] \in Nat /\ copies'[a] \in Nat /\ copies[a] <= copies'[a]
    BY DEF SeedInv, Grown
  <1>2. SeededOnce
    BY <1>1 DEF SeededOnce
  <1>3. PresentRenditions \subseteq PresentRenditions'
    BY <1>1 DEF PresentRenditions, Present
  <1>4. ASSUME NEW a \in PresentRenditions PROVE Introduced(a) = Introduced(a)'
    <2>1. a \in PresentRenditions'
      BY <1>3
    <2>2. a \in Assets /\ Master(a) \in Assets /\ copies[a] > 0 /\ copies[Master(a)] > 0
      BY PresentType, AssetType DEF Present
    <2>3. /\ copies[a] = copies'[a] /\ copies[Master(a)] = copies'[Master(a)]
      BY <1>1, <2>2 DEF SeededOnce
    <2> QED
      BY <2>3 DEF Introduced, Grown
  <1>5. Sweep \subseteq Sweep'
    BY <1>3, <1>4 DEF Sweep
  <1> QED
    BY <1>2, <1>5

\* What is flagged is of the corpus there is.
LEMMA ScaleHolds ==
  ASSUME SeedInv, NEW flagged \in SUBSET PresentRenditions
  PROVE  /\ Scale \in [assets : Nat, titles : Nat]
         /\ Cardinality({a[1] : a \in flagged}) <= Scale.titles
         /\ Cardinality(flagged) <= Scale.assets - Scale.titles
  <1> DEFINE titles == {a[1] : a \in Present}
             masters == {<<t, "master">> : t \in titles}
             ofFlagged == {a[1] : a \in flagged}
  <1>1. titles \subseteq Titles
    BY PresentType, AssetType
  <1>2. IsFiniteSet(titles) /\ Cardinality(titles) \in Nat
    <2> HIDE DEF titles
    <2> QED
      BY <1>1, AssetsFinite, FS_Subset, FS_CardinalityType
  <1>3. ofFlagged \subseteq titles
    BY PresentType
  <1>4. Cardinality(ofFlagged) <= Cardinality(titles)
    <2> HIDE DEF ofFlagged, titles
    <2> QED
      BY <1>2, <1>3, FS_Subset
  <1>5. IsFiniteSet(masters) /\ Cardinality(masters) = Cardinality(titles)
    <2> DEFINE f == [t \in titles |-> <<t, "master">>]
    <2> HIDE DEF titles
    <2>1. f \in [titles -> masters] /\ masters = {f[t] : t \in titles}
      OBVIOUS
    <2>2. \A t, u \in titles : f[t] = f[u] => t = u
      OBVIOUS
    <2> HIDE DEF f, masters
    <2> QED
      BY <1>2, <2>1, <2>2, ImageSize
  <1>6. masters \subseteq Present
    BY PresentType DEF Master
  <1>7. flagged \cap masters = {} /\ flagged \subseteq Present
    BY PresentType DEF PresentRenditions
  <1>8. IsFiniteSet(flagged) /\ IsFiniteSet(Present)
    BY <1>7, PresentType, FS_Subset
  <1> HIDE DEF titles, masters, ofFlagged
  <1>9. /\ Cardinality(flagged \cup masters)
             = Cardinality(flagged) + Cardinality(masters) - Cardinality(flagged \cap masters)
        /\ Cardinality(flagged \cup masters) <= Cardinality(Present)
    BY <1>5, <1>6, <1>7, <1>8, FS_Union, FS_Subset
  <1>10. /\ Cardinality(flagged \cap masters) = 0 /\ Cardinality(flagged) \in Nat
         /\ Cardinality(Present) \in Nat
    BY <1>7, <1>8, FS_EmptySet, FS_CardinalityType
  <1>11. Scale = [assets |-> Cardinality(Present), titles |-> Cardinality(titles)]
    BY DEF Scale, titles
  <1>12. Cardinality(flagged) <= Cardinality(Present) - Cardinality(titles)
    BY <1>2, <1>5, <1>9, <1>10
  <1> QED
    BY <1>2, <1>4, <1>10, <1>11, <1>12 DEF ofFlagged

-----------------------------------------------------------------------------
(* The profile of transforms. *)

\* The assets of some findings, and those of the findings for some rules.
AssetsOf(findings) == {f[1] : f \in findings}
OfRules(findings, rules) == {f \in findings : f[2] \in rules}

\* Findings of one transform.
OfTransform(findings, t) == {f \in findings : f[1][2] = t}

\* The assets of finitely many findings are finitely many, and there are none if no finding.
LEMMA AssetsOfFinite ==
  ASSUME NEW findings, IsFiniteSet(findings)
  PROVE  /\ IsFiniteSet(AssetsOf(findings)) /\ Cardinality(AssetsOf(findings)) \in Nat
         /\ Cardinality(AssetsOf(findings)) = 0 <=> findings = {}
  <1> DEFINE first == [f \in findings |-> f[1]]
  <1>1. first \in Surjection(findings, AssetsOf(findings))
    BY DEF Surjection, AssetsOf
  <1>2. IsFiniteSet(AssetsOf(findings))
    <2> HIDE DEF first
    <2> QED
      BY <1>1, FS_Surjection
  <1>3. Cardinality(AssetsOf(findings)) \in Nat
    BY <1>2, FS_CardinalityType
  <1>4. AssetsOf(findings) = {} <=> findings = {}
    BY DEF AssetsOf
  <1> QED
    BY <1>2, <1>3, <1>4, FS_EmptySet

\* The transforms that something was produced with.
Produced == {a[2] : a \in PresentRenditions}

\* The sum over some transforms of the assets found for some rules is the number of them.
LEMMA SumByTransform ==
  ASSUME SeedInv, NEW rules, NEW S \in SUBSET Produced,
         NEW f, f = [t \in S |-> Regressed(OfTransform(OfRules(Sweep, rules), t))]
  PROVE  SumFunction(f) = Cardinality(AssetsOf({g \in OfRules(Sweep, rules) : g[1][2] \in S}))
  <1> DEFINE part == [t \in S |-> AssetsOf(OfTransform(OfRules(Sweep, rules), t))]
             all == UNION {part[t] : t \in S}
  <1>1. IsFiniteSet(S)
    <2>1. Produced \subseteq {Transforms[i] : i \in DOMAIN Transforms}
      <3>1. \A a \in PresentRenditions : a \in Assets
        BY PresentType
      <3>2. \A a \in Assets : a[2] \in {Transforms[i] : i \in DOMAIN Transforms}
        BY DEF Assets
      <3> QED
        BY <3>1, <3>2 DEF Produced
    <2>2. S \in SUBSET {Transforms[i] : i \in DOMAIN Transforms}
      BY <2>1
    <2> QED
      BY <2>2, AssetsFinite, FS_Subset
  <1>2. ASSUME NEW t \in S
        PROVE  IsFiniteSet(part[t]) /\ f[t] = Cardinality(part[t])
    <2>1. OfTransform(OfRules(Sweep, rules), t) \in SUBSET Sweep
      BY DEF OfTransform, OfRules
    <2>2. IsFiniteSet(OfTransform(OfRules(Sweep, rules), t))
      BY <2>1, SweepType, FS_Subset
    <2>3. IsFiniteSet(part[t])
      BY <2>2, AssetsOfFinite
    <2> QED
      BY <2>3 DEF Regressed, AssetsOf
  <1>3. ASSUME NEW t \in S, NEW u \in S, t # u PROVE part[t] \cap part[u] = {}
    BY <1>3 DEF AssetsOf, OfTransform
  <1>4. all = AssetsOf({g \in OfRules(Sweep, rules) : g[1][2] \in S})
    BY DEF AssetsOf, OfTransform
  <1> HIDE DEF part
  <1>5. SumFunctionOnSet(f, S) = Cardinality(all)
    BY <1>1, <1>2, <1>3, SumOfSizes
  <1> QED
    BY <1>4, <1>5 DEF SumFunction

\* The profiles of the sweep, and what is made of them.
LEMMA RiskIsOfSweep ==
  ASSUME SeedInv
  PROVE  LET risk == RiskOf(Profiles(Sweep))
         IN /\ risk.total = Cardinality(AssetsOf(Sweep))
            /\ risk.implicated = {a[2] : a \in AssetsOf(Sweep)}
            /\ SeededOnce =>
                 risk.redOnly = Cardinality(AssetsOf(OfRules(Sweep, {"red_flash"}))
                                              \ AssetsOf(OfRules(Sweep, {"general_flash"})))
  <1> DEFINE profiles == Profiles(Sweep)
             T == Produced
             hits(rules, t) == OfTransform(OfRules(Sweep, rules), t)
             redOnly == {t \in T : profiles[t].red > 0 /\ profiles[t].general = 0}
             total == [t \in T |-> Regressed(hits(Rules, t))]
             red == [t \in redOnly |-> Regressed(hits({"red_flash"}, t))]
  <1>1. /\ \A f \in Sweep : /\ f[1] \in PresentRenditions /\ f[1][2] \in T
                            /\ f[2] \in Rules /\ f[2] \in Introduced(f[1])
        /\ IsFiniteSet(Sweep)
    BY SweepType DEF Produced, Sweep
  <1>2. /\ DOMAIN profiles = T
        /\ \A t \in T : /\ profiles[t].regressed = Regressed(hits(Rules, t))
                        /\ profiles[t].general = Regressed(hits({"general_flash"}, t))
                        /\ profiles[t].red = Regressed(hits({"red_flash"}, t))
    <2>1. ASSUME NEW t \in T
          PROVE  /\ hits(Rules, t) = {f \in Sweep : f[1][2] = t}
                 /\ hits({"general_flash"}, t) = {h \in {f \in Sweep : f[1][2] = t} : h[2] = "general_flash"}
                 /\ hits({"red_flash"}, t) = {h \in {f \in Sweep : f[1][2] = t} : h[2] = "red_flash"}
      BY <1>1 DEF OfTransform, OfRules
    <2> HIDE DEF hits
    <2> QED
      BY <2>1 DEF Profiles, Produced
  <1>3. ASSUME NEW rules, NEW t
        PROVE  /\ Regressed(hits(rules, t)) \in Nat
               /\ Regressed(hits(rules, t)) = 0 <=> hits(rules, t) = {}
    <2>1. IsFiniteSet(hits(rules, t))
      <3>1. hits(rules, t) \in SUBSET Sweep
        BY DEF OfTransform, OfRules
      <3> HIDE DEF hits
      <3> QED
        BY <1>1, <3>1, FS_Subset
    <2> HIDE DEF hits
    <2> QED
      BY <2>1, AssetsOfFinite DEF Regressed, AssetsOf
  <1>4. /\ RiskOf(profiles).implicated = {t \in T : profiles[t].regressed > 0}
        /\ RiskOf(profiles).total = SumFunction(total)
        /\ RiskOf(profiles).redOnly = SumFunction(red)
    <2> HIDE DEF hits, T, profiles
    <2>1. /\ total = [t \in T |-> profiles[t].regressed]
          /\ red = [t \in redOnly |-> profiles[t].red]
      BY <1>2
    <2>2. RiskOf(profiles).total = SumFunction([t \in T |-> profiles[t].regressed])
      BY <1>2 DEF RiskOf
    <2>3. RiskOf(profiles).redOnly = SumFunction([t \in redOnly |-> profiles[t].red])
      BY <1>2 DEF RiskOf
    <2>4. RiskOf(profiles).implicated = {t \in T : profiles[t].regressed > 0}
      BY <1>2 DEF RiskOf
    <2> QED
      BY <2>1, <2>2, <2>3, <2>4
  <1>5. SumFunction(total) = Cardinality(AssetsOf(Sweep))
    <2>1. {g \in OfRules(Sweep, Rules) : g[1][2] \in T} = Sweep
      BY <1>1 DEF OfRules
    <2> HIDE DEF T
    <2>2. T \in SUBSET Produced
      BY DEF T
    <2> QED
      BY <2>1, <2>2, SumByTransform
  <1>6. {t \in T : profiles[t].regressed > 0} = {a[2] : a \in AssetsOf(Sweep)}
    <2>1. \A t \in T : profiles[t].regressed > 0 <=> hits(Rules, t) # {}
      <3> HIDE DEF hits, T, profiles
      <3> QED
        BY <1>2, <1>3
    <2>2. \A t : hits(Rules, t) # {} <=> \E f \in Sweep : f[1][2] = t
      BY <1>1 DEF OfTransform, OfRules
    <2>3. \A t : t \in {a[2] : a \in AssetsOf(Sweep)} <=> \E f \in Sweep : f[1][2] = t
      BY DEF AssetsOf
    <2> HIDE DEF hits, profiles
    <2> QED
      BY <1>1, <2>1, <2>2, <2>3
  <1>7. ASSUME SeededOnce
        PROVE  SumFunction(red) = Cardinality(AssetsOf(OfRules(Sweep, {"red_flash"}))
                                                \ AssetsOf(OfRules(Sweep, {"general_flash"})))
    <2>1. ASSUME NEW f \in Sweep, NEW g \in Sweep, f[2] = "red_flash", g[2] = "general_flash"
          PROVE  f[1][2] # g[1][2]
      <3>1. Introduced(f[1]) = Expected(tosses[f[1][1]], f[1][2])
        BY <1>1, <1>7, IntroducedOnce
      <3>2. Introduced(g[1]) = Expected(tosses[g[1][1]], g[1][2])
        BY <1>1, <1>7, IntroducedOnce
      <3>3. "red_flash" \in Expected(tosses[f[1][1]], f[1][2])
        BY <1>1, <2>1, <3>1
      <3>4. "general_flash" \in Expected(tosses[g[1][1]], g[1][2])
        BY <1>1, <2>1, <3>2
      <3>5. f[1][2] \in RedCapable
        BY <3>3 DEF Expected
      <3>6. g[1][2] \in BurstCapable
        BY <3>4 DEF Expected
      <3> QED
        BY <3>5, <3>6 DEF RedCapable, BurstCapable
    <2>2. ASSUME NEW f \in Sweep, f[2] = "red_flash" PROVE f[1][2] \in redOnly
      <3> DEFINE t == f[1][2]
      <3>1. t \in T
        BY <1>1
      <3>2. f \in hits({"red_flash"}, t)
        BY <2>2 DEF OfTransform, OfRules
      <3>3. hits({"general_flash"}, t) = {}
        BY <2>1, <2>2 DEF OfTransform, OfRules
      <3> HIDE DEF t, hits, T, profiles
      <3>4. profiles[t].red > 0 /\ profiles[t].general = 0
        BY <1>2, <1>3, <3>1, <3>2, <3>3
      <3> QED
        BY <3>1, <3>4 DEF t
    <2>3. {g \in OfRules(Sweep, {"red_flash"}) : g[1][2] \in redOnly} = OfRules(Sweep, {"red_flash"})
      <3> HIDE DEF redOnly
      <3> QED
        BY <2>2 DEF OfRules
    <2>4. AssetsOf(OfRules(Sweep, {"red_flash"})) \cap AssetsOf(OfRules(Sweep, {"general_flash"})) = {}
      BY <2>1 DEF AssetsOf, OfRules
    <2>5. redOnly \in SUBSET Produced
      OBVIOUS
    <2> HIDE DEF redOnly
    <2>6. SumFunction(red) = Cardinality(AssetsOf(OfRules(Sweep, {"red_flash"})))
      BY <2>3, <2>5, SumByTransform
    <2>7. AssetsOf(OfRules(Sweep, {"red_flash"})) \ AssetsOf(OfRules(Sweep, {"general_flash"}))
            = AssetsOf(OfRules(Sweep, {"red_flash"}))
      BY <2>4
    <2> QED
      BY <2>6, <2>7
  <1> HIDE DEF profiles, total, red
  <1> QED
    BY <1>4, <1>5, <1>6, <1>7 DEF profiles

-----------------------------------------------------------------------------
(* What holds of the tables at any moment. *)

\* Of assets that nobody scanned the pair's statement sees what is measured; only a parent
\* of the same title excuses anything.
LEMMA MeasuredPair ==
  ASSUME NEW parent \in Assets, NEW child \in Assets,
         ~\E r \in stored : r.asset \in {parent, child}
  PROVE  {v.rule : v \in PairRegressions(parent, child)}
           = {v.rule : v \in SqlAntiJoin(IF parent[1] = child[1] THEN Violations(parent) ELSE {},
                                         Violations(child))}
  <1> DEFINE P == Violations(parent)
             C == Violations(child)
             excused(c) == \E p \in P : /\ parent[1] = child[1] /\ p.rule = c.rule
                                       /\ Distance(c.start, p.start) <= Tolerance
  <1>1. /\ Evaluated(child) = {Row(child[1], child, v) : v \in C}
        /\ Evaluated(parent) = {Row(parent[1], parent, v) : v \in P}
    BY DEF Evaluated
  <1> HIDE DEF P, C
  <1>2. \A v \in C : Row(child[1], child, v) \in PairRegressions(parent, child) <=> ~excused(v)
    <2> SUFFICES ASSUME NEW v \in C
                 PROVE  Row(child[1], child, v) \in PairRegressions(parent, child) <=> ~excused(v)
      OBVIOUS
    <2> DEFINE c == Row(child[1], child, v)
    <2>1. c \in Evaluated(child) /\ c.lineage = child[1] /\ c.rule = v.rule /\ c.start = v.start
      BY <1>1 DEF Row
    <2>2. \A w \in P : LET p == Row(parent[1], parent, w)
                      IN p.lineage = parent[1] /\ p.rule = w.rule /\ p.start = w.start
      BY DEF Row
    <2> HIDE DEF c
    <2>3. (\E p \in Evaluated(parent) : /\ p.lineage = c.lineage /\ p.rule = c.rule
                                        /\ Distance(c.start, p.start) <= Tolerance)
            <=> excused(v)
      <3>1. ASSUME NEW p \in Evaluated(parent), p.lineage = c.lineage, p.rule = c.rule,
                   Distance(c.start, p.start) <= Tolerance
            PROVE  excused(v)
        <4>1. PICK w \in P : p = Row(parent[1], parent, w)
          BY <1>1
        <4>2. p.lineage = parent[1] /\ p.rule = w.rule /\ p.start = w.start
          BY <2>2, <4>1
        <4> QED
          BY <2>1, <3>1, <4>2
      <3>2. ASSUME NEW w \in P, parent[1] = child[1], w.rule = v.rule,
                   Distance(v.start, w.start) <= Tolerance
            PROVE  \E p \in Evaluated(parent) : /\ p.lineage = c.lineage /\ p.rule = c.rule
                                                /\ Distance(c.start, p.start) <= Tolerance
        <4> DEFINE p == Row(parent[1], parent, w)
        <4>1. p \in Evaluated(parent) /\ p.lineage = parent[1] /\ p.rule = w.rule /\ p.start = w.start
          BY <1>1, <2>2
        <4> HIDE DEF p
        <4> QED
          BY <2>1, <3>2, <4>1
      <3> QED
        BY <3>1, <3>2
    <2> HIDE DEF excused
    <2>4. c \in PairRegressions(parent, child) <=> ~excused(v)
      BY <2>1, <2>3 DEF PairRegressions
    <2> QED
      BY <2>4 DEF c
  <1>3. \A v \in C :
          v \in SqlAntiJoin(IF parent[1] = child[1] THEN P ELSE {}, C) <=> ~excused(v)
    BY DEF SqlAntiJoin
  <1>4. /\ PairRegressions(parent, child) \subseteq {Row(child[1], child, v) : v \in C}
        /\ SqlAntiJoin(IF parent[1] = child[1] THEN P ELSE {}, C) \subseteq C
    BY <1>1 DEF PairRegressions, SqlAntiJoin
  <1>5. \A v \in C : Row(child[1], child, v).rule = v.rule
    BY DEF Row
  <1> HIDE DEF excused
  <1>6. {v.rule : v \in PairRegressions(parent, child)}
          = {v.rule : v \in SqlAntiJoin(IF parent[1] = child[1] THEN P ELSE {}, C)}
    <2> DEFINE pairs == PairRegressions(parent, child)
               joined == SqlAntiJoin(IF parent[1] = child[1] THEN P ELSE {}, C)
               row(v) == Row(child[1], child, v)
    <2>1. /\ \A v \in C : row(v) \in pairs <=> v \in joined
          /\ pairs \subseteq {row(v) : v \in C} /\ joined \subseteq C
          /\ \A v \in C : row(v).rule = v.rule
      BY <1>2, <1>3, <1>4, <1>5
    <2> HIDE DEF pairs, joined, row
    <2>2. {v.rule : v \in pairs} = {v.rule : v \in joined}
      BY <2>1
    <2> QED
      BY <2>2 DEF pairs, joined
  <1> QED
    BY <1>6 DEF P, C

\* What an asset introduced was found in it, and not in its master, by the anti-join too.
LEMMA UnscannedAgrees ==
  ASSUME SeedInv, NEW a \in Assets, ~\E r \in stored : r.asset \in {a, Master(a)}
  PROVE  {v.rule : v \in PairRegressions(Master(a), a)} = Introduced(a)
  <1> DEFINE measured == a[1] \notin Authored
             parent == Plan(tosses[a[1]], "master")
             child == Plan(tosses[a[1]], a[2])
             m == copies[Master(a)]
             n == copies[a]
             P == Judged[measured][parent][m]
             C == Judged[measured][child][n]
  <1>1. /\ a[1] \in Titles /\ Master(a) \in Assets /\ Master(a)[1] = a[1]
        /\ Master(a)[2] = "master"
    BY AssetType
  <1>2. parent \in SUBSET Bursts /\ child \in SUBSET Bursts /\ measured \in BOOLEAN
    BY <1>1, PlanType DEF SeedInv
  <1>3. m \in 0..MaxCopies /\ n \in 0..MaxCopies
    BY <1>1, CopiesType
  <1>4. Introduced(a) = Isolated[measured][parent][child][m][n]
    BY <1>1 DEF Introduced
  <1>5. Violations(a) = C /\ Violations(Master(a)) = P
    BY <1>1 DEF Violations
  <1> HIDE DEF measured, parent, child, m, n
  <1>6. {v.rule : v \in SqlAntiJoin(P, C)} = Isolated[measured][parent][child][m][n]
    BY <1>2, <1>3, JudgedIsolation
  <1> HIDE DEF P, C
  <1>7. {v.rule : v \in PairRegressions(Master(a), a)} = {v.rule : v \in SqlAntiJoin(P, C)}
    BY <1>1, <1>5, MeasuredPair
  <1> QED
    BY <1>4, <1>6, <1>7

\* Callers store nothing of the authored cohort.
LEMMA AgreesHolds == ASSUME SeedInv PROVE UnscannedPairsAgree
  <1> SUFFICES ASSUME NEW a \in PresentRenditions,
                      a[1] \in Authored \/ ~\E r \in stored : r.asset \in {a, Master(a)}
               PROVE  {v.rule : v \in PairRegressions(Master(a), a)} = Introduced(a)
    BY DEF UnscannedPairsAgree, PairAgrees
  <1>1. a \in Assets /\ Master(a)[1] = a[1]
    BY PresentType, AssetType
  <1>2. ~\E r \in stored : r.asset \in {a, Master(a)}
    BY <1>1 DEF SeedInv
  <1> QED
    BY <1>1, <1>2, UnscannedAgrees

\* The profiles are of what the sweep flags.
LEMMA RiskHolds == ASSUME SeedInv PROVE RiskAddsUp
  <1>1. AssetsOf(OfRules(Sweep, Rules)) = AssetsOf(Sweep)
    <2>1. \A f \in Sweep : f[2] \in Rules
      BY SweepType
    <2> QED
      BY <2>1 DEF OfRules
  <1>2. \A rules : {f[1] : f \in {g \in Sweep : g[2] \in rules}} = AssetsOf(OfRules(Sweep, rules))
    BY DEF AssetsOf, OfRules
  <1>3. /\ TransformRisk.total = Cardinality(AssetsOf(Sweep))
        /\ TransformRisk.implicated = {a[2] : a \in AssetsOf(Sweep)}
        /\ SeededOnce =>
             TransformRisk.redOnly = Cardinality(AssetsOf(OfRules(Sweep, {"red_flash"}))
                                                   \ AssetsOf(OfRules(Sweep, {"general_flash"})))
    BY RiskIsOfSweep DEF TransformRisk
  <1> QED
    BY <1>1, <1>2, <1>3 DEF RiskAddsUp

-----------------------------------------------------------------------------
(* The requests. *)

Truths == [expected : SUBSET Flags, decoys : SUBSET Assets]

\* What is underway or was answered last.  An evaluation has its ground truth first, a
\* sweep what it found.
Requests ==
  {Idle}
  \cup [kind : {"evaluation"}, step : {"sweep"}, moved : BOOLEAN, truth : Truths]
  \cup [kind : {"evaluation"}, step : {"done"}, moved : BOOLEAN, truth : Truths,
        found : SUBSET Flags, wrong : SUBSET Assets]
  \cup [kind : {"sweep"}, step : {"scale"}, moved : BOOLEAN, found : SUBSET Flags]
  \cup [kind : {"sweep"}, step : {"done"}, moved : BOOLEAN, found : SUBSET Flags,
        corpus : [assets : Nat, titles : Nat]]

\* What the first statement of a request read is still there for the second, and there is
\* no more to be found in the decoys it read of.
Underway(r, truth, there) ==
  /\ r \in Requests
  /\ r.step = "sweep" => /\ r.truth.expected \subseteq truth.expected
                         /\ r.truth.decoys \subseteq truth.decoys
                         /\ \A e \in truth.expected :
                              e[1] \in r.truth.decoys => e \in r.truth.expected
                         /\ ~r.moved => r.truth = truth
  /\ r.step = "scale" => r.found \subseteq there \X Rules

RequestInv ==
  /\ Underway(request, GroundTruth, PresentRenditions)
  /\ EvaluationMissesNothing /\ SweepIsOfItsCorpus

\* The renditions that are there stay, and what is to be found in them.
LEMMA PresentGrows ==
  ASSUME SeedInv, SeedInv', Grown
  PROVE  /\ PresentRenditions \subseteq PresentRenditions'
         /\ GroundTruth.expected \subseteq (GroundTruth.expected)'
         /\ GroundTruth.decoys \subseteq (GroundTruth.decoys)'
         /\ \A e \in (GroundTruth.expected)' :
              e[1] \in GroundTruth.decoys => e \in GroundTruth.expected
  <1>1. \A a \in Assets : copies[a] \in Nat /\ copies'[a] \in Nat /\ copies[a] <= copies'[a]
    BY DEF SeedInv, Grown
  <1>2. PresentRenditions \subseteq PresentRenditions'
    BY <1>1 DEF PresentRenditions, Present
  <1>3. tosses' = tosses
    BY DEF Grown
  <1>4. GroundTruth.expected = UNION {{a} \X Expected(tosses[a[1]], a[2]) : a \in PresentRenditions}
    BY DEF GroundTruth
  <1>5. (GroundTruth.expected)' = UNION {{a} \X Expected(tosses[a[1]], a[2]) : a \in PresentRenditions'}
    BY <1>3 DEF GroundTruth
  <1>6. /\ GroundTruth.decoys \subseteq PresentRenditions
        /\ GroundTruth.decoys \subseteq (GroundTruth.decoys)'
    BY <1>2, <1>3 DEF GroundTruth
  <1> QED
    BY <1>2, <1>4, <1>5, <1>6

\* The ground truth is of assets and rules.
LEMMA TruthType == ASSUME SeedInv PROVE GroundTruth \in Truths
  <1>1. PresentRenditions \subseteq Assets
    BY PresentType
  <1>2. \A toss, transform : Expected(toss, transform) \subseteq Rules
    BY DEF Expected
  <1>3. UNION {{a} \X Expected(tosses[a[1]], a[2]) : a \in PresentRenditions} \subseteq Flags
    BY <1>1, <1>2 DEF Flags
  <1>4. {a \in PresentRenditions : Decoy(tosses[a[1]], a[2])} \subseteq Assets
    BY <1>1
  <1> QED
    BY <1>3, <1>4 DEF GroundTruth, Truths

\* The kinds of request there are.
LEMMA RequestKinds ==
  ASSUME NEW r \in Requests
  PROVE  /\ r.step \in {"done", "sweep", "scale"}
         /\ r.step = "sweep" =>
              /\ r \in [kind : {"evaluation"}, step : {"sweep"}, moved : BOOLEAN, truth : Truths]
              /\ r.kind = "evaluation"
         /\ r.step = "scale" =>
              /\ r \in [kind : {"sweep"}, step : {"scale"}, moved : BOOLEAN, found : SUBSET Flags]
              /\ r.kind = "sweep"
  BY DEF Requests, Idle

\* A request while the tables move.
LEMMA KeptStep ==
  ASSUME SeedInv, SeedInv', Grown, RequestInv, NEW moved \in BOOLEAN, request' = Kept(moved),
         ~moved => GroundTruth' = GroundTruth
  PROVE  RequestInv'
  <1>1. request \in Requests
    BY DEF RequestInv, Underway
  <1>2. CASE request.step = "done"
    <2>1. request' = Idle
      BY <1>2 DEF Kept
    <2>2. Idle \in Requests /\ Idle.step = "done"
      BY DEF Requests, Idle
    <2>3. (EvaluationMissesNothing /\ SweepIsOfItsCorpus)'
      BY <2>1 DEF EvaluationMissesNothing, SweepIsOfItsCorpus, Idle
    <2> QED
      BY <2>1, <2>2, <2>3 DEF RequestInv, Underway
  <1>3. CASE request.step # "done"
    <2>1. request' = [request EXCEPT !.moved = request.moved \/ moved]
      BY <1>3 DEF Kept
    <2>2. /\ PresentRenditions \subseteq PresentRenditions'
          /\ GroundTruth.expected \subseteq (GroundTruth.expected)'
          /\ GroundTruth.decoys \subseteq (GroundTruth.decoys)'
          /\ \A e \in (GroundTruth.expected)' :
               e[1] \in GroundTruth.decoys => e \in GroundTruth.expected
      BY PresentGrows
    <2>3. CASE request.step = "sweep"
      <3>1. request \in [kind : {"evaluation"}, step : {"sweep"}, moved : BOOLEAN, truth : Truths]
        BY <1>1, <2>3, RequestKinds
      <3>2. /\ request' \in [kind : {"evaluation"}, step : {"sweep"}, moved : BOOLEAN, truth : Truths]
            /\ request'.truth = request.truth /\ request'.step = "sweep"
            /\ ~request'.moved => ~request.moved /\ ~moved
        BY <2>1, <3>1
      <3>3. /\ request.truth.expected \subseteq GroundTruth.expected
            /\ request.truth.decoys \subseteq GroundTruth.decoys
            /\ \A e \in GroundTruth.expected :
                 e[1] \in request.truth.decoys => e \in request.truth.expected
            /\ (~request.moved => request.truth = GroundTruth)
        BY <2>3 DEF RequestInv, Underway
      <3>4. /\ request'.truth.expected \subseteq (GroundTruth.expected)'
            /\ request'.truth.decoys \subseteq (GroundTruth.decoys)'
            /\ \A e \in (GroundTruth.expected)' :
                 e[1] \in request'.truth.decoys => e \in request'.truth.expected
        BY <2>2, <3>2, <3>3
      <3>5. ~request'.moved => request'.truth = GroundTruth'
        BY <3>2, <3>3
      <3>6. (EvaluationMissesNothing /\ SweepIsOfItsCorpus)'
        BY <3>2 DEF EvaluationMissesNothing, SweepIsOfItsCorpus
      <3>7. request' \in Requests
        BY <3>2 DEF Requests
      <3> QED
        BY <3>2, <3>4, <3>5, <3>6, <3>7 DEF RequestInv, Underway
    <2>4. CASE request.step = "scale"
      <3>1. request \in [kind : {"sweep"}, step : {"scale"}, moved : BOOLEAN, found : SUBSET Flags]
        BY <1>1, <2>4, RequestKinds
      <3>2. /\ request' \in [kind : {"sweep"}, step : {"scale"}, moved : BOOLEAN, found : SUBSET Flags]
            /\ request'.found = request.found /\ request'.step = "scale"
        BY <2>1, <3>1
      <3>3. request'.found \subseteq PresentRenditions' \X Rules
        BY <2>2, <2>4, <3>2 DEF RequestInv, Underway
      <3>4. (EvaluationMissesNothing /\ SweepIsOfItsCorpus)'
        BY <3>2 DEF EvaluationMissesNothing, SweepIsOfItsCorpus
      <3>5. request' \in Requests
        BY <3>2 DEF Requests
      <3> QED
        BY <3>2, <3>3, <3>4, <3>5 DEF RequestInv, Underway
    <2> QED
      BY <1>1, <1>3, <2>3, <2>4, RequestKinds
  <1> QED
    BY <1>2, <1>3

\* The first statement of a request, the second, and one that fails.
LEMMA ReadStep ==
  ASSUME SeedInv, RequestInv, Read PROVE RequestInv'
  <1>0. /\ UNCHANGED <<tosses, copies, next, runs, stored, scans>>
        /\ request \in Requests
    BY DEF Read, Evaluate, Score, AskSweep, AskScale, Fail, RequestInv, Underway
  <1>1. /\ GroundTruth' = GroundTruth /\ PresentRenditions' = PresentRenditions
        /\ SeededOnce' <=> SeededOnce
    BY <1>0 DEF GroundTruth, PresentRenditions, Present, SeededOnce
  <1>2. CASE Evaluate
    <2>1. request' = [kind |-> "evaluation", step |-> "sweep", moved |-> FALSE, truth |-> GroundTruth]
      BY <1>2 DEF Evaluate
    <2>2. request' \in Requests /\ request'.step = "sweep" /\ request'.truth = GroundTruth
      BY <2>1, TruthType DEF Requests
    <2>3. (EvaluationMissesNothing /\ SweepIsOfItsCorpus)'
      BY <2>2 DEF EvaluationMissesNothing, SweepIsOfItsCorpus
    <2> QED
      BY <1>1, <2>2, <2>3 DEF RequestInv, Underway
  <1>3. CASE AskSweep
    <2>1. request' = [kind |-> "sweep", step |-> "scale", moved |-> FALSE, found |-> Sweep]
      BY <1>3 DEF AskSweep
    <2>2. request' \in Requests /\ request'.step = "scale" /\ request'.found = Sweep
      BY <2>1, SweepType DEF Requests
    <2>3. (EvaluationMissesNothing /\ SweepIsOfItsCorpus)'
      BY <2>2 DEF EvaluationMissesNothing, SweepIsOfItsCorpus
    <2> QED
      BY <1>1, <2>2, <2>3, SweepType DEF RequestInv, Underway
  <1>4. CASE Score
    <2>1. request.kind = "evaluation" /\ request.step # "done"
      BY <1>4 DEF Score
    <2>2. request.step = "sweep"
      BY <1>0, <2>1, RequestKinds
    <2>3. request \in [kind : {"evaluation"}, step : {"sweep"}, moved : BOOLEAN, truth : Truths]
      BY <1>0, <2>2, RequestKinds
    <2>4. request' = [kind |-> "evaluation", step |-> "done", moved |-> request.moved,
                      truth |-> request.truth, found |-> Sweep,
                      wrong |-> WronglyFlagged(request.truth, Sweep)]
      BY <1>4, <2>2 DEF Score
    <2>5. /\ request' \in Requests /\ request'.step = "done" /\ request'.kind = "evaluation"
          /\ request'.truth = request.truth /\ request'.found = Sweep /\ request'.moved = request.moved
          /\ request'.wrong = WronglyFlagged(request.truth, Sweep)
      <3>1. WronglyFlagged(request.truth, Sweep) \in SUBSET Assets
        BY <2>3 DEF WronglyFlagged, Truths
      <3> QED
        BY <2>3, <2>4, <3>1, SweepType DEF Requests
    <2>6. /\ request.truth.expected \subseteq GroundTruth.expected
          /\ \A e \in GroundTruth.expected :
               e[1] \in request.truth.decoys => e \in request.truth.expected
          /\ ~request.moved => request.truth = GroundTruth
      BY <2>2 DEF RequestInv, Underway
    <2>7. SeededOnce => /\ request.truth.expected \ Sweep = {}
                        /\ ~request.moved => Sweep \ request.truth.expected = {}
      BY <2>6, SweepOnce
    <2>8. \A p \in Cohorts(request.truth, Sweep).authored.right : p[1][1] \in Authored
      <3> SUFFICES ASSUME NEW p \in Cohorts(request.truth, Sweep).authored.right
                   PROVE  p[1][1] \in Authored
        OBVIOUS
      <3> DEFINE measured == {a \in {e[1] : e \in request.truth.expected} \cup request.truth.decoys :
                                a[1] \notin Authored}
      <3>1. p \in request.truth.expected \ {q \in request.truth.expected : q[1] \in measured}
        BY DEF Cohorts, ScoreOf
      <3> QED
        BY <3>1
    <2>9. EvaluationMissesNothing'
      <3>1. ASSUME SeededOnce
            PROVE  /\ ScoreOf(request.truth.expected, Sweep).missed = {}
                   /\ ~request.moved => ScoreOf(request.truth.expected, Sweep).spurious = {}
        BY <2>7, <3>1 DEF ScoreOf
      <3>2. ASSUME SeededOnce
            PROVE  WronglyFlagged(request.truth, Sweep) = ExpectedDecoys(request.truth)
        BY <2>6, <3>2, SweepOnce DEF WronglyFlagged, ExpectedDecoys
      <3> QED
        BY <1>1, <2>5, <2>8, <3>1, <3>2 DEF EvaluationMissesNothing
    <2>10. SweepIsOfItsCorpus'
      BY <2>5 DEF SweepIsOfItsCorpus
    <2> QED
      BY <2>5, <2>9, <2>10 DEF RequestInv, Underway
  <1>5. CASE AskScale
    <2>1. request.kind = "sweep" /\ request.step # "done"
      BY <1>5 DEF AskScale
    <2>2. request.step = "scale"
      BY <1>0, <2>1, RequestKinds
    <2>3. request \in [kind : {"sweep"}, step : {"scale"}, moved : BOOLEAN, found : SUBSET Flags]
      BY <1>0, <2>2, RequestKinds
    <2>4. request' = [kind |-> "sweep", step |-> "done", moved |-> request.moved,
                      found |-> request.found, corpus |-> Scale]
      BY <1>5, <2>2 DEF AskScale
    <2> DEFINE flagged == {f[1] : f \in request.found}
    <2>5. flagged \in SUBSET PresentRenditions
      BY <2>2 DEF RequestInv, Underway
    <2>6. /\ Scale \in [assets : Nat, titles : Nat]
          /\ Cardinality({a[1] : a \in flagged}) <= Scale.titles
          /\ Cardinality(flagged) <= Scale.assets - Scale.titles
      <3> HIDE DEF flagged
      <3> QED
        BY <2>5, ScaleHolds
    <2>7. /\ request' \in Requests /\ request'.step = "done" /\ request'.kind = "sweep"
          /\ request'.found = request.found /\ request'.corpus = Scale
      BY <2>3, <2>4, <2>6 DEF Requests
    <2>8. SweepIsOfItsCorpus'
      BY <2>6, <2>7 DEF SweepIsOfItsCorpus
    <2>9. EvaluationMissesNothing'
      BY <2>7 DEF EvaluationMissesNothing
    <2> QED
      BY <2>7, <2>8, <2>9 DEF RequestInv, Underway
  <1>6. CASE Fail
    <2>1. request' = Idle
      BY <1>6 DEF Fail
    <2>2. Idle \in Requests /\ Idle.step = "done"
      BY DEF Requests, Idle
    <2>3. (EvaluationMissesNothing /\ SweepIsOfItsCorpus)'
      BY <2>1 DEF EvaluationMissesNothing, SweepIsOfItsCorpus, Idle
    <2> QED
      BY <2>1, <2>2, <2>3 DEF RequestInv, Underway
  <1> QED
    BY <1>2, <1>3, <1>4, <1>5, <1>6 DEF Read

\* A step of the catalogue or of an agent, as far as the requests go.
LEMMA RequestStep ==
  ASSUME SeedInv, RequestInv, [AgentsNext]_allVars PROVE RequestInv'
  <1>0. SeedInv' /\ Grown
    BY SeedStep
  <1>1. UNCHANGED <<tosses, copies>> => GroundTruth' = GroundTruth
    BY DEF GroundTruth, PresentRenditions, Present
  <1>2. CASE Insert
    BY <1>0, <1>2, KeptStep DEF Insert
  <1>3. CASE Die
    BY <1>0, <1>1, <1>3, KeptStep DEF Die
  <1>4. CASE RunAgain
    BY <1>0, <1>1, <1>4, KeptStep DEF RunAgain
  <1>5. ASSUME NEW scan \in Scanned, StoreScan(scan) PROVE RequestInv'
    BY <1>0, <1>1, <1>5, KeptStep DEF StoreScan
  <1>6. CASE Read
    BY <1>6, ReadStep
  <1>7. CASE request' = Idle
    <2>1. Idle \in Requests /\ Idle.step = "done"
      BY DEF Requests, Idle
    <2>2. (EvaluationMissesNothing /\ SweepIsOfItsCorpus)'
      BY <1>7 DEF EvaluationMissesNothing, SweepIsOfItsCorpus, Idle
    <2> QED
      BY <1>7, <2>1, <2>2 DEF RequestInv, Underway
  <1>8. CASE UNCHANGED allVars
    <2>1. UNCHANGED vars
      BY <1>8 DEF allVars
    <2> QED
      BY <2>1 DEF vars, RequestInv, Underway, GroundTruth, PresentRenditions, Present,
                  EvaluationMissesNothing, SweepIsOfItsCorpus, SeededOnce
  <1> QED
    BY <1>2, <1>3, <1>4, <1>5, <1>6, <1>7, <1>8 DEF AgentsNext, Next, Fill

\* The tables and the requests.
CatalogueInv == SeedInv /\ RequestInv

LEMMA CatalogueInvariant == AgentsSpec => []CatalogueInv
  <1>1. AgentsInit => CatalogueInv
    <2> SUFFICES ASSUME Init PROVE CatalogueInv
      BY DEF AgentsInit
    <2>1. request = Idle
      BY DEF Init
    <2>2. Idle \in Requests /\ Idle.step = "done"
      BY DEF Requests, Idle
    <2>3. EvaluationMissesNothing /\ SweepIsOfItsCorpus
      BY <2>1 DEF EvaluationMissesNothing, SweepIsOfItsCorpus, Idle
    <2> QED
      BY <2>1, <2>2, <2>3, SeedInit DEF CatalogueInv, RequestInv, Underway
  <1>2. CatalogueInv /\ [AgentsNext]_allVars => CatalogueInv'
    BY SeedStep, RequestStep DEF CatalogueInv
  <1> QED
    BY <1>1, <1>2, PTL DEF AgentsSpec

-----------------------------------------------------------------------------
(* The theorems of the catalogue. *)

\* The types; in particular an asset is in the table as often as the script has passed it,
\* however often the script died and was run again (seed_measured_corpus.py:179-196).
THEOREM CatalogueTypes == AgentsSpec => []TypeOK
  <1>1. CatalogueInv => TypeOK
    <2> SUFFICES ASSUME SeedInv, RequestInv PROVE TypeOK
      BY DEF CatalogueInv
    <2>1. copies \in [Assets -> 0..MaxCopies]
      BY CopiesType DEF SeedInv
    <2>2. request.step \in {"done", "truth", "sweep", "scale"}
      BY RequestKinds DEF RequestInv, Underway
    <2> QED
      BY <2>1, <2>2 DEF TypeOK, SeedInv, Places
  <1> QED
    BY <1>1, CatalogueInvariant, PTL

\* At every moment of the seeding the sweep finds what was planted, and of the decoys only
\* those in which the other rule's burst was planted as well (sql/008:33-46): for any
\* titles, tosses and order of the steps.
THEOREM SweepExact == AgentsSpec => []SweepIsExact
  <1>1. CatalogueInv => SweepIsExact
    <2> SUFFICES ASSUME SeedInv, SeededOnce
                 PROVE  /\ Sweep = GroundTruth.expected
                        /\ WronglyFlagged(GroundTruth, Sweep) = ExpectedDecoys(GroundTruth)
      BY DEF CatalogueInv, SweepIsExact
    <2>1. Sweep = GroundTruth.expected
      BY SweepOnce
    <2> QED
      BY <2>1 DEF WronglyFlagged, ExpectedDecoys
  <1> QED
    BY <1>1, CatalogueInvariant, PTL

\* An evaluation misses nothing that was planted, whatever is inserted between its two
\* statements (catalogue.py:250), and counts no decoy as wrongly flagged for what was
\* inserted in between (catalogue.py:304).
THEOREM EvaluationComplete == AgentsSpec => []EvaluationMissesNothing
  <1>1. CatalogueInv => EvaluationMissesNothing
    BY DEF CatalogueInv, RequestInv
  <1> QED
    BY <1>1, CatalogueInvariant, PTL

\* What a sweep reports is of the corpus that it says it searched (catalogue.py:62-68).
THEOREM SweepOfCorpus == AgentsSpec => []SweepIsOfItsCorpus
  <1>1. CatalogueInv => SweepIsOfItsCorpus
    BY DEF CatalogueInv, RequestInv
  <1> QED
    BY <1>1, CatalogueInvariant, PTL

\* The risk profile accounts for every flagged rendition once (clickhouse_mcp.py:580-587),
\* and for those that only the red rule finds one by one (catalogue.py:164-167).
THEOREM RiskComplete == AgentsSpec => []RiskAddsUp
  <1>1. CatalogueInv => RiskAddsUp
    BY RiskHolds DEF CatalogueInv
  <1> QED
    BY <1>1, CatalogueInvariant, PTL

\* The sweep and the anti-join of one pair agree on a pair that nobody scanned, and on one
\* of the authored cohort (clickhouse_mcp.py:251-253).
THEOREM PairsAgree == AgentsSpec => []UnscannedPairsAgree
  <1>1. CatalogueInv => UnscannedPairsAgree
    BY AgreesHolds DEF CatalogueInv
  <1> QED
    BY <1>1, CatalogueInvariant, PTL

\* While the table is seeded once, what the sweep found it goes on finding, whatever is
\* inserted, scanned or asked (sql/006 reads the table anew each time).
THEOREM SweepStays == AgentsSpec => [][SeededOnce' => Sweep \subseteq Sweep']_allVars
  <1>1. CatalogueInv /\ [AgentsNext]_allVars => (SeededOnce' => Sweep \subseteq Sweep')
    BY SeedStep, SweepGrows DEF CatalogueInv
  <1> QED
    BY <1>1, CatalogueInvariant, PTL DEF AgentsSpec

-----------------------------------------------------------------------------
(* The charts. *)

\* A bounded set of numbers has a greatest one.
LEMMA GreatestNumber ==
  ASSUME NEW b \in Nat, NEW S \in SUBSET (0..b), S # {}
  PROVE  Max(S) \in S /\ \A x \in S : x <= Max(S)
  <1> DEFINE R == {b - x : x \in S}
  <1>1. R \in SUBSET Nat /\ R # {}
    <2>1. \A x \in S : b - x \in Nat
      OBVIOUS
    <2>2. PICK x \in S : TRUE
      OBVIOUS
    <2>3. b - x \in R
      OBVIOUS
    <2>4. \A y \in R : y \in Nat
      BY <2>1
    <2> HIDE DEF R
    <2> QED
      BY <2>3, <2>4
  <1> HIDE DEF R
  <1>2. PICK r \in R : \A y \in R : r <= y
    BY <1>1, LeastNumber
  <1>3. PICK x \in S : r = b - x
    BY DEF R
  <1>4. \A y \in S : y <= x
    <2> TAKE y \in S
    <2>1. b - y \in R
      BY DEF R
    <2> QED
      BY <1>2, <1>3, <2>1
  <1> QED
    BY <1>3, <1>4 DEF Max

\* The assets that violated a rule at some time of the seeding.
Flashed ==
  {a \in Assets : \E m \in 0..copies[a] :
     Judged[a[1] \notin Authored][Plan(tosses[a[1]], a[2])][m] # {}}

\* What the sweep flags violates a rule.
LEMMA FlaggedFlashed == ASSUME SeedInv, NEW f \in Sweep PROVE f[1] \in Flashed
  <1>1. f[1] \in PresentRenditions /\ f[2] \in Introduced(f[1])
    BY DEF Sweep
  <1>2. f[1] \in Assets /\ copies[f[1]] \in Nat
    BY <1>1, PresentType DEF SeedInv
  <1>3. Violations(f[1]) # {}
    BY <1>1, <1>2, IntroducedType
  <1>4. copies[f[1]] \in 0..copies[f[1]]
    BY <1>2
  <1> QED
    BY <1>2, <1>3, <1>4 DEF Violations, Flashed

\* An asset that violated a rule does not cease to be one.
LEMMA FlashedGrows == ASSUME SeedInv, SeedInv', Grown PROVE Flashed \subseteq Flashed'
  <1>1. \A a \in Assets : copies[a] \in Nat /\ copies'[a] \in Nat /\ copies[a] <= copies'[a]
    BY DEF SeedInv, Grown
  <1> QED
    BY <1>1 DEF Flashed, Grown

\* The chart of an asset that violated a rule crosses the limit, however often its rows
\* have been inserted since.
LEMMA PeakCrosses ==
  ASSUME SeedInv, NEW a \in Flashed
  PROVE  Max({Peak(a, rule) : rule \in Rules}) > MaxTransitions
  <1> DEFINE measured == a[1] \notin Authored
             bursts == Plan(tosses[a[1]], a[2])
             n == copies[a]
             rows == Held(measured, bursts, n)
             chart(rule, second) == Charted[measured][bursts][n][rule][second]
             Seen == 0..(Seconds + 1)
             peaks(rule) == {chart(rule, second) : second \in Seen}
             all == {Peak(a, rule) : rule \in Rules}
             bound == Len(rows)
  <1>1. a \in Assets /\ a[1] \in Titles /\ n \in 0..MaxCopies /\ MaxCopies \in Nat
    BY AssetType, CopiesType, CorpusAssumption DEF Flashed
  <1>2. bursts \in SUBSET Bursts /\ measured \in BOOLEAN /\ BurstSets = SUBSET Bursts
    BY <1>1, PlanType DEF SeedInv, BurstSets
  <1>3. PICK m \in 0..n : Judged[measured][bursts][m] # {}
    BY DEF Flashed
  <1> HIDE DEF measured, bursts, n
  <1>4. PICK rule \in Rules, second \in Seen : chart(rule, second) > MaxTransitions
    BY <1>1, <1>2, <1>3, Planting
  <1>5. IsClip(rows)
    BY <1>1, <1>2, JudgedIs
  <1>6. bound \in Nat
    BY <1>5 DEF IsClip
  <1>7. ASSUME NEW r \in Rules, NEW s \in Seen PROVE chart(r, s) \in 0..bound
    <2>1. chart(r, s) = SqlTimeline(rows, r, s)
      BY <1>1, <1>2 DEF Charted, Held
    <2> HIDE DEF rows
    <2> DEFINE counted == {i \in DOMAIN rows :
                             /\ rows[i].pts \div Span = s
                             /\ CASE r = "general_flash" -> rows[i].luma >= LumaFloor
                                  [] r = "red_flash" -> rows[i].red >= RedFloor
                             /\ rows[i].area >= AreaFloor /\ rows[i].direction # "flat"}
    <2>2. SqlTimeline(rows, r, s) = Cardinality(counted) /\ counted \in SUBSET (1..bound)
      BY <1>5 DEF SqlTimeline, IsClip
    <2> HIDE DEF counted
    <2>3. IsFiniteSet(1..bound) /\ Cardinality(1..bound) = bound
      <3> HIDE DEF bound
      <3>1. 1 \in Int /\ bound \in Int
        BY <1>6
      <3>2. /\ IsFiniteSet(1..bound)
            /\ Cardinality(1..bound) = IF 1 > bound THEN 0 ELSE bound - 1 + 1
        BY <3>1, FS_Interval
      <3> QED
        BY <1>6, <3>2
    <2>4. /\ IsFiniteSet(counted) /\ Cardinality(counted) \in Nat
          /\ Cardinality(counted) <= Cardinality(1..bound)
      BY <2>2, <2>3, FS_Subset, FS_CardinalityType
    <2> QED
      BY <1>6, <2>1, <2>2, <2>3, <2>4
  <1>8. ASSUME NEW r \in Rules
        PROVE  /\ peaks(r) \in SUBSET (0..bound) /\ peaks(r) # {}
               /\ Peak(a, r) = Max(peaks(r))
    <2>1. Peak(a, r) = Max(peaks(r))
      BY DEF Peak, measured, bursts, n
    <2>2. 0 \in Seen
      BY CorpusAssumption
    <2> HIDE DEF chart, Seen
    <2> QED
      BY <1>7, <2>1, <2>2
  <1> HIDE DEF chart, Seen, bound, peaks
  <1>9. \A r \in Rules : Peak(a, r) \in 0..bound /\ \A x \in peaks(r) : x <= Peak(a, r)
    <2> TAKE r \in Rules
    <2>1. Max(peaks(r)) \in peaks(r) /\ \A x \in peaks(r) : x <= Max(peaks(r))
      BY <1>6, <1>8, GreatestNumber
    <2> QED
      BY <1>8, <2>1
  <1>10. all \in SUBSET (0..bound) /\ Peak(a, rule) \in all
    BY <1>4, <1>9
  <1>11. Peak(a, rule) <= Max(all)
    <2> HIDE DEF all
    <2> QED
      BY <1>6, <1>10, GreatestNumber
  <1>12. chart(rule, second) <= Peak(a, rule) /\ chart(rule, second) \in 0..bound
    BY <1>4, <1>7, <1>9 DEF peaks
  <1>13. Max(all) \in 0..bound
    <2> HIDE DEF all
    <2> QED
      BY <1>6, <1>10, GreatestNumber
  <1> HIDE DEF all
  <1>14. Max(all) > MaxTransitions
    BY <1>4, <1>6, <1>9, <1>11, <1>12, <1>13, CriteriaAssumption
  <1> QED
    BY <1>14 DEF all

-----------------------------------------------------------------------------
(* The triage. *)

\* What an agent was told by one of its tools.
Heard(a, tool) == {t \in a.told : t.call.tool = tool}

\* A run of the triage: its calls underway, and what it was told by those that ended.
IsTriage(a) ==
  /\ DOMAIN a = {"kind", "phase", "calls", "underway", "regressions", "risk", "told", "base",
                 "crossed"}
  /\ a.calls \in Nat /\ a.crossed \in BOOLEAN
  /\ \A i \in a.underway : /\ i.call \in Calls /\ i = [call |-> i.call, found |-> i.found]
                           /\ i.found # <<>> => i.call = Survey
  /\ \A t \in a.told : t.nth \in Nat /\ t.nth <= a.calls

\* The renditions it knows of, or inspects, violated a rule, and the peaks it was told show it.
Inspected(a, flashed) ==
  /\ \A f \in a.regressions : f[1] \in flashed
  /\ \A i \in a.underway : /\ i.found # <<>> => \A f \in i.found[1] : f[1] \in flashed
                           /\ i.call.tool = "inspect_pair_timeline" => i.call.child \in flashed
  /\ \A t \in Heard(a, "inspect_pair_timeline") : t.figure.child > MaxTransitions

\* Unless the profiles and the blind spot were asked for at once: the profiles it was told
\* are those it has seen, the blind spot is asked of the catalogue only while it has seen
\* none, and one counted after the profiles is theirs.
Accounted(a) ==
  ~a.crossed =>
    /\ \A p \in Heard(a, "profile_transform_risk") : a.risk # <<>> /\ p.figure = RiskOf(a.risk[1])
    /\ \A i \in a.underway :
         i.call = BlindSpot => a.risk = <<>> /\ \A j \in a.underway : j.call # Profile
    /\ \A p \in Heard(a, "profile_transform_risk") : \A b \in Heard(a, "count_luminance_blind_spot") :
         b.nth > p.nth => b.figure = [redOnly |-> p.figure.redOnly, total |-> p.figure.total]

\* While the table is seeded once: every survey lies between the sweep at the beginning of
\* the run and the one now, and the profiles count it if they were made after it.
Reported(a, sweep) ==
  /\ a.base \subseteq sweep
  /\ \A i \in a.underway : i.found # <<>> => a.base \subseteq i.found[1] /\ i.found[1] \subseteq sweep
  /\ \A s \in Heard(a, "survey_regressions") : a.base \subseteq s.figure /\ s.figure \subseteq sweep
  /\ \A p \in Heard(a, "profile_transform_risk") :
       /\ Cardinality(AssetsOf(a.base)) <= p.figure.total
       /\ \A s \in Heard(a, "survey_regressions") :
            s.nth < p.nth => Cardinality(AssetsOf(s.figure)) <= p.figure.total

TriageInv(a, flashed, sweep) ==
  /\ IsTriage(a) /\ Inspected(a, flashed) /\ Accounted(a)
  /\ SeededOnce => Reported(a, sweep)

\* The calls, by their tools.
LEMMA CallKinds ==
  ASSUME NEW c \in Calls
  PROVE  /\ c.tool = "survey_regressions" <=> c = Survey
         /\ c.tool = "profile_transform_risk" <=> c = Profile
         /\ c.tool = "count_luminance_blind_spot" <=> c = BlindSpot
         /\ \/ c = Survey \/ c = Profile \/ c = BlindSpot
            \/ c.tool = "inspect_pair_timeline"
         /\ Survey # Profile /\ Survey # BlindSpot /\ Profile # BlindSpot
         /\ Survey.tool = "survey_regressions" /\ Profile.tool = "profile_transform_risk"
         /\ BlindSpot.tool = "count_luminance_blind_spot"
  BY DEF Calls, Survey, Profile, BlindSpot, Inspect, Call

\* Fewer findings are of fewer assets.
LEMMA FewerAssets ==
  ASSUME NEW fewer, NEW findings, fewer \subseteq findings, IsFiniteSet(findings)
  PROVE  Cardinality(AssetsOf(fewer)) <= Cardinality(AssetsOf(findings))
  <1>1. AssetsOf(fewer) \in SUBSET AssetsOf(findings)
    BY DEF AssetsOf
  <1>2. IsFiniteSet(AssetsOf(findings))
    BY AssetsOfFinite
  <1> QED
    BY <1>1, <1>2, FS_Subset

\* A turn of the model.
LEMMA TurnStep ==
  ASSUME SeedInv, TriageInv(agent, Flashed, Sweep), NEW calls \in SUBSET Calls, Turn(calls)
  PROVE  TriageInv(agent', Flashed, Sweep)
  <1> DEFINE nth == agent.calls + Cardinality(calls)
             quick == {c \in calls : AtOnce(c)}
             answers == UNION {Answered(c, nth) : c \in quick}
             items == {[call |-> c, found |-> <<>>] : c \in calls \ quick}
             crossed == agent.crossed \/ {Profile, BlindSpot} \subseteq calls
  <1>1. IsTriage(agent) /\ Inspected(agent, Flashed) /\ Accounted(agent)
        /\ (SeededOnce => Reported(agent, Sweep))
    BY DEF TriageInv
  <1>2. agent' = [agent EXCEPT !.calls = nth, !.crossed = crossed, !.underway = items,
                               !.told = Tell(agent.told, answers)]
    BY DEF Turn
  <1>3. Cardinality(calls) \in Nat /\ Cardinality(calls) >= 1 /\ nth \in Nat /\ nth > agent.calls
    <2>1. Cardinality(calls) \in 1..MaxAtOnce /\ MaxAtOnce \in Nat
      BY AgentsAssumption DEF Turn
    <2>2. agent.calls \in Nat
      BY <1>1 DEF IsTriage
    <2> QED
      BY <2>1, <2>2
  <1>4. \A t \in answers : /\ t.call = BlindSpot /\ t.nth = nth /\ agent.risk # <<>>
                           /\ t.figure = BlindSpotOf(agent.risk[1])
    <2> SUFFICES ASSUME NEW c \in quick, NEW t \in Answered(c, nth)
                 PROVE  /\ t.call = BlindSpot /\ t.nth = nth /\ agent.risk # <<>>
                        /\ t.figure = BlindSpotOf(agent.risk[1])
      OBVIOUS
    <2>1. c = BlindSpot /\ t = Told(BlindSpot, nth, BlindSpotOf(agent.risk[1]))
      BY DEF Answered
    <2>2. agent.risk # <<>>
      BY <2>1 DEF AtOnce, Known, BlindSpot, Call
    <2> QED
      BY <2>1, <2>2 DEF Told
  <1>5. \A i \in items : i.call \in calls /\ ~AtOnce(i.call) /\ i.found = <<>>
                         /\ i = [call |-> i.call, found |-> i.found]
    OBVIOUS
  <1>6. crossed \in BOOLEAN
    BY <1>1 DEF IsTriage
  <1> HIDE DEF nth, quick, answers, items
  <1>7. /\ agent'.calls = nth /\ agent'.crossed = crossed /\ agent'.underway = items
        /\ agent'.told = Tell(agent.told, answers) /\ agent'.regressions = agent.regressions
        /\ agent'.risk = agent.risk /\ agent'.base = agent.base
        /\ DOMAIN agent' = DOMAIN agent
    <2> HIDE DEF crossed
    <2>1. {"calls", "underway", "regressions", "risk", "told", "base", "crossed"} \subseteq DOMAIN agent
      BY <1>1 DEF IsTriage
    <2> QED
      BY <1>2, <2>1
  <1>8. \A t \in agent'.told : t \in agent.told \/ t \in answers
    BY <1>7 DEF Tell
  <1>9. IsTriage(agent')
    <2>1. \A i \in items : i.call \in Calls
      BY <1>5
    <2>2. \A t \in agent'.told : t.nth \in Nat /\ t.nth <= nth
      <3> TAKE t \in agent'.told
      <3>1. CASE t \in agent.told
        <4>1. t.nth \in Nat /\ t.nth <= agent.calls /\ agent.calls \in Nat
          BY <1>1, <3>1 DEF IsTriage
        <4> QED
          BY <1>3, <4>1
      <3>2. CASE t \in answers
        BY <1>3, <1>4, <3>2
      <3> QED
        BY <1>8, <3>1, <3>2
    <2>3. DOMAIN agent = {"kind", "phase", "calls", "underway", "regressions", "risk", "told",
                          "base", "crossed"}
      BY <1>1 DEF IsTriage
    <2> HIDE DEF crossed
    <2> QED
      BY <1>3, <1>5, <1>6, <1>7, <2>1, <2>2, <2>3 DEF IsTriage
  <1>10. \A tool : tool # "count_luminance_blind_spot" => Heard(agent', tool) \subseteq agent.told
                                                         /\ Heard(agent', tool) \subseteq Heard(agent, tool)
    BY <1>4, <1>8 DEF Heard, BlindSpot, Call
  <1>11. Inspected(agent', Flashed)
    <2>1. ASSUME NEW i \in items, i.call.tool = "inspect_pair_timeline" PROVE i.call.child \in Flashed
      <3>1. Bound(i.call.child, agent.regressions)
        BY <1>5, <2>1 DEF AtOnce
      <3> QED
        BY <1>1, <3>1 DEF Bound, Inspected
    <2>2. \A t \in Heard(agent', "inspect_pair_timeline") : t.figure.child > MaxTransitions
      BY <1>1, <1>10 DEF Inspected
    <2> QED
      BY <1>1, <1>5, <1>7, <2>1, <2>2 DEF Inspected
  <1>12. Accounted(agent')
    <2> SUFFICES ASSUME ~agent'.crossed
                 PROVE  /\ \A p \in Heard(agent', "profile_transform_risk") :
                             agent'.risk # <<>> /\ p.figure = RiskOf(agent'.risk[1])
                        /\ \A i \in agent'.underway :
                             i.call = BlindSpot => /\ agent'.risk = <<>>
                                                   /\ \A j \in agent'.underway : j.call # Profile
                        /\ \A p \in Heard(agent', "profile_transform_risk") :
                             \A b \in Heard(agent', "count_luminance_blind_spot") :
                               b.nth > p.nth =>
                                 b.figure = [redOnly |-> p.figure.redOnly, total |-> p.figure.total]
      BY DEF Accounted
    <2>1. ~agent.crossed /\ ~({Profile, BlindSpot} \subseteq calls)
      BY <1>7
    <2>2. \A p \in Heard(agent', "profile_transform_risk") :
            /\ p \in Heard(agent, "profile_transform_risk")
            /\ agent'.risk # <<>> /\ p.figure = RiskOf(agent'.risk[1])
      BY <1>1, <1>7, <1>10, <2>1 DEF Accounted
    <2>3. ASSUME NEW i \in agent'.underway, i.call = BlindSpot
          PROVE  agent'.risk = <<>> /\ \A j \in agent'.underway : j.call # Profile
      BY <1>5, <1>7, <2>1, <2>3 DEF AtOnce, Known
    <2>4. ASSUME NEW p \in Heard(agent', "profile_transform_risk"),
                 NEW b \in Heard(agent', "count_luminance_blind_spot"), b.nth > p.nth
          PROVE  b.figure = [redOnly |-> p.figure.redOnly, total |-> p.figure.total]
      <3>1. CASE b \in agent.told
        <4>1. b \in Heard(agent, "count_luminance_blind_spot")
          BY <3>1 DEF Heard
        <4> QED
          BY <1>1, <2>1, <2>2, <2>4, <4>1 DEF Accounted
      <3>2. CASE b \in answers
        BY <1>4, <1>7, <2>2, <3>2 DEF BlindSpotOf
      <3> QED
        BY <1>8, <3>1, <3>2 DEF Heard
    <2> QED
      BY <2>2, <2>3, <2>4
  <1>13. SeededOnce => Reported(agent', Sweep)
    BY <1>1, <1>5, <1>7, <1>10 DEF Reported
  <1> QED
    BY <1>9, <1>11, <1>12, <1>13 DEF TriageInv

\* A tool ends.
LEMMA ReturnStep ==
  ASSUME SeedInv, TriageInv(agent, Flashed, Sweep), NEW item \in agent.underway,
         NEW figure, NEW regressions, NEW risk, Return(item, figure, regressions, risk),
         \A f \in regressions : f[1] \in Flashed,
         item.call.tool = "inspect_pair_timeline" => figure.child > MaxTransitions,
         risk # agent.risk => item.call \in {Profile, BlindSpot},
         item.call = Profile =>
           /\ risk # <<>> /\ figure = RiskOf(risk[1])
           /\ SeededOnce => figure.total = Cardinality(AssetsOf(Sweep)),
         item.call = Survey /\ SeededOnce => agent.base \subseteq figure /\ figure \subseteq Sweep
  PROVE  TriageInv(agent', Flashed, Sweep)
  <1> DEFINE answer == Told(item.call, agent.calls, figure)
  <1>1. IsTriage(agent) /\ Inspected(agent, Flashed) /\ Accounted(agent)
        /\ (SeededOnce => Reported(agent, Sweep))
    BY DEF TriageInv
  <1>2. agent' = [agent EXCEPT !.underway = agent.underway \ {item},
                               !.told = Tell(agent.told, {answer}),
                               !.regressions = regressions, !.risk = risk]
    BY DEF Return
  <1>3. answer.call = item.call /\ answer.nth = agent.calls /\ answer.figure = figure
    BY DEF Told
  <1>4. /\ agent.calls \in Nat /\ item.call \in Calls
        /\ item.call # Survey => item.found = <<>>
    BY <1>1 DEF IsTriage
  <1> HIDE DEF answer
  <1>5. /\ agent'.calls = agent.calls /\ agent'.crossed = agent.crossed
        /\ agent'.underway = agent.underway \ {item}
        /\ agent'.told = Tell(agent.told, {answer}) /\ agent'.regressions = regressions
        /\ agent'.risk = risk /\ agent'.base = agent.base
        /\ DOMAIN agent' = DOMAIN agent
    <2>1. {"calls", "underway", "regressions", "risk", "told", "base", "crossed"} \subseteq DOMAIN agent
      BY <1>1 DEF IsTriage
    <2> QED
      BY <1>2, <2>1
  <1>6. \A tool : \A t \in Heard(agent', tool) :
          t \in Heard(agent, tool) \/ (t = answer /\ item.call.tool = tool)
    BY <1>3, <1>5 DEF Heard, Tell
  <1>7. IsTriage(agent')
    <2>1. \A t \in agent'.told : t.nth \in Nat /\ t.nth <= agent'.calls
      <3>1. \A t \in agent'.told : t \in agent.told \/ t = answer
        BY <1>5 DEF Tell
      <3>2. \A t \in agent.told : t.nth \in Nat /\ t.nth <= agent.calls
        BY <1>1 DEF IsTriage
      <3>3. answer.nth \in Nat /\ answer.nth <= agent.calls
        BY <1>3, <1>4
      <3> QED
        BY <1>5, <3>1, <3>2, <3>3
    <2> QED
      BY <1>1, <1>5, <2>1 DEF IsTriage
  <1>8. Inspected(agent', Flashed)
    <2>1. \A t \in Heard(agent', "inspect_pair_timeline") : t.figure.child > MaxTransitions
      BY <1>1, <1>3, <1>6 DEF Inspected
    <2> QED
      BY <1>1, <1>5, <2>1 DEF Inspected
  <1>9. Accounted(agent')
    <2> SUFFICES ASSUME ~agent.crossed
                 PROVE  /\ \A p \in Heard(agent', "profile_transform_risk") :
                             risk # <<>> /\ p.figure = RiskOf(risk[1])
                        /\ \A i \in agent'.underway :
                             i.call = BlindSpot => /\ risk = <<>>
                                                   /\ \A j \in agent'.underway : j.call # Profile
                        /\ \A p \in Heard(agent', "profile_transform_risk") :
                             \A b \in Heard(agent', "count_luminance_blind_spot") :
                               b.nth > p.nth =>
                                 b.figure = [redOnly |-> p.figure.redOnly, total |-> p.figure.total]
      BY <1>5 DEF Accounted
    <2>1. item.call = BlindSpot => /\ agent.risk = <<>>
                                   /\ Heard(agent, "profile_transform_risk") = {}
                                   /\ \A j \in agent.underway : j.call # Profile
      BY <1>1 DEF Accounted
    <2>2. ASSUME NEW p \in Heard(agent', "profile_transform_risk")
          PROVE  risk # <<>> /\ p.figure = RiskOf(risk[1])
      <3>1. CASE p = answer /\ item.call.tool = "profile_transform_risk"
        BY <1>3, <1>4, <3>1, CallKinds
      <3>2. CASE p \in Heard(agent, "profile_transform_risk") /\ item.call = Profile
        BY <1>5, <3>2, <2>2, <1>3, <1>4, CallKinds DEF Heard, Tell
      <3>3. CASE p \in Heard(agent, "profile_transform_risk") /\ item.call # Profile
        <4>1. risk = agent.risk
          BY <2>1, <3>3
        <4> QED
          BY <1>1, <3>3, <4>1 DEF Accounted
      <3> QED
        BY <1>6, <3>1, <3>2, <3>3
    <2>3. ASSUME NEW i \in agent'.underway, i.call = BlindSpot
          PROVE  risk = <<>> /\ \A j \in agent'.underway : j.call # Profile
      <3>1. i \in agent.underway /\ i # item
        BY <1>5
      <3>2. agent.risk = <<>> /\ \A j \in agent.underway : j.call # Profile
        BY <1>1, <2>3, <3>1 DEF Accounted
      <3>3. item.call # BlindSpot
        <4> SUFFICES ASSUME item.call = BlindSpot PROVE FALSE
          OBVIOUS
        <4>1. BlindSpot # Survey
          BY <1>4, CallKinds
        <4>2. /\ i = [call |-> i.call, found |-> i.found] /\ i.found = <<>>
              /\ item = [call |-> item.call, found |-> item.found] /\ item.found = <<>>
          BY <1>1, <2>3, <3>1, <4>1 DEF IsTriage
        <4>3. item.call = i.call
          BY <2>3
        <4> QED
          BY <3>1, <4>2, <4>3
      <3> QED
        BY <1>5, <3>2, <3>3
    <2>4. ASSUME NEW p \in Heard(agent', "profile_transform_risk"),
                 NEW b \in Heard(agent', "count_luminance_blind_spot"), b.nth > p.nth
          PROVE  b.figure = [redOnly |-> p.figure.redOnly, total |-> p.figure.total]
      <3>1. CASE p \in Heard(agent, "profile_transform_risk")
        <4>1. item.call.tool # "count_luminance_blind_spot"
          BY <1>4, <2>1, <3>1, CallKinds
        <4>2. b \in Heard(agent, "count_luminance_blind_spot")
          BY <1>6, <4>1
        <4> QED
          BY <1>1, <2>4, <3>1, <4>2 DEF Accounted
      <3>2. CASE p = answer /\ item.call.tool = "profile_transform_risk"
        <4>1. b \in Heard(agent, "count_luminance_blind_spot")
          BY <1>6, <3>2
        <4>2. b.nth \in Nat /\ b.nth <= agent.calls
          BY <1>1, <4>1 DEF IsTriage, Heard
        <4> QED
          BY <1>3, <1>4, <2>4, <3>2, <4>2
      <3> QED
        BY <1>6, <3>1, <3>2
    <2> QED
      BY <2>2, <2>3, <2>4
  <1>10. ASSUME SeededOnce PROVE Reported(agent', Sweep)
    <2>1. Reported(agent, Sweep) /\ IsFiniteSet(Sweep)
      BY <1>1, <1>10, SweepType
    <2>2. ASSUME NEW s \in Heard(agent', "survey_regressions")
          PROVE  agent.base \subseteq s.figure /\ s.figure \subseteq Sweep
      <3>1. CASE s \in Heard(agent, "survey_regressions")
        BY <2>1, <3>1 DEF Reported
      <3>2. CASE s = answer /\ item.call.tool = "survey_regressions"
        BY <1>3, <1>4, <1>10, <3>2, CallKinds
      <3> QED
        BY <1>6, <3>1, <3>2
    <2>3. ASSUME NEW p \in Heard(agent', "profile_transform_risk")
          PROVE  /\ Cardinality(AssetsOf(agent.base)) <= p.figure.total
                 /\ \A s \in Heard(agent', "survey_regressions") :
                      s.nth < p.nth => Cardinality(AssetsOf(s.figure)) <= p.figure.total
      <3>1. CASE p \in Heard(agent, "profile_transform_risk")
        <4>1. p.nth \in Nat /\ p.nth <= agent.calls
          BY <1>1, <3>1 DEF IsTriage, Heard
        <4>2. ASSUME NEW s \in Heard(agent', "survey_regressions"), s.nth < p.nth
              PROVE  Cardinality(AssetsOf(s.figure)) <= p.figure.total
          <5>1. s # answer
            BY <1>3, <1>4, <4>1, <4>2
          <5> QED
            BY <1>6, <2>1, <3>1, <4>2, <5>1 DEF Reported
        <4> QED
          BY <2>1, <3>1, <4>2 DEF Reported
      <3>2. CASE p = answer /\ item.call.tool = "profile_transform_risk"
        <4>1. p.figure.total = Cardinality(AssetsOf(Sweep))
          BY <1>3, <1>4, <1>10, <3>2, CallKinds
        <4>2. \A s \in Heard(agent', "survey_regressions") :
                Cardinality(AssetsOf(s.figure)) <= Cardinality(AssetsOf(Sweep))
          BY <2>1, <2>2, FewerAssets
        <4>3. Cardinality(AssetsOf(agent.base)) <= Cardinality(AssetsOf(Sweep))
          BY <2>1, FewerAssets DEF Reported
        <4> QED
          BY <4>1, <4>2, <4>3
      <3> QED
        BY <1>6, <3>1, <3>2
    <2> QED
      BY <1>5, <2>1, <2>2, <2>3 DEF Reported
  <1> QED
    BY <1>7, <1>8, <1>9, <1>10 DEF TriageInv

\* The triage begins.
LEMMA TriageStart ==
  ASSUME Triage PROVE agent'.kind = "triage" /\ TriageInv(agent', Flashed, Sweep)
  <1>1. agent' = [kind |-> "triage", phase |-> "model", calls |-> 0, underway |-> {},
                  regressions |-> {}, risk |-> <<>>, told |-> {}, base |-> Sweep, crossed |-> FALSE]
    BY DEF Triage
  <1>2. /\ agent'.calls = 0 /\ agent'.underway = {} /\ agent'.regressions = {}
        /\ agent'.told = {} /\ agent'.base = Sweep /\ agent'.crossed = FALSE
        /\ agent'.kind = "triage"
    BY <1>1
  <1>3. DOMAIN agent' = {"kind", "phase", "calls", "underway", "regressions", "risk", "told",
                         "base", "crossed"}
    BY <1>1
  <1>4. \A tool : Heard(agent', tool) = {}
    BY <1>2 DEF Heard
  <1>5. IsTriage(agent')
    <2>1. agent'.crossed \in BOOLEAN
      BY <1>2
    <2>2. agent'.calls \in Nat
      BY <1>2
    <2> QED
      BY <1>2, <1>3, <2>1, <2>2 DEF IsTriage
  <1>6. Inspected(agent', Flashed) /\ Accounted(agent')
    BY <1>2, <1>4 DEF Inspected, Accounted
  <1>7. Reported(agent', Sweep)
    BY <1>2, <1>4 DEF Reported
  <1> QED
    BY <1>2, <1>5, <1>6, <1>7 DEF TriageInv

\* A statement comes back with rows: any other ends the run.
LEMMA StatementStep ==
  ASSUME SeedInv, agent.kind = "triage", TriageInv(agent, Flashed, Sweep),
         NEW item \in agent.underway, NEW outcome \in Outcomes, Statement(item, outcome)
  PROVE  agent' = NoAgent \/ (agent'.kind = "triage" /\ TriageInv(agent', Flashed, Sweep))
  <1> SUFFICES ASSUME outcome = "rows"
               PROVE  agent'.kind = "triage" /\ TriageInv(agent', Flashed, Sweep)
    BY DEF Statement, Raises, Refuse
  <1>0. \A rows, none : RowsOr(outcome, rows, none) = rows
    BY DEF RowsOr
  <1>1. IsTriage(agent) /\ Inspected(agent, Flashed) /\ (SeededOnce => Reported(agent, Sweep))
    BY DEF TriageInv
  <1>2. item.call \in Calls /\ item = [call |-> item.call, found |-> item.found]
    BY <1>1 DEF IsTriage
  <1>3. \/ item.call = Survey /\ SurveyStatement(item, outcome)
        \/ item.call \in {Profile, BlindSpot} /\ RiskStatement(item, outcome)
        \/ item.call.tool = "inspect_pair_timeline" /\ TimelineStatement(item, outcome)
    BY DEF Statement, Raises
  <1>4. ASSUME NEW figure, NEW regressions, NEW risk, Return(item, figure, regressions, risk)
        PROVE  agent'.kind = "triage"
    <2>1. agent' = [agent EXCEPT !.underway = agent.underway \ {item},
                                 !.told = Tell(agent.told, {Told(item.call, agent.calls, figure)}),
                                 !.regressions = regressions, !.risk = risk]
      BY <1>4 DEF Return
    <2>2. "kind" \in DOMAIN agent
      BY <1>1 DEF IsTriage
    <2> QED
      BY <2>1, <2>2
  <1>5. CASE item.call = Survey /\ SurveyStatement(item, outcome) /\ item.found = <<>>
    <2> DEFINE swept == [call |-> Survey, found |-> <<Sweep>>]
    <2>1. [item EXCEPT !.found = <<Sweep>>] = swept
      BY <1>2, <1>5
    <2>2. agent' = [agent EXCEPT !.underway = (agent.underway \ {item}) \cup {swept}]
      BY <1>0, <1>5, <2>1 DEF SurveyStatement
    <2>3. swept.call = Survey /\ swept.found # <<>> /\ swept.found[1] = Sweep
          /\ swept = [call |-> swept.call, found |-> swept.found]
      OBVIOUS
    <2> HIDE DEF swept
    <2>4. /\ agent'.underway = (agent.underway \ {item}) \cup {swept}
          /\ agent'.calls = agent.calls /\ agent'.crossed = agent.crossed
          /\ agent'.told = agent.told /\ agent'.regressions = agent.regressions
          /\ agent'.risk = agent.risk /\ agent'.base = agent.base
          /\ agent'.kind = "triage" /\ DOMAIN agent' = DOMAIN agent
      <3>1. {"kind", "calls", "underway", "regressions", "risk", "told", "base", "crossed"}
              \subseteq DOMAIN agent
        BY <1>1 DEF IsTriage
      <3> QED
        BY <2>2, <3>1
    <2>5. Survey \in Calls /\ Survey # BlindSpot /\ Survey # Profile
          /\ Survey.tool # "inspect_pair_timeline"
      BY DEF Calls, Survey, BlindSpot, Profile, Call
    <2>6. \A tool : Heard(agent', tool) = Heard(agent, tool)
      BY <2>4 DEF Heard
    <2>7. IsTriage(agent')
      BY <1>1, <2>3, <2>4, <2>5 DEF IsTriage
    <2>8. Inspected(agent', Flashed)
      BY <1>1, <2>3, <2>4, <2>5, <2>6, FlaggedFlashed DEF Inspected
    <2>9. Accounted(agent')
      <3>1. Accounted(agent)
        BY DEF TriageInv
      <3> QED
        BY <2>3, <2>4, <2>5, <2>6, <3>1 DEF Accounted
    <2>10. SeededOnce => Reported(agent', Sweep)
      BY <1>1, <2>3, <2>4, <2>6 DEF Reported
    <2> QED
      BY <2>4, <2>7, <2>8, <2>9, <2>10 DEF TriageInv
  <1>6. CASE item.call = Survey /\ SurveyStatement(item, outcome) /\ item.found # <<>>
    <2>1. Return(item, item.found[1], item.found[1], agent.risk)
      BY <1>6 DEF SurveyStatement
    <2>2. \A f \in item.found[1] : f[1] \in Flashed
      BY <1>1, <1>6 DEF Inspected
    <2>3. SeededOnce => agent.base \subseteq item.found[1] /\ item.found[1] \subseteq Sweep
      BY <1>1, <1>6 DEF Reported
    <2>4. Survey # Profile /\ Survey.tool # "inspect_pair_timeline"
      BY DEF Survey, Profile, Call
    <2>5. TriageInv(agent', Flashed, Sweep)
      BY <1>6, <2>1, <2>2, <2>3, <2>4, ReturnStep
    <2> QED
      BY <1>4, <2>1, <2>5
  <1>7. CASE item.call \in {Profile, BlindSpot} /\ RiskStatement(item, outcome)
    <2> DEFINE risk == <<Profiles(Sweep)>>
               figure == IF item.call = BlindSpot THEN BlindSpotOf(Profiles(Sweep))
                         ELSE RiskOf(Profiles(Sweep))
    <2>1. Return(item, figure, agent.regressions, risk)
      BY <1>0, <1>7 DEF RiskStatement
    <2>2. \A f \in agent.regressions : f[1] \in Flashed
      BY <1>1 DEF Inspected
    <2>3. RiskOf(Profiles(Sweep)).total = Cardinality(AssetsOf(Sweep))
      BY RiskIsOfSweep
    <2>4. Profile # BlindSpot /\ Survey # Profile /\ Survey # BlindSpot
          /\ Profile.tool # "inspect_pair_timeline" /\ BlindSpot.tool # "inspect_pair_timeline"
      BY DEF Profile, BlindSpot, Survey, Call
    <2>5. risk # <<>> /\ risk[1] = Profiles(Sweep)
      OBVIOUS
    <2>6. item.call = Profile => figure = RiskOf(risk[1]) /\ figure.total = Cardinality(AssetsOf(Sweep))
      BY <2>3, <2>4, <2>5
    <2> HIDE DEF risk, figure
    <2>7. TriageInv(agent', Flashed, Sweep)
      BY <1>7, <2>1, <2>2, <2>4, <2>5, <2>6, ReturnStep
    <2> QED
      BY <1>4, <2>1, <2>7
  <1>8. CASE item.call.tool = "inspect_pair_timeline" /\ TimelineStatement(item, outcome)
    <2> DEFINE peak(a) == Max({Peak(a, rule) : rule \in Rules})
               figure == [parent |-> peak(Master(item.call.child)), child |-> peak(item.call.child)]
    <2>1. Return(item, figure, agent.regressions, agent.risk)
      BY <1>0, <1>8 DEF TimelineStatement
    <2>2. \A f \in agent.regressions : f[1] \in Flashed
      BY <1>1 DEF Inspected
    <2>3. item.call.child \in Flashed
      BY <1>1, <1>8 DEF Inspected
    <2>4. figure.child > MaxTransitions
      BY <2>3, PeakCrosses
    <2>5. item.call # Survey /\ item.call # Profile
      BY <1>2, <1>8, CallKinds DEF Survey, Profile, Call
    <2> HIDE DEF figure
    <2>6. TriageInv(agent', Flashed, Sweep)
      BY <2>1, <2>2, <2>4, <2>5, ReturnStep
    <2> QED
      BY <1>4, <2>1, <2>6
  <1> QED
    BY <1>3, <1>5, <1>6, <1>7, <1>8

\* While the tables move, what the run has stays as good.
LEMMA TriageWaits ==
  ASSUME NEW a, NEW flashed, NEW more, NEW sweep, NEW swept,
         IsTriage(a) /\ Inspected(a, flashed) /\ Accounted(a), flashed \subseteq more
  PROVE  /\ Inspected(a, more)
         /\ Reported(a, sweep) /\ sweep \subseteq swept => Reported(a, swept)
  <1>1. Inspected(a, more)
    BY DEF Inspected
  <1>2. Reported(a, sweep) /\ sweep \subseteq swept => Reported(a, swept)
    BY DEF Reported
  <1> QED
    BY <1>1, <1>2


-----------------------------------------------------------------------------
(* The explanation. *)

\* What a run may be told of two names: nothing that was not planted in the child; the plan
\* itself if both were there when it began; and that or nothing of an asset and its master.
AsPlanned(told, parent, child, base) ==
  /\ told \subseteq RulesOf(Plan(tosses[child[1]], child[2]))
  /\ {parent, child} \subseteq base => told = PlannedFor(parent, child)
  /\ parent = Master(child) => told \in {{}, PlannedFor(parent, child)}

\* A run of the explainer.  Its evidence may have been read of fewer assets and of fewer
\* stored rows than there are now, never of more.
ExplainInv(a) ==
  /\ DOMAIN a = {"kind", "phase", "parent", "child", "calls", "evidence", "base"}
  /\ a.parent \in Assets /\ a.child \in Assets /\ a.base \subseteq Present
  /\ SeededOnce /\ Untouched(a.parent) /\ Untouched(a.child) =>
       \A e \in a.evidence :
         ~e.error => AsPlanned({v.rule : v \in e.found}, a.parent, a.child, a.base)

\* What the statement finds of two names that nobody scanned.
LEMMA PlannedEvidence ==
  ASSUME SeedInv, SeededOnce, NEW parent \in Assets, NEW child \in Assets,
         Untouched(parent), Untouched(child), NEW base \in SUBSET Present
  PROVE  AsPlanned({v.rule : v \in PairRegressions(parent, child)}, parent, child, base)
  <1> DEFINE ofParent == Plan(tosses[parent[1]], parent[2])
             ofChild == Plan(tosses[child[1]], child[2])
             P == Violations(parent)
             C == Violations(child)
             own == IF parent[1] = child[1] THEN P ELSE {}
             told == {v.rule : v \in PairRegressions(parent, child)}
             planned == PlannedFor(parent, child)
  <1>1. /\ parent[1] \in Titles /\ child[1] \in Titles
        /\ ofParent \in SUBSET Bursts /\ ofChild \in SUBSET Bursts
    BY AssetType, PlanType DEF SeedInv
  <1>2. ~\E r \in stored : r.asset \in {parent, child}
    BY DEF Untouched, SeedInv
  <1>3. told = {v.rule : v \in SqlAntiJoin(own, C)}
    BY <1>2, MeasuredPair
  <1>4. /\ copies[parent] \in {0, 1} /\ copies[child] \in {0, 1}
        /\ copies[child] = 1 /\ parent = Master(child) => copies[parent] = 1
    BY DEF SeedInv, SeededOnce
  <1>5. /\ P = Judged[parent[1] \notin Authored][ofParent][copies[parent]]
        /\ C = Judged[child[1] \notin Authored][ofChild][copies[child]]
    BY DEF Violations
  <1>6. planned = RulesOf(ofChild) \ (IF parent[1] = child[1] THEN RulesOf(ofParent) ELSE {})
    BY DEF PlannedFor
  <1> HIDE DEF ofParent, ofChild, P, C, told, planned
  <1>7. copies[parent] = 1 => {v.rule : v \in P} = RulesOf(ofParent)
    BY <1>1, <1>5, Planting
  <1>8. /\ copies[child] = 1 => {v.rule : v \in C} = RulesOf(ofChild)
        /\ copies[child] = 0 => C = {}
    BY <1>1, <1>5, Planting, AbsentIsClean
  <1>9. told \subseteq {v.rule : v \in C}
    BY <1>3 DEF SqlAntiJoin
  <1>10. ASSUME copies[parent] = 1, copies[child] = 1 PROVE told = planned
    <2>1. CASE parent[1] = child[1]
      <3>1. 1 \in 0..MaxCopies
        BY CorpusAssumption
      <3>2. \A v \in C, w \in P : v.rule = w.rule => v.start = w.start
        <4> DEFINE measured == child[1] \notin Authored
        <4>1. C = Judged[measured][ofChild][1] /\ P = Judged[measured][ofParent][1]
          BY <1>5, <1>10, <2>1
        <4>2. measured \in BOOLEAN
          OBVIOUS
        <4> HIDE DEF measured
        <4> QED
          BY <1>1, <4>1, <4>2, Planting
      <3>3. \A v \in C : v.start \in Nat
        BY <1>1, <1>5, <1>10, <3>1, JudgedType
      <3>4. \A v \in C, w \in P : v.rule = w.rule => Distance(v.start, w.start) <= Tolerance
        BY <3>2, <3>3, CriteriaAssumption DEF Distance
      <3>5. {v.rule : v \in SqlAntiJoin(P, C)} = {v.rule : v \in C} \ {w.rule : w \in P}
        BY <3>4 DEF SqlAntiJoin
      <3> QED
        BY <1>3, <1>6, <1>7, <1>8, <1>10, <2>1, <3>5
    <2>2. CASE parent[1] # child[1]
      <3>1. SqlAntiJoin({}, C) = C
        BY DEF SqlAntiJoin
      <3> QED
        BY <1>3, <1>6, <1>8, <1>10, <2>2, <3>1
    <2> QED
      BY <2>1, <2>2
  <1>11. told \subseteq RulesOf(ofChild)
    BY <1>4, <1>8, <1>9
  <1>12. {parent, child} \subseteq base => told = planned
    <2>1. {parent, child} \subseteq base => copies[parent] = 1 /\ copies[child] = 1
      BY <1>4 DEF Present
    <2> QED
      BY <1>10, <2>1
  <1>13. parent = Master(child) => told \in {{}, planned}
    BY <1>4, <1>8, <1>9, <1>10
  <1> QED
    BY <1>11, <1>12, <1>13 DEF AsPlanned, told, planned, ofChild

\* A piece of evidence.
LEMMA EvidenceStep ==
  ASSUME SeedInv, agent.kind = "explain", ExplainInv(agent),
         NEW outcome \in Outcomes, Evidence(outcome)
  PROVE  agent' = NoAgent \/ (agent'.kind = "explain" /\ ExplainInv(agent'))
  <1> DEFINE evidence ==
               [error |-> outcome = "error",
                found |-> RowsOr(outcome, PairRegressions(agent.parent, agent.child), {})]
  <1> SUFFICES ASSUME outcome # "exception" PROVE agent'.kind = "explain" /\ ExplainInv(agent')
    BY DEF Evidence, Refuse
  <1>1. agent' = [agent EXCEPT !.calls = agent.calls + 1, !.evidence = agent.evidence \cup {evidence}]
    BY DEF Evidence
  <1>2. /\ agent.parent \in Assets /\ agent.child \in Assets /\ agent.base \in SUBSET Present
        /\ DOMAIN agent = {"kind", "phase", "parent", "child", "calls", "evidence", "base"}
    BY DEF ExplainInv
  <1>3. ASSUME SeededOnce, Untouched(agent.parent), Untouched(agent.child), ~evidence.error
        PROVE  AsPlanned({v.rule : v \in evidence.found}, agent.parent, agent.child, agent.base)
    <2>1. outcome = "rows"
      BY <1>3 DEF Outcomes
    <2>2. evidence.found = PairRegressions(agent.parent, agent.child)
      BY <2>1 DEF RowsOr
    <2> HIDE DEF evidence
    <2> QED
      BY <1>2, <1>3, <2>2, PlannedEvidence
  <1> HIDE DEF evidence
  <1>4. /\ agent'.parent = agent.parent /\ agent'.child = agent.child /\ agent'.base = agent.base
        /\ agent'.kind = "explain" /\ DOMAIN agent' = DOMAIN agent
        /\ agent'.evidence = agent.evidence \cup {evidence}
    BY <1>1, <1>2
  <1>5. ASSUME SeededOnce, Untouched(agent.parent), Untouched(agent.child),
               NEW e \in agent'.evidence, ~e.error
        PROVE  AsPlanned({v.rule : v \in e.found}, agent.parent, agent.child, agent.base)
    <2>1. CASE e \in agent.evidence
      BY <1>5, <2>1 DEF ExplainInv
    <2>2. CASE e = evidence
      BY <1>3, <1>5, <2>2
    <2> QED
      BY <1>4, <2>1, <2>2
  <1> QED
    BY <1>2, <1>4, <1>5 DEF ExplainInv

-----------------------------------------------------------------------------
(* The agents, beside the catalogue. *)

AgentInv ==
  /\ agent.kind \in {"none", "triage", "explain"}
  /\ agent.kind = "triage" => TriageInv(agent, Flashed, Sweep)
  /\ agent.kind = "explain" => ExplainInv(agent)

\* A step of the agents.
LEMMA AgentStepHolds ==
  ASSUME SeedInv, AgentInv, AgentStep
  PROVE  \/ agent' = NoAgent
         \/ agent'.kind = "triage" /\ TriageInv(agent', Flashed, Sweep)
         \/ agent'.kind = "explain" /\ ExplainInv(agent')
  <1>1. CASE Triage
    BY <1>1, TriageStart
  <1>2. ASSUME NEW calls \in SUBSET Calls, Turn(calls)
        PROVE  agent'.kind = "triage" /\ TriageInv(agent', Flashed, Sweep)
    <2>1. agent.kind = "triage" /\ TriageInv(agent, Flashed, Sweep)
      BY <1>2 DEF Turn, Running, AgentInv
    <2>2. TriageInv(agent', Flashed, Sweep)
      BY <1>2, <2>1, TurnStep
    <2>3. "kind" \in DOMAIN agent
      BY <2>1 DEF TriageInv, IsTriage
    <2> QED
      BY <1>2, <2>1, <2>2, <2>3 DEF Turn
  <1>3. ASSUME NEW item \in (IF agent.kind = "triage" THEN agent.underway ELSE {}),
               NEW outcome \in Outcomes, Statement(item, outcome)
        PROVE  agent' = NoAgent \/ (agent'.kind = "triage" /\ TriageInv(agent', Flashed, Sweep))
    <2>1. agent.kind = "triage" /\ item \in agent.underway
      OBVIOUS
    <2>2. TriageInv(agent, Flashed, Sweep)
      BY <2>1 DEF AgentInv
    <2> QED
      BY <1>3, <2>1, <2>2, StatementStep
  <1>4. CASE Brief
    <2>1. agent.kind = "triage" /\ TriageInv(agent, Flashed, Sweep)
      BY <1>4 DEF Brief, Running, AgentInv
    <2>2. {"kind", "phase", "calls", "underway", "regressions", "risk", "told", "base", "crossed"}
            = DOMAIN agent
      BY <2>1 DEF TriageInv, IsTriage
    <2>3. agent' = [agent EXCEPT !.phase = "done"]
      BY <1>4 DEF Brief
    <2>4. /\ agent'.kind = agent.kind /\ agent'.calls = agent.calls
          /\ agent'.underway = agent.underway /\ agent'.regressions = agent.regressions
          /\ agent'.risk = agent.risk /\ agent'.told = agent.told /\ agent'.base = agent.base
          /\ agent'.crossed = agent.crossed /\ DOMAIN agent' = DOMAIN agent
      BY <2>2, <2>3
    <2>5. \A tool : Heard(agent', tool) = Heard(agent, tool)
      BY <2>4 DEF Heard
    <2>6. IsTriage(agent')
      BY <2>1, <2>4 DEF TriageInv, IsTriage
    <2>7. Inspected(agent', Flashed) /\ Accounted(agent')
      BY <2>1, <2>4, <2>5 DEF TriageInv, Inspected, Accounted
    <2>8. SeededOnce => Reported(agent', Sweep)
      BY <2>1, <2>4, <2>5 DEF TriageInv, Reported
    <2> QED
      BY <2>1, <2>4, <2>6, <2>7, <2>8 DEF TriageInv
  <1>5. ASSUME NEW pair \in Compared, Explain(pair[1], pair[2])
        PROVE  agent'.kind = "explain" /\ ExplainInv(agent')
    <2>1. pair[1] \in Assets /\ pair[2] \in Assets
      BY AgentsAssumption
    <2> QED
      BY <1>5, <2>1 DEF Explain, ExplainInv
  <1>6. ASSUME NEW outcome \in Outcomes, Evidence(outcome)
        PROVE  agent' = NoAgent \/ (agent'.kind = "explain" /\ ExplainInv(agent'))
    <2>1. agent.kind = "explain" /\ ExplainInv(agent)
      BY <1>6 DEF Evidence, Running, AgentInv
    <2> QED
      BY <1>6, <2>1, EvidenceStep
  <1>7. CASE Explanation
    BY <1>7 DEF Explanation, Running, AgentInv, ExplainInv
  <1> QED
    BY <1>1, <1>2, <1>3, <1>4, <1>5, <1>6, <1>7 DEF AgentStep

\* What the agent's invariant says of the tables, while the agent stays where it is.
LEMMA AgentWaits ==
  ASSUME SeedInv, SeedInv', Grown, AgentInv, agent' = agent PROVE AgentInv'
  <1>1. Flashed \subseteq Flashed'
    BY FlashedGrows
  <1>2. SeededOnce' => SeededOnce /\ Sweep \subseteq Sweep'
    BY SweepGrows
  <1>3. ASSUME agent.kind = "triage" PROVE TriageInv(agent, Flashed, Sweep)'
    <2>1. /\ IsTriage(agent) /\ Inspected(agent, Flashed) /\ Accounted(agent)
          /\ SeededOnce => Reported(agent, Sweep)
      BY <1>3 DEF AgentInv, TriageInv
    <2>2. Inspected(agent, Flashed')
      BY <1>1, <2>1, TriageWaits
    <2>3. SeededOnce' => Reported(agent, Sweep')
      BY <1>1, <1>2, <2>1, TriageWaits
    <2>4. IsTriage(agent)' /\ Inspected(agent, Flashed)' /\ Accounted(agent)'
      <3>1. IsTriage(agent)' <=> IsTriage(agent)
        BY DEF IsTriage
      <3>2. Accounted(agent)' <=> Accounted(agent)
        BY DEF Accounted, Heard
      <3>3. Inspected(agent, Flashed)' <=> Inspected(agent, Flashed')
        BY DEF Inspected, Heard
      <3> QED
        BY <2>1, <2>2, <3>1, <3>2, <3>3
    <2>5. Reported(agent, Sweep)' <=> Reported(agent, Sweep')
      BY DEF Reported, Heard
    <2> QED
      BY <2>3, <2>4, <2>5 DEF TriageInv
  <1>4. ASSUME agent.kind = "explain" PROVE ExplainInv(agent)'
    <2>1. Present \subseteq Present'
      BY DEF SeedInv, Grown, Present
    <2>2. \A a \in Assets : Untouched(a)' => Untouched(a)
      BY DEF Untouched, Grown
    <2>3. ExplainInv(agent)
      BY <1>4 DEF AgentInv
    <2>4. \A told, parent, child, base :
            AsPlanned(told, parent, child, base)' <=> AsPlanned(told, parent, child, base)
      BY DEF AsPlanned, PlannedFor, Grown
    <2> QED
      BY <1>2, <2>1, <2>2, <2>3, <2>4 DEF ExplainInv
  <1> QED
    BY <1>3, <1>4 DEF AgentInv

\* A step of the catalogue or of an agent.
LEMMA AgentsStep ==
  ASSUME SeedInv, AgentInv, [AgentsNext]_allVars PROVE AgentInv'
  <1>1. SeedInv' /\ Grown
    BY SeedStep
  <1>2. CASE agent' = NoAgent
    BY <1>2 DEF AgentInv, NoAgent
  <1>3. CASE agent' = agent
    BY <1>1, <1>3, AgentWaits
  <1>4. CASE AgentStep /\ UNCHANGED <<tosses, copies, next, runs, stored, scans>>
    <2>1. \/ agent' = NoAgent
          \/ agent'.kind = "triage" /\ TriageInv(agent', Flashed, Sweep)
          \/ agent'.kind = "explain" /\ ExplainInv(agent')
      BY <1>4, AgentStepHolds
    <2>2. /\ Flashed' = Flashed /\ Sweep' = Sweep /\ (SeededOnce' <=> SeededOnce)
          /\ tosses' = tosses /\ stored' = stored /\ Present' = Present
      BY <1>4 DEF Flashed, Sweep, PresentRenditions, Present, Introduced, SeededOnce
    <2>3. CASE agent'.kind = "triage" /\ TriageInv(agent', Flashed, Sweep)
      BY <2>2, <2>3 DEF AgentInv, TriageInv
    <2>4. CASE agent'.kind = "explain" /\ ExplainInv(agent')
      <3>1. ExplainInv(agent)' <=> ExplainInv(agent')
        BY <2>2 DEF ExplainInv, AsPlanned, PlannedFor, Untouched
      <3> QED
        BY <2>4, <3>1 DEF AgentInv
    <2> QED
      BY <1>2, <2>1, <2>3, <2>4
  <1> QED
    BY <1>2, <1>3, <1>4 DEF AgentsNext, allVars, agentVars

LEMMA AgentsInvariant == AgentsSpec => [](SeedInv /\ AgentInv)
  <1>1. AgentsInit => SeedInv /\ AgentInv
    BY SeedInit DEF AgentsInit, AgentInv, NoAgent
  <1>2. SeedInv /\ AgentInv /\ [AgentsNext]_allVars => (SeedInv /\ AgentInv)'
    BY SeedStep, AgentsStep
  <1> QED
    BY <1>1, <1>2, PTL DEF AgentsSpec

-----------------------------------------------------------------------------
(* The theorems of the agents. *)

\* The chart that a triage cites crosses the criterion, whatever is inserted between the
\* survey that found the rendition and the reading of its chart (adk_app.py:190-216).
THEOREM ReviewShows == AgentsSpec => []ReviewShowsTheFlash
  <1>1. SeedInv /\ AgentInv => ReviewShowsTheFlash
    BY DEF AgentInv, TriageInv, Inspected, ReviewShowsTheFlash, Figures, Heard
  <1> QED
    BY <1>1, AgentsInvariant, PTL

\* The figures of one brief add up, in whatever order the model called its tools and
\* whatever was inserted between their statements (adk_app.py:175-176).
THEOREM BriefSums == AgentsSpec => []BriefAddsUp
  <1>1. SeedInv /\ AgentInv => BriefAddsUp
    BY DEF AgentInv, TriageInv, Accounted, Reported, BriefAddsUp, Figures, Heard, AssetsOf
  <1> QED
    BY <1>1, AgentsInvariant, PTL

\* A brief is short of nothing that was there when its run began (main.py:816-830,
\* catalogue.py:44-46).
THEOREM BriefComplete == AgentsSpec => []BriefIsShortOfNothing
  <1>1. SeedInv /\ AgentInv => BriefIsShortOfNothing
    BY DEF AgentInv, TriageInv, Reported, BriefIsShortOfNothing, Figures, Heard, AssetsOf
  <1> QED
    BY <1>1, AgentsInvariant, PTL

\* An explanation of any two names that nobody scanned is told what was planted in the one
\* and not in the other, whatever callers scan and the script inserts meanwhile
\* (main.py:76-81, clickhouse_mcp.py:251-253).
THEOREM ExplanationOfPlan == AgentsSpec => []ExplanationIsOfThePlan
  <1>1. SeedInv /\ AgentInv => ExplanationIsOfThePlan
    BY DEF AgentInv, ExplainInv, AsPlanned, ExplanationIsOfThePlan
  <1> QED
    BY <1>1, AgentsInvariant, PTL
=============================================================================

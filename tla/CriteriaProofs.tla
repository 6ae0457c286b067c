---------------------------- MODULE CriteriaProofs ----------------------------
(***************************************************************************)
(* Lemmas on sums, on the criteria and the isolations, and on what is      *)
(* measured of frames, for every clip and every picture: the reference     *)
(* detector and the SQL report the same, and so do the three isolations.   *)
(***************************************************************************)
EXTENDS Measure, FiniteSetTheorems, SequenceTheorems, WellFoundedInduction, TLAPS

\* A clip, as the criteria need it: what is not compared may be anything.
IsClip(rows) ==
  /\ Len(rows) \in Nat /\ DOMAIN rows = 1..Len(rows)
  /\ \A i \in DOMAIN rows :
       rows[i].pts \in Nat /\ rows[i].area \in Nat /\ rows[i].direction \in Directions

\* The positions whose window is over the limit.
Over(rows, rule) == {i \in Qualified(rows, rule) : Exceeds(rows, WindowFrom(rows, rule, i))}

\* A set of numbers has a least one.
LEMMA LeastNumber ==
  ASSUME NEW S \in SUBSET Nat, S # {}
  PROVE  \E x \in S : \A y \in S : x <= y
  <1>1. PICK x \in S : \A y \in S : ~ (<<y, x>> \in OpToRel(<, Nat))
    BY WFMin, NatLessThanWellFounded
  <1>2. ASSUME NEW y \in S PROVE x <= y
    <2>1. ~ (y < x)
      BY <1>1 DEF OpToRel
    <2> QED
      BY <2>1
  <1> QED
    BY <1>2

-----------------------------------------------------------------------------
(* Sums. *)

\* The element that a sum over a set takes first.
Pick(s) == CHOOSE x \in s : TRUE

\* A table of the sums of f over the subsets of S.
IsTable(g, f, S) ==
  g = [s \in SUBSET S |-> IF s = {} THEN 0 ELSE f[Pick(s)] + g[s \ {Pick(s)}]]

\* A set is smaller by the element that is picked from it.
LEMMA PickOne ==
  ASSUME NEW s, IsFiniteSet(s), s # {}
  PROVE  /\ Pick(s) \in s /\ IsFiniteSet(s \ {Pick(s)})
         /\ Cardinality(s) \in Nat \ {0} /\ Cardinality(s \ {Pick(s)}) = Cardinality(s) - 1
  <1>1. Pick(s) \in s
    BY DEF Pick
  <1>2. /\ IsFiniteSet(s \ {Pick(s)}) /\ Cardinality(s \ {Pick(s)}) = Cardinality(s) - 1
    BY <1>1, FS_RemoveElement
  <1>3. Cardinality(s) \in Nat /\ Cardinality(s) # 0
    BY FS_CardinalityType, FS_EmptySet
  <1> QED
    BY <1>1, <1>2, <1>3

\* What holds of the empty set, and of a set if it holds of it less one element, holds of
\* every finite set.
LEMMA OneByOne ==
  ASSUME NEW S, IsFiniteSet(S), NEW Good, {} \in Good,
         \A s \in SUBSET S : s # {} /\ s \ {Pick(s)} \in Good => s \in Good
  PROVE  S \in Good
  <1> DEFINE bad == {s \in SUBSET S : s \notin Good}
             sizes == {Cardinality(s) : s \in bad}
  <1>1. \A s \in SUBSET S : IsFiniteSet(s) /\ Cardinality(s) \in Nat
    BY FS_Subset, FS_CardinalityType
  <1>2. SUFFICES ASSUME bad # {} PROVE FALSE
    OBVIOUS
  <1>3. sizes \in SUBSET Nat /\ sizes # {}
    BY <1>1, <1>2
  <1>4. PICK n \in sizes : \A m \in sizes : n <= m
    <2> HIDE DEF sizes
    <2> QED
      BY <1>3, LeastNumber
  <1>5. PICK s \in bad : n = Cardinality(s)
    BY <1>4
  <1>6. s # {}
    BY <1>5
  <1>7. s \ {Pick(s)} \in bad
    BY <1>5, <1>6
  <1>8. /\ Cardinality(s) \in Nat \ {0} /\ Cardinality(s \ {Pick(s)}) = Cardinality(s) - 1
    BY <1>1, <1>5, <1>6, PickOne
  <1>9. Cardinality(s) <= Cardinality(s \ {Pick(s)})
    BY <1>4, <1>5, <1>7
  <1> QED
    BY <1>8, <1>9

\* There is such a table.
LEMMA TableExists ==
  ASSUME NEW f, NEW S, IsFiniteSet(S)
  PROVE  \E g : IsTable(g, f, S)
  <1> DEFINE Entry(g, s) == IF s = {} THEN 0 ELSE f[Pick(s)] + g[s \ {Pick(s)}]
             Upto(n) == {s \in SUBSET S : Cardinality(s) <= n}
             good == {n \in Nat : \E g : \A s \in Upto(n) : g[s] = Entry(g, s)}
             bad == Nat \ good
  <1>1. \A s \in SUBSET S : IsFiniteSet(s) /\ Cardinality(s) \in Nat
    BY FS_Subset, FS_CardinalityType
  <1>2. 0 \in good
    <2> DEFINE zero == [s \in SUBSET S |-> 0]
    <2>1. \A s \in Upto(0) : s = {}
      BY <1>1, FS_EmptySet
    <2>2. \A s \in Upto(0) : zero[s] = Entry(zero, s)
      BY <2>1
    <2> QED
      BY <2>2
  <1>3. ASSUME NEW n \in Nat \ {0}, n - 1 \in good PROVE n \in good
    <2>1. PICK g : \A s \in Upto(n - 1) : g[s] = Entry(g, s)
      BY <1>3
    <2> DEFINE h == [s \in SUBSET S |-> Entry(g, s)]
    <2>2. ASSUME NEW s \in Upto(n) PROVE h[s] = Entry(h, s)
      <3>1. h[s] = Entry(g, s)
        OBVIOUS
      <3>2. CASE s = {}
        BY <3>1, <3>2
      <3>3. CASE s # {}
        <4> DEFINE rest == s \ {Pick(s)}
        <4>1. rest \in Upto(n - 1)
          BY <1>1, <3>3, PickOne
        <4>2. g[rest] = Entry(g, rest) /\ h[rest] = Entry(g, rest)
          BY <2>1, <4>1
        <4> QED
          BY <3>1, <3>3, <4>2
      <3> QED
        BY <3>2, <3>3
    <2> HIDE DEF h
    <2> QED
      BY <2>2
  <1>4. bad = {}
    <2> SUFFICES ASSUME bad # {} PROVE FALSE
      OBVIOUS
    <2>1. PICK n \in bad : \A m \in bad : n <= m
      <3>1. bad \in SUBSET Nat
        OBVIOUS
      <3> HIDE DEF bad
      <3> QED
        BY <3>1, LeastNumber
    <2>2. n \in Nat \ {0}
      BY <1>2
    <2> HIDE DEF good
    <2>3. n - 1 \in good
      BY <2>1, <2>2
    <2> QED
      BY <1>3, <2>2, <2>3
  <1>5. PICK g : \A s \in Upto(Cardinality(S)) : g[s] = Entry(g, s)
    BY <1>1, <1>4
  <1>6. \A s \in SUBSET S : s \in Upto(Cardinality(S))
    BY FS_Subset
  <1> DEFINE table == [s \in SUBSET S |-> g[s]]
  <1>7. ASSUME NEW s \in SUBSET S PROVE table[s] = Entry(table, s)
    BY <1>5, <1>6
  <1>8. table = [s \in SUBSET S |-> Entry(table, s)]
    BY <1>7
  <1>9. IsTable(table, f, S)
    BY <1>8 DEF IsTable
  <1> QED
    BY <1>9

\* The sum of f over S is the last of the sums g of f over its subsets.
IsSums(g, f, S) ==
  /\ SumFunctionOnSet(f, S) = g[S] /\ g[{}] = 0
  /\ \A s \in SUBSET S : s # {} => g[s] = f[Pick(s)] + g[s \ {Pick(s)}]

\* A sum is an entry of a table.
LEMMA SumDef ==
  ASSUME NEW f, NEW S, IsFiniteSet(S)
  PROVE  \E g : IsSums(g, f, S)
  <1> DEFINE g == CHOOSE g : IsTable(g, f, S)
  <1>1. SumFunctionOnSet(f, S) = g[S]
    BY DEF SumFunctionOnSet, FoldFunctionOnSet, MapThenFoldSet, IsTable, Pick
  <1>2. IsTable(g, f, S)
    BY TableExists
  <1> HIDE DEF g
  <1>3. \A s \in SUBSET S : g[s] = IF s = {} THEN 0 ELSE f[Pick(s)] + g[s \ {Pick(s)}]
    BY <1>2, Zenon DEF IsTable
  <1> QED
    BY <1>1, <1>3 DEF IsSums

\* A sum of bounded integers is bounded.
LEMMA SumBounds ==
  ASSUME NEW f, NEW S, IsFiniteSet(S), NEW lo \in Int, NEW hi \in Int,
         \A x \in S : f[x] \in Int /\ lo <= f[x] /\ f[x] <= hi
  PROVE  LET sum == SumFunctionOnSet(f, S)
         IN sum \in Int /\ lo * Cardinality(S) <= sum /\ sum <= hi * Cardinality(S)
  <1>0. PICK g : IsSums(g, f, S)
    BY SumDef
  <1>1. /\ SumFunctionOnSet(f, S) = g[S] /\ g[{}] = 0
        /\ \A s \in SUBSET S : s # {} => g[s] = f[Pick(s)] + g[s \ {Pick(s)}]
    BY <1>0 DEF IsSums
  <1> DEFINE Within(s) == /\ g[s] \in Int /\ lo * Cardinality(s) <= g[s]
                          /\ g[s] <= hi * Cardinality(s)
             Good == {s \in SUBSET S : Within(s)}
  <1>2. {} \in Good
    BY <1>1, FS_EmptySet
  <1>3. ASSUME NEW s \in SUBSET S, s # {}, s \ {Pick(s)} \in Good PROVE s \in Good
    <2> DEFINE rest == s \ {Pick(s)}
    <2>1. IsFiniteSet(s)
      BY FS_Subset
    <2>2. Pick(s) \in s /\ Cardinality(s) \in Nat \ {0} /\ Cardinality(rest) = Cardinality(s) - 1
      BY <1>3, <2>1, PickOne
    <2>3. g[s] = f[Pick(s)] + g[rest] /\ Within(rest)
      BY <1>1, <1>3
    <2> DEFINE n == Cardinality(s)
    <2>4. f[Pick(s)] \in Int /\ lo <= f[Pick(s)] /\ f[Pick(s)] <= hi /\ n \in Int
      BY <2>2
    <2>5. g[rest] \in Int /\ lo * (n - 1) <= g[rest] /\ g[rest] <= hi * (n - 1)
      BY <2>2, <2>3
    <2> HIDE DEF n
    <2>6. lo * (n - 1) = lo * n - lo /\ hi * (n - 1) = hi * n - hi /\ lo * n \in Int /\ hi * n \in Int
      BY <2>4
    <2>7. g[s] \in Int /\ lo * n <= g[s] /\ g[s] <= hi * n
      BY <2>3, <2>4, <2>5, <2>6
    <2> QED
      BY <2>7 DEF n
  <1>4. S \in Good
    <2> HIDE DEF Good
    <2> QED
      BY <1>2, <1>3, OneByOne
  <1> QED
    BY <1>1, <1>4

\* The sizes of disjoint sets add up to that of their union.
LEMMA SumOfSizes ==
  ASSUME NEW f, NEW S, IsFiniteSet(S), NEW part,
         \A x \in S : IsFiniteSet(part[x]) /\ f[x] = Cardinality(part[x]),
         \A x, y \in S : x # y => part[x] \cap part[y] = {}
  PROVE  /\ IsFiniteSet(UNION {part[x] : x \in S})
         /\ SumFunctionOnSet(f, S) = Cardinality(UNION {part[x] : x \in S})
  <1>0. PICK g : IsSums(g, f, S)
    BY SumDef
  <1>1. /\ SumFunctionOnSet(f, S) = g[S] /\ g[{}] = 0
        /\ \A s \in SUBSET S : s # {} => g[s] = f[Pick(s)] + g[s \ {Pick(s)}]
    BY <1>0 DEF IsSums
  <1> DEFINE All(s) == UNION {part[x] : x \in s}
             Good == {s \in SUBSET S : IsFiniteSet(All(s)) /\ g[s] = Cardinality(All(s))}
  <1>2. {} \in Good
    <2>1. All({}) = {}
      OBVIOUS
    <2> QED
      BY <1>1, <2>1, FS_EmptySet
  <1>3. ASSUME NEW s \in SUBSET S, s # {}, s \ {Pick(s)} \in Good PROVE s \in Good
    <2> DEFINE rest == s \ {Pick(s)}
               one == part[Pick(s)]
    <2>1. Pick(s) \in s
      BY <1>3 DEF Pick
    <2>2. g[s] = f[Pick(s)] + g[rest] /\ IsFiniteSet(All(rest)) /\ g[rest] = Cardinality(All(rest))
      BY <1>1, <1>3
    <2>3. IsFiniteSet(one) /\ f[Pick(s)] = Cardinality(one) /\ one \cap All(rest) = {}
      BY <2>1
    <2>4. All(s) = one \cup All(rest)
      BY <2>1
    <2> HIDE DEF All, one
    <2>5. /\ IsFiniteSet(one \cup All(rest))
          /\ Cardinality(one \cup All(rest)) = Cardinality(one) + Cardinality(All(rest)) - Cardinality(one \cap All(rest))
      BY <2>2, <2>3, FS_Union
    <2>6. Cardinality(one \cap All(rest)) = 0 /\ Cardinality(one) \in Nat /\ Cardinality(All(rest)) \in Nat
      BY <2>2, <2>3, FS_EmptySet, FS_CardinalityType
    <2>7. IsFiniteSet(All(s)) /\ g[s] = Cardinality(All(s))
      BY <2>2, <2>3, <2>4, <2>5, <2>6
    <2> QED
      BY <2>7
  <1>4. S \in Good
    <2> HIDE DEF Good
    <2> QED
      BY <1>2, <1>3, OneByOne
  <1> QED
    BY <1>1, <1>4

-----------------------------------------------------------------------------
(* The reference detector. *)

\* Transitions of a clip have a first one, by time and then by submission.
LEMMA FirstPosition ==
  ASSUME NEW rows, IsClip(rows), NEW S \in SUBSET DOMAIN rows, S # {}
  PROVE  \E k \in S : \A j \in S : ~Before(rows, j, k)
  <1>1. ASSUME NEW i \in S PROVE i \in Nat /\ rows[i].pts \in Nat
    BY DEF IsClip
  <1>2. PICK t \in {rows[i].pts : i \in S} : \A u \in {rows[i].pts : i \in S} : t <= u
    <2>1. {rows[i].pts : i \in S} \in SUBSET Nat /\ {rows[i].pts : i \in S} # {}
      BY <1>1
    <2> QED
      BY <2>1, LeastNumber
  <1>3. PICK k \in {i \in S : rows[i].pts = t} : \A j \in {i \in S : rows[i].pts = t} : k <= j
    <2>1. {i \in S : rows[i].pts = t} \in SUBSET Nat /\ {i \in S : rows[i].pts = t} # {}
      BY <1>1, <1>2
    <2> QED
      BY <2>1, LeastNumber
  <1>4. ASSUME NEW j \in S PROVE ~Before(rows, j, k)
    <2>1. t <= rows[j].pts /\ rows[k].pts = t /\ (rows[j].pts = t => k <= j)
      BY <1>2, <1>3
    <2> QED
      BY <2>1, <1>1, <1>2 DEF Before
  <1> QED
    BY <1>4

\* The transitions of a clip that count are finitely many and have a time, an area and a
\* direction of their own.
LEMMA QualifiedType ==
  ASSUME NEW rows, IsClip(rows), NEW rule
  PROVE  /\ IsFiniteSet(Qualified(rows, rule)) /\ Qualified(rows, rule) \subseteq DOMAIN rows
         /\ \A i \in Qualified(rows, rule) :
              /\ i \in Nat /\ rows[i].pts \in Nat /\ rows[i].area \in Nat
              /\ rows[i].direction \in {"up", "down"}
  <1>1. Qualified(rows, rule) \subseteq 1..Len(rows) /\ DOMAIN rows = 1..Len(rows) /\ Len(rows) \in Nat
    BY DEF Qualified, IsClip
  <1>2. IsFiniteSet(Qualified(rows, rule))
    <2>1. IsFiniteSet(1..Len(rows))
      BY <1>1, FS_Interval, 1 \in Int
    <2> QED
      BY <1>1, <2>1, FS_Subset
  <1>3. ASSUME NEW i \in Qualified(rows, rule)
        PROVE  i \in Nat /\ rows[i].pts \in Nat /\ rows[i].area \in Nat /\ rows[i].direction \in {"up", "down"}
    <2>1. rows[i].direction # "flat"
      BY DEF Qualified, Qualifies
    <2> QED
      BY <1>1, <2>1 DEF IsClip, Directions
  <1> QED
    BY <1>1, <1>2, <1>3

\* More transitions that count are over the limit if fewer are.
LEMMA MoreExceeds ==
  ASSUME NEW rows, IsClip(rows), NEW rule,
         NEW less \in SUBSET Qualified(rows, rule), NEW more \in SUBSET Qualified(rows, rule),
         less \subseteq more, Exceeds(rows, less)
  PROVE  Exceeds(rows, more)
  <1>1. IsFiniteSet(more) /\ IsFiniteSet(less)
    BY QualifiedType, FS_Subset
  <1>2. Cardinality(less) <= Cardinality(more) /\ Cardinality(less) \in Nat /\ Cardinality(more) \in Nat
    BY <1>1, FS_Subset, FS_CardinalityType
  <1>3. Cardinality(more) > MaxTransitions
    BY <1>2, CriteriaAssumption DEF Exceeds
  <1>4. \A j \in more : rows[j].direction \in {"up", "down"}
    BY QualifiedType
  <1>5. {rows[j].direction : j \in less} = {"up", "down"}
    BY DEF Exceeds
  <1>6. {rows[j].direction : j \in more} = {"up", "down"}
    BY <1>4, <1>5
  <1> QED
    BY <1>3, <1>6 DEF Exceeds

\* If some window is over the limit, one violation is reported, at the first such window.
LEMMA DetectsFirst ==
  ASSUME NEW rows, IsClip(rows), NEW rule, NEW i \in Over(rows, rule)
  PROVE  \E v \in Detect(rows, rule) : v.start <= rows[i].pts
  <1>1. Over(rows, rule) \in SUBSET DOMAIN rows
    BY QualifiedType DEF Over
  <1>2. PICK k \in Over(rows, rule) : \A j \in Over(rows, rule) : ~Before(rows, j, k)
    BY <1>1, FirstPosition
  <1>3. ViolationAt(rows, rule, k) \in Detect(rows, rule)
    BY <1>2 DEF Detect, Over
  <1>4. rows[i].pts \in Nat /\ rows[k].pts \in Nat
    BY QualifiedType DEF Over
  <1>5. rows[k].pts <= rows[i].pts
    BY <1>2, <1>4 DEF Before
  <1>6. ViolationAt(rows, rule, k).start = rows[k].pts
    BY DEF ViolationAt
  <1> QED
    BY <1>3, <1>5, <1>6

\* A set of transitions that count, within a second and over the limit, is reported before
\* the second ends: it has a first transition, whose window holds all of its others.
LEMMA BurstIsDetected ==
  ASSUME NEW rows, IsClip(rows), NEW rule, NEW t \in Nat, NEW B \in SUBSET Qualified(rows, rule),
         \A i \in B : rows[i].pts \in t..(t + Span - 1), Exceeds(rows, B)
  PROVE  \E v \in Detect(rows, rule) : v.start < t + Span
  <1>0. t \in Nat /\ Span \in Nat
    BY CriteriaAssumption
  <1>2. B # {}
    BY DEF Exceeds
  <1>3. B \in SUBSET DOMAIN rows
    BY <1>0, QualifiedType
  <1>4. PICK i \in B : \A j \in B : ~Before(rows, j, i)
    BY <1>0, <1>2, <1>3, FirstPosition
  <1>5. rows[i].pts \in Nat /\ rows[i].pts >= t /\ rows[i].pts < t + Span
    BY <1>0, QualifiedType
  <1>6. B \subseteq WindowFrom(rows, rule, i)
    <2> SUFFICES ASSUME NEW j \in B PROVE j \in WindowFrom(rows, rule, i)
      OBVIOUS
    <2>1. rows[j].pts \in Nat /\ rows[j].pts <= t + Span - 1
      BY <1>0, QualifiedType
    <2>2. rows[j].pts < rows[i].pts + Span
      <3>1. \A p, q, s, n \in Nat : p >= s /\ q <= s + n - 1 => q < p + n
        OBVIOUS
      <3>2. t \in Nat /\ Span \in Nat /\ rows[i].pts \in Nat /\ rows[i].pts >= t
        BY <1>0, <1>5
      <3> QED
        BY <2>1, <3>1, <3>2
    <2> QED
      BY <1>4, <2>2 DEF WindowFrom
  <1>7. Exceeds(rows, WindowFrom(rows, rule, i))
    <2>1. B \in SUBSET Qualified(rows, rule) /\ WindowFrom(rows, rule, i) \in SUBSET Qualified(rows, rule)
      BY DEF WindowFrom
    <2> QED
      BY <1>6, <2>1, MoreExceeds
  <1>8. i \in Over(rows, rule)
    BY <1>7 DEF Over
  <1>9. PICK v \in Detect(rows, rule) : v.start <= rows[i].pts
    BY <1>0, <1>8, DetectsFirst
  <1>10. PICK k \in Qualified(rows, rule) : v = ViolationAt(rows, rule, k)
    BY DEF Detect
  <1>11. v.start \in Nat
    BY <1>0, <1>10, QualifiedType DEF ViolationAt
  <1> QED
    BY <1>0, <1>5, <1>9, <1>11

-----------------------------------------------------------------------------
(* The SQL. *)

\* The WHERE of the two templates is the detector's filter.
LEMMA SameFilter ==
  ASSUME NEW rows, NEW rule \in Rules
  PROVE  SqlQualifying(rows, rule) = Qualified(rows, rule)
  <1>1. CASE rule = "general_flash"
    BY <1>1 DEF SqlQualifying, Qualified, Qualifies
  <1>2. CASE rule = "red_flash"
    BY <1>2 DEF SqlQualifying, Qualified, Qualifies
  <1> QED
    BY <1>1, <1>2 DEF Rules

\* min(dir) and max(dir) differ over a frame just when it holds both directions.
LEMMA SameTest ==
  ASSUME NEW rows, IsClip(rows), NEW rule, NEW frame \in SUBSET Qualified(rows, rule)
  PROVE  SqlExceeds(rows, frame) <=> Exceeds(rows, frame)
  <1> DEFINE directions == {rows[j].direction : j \in frame}
             codes == {DirCode(rows[j].direction) : j \in frame}
  <1>1. CASE frame = {}
    <2>1. ~(Cardinality(frame) > MaxTransitions)
      BY <1>1, FS_EmptySet, CriteriaAssumption
    <2> QED
      BY <2>1 DEF SqlExceeds, Exceeds
  <1>2. CASE frame # {}
    <2>1. \A j \in frame : rows[j].direction \in {"up", "down"}
      BY QualifiedType
    <2>2. codes = {DirCode(d) : d \in directions}
      OBVIOUS
    <2>3. DirCode("up") = 1 /\ DirCode("down") = 2
      BY DEF DirCode
    <2>4. directions # {} /\ directions \subseteq {"up", "down"}
      BY <1>2, <2>1
    <2>5. \/ directions = {"up", "down"} \/ directions = {"up"} \/ directions = {"down"}
      BY <2>4
    <2>6. CASE directions = {"up", "down"}
      <3>1. codes = {1, 2}
        BY <2>2, <2>3, <2>6
      <3>2. Min({1, 2}) = 1 /\ Max({1, 2}) = 2
        BY DEF Min, Max
      <3> HIDE DEF directions, codes
      <3>3. Min(codes) # Max(codes)
        BY <3>1, <3>2
      <3> QED
        BY <2>6, <3>3 DEF SqlExceeds, Exceeds, codes, directions
    <2>7. CASE directions = {"up"} \/ directions = {"down"}
      <3>1. codes = {1} \/ codes = {2}
        BY <2>2, <2>3, <2>7
      <3>2. Min({1}) = 1 /\ Max({1}) = 1 /\ Min({2}) = 2 /\ Max({2}) = 2
        BY DEF Min, Max
      <3>3. directions # {"up", "down"}
        <4>1. "up" \notin {"down"} /\ "down" \notin {"up"}
          OBVIOUS
        <4>2. "up" \notin directions \/ "down" \notin directions
          <5> HIDE DEF directions
          <5> QED
            BY <2>7, <4>1
        <4> HIDE DEF directions
        <4> QED
          BY <4>2
      <3> HIDE DEF directions, codes
      <3>4. Min(codes) = Max(codes)
        BY <3>1, <3>2
      <3> QED
        BY <3>3, <3>4 DEF SqlExceeds, Exceeds, codes, directions
    <2> QED
      BY <2>5, <2>6, <2>7
  <1> QED
    BY <1>1, <1>2

\* A window lies within the frame of its anchor: the frame adds the peers before it.
LEMMA WindowInFrame ==
  ASSUME NEW rows, IsClip(rows), NEW rule \in Rules, NEW i \in Qualified(rows, rule)
  PROVE  /\ WindowFrom(rows, rule, i) \subseteq SqlFrame(rows, rule, i)
         /\ SqlFrame(rows, rule, i) = {j \in Qualified(rows, rule) :
              rows[i].pts <= rows[j].pts /\ rows[j].pts < rows[i].pts + Span}
  <1>1. \A j \in Qualified(rows, rule) : j \in Nat /\ rows[j].pts \in Nat
    BY QualifiedType
  <1>2. SqlFrame(rows, rule, i) = {j \in Qualified(rows, rule) :
          rows[i].pts <= rows[j].pts /\ rows[j].pts < rows[i].pts + Span}
    BY <1>1, SameFilter, CriteriaAssumption DEF SqlFrame
  <1>3. ASSUME NEW j \in WindowFrom(rows, rule, i) PROVE rows[i].pts <= rows[j].pts
    BY <1>1, <1>3 DEF WindowFrom, Before
  <1> QED
    BY <1>2, <1>3 DEF WindowFrom

\* The first of a transition's peers has the frame of all of them as its window.
LEMMA FirstPeer ==
  ASSUME NEW rows, IsClip(rows), NEW rule \in Rules, NEW i \in Qualified(rows, rule)
  PROVE  \E p \in Qualified(rows, rule) :
           /\ rows[p].pts = rows[i].pts
           /\ \A j \in Qualified(rows, rule) : rows[j].pts = rows[p].pts => p <= j
           /\ WindowFrom(rows, rule, p) = SqlFrame(rows, rule, i)
  <1>1. \A j \in Qualified(rows, rule) : j \in Nat /\ rows[j].pts \in Nat
    BY QualifiedType
  <1> DEFINE peers == {j \in Qualified(rows, rule) : rows[j].pts = rows[i].pts}
  <1>2. PICK p \in peers : \A j \in peers : p <= j
    <2>1. peers \in SUBSET Nat /\ peers # {}
      BY <1>1
    <2> QED
      BY <2>1, LeastNumber
  <1>3. \A j \in Qualified(rows, rule) : ~Before(rows, j, p) <=> rows[i].pts <= rows[j].pts
    BY <1>1, <1>2 DEF Before
  <1>4. WindowFrom(rows, rule, p) = SqlFrame(rows, rule, i)
    BY <1>2, <1>3, WindowInFrame DEF WindowFrom
  <1> QED
    BY <1>2, <1>4

\* The detector and the statement report the same on every clip.
LEMMA SameViolations ==
  ASSUME NEW rows, IsClip(rows), NEW rule \in Rules
  PROVE  Detect(rows, rule) = SqlViolations(rows, rule)
  <1> DEFINE over == {i \in SqlQualifying(rows, rule) : SqlExceeds(rows, SqlFrame(rows, rule, i))}
             first == {i \in over : \A j \in over : rows[i].pts <= rows[j].pts}
             chosen == CHOOSE i \in first : TRUE
  <1>1. \A j \in Qualified(rows, rule) : j \in Nat /\ rows[j].pts \in Nat
    BY QualifiedType
  <1>2. over = {i \in Qualified(rows, rule) : Exceeds(rows, SqlFrame(rows, rule, i))}
    <2>1. ASSUME NEW i \in Qualified(rows, rule)
          PROVE  SqlExceeds(rows, SqlFrame(rows, rule, i)) <=> Exceeds(rows, SqlFrame(rows, rule, i))
      <3>1. SqlFrame(rows, rule, i) \in SUBSET Qualified(rows, rule)
        BY SameFilter DEF SqlFrame
      <3> QED
        BY <3>1, SameTest
    <2> QED
      BY <2>1, SameFilter
  <1>3. Over(rows, rule) \subseteq over
    <2> SUFFICES ASSUME NEW i \in Over(rows, rule) PROVE i \in over
      OBVIOUS
    <2>1. i \in Qualified(rows, rule) /\ Exceeds(rows, WindowFrom(rows, rule, i))
      BY DEF Over
    <2>2. Exceeds(rows, SqlFrame(rows, rule, i))
      BY <2>1, WindowInFrame, MoreExceeds DEF WindowFrom
    <2> QED
      BY <1>2, <2>1, <2>2
  <1>4. CASE over = {}
    BY <1>3, <1>4 DEF Detect, Over, SqlViolations
  <1>5. CASE over # {}
    <2>1. chosen \in first
      <3>1. {rows[i].pts : i \in over} \in SUBSET Nat /\ {rows[i].pts : i \in over} # {}
        BY <1>1, <1>2, <1>5
      <3>2. PICK i \in over : \A j \in over : rows[i].pts <= rows[j].pts
        <4> DEFINE times == {rows[i].pts : i \in over}
        <4>1. PICK t \in times : \A u \in times : t <= u
          <5> HIDE DEF times
          <5> QED
            BY <3>1, LeastNumber DEF times
        <4> QED
          BY <4>1
      <3> QED
        BY <3>2
    <2>2. chosen \in Qualified(rows, rule) /\ Exceeds(rows, SqlFrame(rows, rule, chosen))
      BY <1>2, <2>1
    <2>3. \A j \in Over(rows, rule) : rows[chosen].pts <= rows[j].pts
      BY <1>3, <2>1
    <2> HIDE DEF over, first, chosen
    <2>4. PICK p \in Qualified(rows, rule) :
            /\ rows[p].pts = rows[chosen].pts
            /\ \A j \in Qualified(rows, rule) : rows[j].pts = rows[p].pts => p <= j
            /\ WindowFrom(rows, rule, p) = SqlFrame(rows, rule, chosen)
      BY <2>2, FirstPeer
    <2>5. p \in Over(rows, rule)
      BY <2>2, <2>4 DEF Over
    <2>6. ASSUME NEW j \in Over(rows, rule) PROVE ~Before(rows, j, p) /\ (j # p => Before(rows, p, j))
      <3>1. rows[p].pts <= rows[j].pts /\ (rows[j].pts = rows[p].pts => p <= j)
        BY <2>3, <2>4 DEF Over
      <3> QED
        BY <1>1, <3>1 DEF Before, Over
    <2>7. {k \in Over(rows, rule) : \A j \in Over(rows, rule) : ~Before(rows, j, k)} = {p}
      BY <2>5, <2>6
    <2>8. Detect(rows, rule) = {ViolationAt(rows, rule, p)}
      BY <2>7 DEF Detect, Over
    <2>9. SqlViolations(rows, rule) =
            {[rule |-> rule, start |-> rows[chosen].pts,
              transitions |-> Cardinality(SqlFrame(rows, rule, chosen)),
              peak |-> Max({rows[j].area : j \in SqlFrame(rows, rule, chosen)})]}
      BY <1>5 DEF SqlViolations, over, first, chosen
    <2> QED
      BY <2>4, <2>8, <2>9 DEF ViolationAt
  <1> QED
    BY <1>4, <1>5

-----------------------------------------------------------------------------
(* The isolations. *)

\* A clip has at most one violation of a rule, and it starts at some time.
LEMMA OnePerRule ==
  ASSUME NEW rows, IsClip(rows)
  PROVE  /\ \A v \in DetectAll(rows) : v.rule \in Rules /\ v.start \in Nat
         /\ \A v, w \in DetectAll(rows) : v.rule = w.rule => v = w
  <1>1. ASSUME NEW rule \in Rules, NEW v \in Detect(rows, rule)
        PROVE  v.rule = rule /\ v.start \in Nat
    <2>1. PICK i \in Qualified(rows, rule) : v = ViolationAt(rows, rule, i)
      BY DEF Detect
    <2> QED
      BY <2>1, QualifiedType DEF ViolationAt
  <1>2. ASSUME NEW rule \in Rules, NEW v \in Detect(rows, rule), NEW w \in Detect(rows, rule)
        PROVE  v = w
    <2> DEFINE first == {k \in Over(rows, rule) : \A j \in Over(rows, rule) : ~Before(rows, j, k)}
    <2>1. PICK i \in first, k \in first : v = ViolationAt(rows, rule, i) /\ w = ViolationAt(rows, rule, k)
      BY DEF Detect, Over
    <2>2. /\ i \in Nat /\ k \in Nat /\ rows[i].pts \in Nat /\ rows[k].pts \in Nat
          /\ ~Before(rows, i, k) /\ ~Before(rows, k, i)
      BY QualifiedType DEF Over
    <2>3. i = k
      BY <2>2 DEF Before
    <2> QED
      BY <2>1, <2>3
  <1> QED
    BY <1>1, <1>2 DEF DetectAll

\* The isolations of two clips name the same violations: with at most one violation of a
\* rule, the partition window's first is the only one.
LEMMA SameIsolation ==
  ASSUME NEW parent, NEW child, IsClip(parent), IsClip(child)
  PROVE  /\ SqlAll(parent) = DetectAll(parent) /\ SqlAll(child) = DetectAll(child)
         /\ Regressions(DetectAll(parent), DetectAll(child))
              = SqlIsolated(DetectAll(parent), DetectAll(child))
         /\ Regressions(DetectAll(parent), DetectAll(child))
              = SqlAntiJoin(DetectAll(parent), DetectAll(child))
  <1> DEFINE Parent == DetectAll(parent)
             Child == DetectAll(child)
  <1>1. SqlAll(parent) = Parent /\ SqlAll(child) = Child
    BY SameViolations DEF SqlAll, DetectAll
  <1>2. /\ \A v \in Parent \cup Child : v.rule \in Rules /\ v.start \in Nat
        /\ \A v, w \in Parent : v.rule = w.rule => v = w
    BY OnePerRule
  <1> HIDE DEF Parent, Child
  <1>3. \A c \in Child, p \in Parent : Distance(p.start, c.start) = Distance(c.start, p.start)
    BY <1>2 DEF Distance
  <1>4. Regressions(Parent, Child) = SqlAntiJoin(Parent, Child)
    BY <1>3 DEF Regressions, SqlAntiJoin
  <1>5. ASSUME NEW c \in Child,
               NEW starts, starts = {p.start : p \in {q \in Parent : q.rule = c.rule}}
        PROVE  (starts = {} \/ Distance(c.start, Min(starts)) > Tolerance)
                 <=> ~\E p \in Parent : p.rule = c.rule /\ Distance(p.start, c.start) <= Tolerance
    <2>1. CASE \A p \in Parent : p.rule # c.rule
      BY <2>1, <1>5
    <2>2. ASSUME NEW p \in Parent, p.rule = c.rule
          PROVE  (starts = {} \/ Distance(c.start, Min(starts)) > Tolerance)
                   <=> ~(Distance(p.start, c.start) <= Tolerance)
      <3>1. starts = {p.start}
        BY <1>2, <1>5, <2>2
      <3>2. Min({p.start}) = p.start
        BY <1>2 DEF Min
      <3>3. Min(starts) = p.start
        BY <3>1, <3>2
      <3>4. Distance(p.start, c.start) \in Nat
        BY <1>2 DEF Distance
      <3> QED
        BY <3>1, <3>3, <3>4, <1>3, CriteriaAssumption
    <2>3. \A p, q \in Parent : p.rule = c.rule /\ q.rule = c.rule => p = q
      BY <1>2
    <2> QED
      BY <2>1, <2>2, <2>3
  <1>6. Regressions(Parent, Child) = SqlIsolated(Parent, Child)
    BY <1>5 DEF Regressions, SqlIsolated
  <1> QED
    BY <1>1, <1>4, <1>6 DEF Parent, Child

-----------------------------------------------------------------------------
(* The charts. *)

\* What is less than a second after a time is in its calendar second or the next.
LEMMA NextSecond ==
  ASSUME NEW a \in Nat, NEW b \in Nat, a <= b, b < a + Span
  PROVE  b \div Span = a \div Span \/ b \div Span = a \div Span + 1
  <1>1. Span \in Nat \ {0}
    BY CriteriaAssumption
  <1> QED
    BY <1>1, SMTT(30)

\* Two sets that cover a set have as many members as it, or more.
LEMMA Covered ==
  ASSUME NEW A, NEW B, NEW S, IsFiniteSet(A), IsFiniteSet(B), S \subseteq A \cup B
  PROVE  Cardinality(A) + Cardinality(B) >= Cardinality(S)
  <1>1. /\ IsFiniteSet(A \cup B) /\ IsFiniteSet(A \cap B)
        /\ Cardinality(A \cup B) = Cardinality(A) + Cardinality(B) - Cardinality(A \cap B)
    BY FS_Union, FS_Intersection
  <1>2. IsFiniteSet(S) /\ Cardinality(S) <= Cardinality(A \cup B)
    BY <1>1, FS_Subset
  <1>3. {Cardinality(A), Cardinality(B), Cardinality(A \cap B), Cardinality(S)} \subseteq Nat
    BY <1>1, <1>2, FS_CardinalityType
  <1> QED
    BY <1>1, <1>2, <1>3

\* A window is charted in full, in the second it starts in and the next.
LEMMA WindowIsCharted ==
  ASSUME NEW rows, IsClip(rows), NEW rule \in Rules, NEW i \in Qualified(rows, rule)
  PROVE  LET second == rows[i].pts \div Span
             count == Cardinality(WindowFrom(rows, rule, i))
         IN /\ PerSecond(rows, rule, second) + PerSecond(rows, rule, second + 1) >= count
            /\ SqlTimeline(rows, rule, second) + SqlTimeline(rows, rule, second + 1) >= count
  <1> DEFINE second == rows[i].pts \div Span
             window == WindowFrom(rows, rule, i)
             counted(k) == {j \in Qualified(rows, rule) : rows[j].pts \div Span = k}
             charted(k) == {j \in DOMAIN rows :
                /\ rows[j].pts \div Span = k
                /\ CASE rule = "general_flash" -> rows[j].luma >= LumaFloor
                     [] rule = "red_flash" -> rows[j].red >= RedFloor
                /\ rows[j].area >= AreaFloor /\ rows[j].direction # "flat"}
  <1>1. IsFiniteSet(Qualified(rows, rule)) /\ IsFiniteSet(DOMAIN rows)
    <2>1. DOMAIN rows = 1..Len(rows) /\ Len(rows) \in Nat
      BY DEF IsClip
    <2> QED
      BY <2>1, QualifiedType, FS_Interval, 1 \in Int
  <1>2. ASSUME NEW k PROVE IsFiniteSet(counted(k)) /\ IsFiniteSet(charted(k))
    BY <1>1, FS_Subset
  <1>3. ASSUME NEW k PROVE counted(k) \subseteq charted(k)
    <2>1. CASE rule = "general_flash"
      BY <2>1 DEF Qualified, Qualifies
    <2>2. CASE rule = "red_flash"
      BY <2>2 DEF Qualified, Qualifies
    <2> QED
      BY <2>1, <2>2 DEF Rules
  <1>4. window \subseteq counted(second) \cup counted(second + 1)
    <2> SUFFICES ASSUME NEW j \in window
                 PROVE  rows[j].pts \div Span = second \/ rows[j].pts \div Span = second + 1
      BY DEF WindowFrom
    <2>1. /\ i \in Nat /\ j \in Nat /\ rows[i].pts \in Nat /\ rows[j].pts \in Nat
          /\ ~Before(rows, j, i) /\ rows[j].pts < rows[i].pts + Span
      BY QualifiedType DEF WindowFrom
    <2>2. rows[i].pts <= rows[j].pts
      BY <2>1 DEF Before
    <2> QED
      BY <2>1, <2>2, NextSecond
  <1>5. window \subseteq charted(second) \cup charted(second + 1)
    BY <1>3, <1>4
  <1> HIDE DEF counted, charted, window, second
  <1>6. /\ Cardinality(counted(second)) + Cardinality(counted(second + 1)) >= Cardinality(window)
        /\ Cardinality(charted(second)) + Cardinality(charted(second + 1)) >= Cardinality(window)
    BY <1>2, <1>4, <1>5, Covered
  <1>7. ASSUME NEW k
        PROVE  /\ PerSecond(rows, rule, k) = Cardinality(counted(k))
               /\ SqlTimeline(rows, rule, k) = Cardinality(charted(k))
    BY DEF PerSecond, SqlTimeline, counted, charted
  <1> QED
    BY <1>6, <1>7 DEF second, window

-----------------------------------------------------------------------------
(* What is measured of frames is a clip. *)

\* A part of the pixels is a number of ten-thousandths.
LEMMA FractionType ==
  ASSUME NEW part \in SUBSET (1..Pixels) PROVE Fraction(part) \in Nat
  <1>1. Pixels \in Nat /\ Pixels > 0
    BY MeasureAssumption
  <1>2. IsFiniteSet(1..Pixels)
    BY <1>1, FS_Interval, 1 \in Int
  <1>3. Cardinality(part) \in Nat
    BY <1>2, FS_Subset, FS_CardinalityType
  <1> QED
    BY <1>1, <1>3 DEF Fraction

\* Rounding a quotient of numbers gives a number.
LEMMA RoundType ==
  ASSUME NEW n \in Nat, NEW d \in Nat \ {0} PROVE Round(n, d) \in Nat
  <1>1. n \div d \in Nat
    OBVIOUS
  <1> QED
    BY <1>1 DEF Round

\* A frame has a time.
LEMMA PtsType ==
  ASSUME NEW i \in Nat, NEW r \in Nat \ {0} PROVE Pts(i, r) \in Nat
  <1> DEFINE n == i * 1000000
  <1>1. n \in Nat
    BY SMT
  <1> HIDE DEF n
  <1>2. Round(n, r) \in Nat
    BY <1>1, RoundType, SMT
  <1> QED
    BY <1>2, SMT DEF Pts, n

\* A transition has an area and a direction.
LEMMA SampleType ==
  ASSUME NEW previous, NEW current
  PROVE  Sample(previous, current).area \in Nat /\ Sample(previous, current).direction \in Directions
  <1> DEFINE changed == Fraction(Changed(previous, current))
             red == Fraction(RedFlashMask(previous, current))
  <1>1. changed \in Nat /\ red \in Nat
    BY FractionType DEF Changed, RedFlashMask
  <1>2. Max({changed, red}) \in Nat
    <2> HIDE DEF changed, red
    <2>1. \E x \in {changed, red} : \A y \in {changed, red} : x >= y
      BY <1>1
    <2> QED
      BY <1>1, <2>1 DEF Max
  <1>3. Direction(previous, current) \in Directions
    BY DEF Direction, LumaHeading, RedHeading, Heading, Directions
  <1> QED
    BY <1>2, <1>3 DEF Sample

\* What is measured of one frame or more is a clip with one transition less.
LEMMA MeasuredIsClip ==
  ASSUME NEW frames \in Seq(DOMAIN Picture), Len(frames) >= 1, NEW r \in Nat \ {0}
  PROVE  /\ IsClip(FramesToTransitions(frames, r))
         /\ Len(FramesToTransitions(frames, r)) = Len(frames) - 1
  <1> DEFINE n == Len(frames) - 1
             row(i) == [Sampled[frames[i]][frames[i + 1]] EXCEPT !.pts = Pts(i, r)]
             rows == [i \in 1..n |-> row(i)]
  <1>1. n \in Nat
    OBVIOUS
  <1>2. ASSUME NEW i \in 1..n
        PROVE  row(i).pts \in Nat /\ row(i).area \in Nat /\ row(i).direction \in Directions
    <2>1. frames[i] \in DOMAIN Picture /\ frames[i + 1] \in DOMAIN Picture
      BY <1>1
    <2>2. Sampled[frames[i]][frames[i + 1]] = Sample(Picture[frames[i]], Picture[frames[i + 1]])
      BY <2>1 DEF Sampled
    <2>3. i \in Nat
      <3> HIDE DEF n
      <3> QED
        BY <1>1
    <2>4. Pts(i, r) \in Nat
      BY <2>3, PtsType
    <2>5. /\ row(i).pts = Pts(i, r)
          /\ row(i).area = Sample(Picture[frames[i]], Picture[frames[i + 1]]).area
          /\ row(i).direction = Sample(Picture[frames[i]], Picture[frames[i + 1]]).direction
      BY <2>2 DEF Sample
    <2> QED
      BY <2>4, <2>5, SampleType
  <1> HIDE DEF row
  <1>3. Len(rows) = n /\ DOMAIN rows = 1..n /\ \A i \in 1..n : rows[i] = row(i)
    BY <1>1
  <1>4. IsClip(rows)
    BY <1>1, <1>2, <1>3 DEF IsClip
  <1>5. FramesToTransitions(frames, r) = rows
    BY DEF FramesToTransitions, row
  <1> QED
    BY <1>3, <1>4, <1>5
=============================================================================

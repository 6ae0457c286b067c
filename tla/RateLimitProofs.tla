--------------------------- MODULE RateLimitProofs ---------------------------
(***************************************************************************)
(* RateInv is inductive, so the window bound and the fairness of refusals  *)
(* hold for every limit, window length and set of callers.                 *)
(***************************************************************************)
EXTENDS RateLimit, FiniteSetTheorems, TLAPS

\* The part of RateInv about one slot.
SlotInv(s) ==
  /\ IsFiniteSet(log[s])
  /\ calls[s] \subseteq log[s]
  /\ \A r \in log[s] : r.t <= clock /\ (clock - r.t < Window => r \in calls[s])
  /\ Cardinality(Recent(s)) <= Quota(s[1], "keyed")
  /\ Cardinality(Own(Recent(s), "anonymous")) <= Quota(s[1], "anonymous")

\* The part of WindowBound about one slot and one of its calls.
BoundFrom(s, t) ==
  /\ Cardinality(Own(InWindow(s, t), "anonymous")) <= Quota(s[1], "anonymous")
  /\ Cardinality(InWindow(s, t)) <= Quota(s[1], "keyed")
SlotBound(s) == \A r \in log[s] : BoundFrom(s, r.t)

\* A quota is a number, and a key raises it.
LEMMA QuotaType ==
  ASSUME NEW s \in Slots
  PROVE  /\ \A tier : Quota(s[1], tier) \in Nat \ {0}
         /\ \A tier : Quota(s[1], tier) <= Quota(s[1], "keyed")
  <1> DEFINE limit == Limit[s[1]]
  <1>1. limit \in Nat \ {0}
    BY LimitAssumption DEF Slots
  <1>2. limit * Multiplier \in Nat \ {0} /\ limit <= limit * Multiplier
    <2> HIDE DEF limit
    <2>1. Multiplier \in Nat /\ Multiplier >= 1
      BY LimitAssumption
    <2> QED
      BY <1>1, <2>1
  <1> QED
    BY <1>1, <1>2 DEF Quota

\* Under which name a call is counted and whose it is are the same name.
LEMMA SlotType ==
  ASSUME TypeOK, NEW b \in Buckets, NEW cred, NEW a \in Addresses, Identified(cred)
  PROVE  /\ SlotOf(b, cred, a) \in Slots /\ CallerSlot(b, cred, a) = SlotOf(b, cred, a)
         /\ SlotOf(b, cred, a)[1] = b /\ TierOf(cred) \in Tiers
  <1>1. CASE cred = None
    BY <1>1 DEF SlotOf, CallerSlot, Slots, Who, TierOf, Tiers
  <1>2. CASE cred # None
    <2>1. cred.id \in KeyIds
      BY <1>2 DEF Identified, TypeOK, Keys
    <2> QED
      BY <1>2, <2>1 DEF SlotOf, CallerSlot, Slots, Who, TierOf, Tiers
  <1> QED
    BY <1>1, <1>2

\* There is always an answer to start from.
LEMMA AnswerType ==
  \A status \in Statuses : Answer(status) \in [status : Statuses, slot : Slots, tier : Tiers]
  <1>0. PICK a \in Addresses : TRUE
    BY LimitAssumption
  <1>1. <<MintBucket, a>> \in Slots
    BY <1>0, LimitAssumption DEF Slots, Who
  <1>2. SomeSlot \in Slots
    BY <1>1 DEF SomeSlot
  <1> QED
    BY <1>2 DEF Answer, Tiers

\* The recent calls of the list are the recent calls of the history.
LEMMA RecentIsLogged ==
  ASSUME NEW s \in Slots, SlotInv(s)
  PROVE  /\ Recent(s) = {q \in log[s] : clock - q.t < Window}
         /\ IsFiniteSet(Recent(s)) /\ Cardinality(Recent(s)) \in Nat
         /\ Cardinality(Own(Recent(s), "anonymous")) \in Nat
  <1>1. Recent(s) = {q \in log[s] : clock - q.t < Window}
    BY DEF SlotInv, Recent
  <1>2. Recent(s) \subseteq log[s]
    BY <1>1
  <1>3. IsFiniteSet(Recent(s))
    BY <1>2, FS_Subset DEF SlotInv
  <1>4. IsFiniteSet(Own(Recent(s), "anonymous"))
    BY <1>3, FS_Subset DEF Own
  <1> QED
    BY <1>1, <1>3, <1>4, FS_CardinalityType

\* The initial state satisfies the invariant.
LEMMA InitRateInv == Init => RateInv
  <1> SUFFICES ASSUME Init PROVE RateInv
    OBVIOUS
  <1>1. TypeOK
    <2>1. 0 \in 0..MaxClock
      BY LimitAssumption
    <2>2. NoAnswer \in [status : Statuses, slot : Slots, tier : Tiers]
      BY AnswerType DEF NoAnswer, Statuses
    <2> QED
      BY <2>1, <2>2 DEF Init, TypeOK
  <1>2. ASSUME NEW s \in Slots PROVE SlotInv(s) /\ log[s] = {}
    <2>1. log[s] = {} /\ calls[s] = {} /\ Recent(s) = {} /\ Own(Recent(s), "anonymous") = {}
      BY DEF Init, Recent, Own
    <2>2. IsFiniteSet({}) /\ Cardinality({}) = 0
      BY FS_EmptySet
    <2> QED
      BY <2>1, <2>2, QuotaType DEF SlotInv
  <1>3. WindowBound
    BY <1>2 DEF WindowBound
  <1>4. RefusedOnlyWhenFull
    BY DEF Init, NoAnswer, Answer, RefusedOnlyWhenFull
  <1> QED
    BY <1>1, <1>2, <1>3, <1>4 DEF RateInv, SlotInv

\* A slot whose list, history and clock stay as they are keeps its invariant.
LEMMA SameSlot ==
  ASSUME NEW s \in Slots, SlotInv(s), SlotBound(s),
         calls'[s] = calls[s], log'[s] = log[s], UNCHANGED clock
  PROVE  SlotInv(s)' /\ SlotBound(s)'
  <1>1. Recent(s)' = Recent(s)
    BY DEF Recent
  <1>2. ASSUME NEW r \in log[s] PROVE InWindow(s, r.t)' = InWindow(s, r.t)
    BY DEF InWindow
  <1> QED
    BY <1>1, <1>2 DEF SlotInv, SlotBound, BoundFrom, Quota, Own

\* A set with one more element is one larger at most.
LEMMA OneMore ==
  ASSUME NEW S, IsFiniteSet(S), NEW x, NEW limit \in Nat, Cardinality(S) < limit
  PROVE  IsFiniteSet(S \cup {x}) /\ Cardinality(S \cup {x}) <= limit
  <1>1. /\ IsFiniteSet(S \cup {x})
        /\ Cardinality(S \cup {x}) = IF x \in S THEN Cardinality(S) ELSE Cardinality(S) + 1
    BY FS_AddElement
  <1>2. Cardinality(S) \in Nat
    BY FS_CardinalityType
  <1> QED
    BY <1>1, <1>2

\* A part is no larger than a number the whole is no larger than.
LEMMA PartWithin ==
  ASSUME NEW S, IsFiniteSet(S), NEW limit \in Nat, Cardinality(S) <= limit, NEW T \in SUBSET S
  PROVE  Cardinality(T) <= limit
  <1>1. IsFiniteSet(T) /\ Cardinality(T) <= Cardinality(S)
    BY FS_Subset
  <1>2. Cardinality(S) \in Nat /\ Cardinality(T) \in Nat
    BY <1>1, FS_CardinalityType
  <1> QED
    BY <1>1, <1>2

\* An admitted call keeps its slot within the quotas: whichever window it falls in
\* holds it and calls that were recent, fewer than its caller's quota; a call of a
\* key adds nothing to what anonymous callers had through.
LEMMA AdmittedSlot ==
  ASSUME TypeOK, NEW s \in Slots, SlotInv(s), SlotBound(s), NEW tier \in Tiers,
         NEW call, call.t = clock, call.tier = tier,
         Cardinality(Recent(s)) < Quota(s[1], tier),
         calls'[s] = Recent(s) \cup {call}, log'[s] = log[s] \cup {call}, UNCHANGED clock
  PROVE  SlotInv(s)' /\ SlotBound(s)'
  <1>0. clock \in Nat /\ Window \in Nat \ {0} /\ \A r \in log[s] : r.t \in Nat
    BY LimitAssumption DEF TypeOK, Calls
  <1> DEFINE New == Recent(s) \cup {call}
  <1>1. /\ IsFiniteSet(New) /\ Cardinality(New) <= Quota(s[1], tier)
        /\ Cardinality(New) <= Quota(s[1], "keyed")
    <2>1. IsFiniteSet(New) /\ Cardinality(New) <= Quota(s[1], tier)
      BY RecentIsLogged, OneMore, QuotaType
    <2>2. Cardinality(New) \in Nat
      BY <2>1, FS_CardinalityType
    <2> QED
      BY <2>1, <2>2, QuotaType
  <1>2. Cardinality(Own(New, "anonymous")) <= Quota(s[1], "anonymous")
    <2>1. CASE tier = "anonymous"
      BY <1>1, <2>1, PartWithin, QuotaType DEF Own
    <2>2. CASE tier # "anonymous"
      <3>1. Own(New, "anonymous") = Own(Recent(s), "anonymous")
        BY <2>2 DEF Own
      <3> QED
        BY <3>1 DEF SlotInv
    <2> QED
      BY <2>1, <2>2
  <1>3. SlotInv(s)'
    <2>1. IsFiniteSet(log'[s])
      BY FS_AddElement DEF SlotInv
    <2>2. calls'[s] \subseteq log'[s]
      BY DEF SlotInv, Recent
    <2>3. ASSUME NEW r \in log'[s]
          PROVE  r.t <= clock' /\ (clock' - r.t < Window => r \in calls'[s])
      BY <1>0 DEF SlotInv, Recent
    <2>4. Recent(s)' = New
      BY <1>0 DEF Recent
    <2>5. Own(Recent(s), "anonymous")' = Own(New, "anonymous")
      BY <2>4 DEF Own
    <2> HIDE DEF New
    <2> QED
      BY <1>1, <1>2, <2>1, <2>2, <2>3, <2>4, <2>5 DEF SlotInv, Quota
  <1>4. SlotBound(s)'
    <2> SUFFICES ASSUME NEW r \in log'[s] PROVE BoundFrom(s, r.t)'
      BY DEF SlotBound
    <2> DEFINE later == InWindow(s, r.t)'
    <2>0. r.t \in Nat /\ r.t <= clock
      BY <1>0 DEF SlotInv
    <2>1. CASE clock - r.t < Window
      <3>1. later \subseteq New
        BY <1>0, <2>0, <2>1, RecentIsLogged DEF InWindow
      <3>2. Own(later, "anonymous") \subseteq Own(New, "anonymous")
        BY <3>1 DEF Own
      <3>3. IsFiniteSet(Own(New, "anonymous"))
        BY <1>1, FS_Subset DEF Own
      <3>4. Cardinality(later) <= Quota(s[1], "keyed")
        BY <1>1, <3>1, PartWithin, QuotaType
      <3>5. Cardinality(Own(later, "anonymous")) <= Quota(s[1], "anonymous")
        <4> DEFINE whole == Own(New, "anonymous")
                   part == Own(later, "anonymous")
        <4>1. IsFiniteSet(whole) /\ Cardinality(whole) <= Quota(s[1], "anonymous")
          BY <1>2, <3>3
        <4>2. part \subseteq whole /\ Quota(s[1], "anonymous") \in Nat
          BY <3>2, QuotaType
        <4> HIDE DEF whole, part
        <4>3. Cardinality(part) <= Quota(s[1], "anonymous")
          BY <4>1, <4>2, PartWithin
        <4> QED
          BY <4>3 DEF part
      <3> QED
        BY <3>4, <3>5 DEF BoundFrom, Quota, Own
    <2>2. CASE clock - r.t >= Window
      <3>1. r \in log[s]
        BY <1>0, <2>2
      <3>2. later = InWindow(s, r.t)
        BY <1>0, <2>0, <2>2 DEF InWindow
      <3> QED
        BY <3>1, <3>2 DEF SlotBound, BoundFrom, Quota, Own
    <2> QED
      BY <1>0, <2>0, <2>1, <2>2
  <1> QED
    BY <1>3, <1>4

\* As time passes calls leave the window; none enters it.
LEMMA AgedSlot ==
  ASSUME TypeOK, NEW s \in Slots, SlotInv(s), SlotBound(s),
         calls'[s] = calls[s], log'[s] = log[s], clock' = clock + 1
  PROVE  SlotInv(s)' /\ SlotBound(s)'
  <1>0. clock \in Nat /\ Window \in Nat \ {0} /\ \A r \in log[s] : r.t \in Nat
    BY LimitAssumption DEF TypeOK, Calls
  <1>1. Recent(s)' \subseteq Recent(s)
    BY <1>0 DEF Recent, SlotInv
  <1>2. Cardinality(Recent(s)') <= Quota(s[1], "keyed")
    BY <1>1, RecentIsLogged, PartWithin, QuotaType DEF SlotInv
  <1>3. Cardinality(Own(Recent(s)', "anonymous")) <= Quota(s[1], "anonymous")
    <2>1. Own(Recent(s)', "anonymous") \subseteq Own(Recent(s), "anonymous")
      BY <1>1 DEF Own
    <2>2. IsFiniteSet(Own(Recent(s), "anonymous"))
      BY RecentIsLogged, FS_Subset DEF Own
    <2> QED
      BY <2>1, <2>2, PartWithin, QuotaType DEF SlotInv
  <1>4. SlotInv(s)'
    BY <1>0, <1>2, <1>3 DEF SlotInv, Quota, Own
  <1>5. ASSUME NEW r \in log[s] PROVE InWindow(s, r.t)' = InWindow(s, r.t)
    BY DEF InWindow
  <1>6. SlotBound(s)'
    BY <1>5 DEF SlotBound, BoundFrom, Quota, Own
  <1> QED
    BY <1>4, <1>6

\* A slot of a new process is empty.
LEMMA EmptySlot ==
  ASSUME NEW s \in Slots, calls'[s] = {}, log'[s] = {}
  PROVE  SlotInv(s)' /\ SlotBound(s)'
  <1>1. Recent(s)' = {} /\ Own(Recent(s), "anonymous")' = {}
    BY DEF Recent, Own
  <1>2. IsFiniteSet({}) /\ Cardinality({}) = 0
    BY FS_EmptySet
  <1>3. Quota(s[1], "keyed")' \in Nat /\ Quota(s[1], "anonymous")' \in Nat
    BY QuotaType DEF Quota
  <1> QED
    BY <1>1, <1>2, <1>3 DEF SlotInv, SlotBound

\* The type invariant, for every action of Next.
LEMMA NextTypes ==
  ASSUME RateInv, Next
  PROVE  TypeOK'
  <1>0. TypeOK /\ \A s \in Slots : IsFiniteSet(log[s])
    BY DEF RateInv
  <1>1. ASSUME NEW b \in Buckets, NEW cred, NEW a \in Addresses,
               served < MaxCalls, Admit(b, cred, a)
        PROVE  TypeOK'
    <2> DEFINE slot == SlotOf(b, cred, a)
               call == [n |-> Cardinality(log[slot]), t |-> clock, tier |-> TierOf(cred)]
    <2>1. slot \in Slots /\ CallerSlot(b, cred, a) = slot /\ slot[1] = b /\ TierOf(cred) \in Tiers
      BY <1>0, <1>1, SlotType DEF Admit
    <2>2. call \in Calls
      BY <1>0, <2>1, FS_CardinalityType DEF TypeOK, Calls
    <2>3. calls' \in [Slots -> SUBSET Calls]
      <3>1. calls' = [calls EXCEPT ![slot] = Recent(slot) \cup {call}]
        BY <1>1, <2>1 DEF Admit
      <3>2. Recent(slot) \cup {call} \subseteq Calls
        BY <1>0, <2>1, <2>2 DEF TypeOK, Recent
      <3> HIDE DEF slot, call
      <3> QED
        BY <1>0, <3>1, <3>2 DEF TypeOK
    <2>4. log' \in [Slots -> SUBSET Calls]
      <3>1. log' = [log EXCEPT ![slot] = @ \cup {call}]
        BY <1>1, <2>1 DEF Admit
      <3> HIDE DEF slot, call
      <3> QED
        BY <1>0, <2>1, <2>2, <3>1 DEF TypeOK
    <2>5. keys' \subseteq Keys
      <3>1. CASE UNCHANGED keys
        BY <1>0, <3>1 DEF TypeOK
      <3>2. CASE b = MintBucket /\ secret # NoSecret /\ Mint
        BY <1>0, <3>2 DEF TypeOK, Mint, Keys
      <3> QED
        BY <1>1, <3>1, <3>2 DEF Admit
    <2>6. last' \in [status : Statuses, slot : Slots, tier : Tiers]
      <3>1. last' = Answer("unavailable") \/ last' = Answer("admitted")
        BY <1>1 DEF Admit
      <3> QED
        BY <3>1, AnswerType DEF Statuses
    <2>7. served' \in 0..MaxCalls
      <3>1. served \in Nat /\ served <= MaxCalls /\ served < MaxCalls /\ served' = served + 1
        BY <1>0, <1>1, LimitAssumption DEF Admit, TypeOK
      <3> QED
        BY <3>1, LimitAssumption
    <2> QED
      BY <1>0, <1>1, <2>3, <2>4, <2>5, <2>6, <2>7 DEF Admit, TypeOK
  <1>2. ASSUME NEW b \in Buckets, NEW cred, NEW a \in Addresses, Limited(b, cred, a)
        PROVE  TypeOK'
    <2>1. CallerSlot(b, cred, a) \in Slots /\ TierOf(cred) \in Tiers
      BY <1>0, <1>2, SlotType DEF Limited
    <2> QED
      BY <1>0, <1>2, <2>1 DEF Limited, TypeOK, Statuses
  <1>3. ASSUME NEW b \in Buckets, NEW cred, NEW a \in Addresses, Invalid(b, cred, a)
        PROVE  TypeOK'
    BY <1>0, <1>3, AnswerType DEF Invalid, TypeOK, Statuses
  <1>4. CASE Tick
    BY <1>0, <1>4, AnswerType, LimitAssumption DEF Tick, TypeOK, NoAnswer, Statuses
  <1>5. ASSUME changes < MaxChanges, changes' = changes + 1 PROVE changes' \in 0..MaxChanges
    BY <1>0, <1>5, LimitAssumption DEF TypeOK
  <1>6. CASE WallMoves
    <2>1. last' = Answer("none") /\ "none" \in Statuses
      BY <1>6 DEF WallMoves, NoAnswer, Statuses
    <2> QED
      BY <1>0, <1>5, <1>6, <2>1, AnswerType DEF WallMoves, TypeOK
  <1>7. CASE Restart
    <2>1. last' = Answer("none") /\ "none" \in Statuses
      BY <1>7 DEF Restart, NoAnswer, Statuses
    <2> QED
      BY <1>0, <1>5, <1>7, <2>1, AnswerType DEF Restart, TypeOK
  <1> QED
    BY <1>1, <1>2, <1>3, <1>4, <1>6, <1>7 DEF Next, Guard

\* RateInv, slot by slot.
LEMMA BySlot ==
  RateInv <=> TypeOK /\ (\A s \in Slots : SlotInv(s) /\ SlotBound(s)) /\ RefusedOnlyWhenFull
  BY DEF RateInv, SlotInv, SlotBound, BoundFrom, WindowBound

\* Every slot keeps its part of the invariant, for every action of Next.
LEMMA NextSlots ==
  ASSUME RateInv, Next, NEW s \in Slots
  PROVE  SlotInv(s)' /\ SlotBound(s)'
  <1>0. TypeOK /\ SlotInv(s) /\ SlotBound(s)
    BY BySlot
  <1>1. ASSUME NEW b \in Buckets, NEW cred, NEW a \in Addresses, Admit(b, cred, a)
        PROVE  SlotInv(s)' /\ SlotBound(s)'
    <2> DEFINE slot == SlotOf(b, cred, a)
               call == [n |-> Cardinality(log[slot]), t |-> clock, tier |-> TierOf(cred)]
    <2>1. slot \in Slots /\ CallerSlot(b, cred, a) = slot /\ slot[1] = b /\ TierOf(cred) \in Tiers
      BY <1>0, <1>1, SlotType DEF Admit
    <2>2. /\ calls' = [calls EXCEPT ![slot] = Recent(slot) \cup {call}]
          /\ log' = [log EXCEPT ![slot] = @ \cup {call}]
          /\ Cardinality(Recent(slot)) < Quota(slot[1], TierOf(cred)) /\ UNCHANGED clock
      BY <1>1, <2>1 DEF Admit
    <2>3. call.t = clock /\ call.tier = TierOf(cred)
      OBVIOUS
    <2> HIDE DEF slot, call
    <2>4. CASE s = slot
      <3>1. calls'[s] = Recent(s) \cup {call} /\ log'[s] = log[s] \cup {call}
        BY <1>0, <2>2, <2>4 DEF TypeOK
      <3> QED
        BY <1>0, <2>1, <2>2, <2>3, <2>4, <3>1, AdmittedSlot
    <2>5. CASE s # slot
      <3>1. calls'[s] = calls[s] /\ log'[s] = log[s]
        BY <1>0, <2>2, <2>5 DEF TypeOK
      <3> QED
        BY <1>0, <2>2, <3>1, SameSlot
    <2> QED
      BY <2>4, <2>5
  <1>2. CASE UNCHANGED <<clock, calls, log>>
    BY <1>0, <1>2, SameSlot
  <1>3. CASE Tick
    BY <1>0, <1>3, AgedSlot DEF Tick
  <1>4. CASE Restart
    BY <1>4, EmptySlot DEF Restart
  <1> QED
    BY <1>1, <1>2, <1>3, <1>4 DEF Next, Guard, Limited, Invalid, WallMoves

\* A refusal finds the window of the caller's own name full.
LEMMA NextRefusals ==
  ASSUME RateInv, Next
  PROVE  RefusedOnlyWhenFull'
  <1>0. TypeOK /\ \A s \in Slots : SlotInv(s)
    BY BySlot
  <1>1. ASSUME NEW b \in Buckets, NEW cred, NEW a \in Addresses, Limited(b, cred, a)
        PROVE  RefusedOnlyWhenFull'
    <2> DEFINE slot == SlotOf(b, cred, a)
               tier == TierOf(cred)
    <2>1. /\ slot \in Slots /\ CallerSlot(b, cred, a) = slot /\ slot[1] = b
          /\ tier \in Tiers
      BY <1>0, <1>1, SlotType DEF Limited
    <2>2. /\ Cardinality(Recent(slot)) >= Quota(slot[1], tier)
          /\ last' = [status |-> "limited", slot |-> slot, tier |-> tier]
          /\ UNCHANGED <<clock, log>>
      BY <1>1, <2>1 DEF Limited
    <2> HIDE DEF slot, tier
    <2>3. Fill' = Recent(slot)
      BY <1>0, <2>1, <2>2, RecentIsLogged DEF Fill
    <2>4. ASSUME Recent(slot) = Own(Recent(slot), tier)
          PROVE  Cardinality(Recent(slot)) = Quota(slot[1], tier)
      <3>1. Cardinality(Recent(slot)) \in Nat /\ Quota(slot[1], tier) \in Nat
        BY <1>0, <2>1, RecentIsLogged, QuotaType
      <3>2. Cardinality(Recent(slot)) <= Quota(slot[1], tier)
        BY <1>0, <2>1, <2>4 DEF SlotInv, Tiers
      <3> QED
        BY <2>2, <3>1, <3>2
    <2>5. last'.slot = slot /\ last'.tier = tier
      BY <2>2
    <2>6. Quota(last.slot[1], last.tier)' = Quota(slot[1], tier)
      BY <2>5 DEF Quota
    <2>7. Own(Fill, last.tier)' = Own(Recent(slot), tier)
      BY <2>3, <2>5 DEF Own
    <2> QED
      BY <2>2, <2>3, <2>4, <2>6, <2>7 DEF RefusedOnlyWhenFull
  <1>2. CASE last'.status # "limited"
    BY <1>2 DEF RefusedOnlyWhenFull
  <1> QED
    BY <1>1, <1>2 DEF Next, Guard, Admit, Invalid, Tick, WallMoves, Restart, NoAnswer, Answer

\* A stuttering step preserves the invariant.
LEMMA StutterRateInv == ASSUME RateInv, UNCHANGED vars PROVE RateInv'
  <1>1. TypeOK'
    BY DEF RateInv, vars, TypeOK
  <1>2. ASSUME NEW s \in Slots PROVE SlotInv(s)' /\ SlotBound(s)'
    BY <1>2, BySlot, SameSlot DEF vars
  <1>3. RefusedOnlyWhenFull'
    BY DEF RateInv, vars, RefusedOnlyWhenFull, Fill, Own, Quota
  <1> QED
    BY <1>1, <1>2, <1>3 DEF RateInv, SlotInv, SlotBound, BoundFrom, WindowBound

\* The limiter's invariant (main.py:158-183), for every limit, window and caller.
THEOREM RateSafety == Spec => []RateInv
  <1>1. RateInv /\ [Next]_vars => RateInv'
    <2> SUFFICES ASSUME RateInv, [Next]_vars PROVE RateInv'
      OBVIOUS
    <2>1. CASE Next
      <3>1. TypeOK' /\ RefusedOnlyWhenFull'
        BY <2>1, NextTypes, NextRefusals
      <3>2. ASSUME NEW s \in Slots PROVE SlotInv(s)' /\ SlotBound(s)'
        BY <2>1, <3>2, NextSlots
      <3> QED
        BY <3>1, <3>2 DEF RateInv, SlotInv, SlotBound, BoundFrom, WindowBound
    <2>2. CASE UNCHANGED vars
      BY <2>2, StutterRateInv
    <2> QED
      BY <2>1, <2>2
  <1> QED
    BY InitRateInv, <1>1, PTL DEF Spec

\* Every variable keeps its type, for any endpoints, callers, keys and secrets.
THEOREM TypeCorrect == Spec => []TypeOK
  <1>1. RateInv => TypeOK
    BY DEF RateInv
  <1> QED
    BY RateSafety, <1>1, PTL

\* No caller gets more than its quota through in any window of window_s, nor a key and
\* whoever goes by its name more than the key's.
THEOREM WindowsAreBounded == Spec => []WindowBound
  <1>1. RateInv => WindowBound
    BY DEF RateInv
  <1> QED
    BY RateSafety, <1>1, PTL

\* No caller is turned away while the recent calls under its name leave room; they are
\* its own unless another goes by its name.
THEOREM RefusalsAreOwn == Spec => []RefusedOnlyWhenFull
  <1>1. RateInv => RefusedOnlyWhenFull
    BY DEF RateInv
  <1> QED
    BY RateSafety, <1>1, PTL
=============================================================================

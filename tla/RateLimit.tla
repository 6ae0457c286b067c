------------------------------ MODULE RateLimit ------------------------------
(***************************************************************************)
(* safe_frame/main.py rate_limit and safe_frame/apikeys.py: the sliding    *)
(* window in front of the endpoints that spend model tokens or write, and  *)
(* the stateless keys that raise it.  A call is kept with its time and a   *)
(* serial number: _CALLS holds a list, where two calls may share a time.   *)
(* _CALLS is keyed by a name, a key's id or whatever the client says its   *)
(* address is, so a call that sends no key may go by the name of one.      *)
(***************************************************************************)
EXTENDS Integers, FiniteSets

CONSTANTS Buckets,     \* the limited endpoints
          MintBucket,  \* /v1/keys, the one that issues keys
          None,        \* the credential of a call that sends none
          Broken,      \* a credential malformed, or signed with no secret of ours
          Limit,       \* calls per window of an anonymous caller, per bucket
          Multiplier,  \* TIER_MULTIPLIER["keyed"]
          Window,      \* window_s
          Addresses,   \* what _client_key returns: the client's to choose, a key's id even
          KeyIds,      \* key identifiers, unique per minted key
          Secrets,     \* signing secrets a deployment may be configured with
          NoSecret,    \* none configured
          MaxAge,      \* MAX_AGE_DAYS
          MaxClock, MaxWall, \* bounds: of the two clocks
          MaxCalls,    \* bound: the last call that is admitted
          MaxChanges   \* bound: the last redeploy or move of the wall clock

Skew == 1  \* how far ahead an issue time may be: the 300 s, one unit of wall

ASSUME LimitAssumption ==
  /\ MintBucket \in Buckets
  /\ Limit \in [Buckets -> Nat \ {0}]
  /\ Multiplier \in Nat \ {0} /\ Window \in Nat \ {0}
  /\ MaxAge \in Nat /\ MaxClock \in Nat /\ MaxWall \in Nat \ {0}
  /\ MaxCalls \in Nat /\ MaxChanges \in Nat
  /\ Addresses # {}
  /\ NoSecret \notin Secrets

VARIABLES clock,    \* time.monotonic()
          wall,     \* time.time(), in coarse units; it may be set back
          secret,   \* SAFE_FRAME_API_KEY_SECRET
          keys,     \* the minted keys that callers hold; the service stores none
          calls,    \* _CALLS
          served, changes,  \* how many of the calls and changes there have been
          log,      \* history: every call this process admitted, by bucket and name
          last      \* history: the latest answer of the guard, and to whom

vars == <<clock, wall, secret, keys, calls, served, changes, log, last>>

Who == Addresses \cup KeyIds
Slots == Buckets \X Who
Tiers == {"anonymous", "keyed"}
Calls == [n : Nat, t : 0..MaxClock, tier : Tiers]
Keys == [id : KeyIds, issued : 1..MaxWall, secret : Secrets]
Statuses == {"none", "admitted", "limited", "invalid", "unavailable"}

SomeSlot == CHOOSE s \in Slots : TRUE
Answer(status) == [status |-> status, slot |-> SomeSlot, tier |-> "anonymous"]
NoAnswer == Answer("none")

\* verify: is the key usable now.  The signature covers id and issue time.
Usable(key) ==
  /\ key.secret = secret
  /\ key.issued <= wall + Skew
  /\ wall - key.issued <= MaxAge

\* identify: no credential is the anonymous tier, a broken one is refused.
Identified(cred) == cred = None \/ (cred \in keys /\ secret # NoSecret /\ Usable(cred))

TierOf(cred) == IF cred = None THEN "anonymous" ELSE "keyed"

\* Mutant of SlotOf: keyed calls counted by the address they come from.
SlotByAddress(b, cred, a) == <<b, a>>

\* A keyed caller counts under its key's id, an anonymous one under its address.
SlotOf(b, cred, a) == IF cred = None THEN <<b, a>> ELSE <<b, cred.id>>

\* Whose call it is, for the histories: with the tier, it tells any two callers apart.
CallerSlot(b, cred, a) == IF cred = None THEN <<b, a>> ELSE <<b, cred.id>>

\* effective: the limit times the multiplier of the caller's tier.
Quota(b, tier) == IF tier = "keyed" THEN Limit[b] * Multiplier ELSE Limit[b]

\* Mutant of Recent: fixed windows instead of a sliding one.
RecentAligned(slot) == {r \in calls[slot] : r.t \div Window = clock \div Window}

\* The calls still in the window; the list keeps no others (main.py:165).
Recent(slot) == {r \in calls[slot] : clock - r.t < Window}

Init ==
  /\ clock = 0 /\ wall \in 1..MaxWall
  /\ secret \in Secrets \cup {NoSecret}
  /\ keys = {}
  /\ calls = [s \in Slots |-> {}]
  /\ log = [s \in Slots |-> {}]
  /\ served \in 0..MaxCalls /\ changes \in 0..MaxChanges
  /\ last = NoAnswer

\* mint: a new key, which its caller holds on to or throws away.
Mint ==
  \/ \E id \in KeyIds \ {k.id : k \in keys} :
       keys' = keys \cup {[id |-> id, issued |-> wall, secret |-> secret]}
  \/ UNCHANGED keys

\* Mutant of Admit: a key is minted whether or not there is a secret to sign it with.
AdmitAndMint(b, cred, a) ==
  LET slot == SlotOf(b, cred, a)
      own == CallerSlot(b, cred, a)
      call == [n |-> Cardinality(log[own]), t |-> clock, tier |-> TierOf(cred)]
  IN /\ Identified(cred)
     /\ Cardinality(Recent(slot)) < Quota(b, TierOf(cred))
     /\ calls' = [calls EXCEPT ![slot] = Recent(slot) \cup {call}]
     /\ log' = [log EXCEPT ![own] = @ \cup {call}]
     /\ IF b = MintBucket THEN Mint ELSE UNCHANGED keys
     /\ last' = Answer("admitted")
     /\ served' = served + 1
     /\ UNCHANGED <<clock, wall, secret, changes>>

\* The guard admits the call, and records it.  POST /v1/keys then mints a key, if
\* there is a secret to sign it with.
Admit(b, cred, a) ==
  LET slot == SlotOf(b, cred, a)
      own == CallerSlot(b, cred, a)
      call == [n |-> Cardinality(log[own]), t |-> clock, tier |-> TierOf(cred)]
  IN /\ Identified(cred)
     /\ Cardinality(Recent(slot)) < Quota(b, TierOf(cred))
     /\ calls' = [calls EXCEPT ![slot] = Recent(slot) \cup {call}]
     /\ log' = [log EXCEPT ![own] = @ \cup {call}]
     /\ IF b = MintBucket /\ secret # NoSecret THEN Mint ELSE UNCHANGED keys
     /\ last' = Answer(IF b = MintBucket /\ secret = NoSecret THEN "unavailable" ELSE "admitted")
     /\ served' = served + 1
     /\ UNCHANGED <<clock, wall, secret, changes>>

\* 429: the window is full.  Nothing is recorded.
Limited(b, cred, a) ==
  LET slot == SlotOf(b, cred, a)
  IN /\ Identified(cred)
     /\ Cardinality(Recent(slot)) >= Quota(b, TierOf(cred))
     /\ last' = [status |-> "limited", slot |-> CallerSlot(b, cred, a), tier |-> TierOf(cred)]
     /\ UNCHANGED <<clock, wall, secret, keys, calls, served, changes, log>>

\* 401: a credential that does not verify.
Invalid(b, cred, a) ==
  /\ ~Identified(cred)
  /\ last' = Answer("invalid")
  /\ UNCHANGED <<clock, wall, secret, keys, calls, served, changes, log>>

Guard(b, cred, a) ==
  \/ served < MaxCalls /\ Admit(b, cred, a)
  \/ Limited(b, cred, a)
  \/ Invalid(b, cred, a)

Tick ==
  /\ clock < MaxClock
  /\ clock' = clock + 1
  /\ last' = NoAnswer
  /\ UNCHANGED <<wall, secret, keys, calls, served, changes, log>>

\* The wall clock moves on, or is set back.
WallMoves ==
  /\ changes < MaxChanges /\ changes' = changes + 1
  /\ wall' \in {wall - 1, wall + 1} \cap 1..MaxWall
  /\ last' = NoAnswer
  /\ UNCHANGED <<clock, secret, keys, calls, served, log>>

\* A redeploy: the process loses _CALLS, the keys live on if the secret does.
Restart ==
  /\ changes < MaxChanges /\ changes' = changes + 1
  /\ secret' \in Secrets \cup {NoSecret}
  /\ calls' = [s \in Slots |-> {}]
  /\ log' = [s \in Slots |-> {}]
  /\ last' = NoAnswer
  /\ UNCHANGED <<clock, wall, keys, served>>

Next ==
  \/ \E b \in Buckets, cred \in keys \cup {None, Broken}, a \in Addresses : Guard(b, cred, a)
  \/ Tick \/ WallMoves \/ Restart

Spec == Init /\ [][Next]_vars

-----------------------------------------------------------------------------
(* Properties. *)

\* Every variable has its type; the calls a slot holds are calls it admitted.
TypeOK ==
  /\ clock \in 0..MaxClock /\ wall \in 1..MaxWall
  /\ secret \in Secrets \cup {NoSecret}
  /\ keys \subseteq Keys
  /\ calls \in [Slots -> SUBSET Calls]
  /\ log \in [Slots -> SUBSET Calls]
  /\ served \in 0..MaxCalls /\ changes \in 0..MaxChanges
  /\ last \in [status : Statuses, slot : Slots, tier : Tiers]

\* The calls under a name that are of one tier: those of one caller.
Own(admitted, tier) == {q \in admitted : q.tier = tier}
InWindow(s, t) == {q \in log[s] : t <= q.t /\ q.t - t < Window}

\* However calls are timed, no caller gets more than its quota through in any window of
\* window_s, sliding: starting with any call under its name; and a key and an anonymous
\* caller that share a name get no more than the key's quota between them (main.py:158-183).
WindowBound ==
  \A s \in Slots : \A r \in log[s] :
    /\ Cardinality(Own(InWindow(s, r.t), "anonymous")) <= Quota(s[1], "anonymous")
    /\ Cardinality(InWindow(s, r.t)) <= Quota(s[1], "keyed")

\* The calls of the last window in the name that was refused.
Fill == {q \in log[last.slot] : clock - q.t < Window}

\* A caller is turned away only when the calls admitted under its own name in the last
\* window fill its quota: refused calls, callers behind the same address, other names and
\* other endpoints never count against it ("Keyed callers get their own bucket",
\* main.py:162-163).  The calls are its own, exactly its quota, unless a caller of the
\* other tier goes by the same name.
RefusedOnlyWhenFull ==
  last.status = "limited" =>
    /\ Cardinality(Fill) >= Quota(last.slot[1], last.tier)
    /\ Fill = Own(Fill, last.tier) => Cardinality(Fill) = Quota(last.slot[1], last.tier)

\* What makes both inductive: of the calls admitted, the list holds all that are
\* still in the window, never more than the quotas, and none comes from the future.
RateInv ==
  /\ TypeOK
  /\ \A s \in Slots :
       /\ IsFiniteSet(log[s])
       /\ calls[s] \subseteq log[s]
       /\ \A r \in log[s] : r.t <= clock /\ (clock - r.t < Window => r \in calls[s])
       /\ Cardinality(Recent(s)) <= Quota(s[1], "keyed")
       /\ Cardinality(Own(Recent(s), "anonymous")) <= Quota(s[1], "anonymous")
  /\ WindowBound
  /\ RefusedOnlyWhenFull
=============================================================================

-------------------------- MODULE HealthCacheProofs --------------------------
(***************************************************************************)
(* The cache of the probes, for any number of requests, any deployment and *)
(* any lifetime of a cached value.                                         *)
(***************************************************************************)
EXTENDS HealthCache, TLAPS

\* The handler has its integrations.
Told == {"version", "tools", "done"}

-----------------------------------------------------------------------------
(* The inductive invariant. *)

\* An answer is that of the service now, unless it changed since the request came in.
AnswersShow ==
  \A r \in Requests :
    pc[r] \in Services /\ answer[r] # "none" /\ since[pc[r]] < asked[r] =>
      (answer[r] = "ok" <=> up[pc[r]])

\* So is what the first probe left for the end of the second.
ProbeShows ==
  \A r \in Requests :
    pc[r] = "vertex" /\ since["clickhouse"] < asked[r] => value[r]["clickhouse"] = up["clickhouse"]

\* What is cached is right of every service that has not changed since it is dated.
CacheShows ==
  cache.held => \A s \in Services : since[s] < cache.checked => cache.value[s] = up[s]

ToldShows ==
  \A r \in Requests : pc[r] \in Told =>
    \A s \in Services : since[s] <= asked[r] - TTL => value[r][s] = up[s]

ShowInv == AnswersShow /\ ProbeShows /\ CacheShows /\ ToldShows

\* A request that asked nothing has no answers.
NothingAsked == \A r \in Requests : pc[r] = "idle" => trips[r] = {} /\ answer[r] = "none"

\* An answer, and what the first probe left, come of a round trip of this request.
AnswersEarned ==
  \A r \in Requests :
    /\ pc[r] \in Services /\ answer[r] = "ok" => pc[r] \in trips[r]
    /\ pc[r] = "vertex" /\ value[r]["clickhouse"] => "clickhouse" \in trips[r]

\* What is cached as live answered a request that came in no earlier than it is dated.
CacheEarned ==
  cache.held => \A s \in Services : cache.value[s] =>
    \E q \in Requests : s \in trips[q] /\ asked[q] >= cache.checked

ToldEarned ==
  \A r \in Requests : pc[r] \in Told =>
    \A s \in Services : value[r][s] =>
      \E q \in Requests : s \in trips[q] /\ asked[q] > asked[r] - TTL

EarnedInv == NothingAsked /\ AnswersEarned /\ CacheEarned /\ ToldEarned

HealthInv == TypeOK /\ ShowInv /\ EarnedInv

-----------------------------------------------------------------------------
(* Types. *)

\* Setting one probe's outcome leaves the other's, and the other requests, alone.
LEMMA ProbeResult ==
  ASSUME TypeOK, NEW r \in Requests, NEW s \in Services,
         value' = [value EXCEPT ![r][s] = answer[r] = "ok"]
  PROVE  /\ value' \in [Requests -> [Services -> BOOLEAN]]
         /\ value'[r][s] <=> answer[r] = "ok"
         /\ \A t \in Services : t # s => value'[r][t] = value[r][t]
         /\ \A q \in Requests : q # r => value'[q] = value[q]
  <1> DEFINE outcome == answer[r] = "ok"
             probed == [value[r] EXCEPT ![s] = outcome]
  <1>1. value \in [Requests -> [Services -> BOOLEAN]]
    BY DEF TypeOK
  <1>2. outcome \in BOOLEAN
    OBVIOUS
  <1>3. value' = [value EXCEPT ![r] = probed]
    OBVIOUS
  <1> HIDE DEF outcome
  <1>4. /\ probed \in [Services -> BOOLEAN] /\ probed[s] = outcome
        /\ \A t \in Services : t # s => probed[t] = value[r][t]
    BY <1>1, <1>2
  <1> HIDE DEF probed
  <1>5. /\ value' \in [Requests -> [Services -> BOOLEAN]] /\ value'[r] = probed
        /\ \A q \in Requests : q # r => value'[q] = value[q]
    BY <1>1, <1>3, <1>4
  <1> QED
    BY <1>4, <1>5 DEF outcome

\* What the two probes set.
LEMMA FirstProbe ==
  ASSUME TypeOK, NEW r \in Requests, AfterProbe(r)
  PROVE  /\ value'[r]["clickhouse"] <=> answer[r] = "ok"
         /\ \A q \in Requests : q # r => value'[q] = value[q]
  <1>1. value' = [value EXCEPT ![r]["clickhouse"] = answer[r] = "ok"]
    BY DEF AfterProbe
  <1>2. "clickhouse" \in Services
    BY DEF Services
  <1> QED
    BY <1>1, <1>2, ProbeResult, Zenon

\* The second leaves the first one's.
LEMMA SecondProbe ==
  ASSUME TypeOK, NEW r \in Requests, AfterVertex(r)
  PROVE  /\ value'[r]["vertex"] <=> answer[r] = "ok"
         /\ value'[r]["clickhouse"] = value[r]["clickhouse"]
         /\ \A q \in Requests : q # r => value'[q] = value[q]
  <1>1. value' = [value EXCEPT ![r]["vertex"] = answer[r] = "ok"]
    BY DEF AfterVertex
  <1>2. "clickhouse" \in Services /\ "vertex" \in Services /\ "clickhouse" # "vertex"
    BY DEF Services
  <1>3. value'[r]["vertex"] <=> answer[r] = "ok"
    BY <1>1, <1>2, ProbeResult, Zenon
  <1>4. \A t \in Services : t # "vertex" => value'[r][t] = value[r][t]
    BY <1>1, <1>2, ProbeResult, Zenon
  <1>5. \A q \in Requests : q # r => value'[q] = value[q]
    BY <1>1, <1>2, ProbeResult, Zenon
  <1> QED
    BY <1>2, <1>3, <1>4, <1>5

\* Types are kept by every step.
LEMMA StepTypes ==
  ASSUME TypeOK, [Next]_vars PROVE TypeOK'
  <1> USE HealthAssumption
  <1>1. ASSUME NEW r \in Requests, Request(r) PROVE TypeOK'
    <2>1. /\ pc' \in [Requests -> Awaits \cup {"idle", "done"}]
          /\ value' \in [Requests -> [Services -> BOOLEAN]]
      <3>1. cache.value \in [Services -> BOOLEAN]
        BY DEF TypeOK
      <3> QED
        BY <1>1, <3>1 DEF TypeOK, Request, AfterHealth, Awaits
    <2>2. kind' \in [Requests -> Kinds] /\ asked' \in [Requests -> 0..clock]
      BY <1>1 DEF TypeOK, Request
    <2> QED
      BY <1>1, <2>1, <2>2 DEF TypeOK, Request, world
  <1>2. ASSUME NEW r \in Requests, Respond(r) PROVE TypeOK'
    <2>1. Asks(pc[r]) \in Services
      BY DEF Asks, Services
    <2>2. answer' \in [Requests -> {"none", "ok", "error"}] /\ trips' \in [Requests -> SUBSET Services]
      BY <1>2, <2>1 DEF TypeOK, Respond
    <2> QED
      BY <1>2, <2>2 DEF TypeOK, Respond, world
  <1>3. ASSUME NEW r \in Requests, AfterProbe(r) PROVE TypeOK'
    <2>1. value' \in [Requests -> [Services -> BOOLEAN]]
      BY <1>3, ProbeResult DEF AfterProbe, Services
    <2>2. /\ pc' \in [Requests -> Awaits \cup {"idle", "done"}]
          /\ answer' \in [Requests -> {"none", "ok", "error"}]
      BY <1>3 DEF TypeOK, AfterProbe, Resume, Awaits
    <2> QED
      BY <1>3, <2>1, <2>2 DEF TypeOK, AfterProbe, Resume, world
  <1>4. ASSUME NEW r \in Requests, AfterVertex(r) PROVE TypeOK'
    <2>1. value' \in [Requests -> [Services -> BOOLEAN]]
      BY <1>4, ProbeResult DEF AfterVertex, Services
    <2>2. /\ pc' \in [Requests -> Awaits \cup {"idle", "done"}]
          /\ answer' \in [Requests -> {"none", "ok", "error"}]
      BY <1>4 DEF TypeOK, AfterVertex, AfterHealth, Resume, Awaits
    <2>3. cache' \in [held : BOOLEAN, checked : 0..clock, value : [Services -> BOOLEAN]]
      BY <1>4, <2>1 DEF TypeOK, AfterVertex
    <2> QED
      BY <1>4, <2>1, <2>2, <2>3 DEF TypeOK, AfterVertex, Resume, world
  <1>5. ASSUME NEW r \in Requests, AfterVersion(r) PROVE TypeOK'
    BY <1>5 DEF TypeOK, AfterVersion, Resume, Awaits, world
  <1>6. ASSUME NEW r \in Requests, AfterTools(r) PROVE TypeOK'
    BY <1>6 DEF TypeOK, AfterTools, Resume, world
  <1>7. ASSUME Tick PROVE TypeOK'
    <2>1. clock' \in 0..MaxClock /\ 0..clock \subseteq 0..clock'
      BY <1>7 DEF TypeOK, Tick
    <2>2. /\ cache' \in [held : BOOLEAN, checked : 0..clock', value : [Services -> BOOLEAN]]
          /\ asked' \in [Requests -> 0..clock']
      BY <1>7, <2>1 DEF TypeOK, Tick, reqVars
    <2> QED
      BY <1>7, <2>1, <2>2 DEF TypeOK, Tick, reqVars
  <1>8. ASSUME NEW s \in Services, Change(s) PROVE TypeOK'
    <2>1. clock \in -TTL..MaxClock
      BY DEF TypeOK
    <2>2. up' \in [Services -> BOOLEAN] /\ since' \in [Services -> -TTL..MaxClock]
      BY <1>8, <2>1 DEF TypeOK, Change
    <2>3. changes' \in 0..MaxChanges
      BY <1>8 DEF TypeOK, Change
    <2> QED
      BY <1>8, <2>2, <2>3 DEF TypeOK, Change, reqVars
  <1>9. ASSUME UNCHANGED vars PROVE TypeOK'
    BY <1>9 DEF TypeOK, vars, world, reqVars
  <1> QED
    BY <1>1, <1>2, <1>3, <1>4, <1>5, <1>6, <1>7, <1>8, <1>9 DEF Next, Finished

\* What the types say of times.
LEMMA Times ==
  ASSUME TypeOK
  PROVE  /\ clock \in Int /\ cache.checked \in Int /\ cache.checked <= clock
         /\ TTL \in Int /\ TTL > 0
         /\ \A s \in Services : since[s] \in Int
         /\ \A r \in Requests : asked[r] \in Int /\ asked[r] <= clock
  <1>1. /\ clock \in 0..MaxClock /\ MaxClock \in Nat /\ TTL \in Nat \ {0}
        /\ since \in [Services -> -TTL..MaxClock] /\ asked \in [Requests -> 0..clock]
        /\ cache.checked \in 0..clock
    BY HealthAssumption DEF TypeOK
  <1> QED
    BY <1>1

-----------------------------------------------------------------------------
(* What is told shows the services' changes. *)

\* A request comes in, and is told what is cached if that is younger than TTL.
LEMMA RequestShows ==
  ASSUME TypeOK, ShowInv, NothingAsked, NEW r \in Requests, Request(r) PROVE ShowInv'
  <1>1. /\ \A q \in Requests : q # r => pc'[q] = pc[q] /\ asked'[q] = asked[q] /\ value'[q] = value[q]
        /\ pc[r] = "idle" /\ asked'[r] = clock /\ answer[r] = "none"
        /\ UNCHANGED <<up, since, cache, answer>>
    BY DEF TypeOK, Request, world, NothingAsked
  <1>2. \/ Fresh /\ pc'[r] \in {"version", "done"} /\ value'[r] = cache.value
        \/ pc'[r] = "clickhouse"
    BY DEF TypeOK, Request, AfterHealth
  <1>3. AnswersShow' /\ ProbeShows'
    BY <1>1, <1>2 DEF ShowInv, AnswersShow, ProbeShows, Services
  <1>4. CacheShows'
    BY <1>1 DEF ShowInv, CacheShows
  <1>5. ToldShows'
    <2> SUFFICES ASSUME NEW q \in Requests, pc'[q] \in Told, NEW s \in Services,
                        since'[s] <= asked'[q] - TTL
                 PROVE  value'[q][s] = up'[s]
      BY DEF ToldShows
    <2>1. CASE q # r
      BY <1>1, <2>1 DEF ShowInv, ToldShows
    <2>2. CASE q = r
      <3>1. Fresh /\ value'[r] = cache.value
        BY <1>2, <2>2 DEF Told
      <3>2. since[s] < cache.checked
        BY <1>1, <2>2, <3>1, Times DEF Fresh
      <3> QED
        BY <1>1, <2>2, <3>1, <3>2 DEF ShowInv, CacheShows, Fresh
    <2> QED
      BY <2>1, <2>2
  <1> QED
    BY <1>3, <1>4, <1>5 DEF ShowInv

\* The service answers a request as it is now.
LEMMA RespondShows ==
  ASSUME TypeOK, ShowInv, NEW r \in Requests, Respond(r) PROVE ShowInv'
  <1>1. /\ \A q \in Requests : q # r => answer'[q] = answer[q]
        /\ answer'[r] = "ok" <=> up[Asks(pc[r])]
        /\ UNCHANGED <<up, since, cache, pc, asked, value>>
    BY DEF TypeOK, Respond, world
  <1>2. pc[r] \in Services => Asks(pc[r]) = pc[r]
    BY DEF Services, Asks
  <1>3. AnswersShow'
    BY <1>1, <1>2 DEF ShowInv, AnswersShow
  <1>4. ProbeShows' /\ CacheShows' /\ ToldShows'
    BY <1>1 DEF ShowInv, ProbeShows, CacheShows, ToldShows
  <1> QED
    BY <1>3, <1>4 DEF ShowInv

\* The first probe is in: its outcome is that of its answer.
LEMMA ProbeStepShows ==
  ASSUME TypeOK, ShowInv, NEW r \in Requests, AfterProbe(r) PROVE ShowInv'
  <1>1. /\ \A q \in Requests : q # r => pc'[q] = pc[q] /\ value'[q] = value[q] /\ answer'[q] = answer[q]
        /\ pc[r] = "clickhouse" /\ pc'[r] = "vertex" /\ answer[r] # "none" /\ answer'[r] = "none"
        /\ value'[r]["clickhouse"] <=> answer[r] = "ok"
        /\ UNCHANGED <<up, since, cache, asked>>
    <2>1. /\ \A q \in Requests : q # r => pc'[q] = pc[q] /\ answer'[q] = answer[q]
          /\ pc[r] = "clickhouse" /\ pc'[r] = "vertex" /\ answer[r] # "none" /\ answer'[r] = "none"
          /\ UNCHANGED <<up, since, cache, asked>>
      BY DEF TypeOK, AfterProbe, Resume, world
    <2> QED
      BY <2>1, FirstProbe
  <1>2. value'[r]["clickhouse"] \in BOOLEAN /\ up["clickhouse"] \in BOOLEAN
    <2>1. TypeOK'
      BY StepTypes DEF Next
    <2> QED
      BY <2>1 DEF TypeOK, Services
  <1>3. AnswersShow' /\ CacheShows' /\ ToldShows'
    BY <1>1 DEF ShowInv, AnswersShow, CacheShows, ToldShows, Told
  <1>4. ProbeShows'
    BY <1>1, <1>2 DEF ShowInv, AnswersShow, ProbeShows, Services
  <1> QED
    BY <1>3, <1>4 DEF ShowInv

\* Both probes are in: what they found is cached as of the request's arrival.
LEMMA VertexStepShows ==
  ASSUME TypeOK, ShowInv, NEW r \in Requests, AfterVertex(r) PROVE ShowInv'
  <1>1. /\ \A q \in Requests : q # r => pc'[q] = pc[q] /\ value'[q] = value[q] /\ answer'[q] = answer[q]
        /\ pc[r] = "vertex" /\ pc'[r] \in {"version", "done"} /\ answer[r] # "none"
        /\ value'[r]["vertex"] <=> answer[r] = "ok"
        /\ value'[r]["clickhouse"] = value[r]["clickhouse"]
        /\ cache' = [held |-> TRUE, checked |-> asked[r], value |-> value'[r]]
        /\ UNCHANGED <<up, since, asked>>
    <2>1. /\ \A q \in Requests : q # r => pc'[q] = pc[q] /\ answer'[q] = answer[q]
          /\ pc[r] = "vertex" /\ pc'[r] \in {"version", "done"} /\ answer[r] # "none"
          /\ cache' = [held |-> TRUE, checked |-> asked[r], value |-> value'[r]]
          /\ UNCHANGED <<up, since, asked>>
      BY DEF TypeOK, AfterVertex, AfterHealth, Resume, world
    <2> QED
      BY <2>1, SecondProbe
  <1>2. value'[r]["vertex"] \in BOOLEAN /\ up["vertex"] \in BOOLEAN
    <2>1. TypeOK'
      BY StepTypes DEF Next
    <2> QED
      BY <2>1 DEF TypeOK, Services
  <1>3. ASSUME NEW s \in Services, since[s] < asked[r] PROVE value'[r][s] = up[s]
    <2>1. CASE s = "clickhouse"
      BY <1>1, <1>3, <2>1 DEF ShowInv, ProbeShows
    <2>2. CASE s = "vertex"
      BY <1>1, <1>2, <1>3, <2>2 DEF ShowInv, AnswersShow
    <2> QED
      BY <2>1, <2>2 DEF Services
  <1>4. AnswersShow' /\ ProbeShows'
    BY <1>1 DEF ShowInv, AnswersShow, ProbeShows, Services
  <1>5. CacheShows'
    BY <1>1, <1>3 DEF CacheShows
  <1>6. ToldShows'
    <2> SUFFICES ASSUME NEW q \in Requests, pc'[q] \in Told, NEW s \in Services,
                        since'[s] <= asked'[q] - TTL
                 PROVE  value'[q][s] = up'[s]
      BY DEF ToldShows
    <2>1. CASE q # r
      BY <1>1, <2>1 DEF ShowInv, ToldShows
    <2>2. CASE q = r
      <3>1. since[s] < asked[r]
        BY <1>1, <2>2, Times
      <3> QED
        BY <1>1, <1>3, <2>2, <3>1
    <2> QED
      BY <2>1, <2>2
  <1> QED
    BY <1>4, <1>5, <1>6 DEF ShowInv

\* /v1/stack asks on: what it has been told stays.
LEMMA StackShows ==
  ASSUME TypeOK, ShowInv, NEW r \in Requests, AfterVersion(r) \/ AfterTools(r) PROVE ShowInv'
  <1>1. /\ \A q \in Requests : q # r => pc'[q] = pc[q] /\ answer'[q] = answer[q]
        /\ pc[r] \in Told /\ pc'[r] \in Told
        /\ UNCHANGED <<up, since, cache, asked, value>>
    BY DEF TypeOK, AfterVersion, AfterTools, Resume, world, Told
  <1> QED
    BY <1>1 DEF ShowInv, AnswersShow, ProbeShows, CacheShows, ToldShows, Told, Services

\* A change is never before the arrival of a request, or the date of what is cached.
LEMMA ChangeShows ==
  ASSUME TypeOK, ShowInv, NEW c \in Services, Change(c) PROVE ShowInv'
  <1>1. /\ since'[c] = clock
        /\ \A s \in Services : s # c => since'[s] = since[s] /\ up'[s] = up[s]
        /\ UNCHANGED <<cache, reqVars>>
    BY DEF TypeOK, Change
  <1>2. /\ ~(since'[c] < cache.checked)
        /\ \A r \in Requests : ~(since'[c] < asked[r]) /\ ~(since'[c] <= asked[r] - TTL)
    BY <1>1, Times
  <1>3. AnswersShow' /\ ProbeShows'
    BY <1>1, <1>2 DEF ShowInv, AnswersShow, ProbeShows, reqVars, Services
  <1>4. CacheShows'
    BY <1>1, <1>2 DEF ShowInv, CacheShows
  <1>5. ToldShows'
    BY <1>1, <1>2 DEF ShowInv, ToldShows, reqVars
  <1> QED
    BY <1>3, <1>4, <1>5 DEF ShowInv

\* Every step keeps what is told in line with the services.
LEMMA StepShows ==
  ASSUME TypeOK, ShowInv, NothingAsked, [Next]_vars PROVE ShowInv'
  <1>1. ASSUME Tick \/ UNCHANGED vars PROVE ShowInv'
    <2>1. UNCHANGED <<up, since, cache, reqVars>>
      BY <1>1 DEF Tick, vars, world
    <2> QED
      BY <2>1 DEF ShowInv, AnswersShow, ProbeShows, CacheShows, ToldShows, reqVars
  <1> QED
    BY <1>1, RequestShows, RespondShows, ProbeStepShows, VertexStepShows, StackShows, ChangeShows
       DEF Next, Finished

-----------------------------------------------------------------------------
(* What is told as live has been asked within TTL. *)

\* What a round trip of another request or of this one has shown stays shown.
LEMMA RequestEarned ==
  ASSUME TypeOK, EarnedInv, NEW r \in Requests, Request(r) PROVE EarnedInv'
  <1>1. /\ \A q \in Requests : q # r => pc'[q] = pc[q] /\ asked'[q] = asked[q] /\ value'[q] = value[q]
        /\ pc[r] = "idle" /\ asked'[r] = clock /\ answer[r] = "none" /\ trips[r] = {}
        /\ UNCHANGED <<cache, answer, trips>>
    BY DEF TypeOK, Request, world, EarnedInv, NothingAsked
  <1>2. \/ Fresh /\ pc'[r] \in {"version", "done"} /\ value'[r] = cache.value
        \/ pc'[r] = "clickhouse"
    BY DEF TypeOK, Request, AfterHealth
  <1>3. NothingAsked' /\ AnswersEarned'
    BY <1>1, <1>2 DEF EarnedInv, NothingAsked, AnswersEarned, Services
  <1>4. \A q \in Requests, s \in Services : s \in trips[q] => asked'[q] = asked[q]
    BY <1>1
  <1>5. CacheEarned'
    BY <1>1, <1>4 DEF EarnedInv, CacheEarned
  <1>6. ToldEarned'
    <2> SUFFICES ASSUME NEW q \in Requests, pc'[q] \in Told, NEW s \in Services, value'[q][s]
                 PROVE  \E p \in Requests : s \in trips'[p] /\ asked'[p] > asked'[q] - TTL
      BY DEF ToldEarned
    <2>1. CASE q # r
      BY <1>1, <1>4, <2>1 DEF EarnedInv, ToldEarned
    <2>2. CASE q = r
      <3>1. Fresh /\ cache.value[s]
        BY <1>2, <2>2 DEF Told
      <3>2. PICK p \in Requests : s \in trips[p] /\ asked[p] >= cache.checked
        BY <3>1 DEF EarnedInv, CacheEarned, Fresh
      <3>3. asked[p] > clock - TTL
        BY <3>1, <3>2, Times DEF Fresh
      <3> QED
        BY <1>1, <1>4, <2>2, <3>2, <3>3
    <2> QED
      BY <2>1, <2>2
  <1> QED
    BY <1>3, <1>5, <1>6 DEF EarnedInv

\* An answer is a round trip.
LEMMA RespondEarned ==
  ASSUME TypeOK, EarnedInv, NEW r \in Requests, Respond(r) PROVE EarnedInv'
  <1>1. /\ \A q \in Requests : q # r => answer'[q] = answer[q] /\ trips'[q] = trips[q]
        /\ pc[r] # "idle" /\ trips[r] \subseteq trips'[r]
        /\ answer'[r] = "ok" => Asks(pc[r]) \in trips'[r]
        /\ UNCHANGED <<cache, pc, asked, value>>
    BY DEF TypeOK, Respond, Awaits
  <1>2. pc[r] \in Services => Asks(pc[r]) = pc[r]
    BY DEF Services, Asks
  <1>3. NothingAsked' /\ AnswersEarned'
    BY <1>1, <1>2 DEF EarnedInv, NothingAsked, AnswersEarned
  <1>4. \A q \in Requests : trips[q] \subseteq trips'[q]
    BY <1>1
  <1>5. CacheEarned' /\ ToldEarned'
    BY <1>1, <1>4 DEF EarnedInv, CacheEarned, ToldEarned
  <1> QED
    BY <1>3, <1>5 DEF EarnedInv

\* The first probe's outcome is earned if its answer is.
LEMMA ProbeStepEarned ==
  ASSUME TypeOK, EarnedInv, NEW r \in Requests, AfterProbe(r) PROVE EarnedInv'
  <1>1. /\ \A q \in Requests : q # r => pc'[q] = pc[q] /\ answer'[q] = answer[q]
        /\ pc[r] = "clickhouse" /\ pc'[r] = "vertex" /\ answer'[r] = "none"
        /\ UNCHANGED <<cache, asked, trips>>
    BY DEF TypeOK, AfterProbe, Resume
  <1>2. /\ \A q \in Requests : q # r => value'[q] = value[q]
        /\ value'[r]["clickhouse"] <=> answer[r] = "ok"
    BY FirstProbe
  <1>3. NothingAsked' /\ AnswersEarned'
    BY <1>1, <1>2 DEF EarnedInv, NothingAsked, AnswersEarned, Services
  <1>4. CacheEarned' /\ ToldEarned'
    BY <1>1, <1>2 DEF EarnedInv, CacheEarned, ToldEarned, Told
  <1> QED
    BY <1>3, <1>4 DEF EarnedInv

\* What is cached, and told, has been earned by the request that asked.
LEMMA VertexStepEarned ==
  ASSUME TypeOK, EarnedInv, NEW r \in Requests, AfterVertex(r) PROVE EarnedInv'
  <1>1. /\ \A q \in Requests : q # r => pc'[q] = pc[q] /\ answer'[q] = answer[q]
        /\ pc[r] = "vertex" /\ pc'[r] \in {"version", "done"} /\ answer'[r] = "none"
        /\ cache' = [held |-> TRUE, checked |-> asked[r], value |-> value'[r]]
        /\ UNCHANGED <<asked, trips>>
    BY DEF TypeOK, AfterVertex, AfterHealth, Resume
  <1>2. /\ \A q \in Requests : q # r => value'[q] = value[q]
        /\ value'[r]["vertex"] <=> answer[r] = "ok"
        /\ value'[r]["clickhouse"] = value[r]["clickhouse"]
    BY SecondProbe
  <1>3. ASSUME NEW s \in Services, value'[r][s] PROVE s \in trips[r]
    <2>1. CASE s = "clickhouse"
      BY <1>1, <1>2, <1>3, <2>1 DEF EarnedInv, AnswersEarned
    <2>2. CASE s = "vertex"
      BY <1>1, <1>2, <1>3, <2>2 DEF EarnedInv, AnswersEarned
    <2> QED
      BY <2>1, <2>2 DEF Services
  <1>4. NothingAsked' /\ AnswersEarned'
    BY <1>1, <1>2 DEF EarnedInv, NothingAsked, AnswersEarned, Services
  <1>5. asked[r] >= asked[r] /\ asked[r] > asked[r] - TTL
    BY Times
  <1>6. CacheEarned'
    <2>1. cache'.checked = asked[r] /\ cache'.value = value'[r]
      BY <1>1
    <2> QED
      BY <1>1, <1>3, <1>5, <2>1 DEF CacheEarned
  <1>7. ToldEarned'
    <2> SUFFICES ASSUME NEW q \in Requests, pc'[q] \in Told, NEW s \in Services, value'[q][s]
                 PROVE  \E p \in Requests : s \in trips'[p] /\ asked'[p] > asked'[q] - TTL
      BY DEF ToldEarned
    <2>1. CASE q # r
      BY <1>1, <1>2, <2>1 DEF EarnedInv, ToldEarned
    <2>2. CASE q = r
      BY <1>1, <1>3, <1>5, <2>2
    <2> QED
      BY <2>1, <2>2
  <1> QED
    BY <1>4, <1>6, <1>7 DEF EarnedInv

\* /v1/stack asks on: what it has been told stays earned.
LEMMA StackEarned ==
  ASSUME TypeOK, EarnedInv, NEW r \in Requests, AfterVersion(r) \/ AfterTools(r) PROVE EarnedInv'
  <1>1. /\ \A q \in Requests : q # r => pc'[q] = pc[q] /\ answer'[q] = answer[q]
        /\ pc[r] \in Told /\ pc'[r] \in Told
        /\ UNCHANGED <<cache, asked, value, trips>>
    BY DEF TypeOK, AfterVersion, AfterTools, Resume, Told
  <1> QED
    BY <1>1 DEF EarnedInv, NothingAsked, AnswersEarned, CacheEarned, ToldEarned, Told, Services

\* Every step keeps what is told earned.
LEMMA StepEarned ==
  ASSUME TypeOK, EarnedInv, [Next]_vars PROVE EarnedInv'
  <1>1. ASSUME Tick \/ (\E s \in Services : Change(s)) \/ UNCHANGED vars PROVE EarnedInv'
    <2>1. UNCHANGED <<cache, reqVars>>
      BY <1>1 DEF Tick, Change, vars
    <2> QED
      BY <2>1 DEF EarnedInv, NothingAsked, AnswersEarned, CacheEarned, ToldEarned, reqVars
  <1> QED
    BY <1>1, RequestEarned, RespondEarned, ProbeStepEarned, VertexStepEarned, StackEarned
       DEF Next, Finished

-----------------------------------------------------------------------------
(* The theorems. *)

\* The inductive invariant holds for any requests, deployment and lifetime.
THEOREM HealthSafety == Spec => []HealthInv
  <1>1. Init => HealthInv
    <2> SUFFICES ASSUME Init PROVE HealthInv
      OBVIOUS
    <2>1. TypeOK
      <3>1. 0 \in 0..MaxClock /\ 0 \in 0..MaxChanges /\ 0 \in 0..clock /\ -TTL \in -TTL..MaxClock
        BY HealthAssumption DEF Init
      <3>2. cache \in [held : BOOLEAN, checked : 0..clock, value : [Services -> BOOLEAN]]
        BY <3>1 DEF Init, NoCache, Down
      <3> QED
        BY <3>1, <3>2 DEF Init, TypeOK, Down, Kinds
    <2>2. ShowInv
      BY DEF Init, NoCache, ShowInv, AnswersShow, ProbeShows, CacheShows, ToldShows, Told
    <2>3. EarnedInv
      BY DEF Init, NoCache, EarnedInv, NothingAsked, AnswersEarned, CacheEarned, ToldEarned, Told
    <2> QED
      BY <2>1, <2>2, <2>3 DEF HealthInv
  <1>2. HealthInv /\ [Next]_vars => HealthInv'
    BY StepTypes, StepShows, StepEarned DEF HealthInv, EarnedInv
  <1> QED
    BY <1>1, <1>2, PTL DEF Spec

\* Every variable keeps its type, and nothing is dated by a time to come.
THEOREM TypeCorrect == Spec => []TypeOK
  <1>1. HealthInv => TypeOK
    BY DEF HealthInv
  <1> QED
    BY HealthSafety, <1>1, PTL

\* No outage and no recovery is hidden for longer than the cache's lifetime, however slow
\* the probes are and in whatever order they end (main.py:298-318).
THEOREM ChangesAreShown == Spec => []ChangesShow
  <1>1. HealthInv => ChangesShow
    BY DEF HealthInv, ShowInv, ToldShows, ChangesShow, Told
  <1> QED
    BY HealthSafety, <1>1, PTL

\* What is reported as live answered within the cache's lifetime (stack.py:159).
THEOREM LiveIsRecent == Spec => []LiveIsOfTheMinute
  <1>1. HealthInv => LiveIsOfTheMinute
    BY DEF HealthInv, EarnedInv, ToldEarned, LiveIsOfTheMinute, Told
  <1> QED
    BY HealthSafety, <1>1, PTL
=============================================================================

----------------------------- MODULE HealthCache -----------------------------
(***************************************************************************)
(* safe_frame/main.py _integration_health, the minute-long cache of the    *)
(* ClickHouse and Vertex probes, and the two endpoints that read it,       *)
(* /health and /v1/stack.  Requests share one event loop: each runs from   *)
(* one await to the next, so probes overlap and finish in any order.       *)
(***************************************************************************)
EXTENDS Integers

CONSTANTS Requests,    \* the requests, one per use of an endpoint
          Configured,  \* the integrations this deployment has
          TTL,         \* 60 s
          MaxClock,    \* bound: of time.monotonic()
          MaxChanges   \* bound: how often integrations go down or come back

Services == {"clickhouse", "vertex"}
Kinds == {"health", "stack"}

ASSUME HealthAssumption ==
  /\ Configured \subseteq Services
  /\ TTL \in Nat \ {0} /\ MaxClock \in Nat /\ MaxChanges \in Nat

VARIABLES clock,
          up,       \* would a round trip to the service succeed now
          since,    \* history: when up last changed, per service
          changes,
          cache,    \* _HEALTH_CACHE
          pc,       \* per request: the await it is at
          kind, asked, value, \* per request: endpoint, now, integrations
          answer,   \* per request: the outcome of the round trip it awaits
          trips     \* history: services that answered this very request

reqVars == <<pc, kind, asked, value, answer, trips>>
world == <<clock, up, since, changes>>
vars == <<world, cache, reqVars>>

Down == [s \in Services |-> FALSE]
NoCache == [held |-> FALSE, checked |-> 0, value |-> Down]
Awaits == {"clickhouse", "vertex", "version", "tools"}

\* The service behind an await: /v1/stack asks ClickHouse for its version and tools.
Asks(stage) == IF stage = "vertex" THEN "vertex" ELSE "clickhouse"

Init ==
  /\ clock = 0 /\ since = [s \in Services |-> -TTL] /\ changes = 0
  /\ up \in {u \in [Services -> BOOLEAN] : \A s \in Services \ Configured : ~u[s]}
  /\ cache = NoCache
  /\ pc = [r \in Requests |-> "idle"]
  /\ kind = [r \in Requests |-> "health"]
  /\ asked = [r \in Requests |-> 0]
  /\ value = [r \in Requests |-> Down]
  /\ answer = [r \in Requests |-> "none"]
  /\ trips = [r \in Requests |-> {}]

Fresh == cache.held /\ clock - cache.checked < TTL

\* What follows _integration_health: /health answers, /v1/stack goes on to query
\* ClickHouse if the integrations say that it is there.
AfterHealth(r, integrations) ==
  IF kind'[r] = "stack" /\ integrations["clickhouse"] THEN "version" ELSE "done"

\* A request arrives.  An unconfigured integration is one whose probe says no.
Request(r) ==
  /\ pc[r] = "idle"
  /\ \E k \in Kinds : kind' = [kind EXCEPT ![r] = k]
  /\ asked' = [asked EXCEPT ![r] = clock]
  /\ IF Fresh
     THEN /\ value' = [value EXCEPT ![r] = cache.value]
          /\ pc' = [pc EXCEPT ![r] = AfterHealth(r, cache.value)]
     ELSE /\ pc' = [pc EXCEPT ![r] = "clickhouse"]
          /\ UNCHANGED value
  /\ UNCHANGED <<world, cache, answer, trips>>

\* The round trip a request awaits ends, with an answer or an error.
Respond(r) ==
  /\ pc[r] \in Awaits /\ answer[r] = "none"
  /\ answer' = [answer EXCEPT ![r] = IF up[Asks(pc[r])] THEN "ok" ELSE "error"]
  /\ trips' = [trips EXCEPT ![r] = @ \cup (IF up[Asks(pc[r])] THEN {Asks(pc[r])} ELSE {})]
  /\ UNCHANGED <<world, cache, pc, kind, asked, value>>

\* The coroutine goes on after `stage`, whose outcome is in.
Resume(r, stage) ==
  /\ pc[r] = stage /\ answer[r] # "none"
  /\ answer' = [answer EXCEPT ![r] = "none"]
  /\ UNCHANGED <<world, kind, asked, trips>>

AfterProbe(r) ==
  /\ Resume(r, "clickhouse")
  /\ value' = [value EXCEPT ![r]["clickhouse"] = answer[r] = "ok"]
  /\ pc' = [pc EXCEPT ![r] = "vertex"]
  /\ UNCHANGED cache

\* Mutant of AfterVertex: the value dated by the end of the probes.
AfterVertexNow(r) ==
  /\ Resume(r, "vertex")
  /\ value' = [value EXCEPT ![r]["vertex"] = answer[r] = "ok"]
  /\ cache' = [held |-> TRUE, checked |-> clock, value |-> value'[r]]
  /\ pc' = [pc EXCEPT ![r] = AfterHealth(r, value'[r])]

\* Mutant of AfterVertex: the value dated by when it runs out.
AfterVertexExpiry(r) ==
  /\ Resume(r, "vertex")
  /\ value' = [value EXCEPT ![r]["vertex"] = answer[r] = "ok"]
  /\ cache' = [held |-> TRUE, checked |-> asked[r] + TTL, value |-> value'[r]]
  /\ pc' = [pc EXCEPT ![r] = AfterHealth(r, value'[r])]

\* Both probes are in: the value is cached under the time the request came in.
AfterVertex(r) ==
  /\ Resume(r, "vertex")
  /\ value' = [value EXCEPT ![r]["vertex"] = answer[r] = "ok"]
  /\ cache' = [held |-> TRUE, checked |-> asked[r], value |-> value'[r]]
  /\ pc' = [pc EXCEPT ![r] = AfterHealth(r, value'[r])]

\* /v1/stack: the tools are asked for after an answer, be it an error answer; an
\* exception in either query leaves version and tools out, and no more.
AfterVersion(r) ==
  /\ Resume(r, "version")
  /\ \E next \in IF answer[r] = "ok" THEN {"tools"} ELSE {"tools", "done"} :
       pc' = [pc EXCEPT ![r] = next]
  /\ UNCHANGED <<cache, value>>

AfterTools(r) ==
  /\ Resume(r, "tools")
  /\ pc' = [pc EXCEPT ![r] = "done"]
  /\ UNCHANGED <<cache, value>>

Tick ==
  /\ clock < MaxClock
  /\ clock' = clock + 1
  /\ UNCHANGED <<up, since, changes, cache, reqVars>>

\* An integration goes down, or comes back.
Change(s) ==
  /\ s \in Configured /\ changes < MaxChanges
  /\ up' = [up EXCEPT ![s] = ~@]
  /\ since' = [since EXCEPT ![s] = clock]
  /\ changes' = changes + 1
  /\ UNCHANGED <<clock, cache, reqVars>>

\* Every request has its answer.
Finished == (\A r \in Requests : pc[r] = "done") /\ UNCHANGED vars

Next ==
  \/ Finished
  \/ \E r \in Requests :
       Request(r) \/ Respond(r) \/ AfterProbe(r) \/ AfterVertex(r)
         \/ AfterVersion(r) \/ AfterTools(r)
  \/ Tick
  \/ \E s \in Services : Change(s)

Spec == Init /\ [][Next]_vars

-----------------------------------------------------------------------------
(* Properties. *)

\* The types; what is cached, and what is asked, is dated by a time that has come.
TypeOK ==
  /\ clock \in 0..MaxClock /\ changes \in 0..MaxChanges
  /\ up \in [Services -> BOOLEAN] /\ since \in [Services -> -TTL..MaxClock]
  /\ cache \in [held : BOOLEAN, checked : 0..clock, value : [Services -> BOOLEAN]]
  /\ pc \in [Requests -> Awaits \cup {"idle", "done"}]
  /\ kind \in [Requests -> Kinds] /\ asked \in [Requests -> 0..clock]
  /\ value \in [Requests -> [Services -> BOOLEAN]]
  /\ answer \in [Requests -> {"none", "ok", "error"}]
  /\ trips \in [Requests -> SUBSET Services]

\* However slowly the probes ran and in whatever order they ended, a service that has
\* been up, or down, since TTL before a request came in is reported so: no outage and
\* no recovery is hidden for longer than the cache's minute (main.py:298-318).
ChangesShow ==
  \A r \in Requests : pc[r] = "done" =>
    \A s \in Services : since[s] <= asked[r] - TTL => value[r][s] = up[s]

\* What /health and /v1/stack report as live, from a cache or not, answered a round trip of
\* a request that came in less than the cache's minute before: "completed within the last
\* minute" (stack.py:159), though not, as main.py:642 has it, "during this request".
LiveIsOfTheMinute ==
  \A r \in Requests : pc[r] = "done" =>
    \A s \in Services : value[r][s] =>
      \E q \in Requests : s \in trips[q] /\ asked[q] > asked[r] - TTL
=============================================================================

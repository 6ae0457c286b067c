# Safe Frame in TLA+

Safe Frame is a FastAPI service that checks video renditions for photosensitivity
flashes: it applies published flash criteria to measured frame transitions, isolates what
a rendition shows that its approved master does not, and takes its verdicts from
ClickHouse, which it reaches only through a read-only MCP subprocess. This directory holds
TLA+ specifications of the parts of it that decide something or that run concurrently,
TLC configurations that check them on small instances, and TLAPS proofs of what holds on
every instance. `PROJECT.json` maps each definition to the lines it models and lists runs,
mutants, hazards and theorems.

## The system: components, state, interactions

| Component | State it keeps | Operations | What makes it correct |
|---|---|---|---|
| **MCP worker** `mcp_worker.py` | queue of requests, current session task, its ready future, a lock | `tools`, `call`, `query`, `aclose`; the session task `_serve`, `_drain` | each request answered once; one live session; every call ends; nothing left behind by a restart, a failure or a cancellation |
| **MCP client** `clickhouse_mcp.py` | one worker per event loop and server configuration | `query_many`, `call`, SQL builders, decoders | the three forms of the isolation agree; an error result is never read as "no rows" |
| **Detector, anti-join** `detector.py`, `lineage.py` | none | `detect_violations`, `regressions` | agrees with the SQL; misses no second over the limit |
| **Scan** `main.py:413`, `clickhouse_ingest.py`, `sql/003` | the `violations` table | `POST /v1/scan`: judge, insert, count back | a verdict is that of the clips submitted, whatever else is being scanned or fails |
| **Analyze** `main.py:465`, `analyze.py` | none (nothing is stored) | `POST /v1/analyze`: decode, measure, judge inline | fails closed; findings and verdict agree |
| **Rate limiter** `main.py:120-185` | recent calls per endpoint and caller's name | guard in front of limited endpoints | no window over quota; nobody pays for calls under another name |
| **API keys** `apikeys.py` | none: a key carries its signature | mint, verify, identify | a key is usable exactly while its secret is configured and it is not too old |
| **Health, stack** `main.py:282-319, 402, 638`, `stack.py` | the probe cache | `/health`, `/v1/stack` | changes show within the cache's minute; "live" is what this request saw |
| **Catalogue** `main.py:622-865`, `catalogue.py`, `sql/006-008` | none: it reads `transitions` and `violations` | sweep, timeline, transform risk, evaluation | the sweep finds what was planted and nothing else; the endpoints' figures agree though each reads several statements of a table that changes; partial failures fail closed |
| **Corpus** `sql/004-005`, `scripts/seed_measured_corpus.py` | the `transitions` table | generate the authored cohort; measure and insert the other, asset by asset | what is planted in a rendition is what its rows show, at every moment of the seeding |
| **Agents** `adk_app.py` | per run: what its tools have seen | explain, triage | an answer is bound to the tool evidence of its own run, and its figures add up |
| **Measurement** `ingest.py`, `metrics.py` | none | frames to transitions | a flash of enough of the screen is measured as one, whatever the rest of the screen does |
| **Page** `web/index.html` | selection, buttons, charts | decode a clip, fetch, render | what it sends is the clip that was chosen |
| **Telemetry** `telemetry.py` | none | log lines | never raises |

All requests of an instance share one event loop. They interact through three pieces of
shared state: the MCP worker (every ClickHouse read goes through it), the rate limiter's
dictionary and the health cache. Across instances and restarts they share the `violations`
table, and the `transitions` table that a script fills from outside. The hard behaviours are: coroutines of several requests interleaving at every
`await`; a session that dies while requests are queued, executing or being retried;
cancellation of a request at any `await`; an insert that succeeds before a count that
fails; windows and tolerances at their boundaries; one rule written in Python and three
times in SQL; several statements that make one answer while the table is being filled; a language model that
calls the tools of its run in any order, and two at a time.

## Modules

| Module | Models | Composed of |
|---|---|---|
| `McpService` | what the worker promises its callers | |
| `McpWorker` | the worker, its sessions, their callers and the event loop | refines `McpService` |
| `RateLimit` | the guard and the keys | |
| `HealthCache` | the probe cache, `/health`, `/v1/stack` | |
| `Criteria` | the criteria and the isolations, Python and SQL, as operators | |
| `Clips` | a master and a rendition growing transition by transition | extends `Criteria` |
| `Scan` | `/v1/scan` over the shared table | extends `Criteria` |
| `Measure` | a transition measured between two frames, pixel by pixel | extends `Criteria` |
| `Analyze` | `/v1/analyze` on clips decoded frame by frame | extends `Measure` |
| `Corpus` | what is planted in the two cohorts, and the rows of an asset | extends `Measure` |
| `Catalogue` | the seeding script, stored scans, and the endpoints that read both | extends `Corpus` |
| `Agents` | triage and explain beside all of that | extends `Catalogue` |
| `MC...` | the instances TLC checks | extend their module |
| `...Proofs` | TLAPS proofs: `McpWorkerProofs`, `RateLimitProofs`, `HealthCacheProofs`, `ScanProofs`; `CriteriaProofs` and, on top of it, `ClipsProofs`, `AnalyzeProofs` and `AgentsProofs` | extend their module |

### McpWorker

`pc[c]` is the suspension point (or the point between two suspensions) a caller is at:
`ensure` and `close` are the two uses of `_lock`, `ready` is `await ready`, `wait` is
`await future`, `join` is `await task`. `session[g]` is where the g-th run of `_serve` is.
`requests`, `lock`, `waiters`, `task`, `ready` and `future` are the attributes and futures
of the code.

The granularity is that of asyncio. `runq` is the loop's ready queue; every step is taken
by the task at its head, a step that suspends removes the head, and resolving a future, putting
into the queue or releasing the lock appends the task that waits for it. So what the code does between two
`await`s that really suspend cannot be interrupted, and the model may not reorder what the loop runs in
order. This matters: with unordered wake-ups several of the invariants would fail in ways the
program cannot. Completions from the subprocess (`Io`), a connection breaking while the session
is idle (`DieIdle`) and cancellations by a request's owner (`Cancel`) arrive when the loop
is between callbacks. `MidRun` says when it is not.

Simplifications: a caller performs one operation; a cancelled waiter leaves the lock's
queue at once; answers have no content; a connection that breaks under a request reaches its caller as an exception (`Break`), where a failure inside
the client's task group may reach it as `CancelledError`. Bounds: `MaxSessions` (chosen larger than the sessions the
failures allow, so that it never stops anything), `MaxDeaths`, `MaxRefusals`.

### RateLimit

`calls` is `_CALLS`; a call counts under `SlotOf`, its quota is `Quota`, the calls still
in the window are `Recent`. `_CALLS` is keyed by a bare name, a key's id or the address that a
client says it has, so `Addresses` may hold key ids and a caller without a key may go by the name of
one. `log` is a history variable: everything the process admitted, recorded by endpoint and name with
the tier of the call, which is what the properties speak of: two callers that share a name are told apart by
their tiers. Time is two clocks, because the code uses two: `clock` is monotonic and drives the window, `wall`
dates the keys and may be set back. A redeploy loses `_CALLS` and may change or drop the
signing secret. Bounds: `MaxCalls` admitted calls (`served`), `MaxChanges` redeploys and moves of the wall
clock (`changes`).

### HealthCache

Each request is at one `await` at a time; `Respond` is the service answering (with what
`up` is at that moment), `Resume` the coroutine going on later. `value` is the dictionary the
request returns, `cache` the module's global. `since` and `trips` are histories.

### Criteria, Clips

A transition is a record of its time, levels and direction. Levels are small numbers and the floors
are constants, because the criteria only compare. `Detect` is `_window_violations`; `SqlViolations`
is the chain of common table expressions that `CRITERIA_SQL`, `PAIR_CRITERIA_SQL` and
`sql/006` share; `Regressions`, `SqlIsolated` and `SqlAntiJoin` are the three isolations.
`Clips` builds every rendition of up to `MaxRows` transitions, in any order and with ties,
because `/v1/scan` accepts them so.

### Scan

A scan submits a pair with the violations the detector finds in it (any, at most one window per rule and
side, since that is what `Detect` returns) under a lineage of its choice, inserts the rows of both sides as one batch,
and decides by counting over the table. The table is a set of sorting keys, the lineage in front: the merge
tree replaces a row of an existing key and `FINAL` reads it merged. `Count` takes the rows of each side by the name of the
asset alone, whatever their lineage, and joins them on the lineage, so rows stored under another one count and are excused by
no row of the master that this scan stored. An insert may fail with or without its rows in place; a count may fail.

Two scans dispute an asset when they say different things of it. `Undisputed`, the premise of `ScanIsItsOwn` and `VerdictStands`: no scan of the same lineage
disputes either clip (`Agreed`), and a scan of another lineage that names the rendition found nothing in it, or submitted
the very same two clips.

### Measure, Analyze

A frame is a function from pixels to colours; a sample is in thousandths, a luminance in ten-thousandths, and
`_linearise` is a table of the samples used (`Linear`; only that it is increasing is assumed). So the published floors
are the code's own numbers here, not stand-ins. `Changed` and `RedFlashMask` are the two sets of pixels a
transition is measured over; `LumaDelta`, `LumaMin` and `Direction` say over which. `Pts` rounds half to even as `round` does.
A clip grows frame by frame, as `byoDecode` grabs it in the page, until one request is made of it;
`Analyze` is the whole handler. Of the upload any first part may arrive. Since `MIN_FRAMES` is 2, a clip that
decodes has a transition, and the answer `no_transitions` is never given.

### Corpus, Catalogue

A toss says what the generator decided for a title: the bursts its lineage inherits and the transforms that
introduce one. The measured cohort's tosses come from arithmetic over the index, the authored one's from
`sipHash64`, which is any toss here. `Plan` is the script's; `Expected` and `Decoy` are `sql/008`, which repeats the
tosses and looks at no measurement; a decoy may be expected, of the other rule (`ExpectedDecoys`), and is then one of the
`WronglyFlagged` of an evaluation; `Judged`, `Isolated` and `Charted` tabulate the criteria over the rows,
which are really constructed and measured.

`copies[a]` is how many times the rows of an asset are in the table. `Insert` inserts one asset, `Die` stops the
script, `RunAgain` starts it over, as the script does without looking. Each endpoint of two statements is two
actions, with everything else between them, because ClickHouse gives each statement a snapshot of its own. Endpoints
of one statement are operators of the state: a property about them is one about every state. `PairRegressions` is the statement about
a pair, for any two names: it reads what is measured and what scans stored, under whatever lineage, and joins on the lineage, which for the catalogue's own rows
is the title. Of the authored rows only the least background noise is modelled.

### Agents

The language model is a caller that may do anything its runner lets it: in a turn it calls any set of tools,
their coroutines run together, and it may write its answer when nothing is underway. `regressions` and
`risk` are `seen`; `told` is the newest result of each tool. `base` and `crossed` are histories. An explanation is of any two names
(`Compared`), as the endpoint asks no more of them than a pattern: a pair, a pair the other way round, two titles. A statement comes back
with rows, with an error the server reports as a result, or raises (`Outcomes`; a blank result or a bare object, which `_decode` also reads, is not among
them: the pinned server sends neither). There is one reader at a time, request
or agent: they write nothing that another reads, so their interleaving with each other shows nothing that
their interleaving with the table's writers does not.

## Runs

| Run | Instance | Shows |
|---|---|---|
| `Mixed` | 3 callers (unadvertised tool, query, tool list), 1 death, 1 failed start, 2 cancellable callers; 786k states | the safety of the worker and its refinement of `McpService` |
| `Liveness` | 2 callers, 1 death, 1 failed start, both cancellable, under fairness | every call ends, every dropped session is torn down |
| `OneDeath` | 3 calls, 1 death | **violated**: see Findings 1 |
| `CancelledStart` | 2 callers, no failure, 1 cancellable | **violated**: 2 |
| `RateLimit` | 2 endpoints, 2 addresses, one of them a key's id, 2 keys, 2 secrets, 6 calls or 3 calls and 2 changes; 786k states | window bound, no crosstalk between names |
| `HealthCache` | 3 requests, a clock past the cache's life, 1 change; 1.5M states | changes show in time, what is live is of the last minute |
| `Clips` | renditions of up to 4 transitions of 6 kinds at 4 times, 2 masters; 692k states | detector and SQL agree, nothing is missed, isolations agree |
| `MissedBurst` | a master with one burst, renditions with room for two | **violated**: 3 |
| `Scan` | 3 scans, 2 assets, 2 lineages, 2 faults; 981k states | verdicts are the clips' own and stay so; nothing bad is cleared |
| `Analyze` | clips of up to 5 frames of 7 pictures of 4 pixels, 2 rates, 2 masters or none; 201k states | only whole clips are judged; verdict and findings agree; every floor means what it says |
| `RedDirection` | the same with the four frames of one clip | **violated**: 4 |
| `Agents` | 3 titles of 8 assets, 2 of them authored; 2 runs of the script, 1 scan, one triage, or explanation of five pairs of names, of 3 calls, 2 at once; 203k states | the sweep is exact, every answer is of one corpus and adds up, a failure never counts for less |

Why the bounds are enough to be interesting: three callers are the least with which one
call's retry, another's restart and a third's queued request meet; one death and one failed
start together use up both attempts of a call. In `Clips` a second is 3 time units and the limit is 2, so a rendition
of 4 transitions has windows at, below and above the limit, ties, both kinds of boundary and rules that are met
separately. The tolerance is 1, so violations of the two sides are at, within and beyond it. `HealthCache`'s clock runs past
`TTL`, so a value is fresh, expires, and is overwritten by an older probe. `RateLimit`'s clock passes a full
window and a keyed quota differs from an anonymous one. Its `MCInit` starts two instances at once, since `served` and `changes` begin at any number: six calls with no change
to come, which fill a key's quota on one endpoint and an anonymous one on both, under a shared name too; and three calls beside two changes, enough for a secret to be replaced and configured
again, for a key to outlive a redeploy, or for one to expire. In `Scan` three scans are one to judge, one to dispute or retry it under its own lineage, and one under another;
two faults fail an insert and a count.

`Analyze` allows 2 transitions a second where the code allows 6, so four frames make a flash and the fifth is beyond it; at 0.5
frames a second, below the range, every upload is refused, and at 6 all five frames are within a second. Pictures cover a part of the screen, because
every measurement of the module is about which part: a corner (just the area floor), half of it bright, half of it
red. `Corpus` has the code's own numbers: 25 frames a second, a baseline picture held for six, a limit of 6, the colours and floors. So a baseline that
changes four or five times in a second is quiet, and a burst or a baseline inserted twice is not. Only the clips are shorter, 9 seconds for 120,
with the bursts' seconds apart from each other as the code keeps them. Of the measured title `MeasuredTosses` lists what is tossed: any of the two bursts inherited,
and introduced the bright decoy, alone or with every transform's burst, because one number decides for all the transforms of a rule. The two authored titles
cover an inherited burst, an introduced one of either rule, the bright decoy, and a decoy of one rule that is expected of the other. `MCInit` starts three instances at once: every toss with all the seeding and the scans
and no agent; one toss with a triage beside the script; one toss with an explanation beside the script and a scan. Three calls
let a survey, a profile and an inspection meet, or a survey, another, and an inspection from the first.

`CHECK_DEADLOCK FALSE` appears for `Clips` and `MissedBurst`, where a rendition
stops growing at `MaxRows`, for `Analyze` and `RedDirection`, where one request ends the behaviour, and for `Agents`, where script, scans and
agents are used up.

Fairness (`Liveness` only): the loop keeps running what is ready (`WF(LoopStep)`: that is what an event
loop does) and what a session waits for happens (`WF(Io(g))`: the subprocess answers, fails or goes away,
but does not hang; neither the worker nor the client has a timeout, so without this assumption the code
promises nothing). No cancellation, death or call is assumed.

## Findings

1. *A retry closes a healthy session* (`mcp_worker.py:135`). `aclose` closes the current
   session, not the one the failed request ran on. Two callers see one death; the first
   restarts and queues its request; the second closes the new session; the first loses
   its second attempt and raises.
2. *A cancelled start poisons the worker* (`mcp_worker.py:109-111`). The cancelled ready
   future stays `self._ready` of a session that serves; `exception()` raises `CancelledError` into every later caller.
3. *Only the first window counts* (`detector.py:45`). A second, later burst is
   invisible to the isolation when the master's first burst excuses the rendition's first. The
   mirror image holds too: a rendition that keeps only the second of its master's bursts is
   reported as having introduced it. Both were reproduced by calling `detect_violations` and `regressions` directly.
4. *One direction for two rules* (`ingest.py:109`). Where luminance changes on as much of the screen as red does, the transition's
   direction is luminance's, and an alternation of red that luminance does not follow is not opposing.
   `RedFlashIsReported` checks what does hold: red flashes that cover more of the screen than luminance changes on are found.

### Findings without a run of their own

Met while reading, or seen as a counterexample to a stronger form of a property above:

* `/v1/stack` says that "`live` means a round trip completed during this request" (`main.py:642-643`). The probes may be
  up to 60 s old, and stay live though this request's own query raised. `LiveIsOfTheMinute` is what holds, and what `stack.py:159` says.
* "A re-scan supersedes" (`docs/CLICKHOUSE-SKILLS-REVIEW.md:235`): only violations at the same window start. Others of the
  first scan stay in the table and may fail a corrected rendition, with an empty list of regressions.
  `NeverCleared` is the direction that holds.
* "If the MCP path fails the API returns 502" (`stack.py:163-164`): for triage. The explainer's tool hands an error result
  to the model as evidence, and a run that never called its tool is answered with 200 too.
* "The sweep, `/v1/catalogue/regressions` and `/v1/explain` cannot disagree about the same pair" (`clickhouse_mcp.py:251-253`):
  names `measured_...` are not reserved (`main.py:53`), so a scan under one adds rows that the pair endpoints read and the sweep does not.
  `UnscannedPairsAgree` is what holds.
* Profiles and blind spot asked for in one turn run a statement each, and may count two states of the table
  (`adk_app.py:175`: neither finds the other's result).
* The evaluation attributes what the sweep found beyond the ground truth to the authored cohort whenever the ground truth has no row
  for the asset that says otherwise (`catalogue.py:266-291`).
* `timeline_sql` leaves out `luma_min < 0.80`, so its chart may
  count transitions "toward" the general rule (`clickhouse_mcp.py:543-544`) that the criteria ignore;
  `ChartsShowViolations` checks the direction that holds.
* Two parts of the screen that flash against each other, as the squares of a checkerboard do when it reverses, cancel in the signed mean over what changed
  (`ingest.py:48`): the transition is `flat` and never counts, though the module argues from such a reversal (`ingest.py:21-24`) and from signs that
  do not cancel (`ingest.py:70-73`). `Opposing` in `FlashIsReported` asks for a direction, so that the property holds.
* "Keyed callers get their own bucket, so one caller's quota cannot be consumed by another" (`main.py:162-163`): `_CALLS` is keyed by the key's id or the
  forwarded address (`main.py:120-122`), without saying which, so calls without a key under an address that equals a key's id count towards that key's quota. `RefusedOnlyWhenFull` and `WindowBound` are what holds of a shared name.
* Rows that another scan stored for a rendition under another lineage are counted and join none of the master's rows that this scan stored
  (`clickhouse_mcp.py:273-289`), so they may fail a rendition that introduces nothing. `NeverCleared` is not touched by it.
* `/v1/explain` takes any two names that match a pattern (`main.py:114-117`): of two titles, which are two lineages, all that the child has is evidence, what it inherited from its own master too.
  `PlannedFor` says what is told of any two names.
* Decoys "which the sweep must therefore NOT return" (`sql/008_ground_truth.sql:37-38`): a rendition that inherits a burst of one rule and introduces one of the other is both a decoy and expected, the sweep returns it, as it should, and the evaluation counts it
  under `decoys.wrongly_flagged` (`catalogue.py:304`). The 24 measured titles that are seeded by default have no such rendition (the first would be title 36, which inherits a luminance burst and introduces a red one), and in the recorded answer of
  `scripts/visual_check.py:124` the figure is 0. `SweepIsExact` and `EvaluationMissesNothing` say that it is never more than these.
* Seeding the measured cohort twice puts every row in the table twice, which takes the quiet baseline itself over the limit:
  `SweepIsExact` holds only while no asset was inserted twice.

## Proofs

`tlapm` checks eight modules, for every set of callers, requests, addresses, keys, scans and measurements and every bound.

* `McpWorkerProofs`: `TypeOK`, `NoOrphanSession` and `StartIsWatched`, from the inductive invariant `SessionInv`.
  Neither of the last two is inductive: that a session being started belongs to the caller that holds the lock
  (`StartingIsHeld`) needs that whoever awaits a start holds the lock (`StarterHoldsLock`), that
  sessions not yet started are untouched (`FutureSessionsFresh`) and that a session which takes requests has a resolved
  ready future (`OpenIsReady`), or a new session could start beside it. The lemmas go action by action:
  types first (`CallerTypes`, `CancelTypes`, `SessionTypes`), then the other parts.
* `McpWorkerProofs` then goes on to `EveryRequestIsKept`, `ResolvedOnce`, `QueueIsAttended` and the refinement `ServiceSpec`. `RequestInv`
  follows a request from `put` to its answer: queued once (`QueuedOnce`), in one service (`ServedOnce`), not in both (`HeldOnce`),
  in service only of a session that serves (`OnlyServing`), and there exactly while its caller awaits it (`HeldAwaits`, `AwaitedIsHeld`,
  `FutureIsAwaited`), so that an attempt sends its statement once (`RunsOnce`). The refinement follows step by step: `Execute`
  is the service's start, `Answer` its answer or the loss of a request whose caller has gone, a break or a close is a loss, the steps
  of a caller that end its call are its success or failure, and all else stutters. `QueueIsAttended` is an argument about the ready queue (`AttendInv`):
  a caller may put its request long after it looked at the session, but the loop is first in, first out, and the
  caller was appended when the session became ready, so it runs before that session can end (`StarterIsAhead`). With unordered
  wake-ups the property is false.
* `RateLimitProofs`: `TypeOK`, `WindowBound` and `RefusedOnlyWhenFull`, from `RateInv`. The heart is that the
  list kept for a slot holds every admitted call still in the window: a window that starts at an older call and contains the
  new one consists of recent calls, whose number the guard has just compared with the quota. Since a name may be shared, the list is bounded
  twice: all of it by the key's quota, and its anonymous calls by theirs, as an anonymous call is admitted only when both together leave room. Nothing is assumed of addresses and key ids being different.
* `HealthCacheProofs`: `TypeOK`, `ChangesShow` and `LiveIsOfTheMinute`. `ShowInv` says of each stage of a request what may be wrong in it: an answer, the
  first probe's outcome and the cache agree with every service that has not changed since the request was dated.
  For the cache that is `since < checked`, strictly: a service may change in the very tick a probe is dated, and
  `ChangesShow` holds because the cache's life is compared strictly too. `EarnedInv` carries the round trip that each `TRUE` came of.
* `CriteriaProofs` holds the lemmas about sums, the criteria and measurement. A sum over a set is an entry of a table of the sums over its subsets
  (`TableExists`, `SumDef`): the library's sum is a recursive function, and that it is one must be shown before anything about it can be. From there a sum of bounded
  numbers is bounded (`SumBounds`) and the sizes of disjoint sets add up (`SumOfSizes`), one element at a time (`OneByOne`). The criteria's lemmas are of any list of
  transitions (`IsClip`). A nonempty set of positions has a first one
  (`FirstPosition`), and a set of counted transitions that includes one over the limit is over it (`MoreExceeds`).
  `SameViolations`: the frame of a row is the window of the first of its peers (`FirstPeer`), and
  that peer is the first window over the limit. `SameIsolation`: a clip has at most one violation of
  a rule (`OnePerRule`), so "the master's first violation" in SQL is "any of the master's" in Python; detecting
  more than one window per rule would break it. `WindowIsCharted`: a window lies in two calendar seconds.
* `ClipsProofs`: all of `Clips`' properties. `TypeOK` is the only invariant needed, since a clip of the model is an `IsClip`.
  `NothingMissed`: the window of a burst's first transition contains the burst. `EvidenceNeverAcquits`: appending a transition
  only widens windows.
* `ScanProofs`: `TypeOK`, `ScanIsItsOwn`, `VerdictStands` and `NeverCleared`, from `ScanInv`: every stored row was submitted by some scan
  (`RowsAreSubmitted`), a scan that inserted finds its rows still there (`OwnRowsAreStored`), since rows are replaced by equal ones only, and
  answers are given at the end. What is introduced is counted as long as nobody disputes the master (`IntroducedIsCounted`), which is all that
  `NeverCleared` asks, lineages or not; that nothing else is counted needs the rendition undisputed too, under other lineages as well (`CountedIsIntroduced`): a row of
  another lineage is then of a scan of the same two clips, and joins the master's row that came with it (`InheritedIsJoined`).
* `AnalyzeProofs`: all of `Analyze`'s properties, for pictures of any number of pixels and colours, any increasing `_linearise`, rate and length. What measuring and
  dating give is an `IsClip` for any frames (`MeasuredIsClip`), so `SameIsolation` applies, and the verdict of the SQL is that of the findings listed. Of a
  transition: a mean lies between the bounds of what it is of (`MeanBounds`), so measurements are in range (`SampleBounds`), a change of the threshold everywhere it is counted
  clears the floor (`LumaFlashCounts`) and one between bright states stays above the ceiling (`OnlyBrightCountsNot`); a burst of those that count is reported
  (`BurstIsDetected`). `ConversionIsNeutral` has two halves: rounding twice the numerator over twice the denominator gives the same time, half to even included
  (`RoundOfDouble`), and a picture does not move against itself (`StillIsFlat`), so the doubled clip is the clip with flat transitions in between, and those
  change no window (`IsStretch`, `StretchedDetect`).
* `AgentsProofs`: all of `Catalogue`'s and `Agents`' properties, for any titles, tosses, number of runs and scans, and any calls. `SeedInv` is what the
  script leaves: an asset is there as often as the script has passed it, a rendition never without its master, so that the isolation always has
  the master to compare with. From it and `Planting` the sweep of a table seeded once is what was planted (`SweepOnce`). `RequestInv` is about a request
  between its two statements (`Underway`): the table only grows, so an evaluation that reads the ground truth first, and a sweep that asks for the size last, are short of nothing. `RiskAddsUp` is an
  argument about sums: the renditions counted per transform are disjoint. `UnscannedPairsAgree` and `ExplanationIsOfThePlan` are about assets of which nothing is stored, where the pair's statement sees what is measured and a parent of another title excuses nothing
  (`MeasuredPair`), an asset that is not there has nothing (`AbsentIsClean`), and what is left is what was planted in the one and not in the other (`PlannedEvidence`). That an evaluation counts no decoy for what came between its statements is in `Underway` too: a
  decoy of the ground truth that the later sweep finds is one that was expected.
  `AgentInv` says of a triage, at any point of any order of its calls, that what it inspected had flashed
  (`Inspected`), that its profiles account for its surveys (`Accounted`) and that these hold all that was flagged when the run began (`Reported`); and of an explanation, that what it was
  told is of the plan (`ExplainInv`). `SweepStays` is an action property: while every asset is there once, no step takes back what the sweep found.

  `Planting` is what the corpus rests on: in an asset inserted once the criteria find the bursts that were planted, nothing else, and always at the same time; and the
  chart of an asset in which anything was ever found is over the limit, however often it was inserted since. It holds for any rate that divides a second, any number of seconds and any place
  of the bursts, for measured and authored rows alike. The argument goes up in four steps: what is measured of the pairs of constructed frames that follow one another
  (`FramePairs`); what each row then does to the criteria, by what is planted at its frame and the one before (`Behaves`); a window that reaches no burst holds only transitions of the
  baseline or of a second's edge, too few of them (`QuietIsUnderLimit`, `NotOver`), while a burst alternates through its second (`BurstIsOver`); and since nothing else is planted in the seconds
  around a burst (`AloneAround`), all assets that have it share the first window over the limit (`SameOver`).

Assumptions: only those on the constants, which TLC evaluates on the runs' constants. Most say that sizes are numbers and sets of them what they
should be. Four say more:

* `FloorAssumption` (`Analyze`): the luminance floor of a flash is at most the threshold of a changed pixel, and positive. Both are 0.1 (`detector.py:15`, `ingest.py:60`). With a higher
  floor `FlashIsReported` would be false.
* `ConstructedAssumption` (`Corpus`): the frames are those the seeding script constructs (`seed_measured_corpus.py:68-98`), and `Linear` is `_linearise` of their samples (`metrics.py:26-34`).
* `FloorsAssumption` (`Corpus`): the criteria's floors are the code's numbers (`detector.py:14-18`, `ingest.py:60`).
* `QuietAssumption` (`Corpus`): the rate divides 1000 ms, a second has frames enough for a burst to be over the limit, and no second from any frame on has more frames than the limit at
  which the baseline changes or a calendar second starts: "deliberately just under the criterion, so ordinary content never trips the rule" (`seed_measured_corpus.py:132-134`). Inserted twice, the
  baseline's changes in the burst's second are over it. Bursts are more than a second apart, as the script's arithmetic keeps them. At 25 frames a second, six frames a picture, the
  frames concerned recur every 150, so the 9 seconds that `Agents` evaluates this for show every case of the script's 120.

Model-checked only: liveness under fairness (`EveryCallEnds`, `DroppedSessionsEnd`), which is out of the proof system's reach.
Every invariant and every action property of a passing run is proved.

## Not modelled

Log lines (`telemetry.py`: pure output); markup, style and rendering of the page, on which no answer depends;
the browser-driven acceptance script; the text a language model writes; `tile_luminance`, which only tests use; the
refreshable view of `sql/007`, which is not deployed; static entries and texts of the stack; `make_samples.py`, which writes files;
proofs, timings and wording in answers. Widths of
stored columns (`UInt32` times, `Float32` levels) are listed as a hazard without a property: what they round is finer
than the model's thousandths.

## Plan

Done: every module above, and the proofs of every safety property that a run checks. Left:

1. The evidence endpoint (`main.py:865-897`), whose four calls are gathered and not cancelled with each other; that three different calls
   share the worker and one of them fails is what `Mixed` checks.

------------------------------- MODULE Agents -------------------------------
(***************************************************************************)
(* The two agents of safe_frame/adk_app.py over the catalogue, behind      *)
(* /v1/explain and /v1/triage.  The model is an unpredictable caller of    *)
(* tools: it calls what it likes, in any order, as often as it likes, two  *)
(* at once if it likes, and writes its answer when it likes.  A tool is a  *)
(* closure of its run: the tools of a triage share `seen`.  The catalogue  *)
(* changes between the statements of the tools.                            *)
(*   One reader at a time: the agents and the endpoints' requests write    *)
(* nothing that another reads.                                             *)
(***************************************************************************)
EXTENDS Catalogue

CONSTANTS Asked,      \* the renditions that the model of a triage asks about
          Compared,   \* the parents and children that operators want explained
          MaxCalls,   \* bound: calls of one run
          MaxAtOnce   \* bound: calls of one turn

ASSUME AgentsAssumption ==
  /\ Asked \subseteq {a \in Assets : a[2] # "master"} /\ Compared \subseteq Assets \X Assets
  /\ MaxCalls \in Nat /\ MaxAtOnce \in Nat

VARIABLES agent,    \* the run of an agent
          allowed   \* bound: the agents that are still to run

agentVars == <<agent, allowed>>
allVars == <<vars, agentVars>>

NoAgent == [kind |-> "none", phase |-> "done"]

Call(tool, child) == [tool |-> tool, child |-> child]
Survey == Call("survey_regressions", <<>>)
Profile == Call("profile_transform_risk", <<>>)
BlindSpot == Call("count_luminance_blind_spot", <<>>)
Inspect(child) == Call("inspect_pair_timeline", child)
Calls == {Survey, Profile, BlindSpot} \cup {Inspect(child) : child \in Asked}

AgentsInit == Init /\ agent = NoAgent /\ allowed \in SUBSET {"triage", "explain"}

Running(kind) == agent.kind = kind /\ agent.phase = "model"
Idling == request.step = "done" /\ agent.phase = "done"

-----------------------------------------------------------------------------
(* What a statement comes back with. *)

Outcomes == {"rows", "error", "exception"}

\* Mutant of Raises: an error the server reports is read as no rows.
RaisesException(outcome) == outcome = "exception"

\* _decode raises on an error that mcp-clickhouse reports as a result.
Raises(outcome) == outcome # "rows"

\* The rows of a statement, none if its error went unnoticed.
RowsOr(outcome, rows, none) == IF outcome = "rows" THEN rows ELSE none

\* The API answers 502: no text, no figure.
Refuse == agent' = NoAgent

-----------------------------------------------------------------------------
(* triage_catalogue: QcTriageAgent. *)

\* base and crossed are for the properties: the sweep as it was when the run began, and
\* whether the profiles and the blind spot have been asked for at once.
Triage ==
  /\ Idling /\ "triage" \in allowed /\ allowed' = allowed \ {"triage"}
  /\ agent' = [kind |-> "triage", phase |-> "model", calls |-> 0, underway |-> {},
               regressions |-> {}, risk |-> <<>>, told |-> {}, base |-> Sweep, crossed |-> FALSE]

\* A figure the model was told: for which call, of the turn that made it the nth.
Told(call, nth, figure) == [call |-> call, nth |-> nth, figure |-> figure]

\* The newest result of each tool is the one the brief is written from.
Tell(told, results) ==
  {t \in told : \A r \in results : r.call.tool # t.call.tool} \cup results

\* Mutant of Known: a count of the blind spot always asks again.
KnownNever(risk) == FALSE

\* seen.get("risk").
Known(risk) == risk # <<>>

\* Mutant of Bound: any asset the model names is inspected.
BoundToNone(child, regressions) == TRUE

\* Whether the rendition is among seen["regressions"].
Bound(child, regressions) == child \in {f[1] : f \in regressions}

BlindSpotOf(profiles) ==
  [redOnly |-> RiskOf(profiles).redOnly, total |-> RiskOf(profiles).total]

\* A call that answers before it awaits anything, and what it answers.
AtOnce(call) ==
  \/ call = BlindSpot /\ Known(agent.risk)
  \/ call.tool = "inspect_pair_timeline" /\ ~Bound(call.child, agent.regressions)
Answered(call, nth) ==
  IF call = BlindSpot THEN {Told(call, nth, BlindSpotOf(agent.risk[1]))} ELSE {}

\* The model's turn: its calls start together, each as far as its first await.
Turn(calls) ==
  /\ Running("triage") /\ agent.underway = {}
  /\ Cardinality(calls) \in 1..MaxAtOnce /\ agent.calls + Cardinality(calls) <= MaxCalls
  /\ LET nth == agent.calls + Cardinality(calls)
         quick == {c \in calls : AtOnce(c)}
     IN agent' = [agent EXCEPT
          !.calls = nth,
          !.crossed = @ \/ {Profile, BlindSpot} \subseteq calls,
          !.underway = {[call |-> c, found |-> <<>>] : c \in calls \ quick},
          !.told = Tell(@, UNION {Answered(c, nth) : c \in quick})]
  /\ UNCHANGED allowed

\* The end of a tool: the model is told, and `seen` is what the tool leaves it.
Return(item, figure, regressions, risk) ==
  agent' = [agent EXCEPT
    !.underway = @ \ {item},
    !.told = Tell(@, {Told(item.call, agent.calls, figure)}),
    !.regressions = regressions,
    !.risk = risk]

\* One statement of survey_regressions: the sweep, then the scale.
SurveyStatement(item, outcome) ==
  IF item.found = <<>>
  THEN agent' = [agent EXCEPT
         !.underway = (@ \ {item}) \cup {[item EXCEPT !.found = <<RowsOr(outcome, Sweep, {})>>]}]
  ELSE Return(item, item.found[1], item.found[1], agent.risk)

\* The statement of profile_transform_risk and of count_luminance_blind_spot.
RiskStatement(item, outcome) ==
  LET profiles == RowsOr(outcome, Profiles(Sweep), <<>>)
  IN Return(item, IF item.call = BlindSpot THEN BlindSpotOf(profiles) ELSE RiskOf(profiles),
            agent.regressions, <<profiles>>)

\* The statement of inspect_pair_timeline.
TimelineStatement(item, outcome) ==
  LET peak(a) == RowsOr(outcome, Max({Peak(a, rule) : rule \in Rules}), 0)
  IN Return(item, [parent |-> peak(Master(item.call.child)), child |-> peak(item.call.child)],
            agent.regressions, agent.risk)

\* A statement of a tool comes back; one that raises ends the run.
Statement(item, outcome) ==
  /\ item \in agent.underway
  /\ IF Raises(outcome) THEN Refuse
     ELSE \/ item.call = Survey /\ SurveyStatement(item, outcome)
          \/ item.call \in {Profile, BlindSpot} /\ RiskStatement(item, outcome)
          \/ item.call.tool = "inspect_pair_timeline" /\ TimelineStatement(item, outcome)
  /\ UNCHANGED allowed

\* The model writes its brief.
Brief ==
  /\ Running("triage") /\ agent.underway = {}
  /\ agent' = [agent EXCEPT !.phase = "done"]
  /\ UNCHANGED allowed

-----------------------------------------------------------------------------
(* explain_regression: RegressionExplainer. *)

\* Of any two names, a pair or not.  base is for the properties: those that were in the
\* catalogue when the run began.
Explain(parent, child) ==
  /\ Idling /\ "explain" \in allowed /\ allowed' = allowed \ {"explain"}
  /\ agent' = [kind |-> "explain", phase |-> "model", parent |-> parent, child |-> child,
               calls |-> 0, evidence |-> {}, base |-> Present \cap {parent, child}]

\* The bound tool returns what the server returned, an error too: only an exception of the
\* transport ends the run.
Evidence(outcome) ==
  /\ Running("explain") /\ agent.calls < MaxCalls
  /\ IF outcome = "exception" THEN Refuse
     ELSE agent' = [agent EXCEPT
            !.calls = @ + 1,
            !.evidence = @ \cup {[error |-> outcome = "error",
                                  found |-> RowsOr(outcome, PairRegressions(agent.parent, agent.child), {})]}]
  /\ UNCHANGED allowed

\* The model writes its explanation, whether it has evidence or none.
Explanation ==
  /\ Running("explain")
  /\ agent' = [agent EXCEPT !.phase = "done"]
  /\ UNCHANGED allowed

-----------------------------------------------------------------------------
AgentStep ==
  \/ Triage
  \/ \E calls \in SUBSET Calls : Turn(calls)
  \/ \E item \in (IF agent.kind = "triage" THEN agent.underway ELSE {}), outcome \in Outcomes :
       Statement(item, outcome)
  \/ Brief
  \/ \E pair \in Compared : Explain(pair[1], pair[2])
  \/ \E outcome \in Outcomes : Evidence(outcome)
  \/ Explanation

\* An answer is gone with the next step.
AgentsNext ==
  \/ /\ AgentStep
     /\ request' = Idle /\ UNCHANGED <<tosses, copies, next, runs, stored, scans>>
  \/ /\ Next /\ (agent.phase = "model" => request' = Idle)
     /\ agent' = IF agent.phase = "done" THEN NoAgent ELSE agent
     /\ UNCHANGED allowed

AgentsSpec == AgentsInit /\ [][AgentsNext]_allVars

-----------------------------------------------------------------------------
(* Properties. *)

Figures(tool) == {t \in agent.told : t.call.tool = tool}

\* The rendition whose peaks the brief may cite is one that the survey of the same run
\* found, beside its own master, and its chart crosses the criterion, though the chart is
\* read later than the survey and another survey may have come between (adk_app.py:190-216).
ReviewShowsTheFlash ==
  agent.kind = "triage" =>
    \A t \in Figures("inspect_pair_timeline") : t.figure.child > MaxTransitions

\* The figures of one brief add up, whatever was inserted while it was made: a blind spot
\* counted after the profiles is that of those profiles (adk_app.py:175-176), unless both
\* were once asked for at the same time, and every regression surveyed is of a rendition
\* that the profiles of a later turn count.
BriefAddsUp ==
  agent.kind = "triage" =>
    \A p \in Figures("profile_transform_risk") :
      /\ \A b \in Figures("count_luminance_blind_spot") :
           b.nth > p.nth /\ ~agent.crossed =>
             b.figure = [redOnly |-> p.figure.redOnly, total |-> p.figure.total]
      /\ \A s \in Figures("survey_regressions") :
           s.nth < p.nth /\ SeededOnce => Cardinality({f[1] : f \in s.figure}) <= p.figure.total

\* A brief is short of nothing that was in the catalogue when its run began: a statement
\* that fails ends the run, it never counts for less (main.py:816-830, catalogue.py:44-46).
BriefIsShortOfNothing ==
  agent.kind = "triage" /\ SeededOnce =>
    /\ \A s \in Figures("survey_regressions") : agent.base \subseteq s.figure
    /\ \A p \in Figures("profile_transform_risk") :
         Cardinality({f[1] : f \in agent.base}) <= p.figure.total

\* What the plan says that a child has and its parent has not.  Two titles are two lineages:
\* neither excuses the other's violations.
PlannedFor(parent, child) ==
  LET rules(a) == RulesOf(Plan(tosses[a[1]], a[2]))
  IN rules(child) \ (IF parent[1] = child[1] THEN rules(parent) ELSE {})

\* Authored, or never scanned.
Untouched(a) == a[1] \in Authored \/ ~\E r \in stored : r.asset = a

\* An explanation of two names of the catalogue, whatever their order and title, is told
\* what was planted in the one and not in the other, all of it whatever is inserted or
\* scanned meanwhile (main.py:76-81, clickhouse_mcp.py:251-253).  Where one of them was not
\* in the catalogue yet, it may be told of what both have, but of no rule that was not
\* planted in the child; of a rendition and its own master, which is inserted first, not
\* even that.
ExplanationIsOfThePlan ==
  LET parent == agent.parent
      child == agent.child
      planned == PlannedFor(parent, child)
  IN agent.kind = "explain" /\ Untouched(parent) /\ Untouched(child) /\ SeededOnce =>
       \A e \in agent.evidence :
         LET told == {v.rule : v \in e.found}
         IN ~e.error => /\ told \subseteq RulesOf(Plan(tosses[child[1]], child[2]))
                        /\ {parent, child} \subseteq agent.base => told = planned
                        /\ parent = Master(child) => told \in {{}, planned}
=============================================================================

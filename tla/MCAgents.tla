------------------------------ MODULE MCAgents ------------------------------
(* Instances of Agents for TLC. *)
EXTENDS Agents, TLC

\* What can be tossed for a measured title, where one number decides for all the
\* transforms with a rule, beside the decoy of a bright burst; one toss for each authored title.
MeasuredTosses ==
  [inherited : SUBSET {"general", "red"},
   introduced : {BrightCapable, BrightCapable \cup BurstCapable \cup RedCapable}]
Tossed ==
  1 :> {[inherited |-> {}, introduced |-> {"60fps_interp", "subtitle_burnin", "hdr10_passthrough"}]}
  @@ 2 :> {[inherited |-> {"general"}, introduced |-> {"adbreak_insert", "social_crop_v"}]}
  @@ 3 :> MeasuredTosses

\* A measured rendition and its master, with and without the burst it was seeded with, under
\* their own lineage and another; and an authored one, which is refused.
Scan(lineage, child, inParent, inChild) ==
  [lineage |-> lineage, parent |-> Master(child), child |-> child,
   inParent |-> inParent, inChild |-> inChild]
Submitted ==
  {Scan(3, <<3, "adbreak_insert">>, p, c) : p, c \in {{}, {"general"}}}
  \cup {Scan(0, <<3, "adbreak_insert">>, {"general"}, {"general"}),
        Scan(1, <<1, "60fps_interp">>, {}, {"red"})}

\* A rendition that is being seeded and one of the authored cohort, both with a flash.
Pair == {<<3, "adbreak_insert">>, <<1, "60fps_interp">>}

\* Renditions and their masters; the other way round; of two titles that have one burst in
\* the same second; and two of one title, of which the parent is inserted last.
Pairs == {<<Master(<<3, "adbreak_insert">>), <<3, "adbreak_insert">>>>,
          <<Master(<<1, "60fps_interp">>), <<1, "60fps_interp">>>>,
          <<<<1, "60fps_interp">>, Master(<<1, "60fps_interp">>)>>,
          <<Master(<<2, "social_crop_v">>), <<1, "60fps_interp">>>>,
          <<<<3, "adbreak_insert">>, <<3, "60fps_interp">>>>}

\* Three instances in one: every toss with all the seeding and the scans but no agent, and
\* one toss with a triage beside one run of the script, or with an explanation and scans.
Briefed == [inherited |-> {}, introduced |-> BurstCapable \cup RedCapable \cup BrightCapable]
MCInit ==
  /\ AgentsInit
  /\ \/ allowed = {} /\ runs = 1 /\ scans = 0
     \/ allowed = {"triage"} /\ runs = MaxRuns /\ scans = MaxScans /\ tosses[3] = Briefed
     \/ allowed = {"explain"} /\ runs = MaxRuns /\ scans = 0 /\ tosses[3] = Briefed
MCSpec == MCInit /\ [][AgentsNext]_allVars
=============================================================================

\* Two authored titles, a measured one seeded twice with deaths, one scan.
SPECIFICATION MCSpec
CONSTANTS
  Span = 1000
  MaxTransitions = 6
  Tolerance = 100
  LumaFloor = 1000
  DarkerCeiling = 8000
  RedFloor = 2000
  AreaFloor = 2500
  Pixels = 1
  Linear <- Linearised
  LumaThreshold = 1000
  Picture <- Constructed
  FrameRate = 25
  Every = 6
  Seconds = 9
  BurstSecond = 4
  RedSecond = 7
  BrightSecond = 1
  MaxCopies = 2
  Titles = {1, 2, 3}
  Authored = {1, 2}
  TossSets <- Tossed
  Scanned <- Submitted
  MaxRuns = 2
  MaxScans = 1
  Asked <- Pair
  Compared <- Pairs
  MaxCalls = 3
  MaxAtOnce = 2
CHECK_DEADLOCK FALSE
INVARIANTS
  TypeOK SweepIsExact EvaluationMissesNothing SweepIsOfItsCorpus RiskAddsUp
  UnscannedPairsAgree ReviewShowsTheFlash BriefAddsUp BriefIsShortOfNothing
  ExplanationIsOfThePlan

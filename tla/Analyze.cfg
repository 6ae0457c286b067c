\* Clips of a quarter second a frame, whole and cut short, beside two masters or none.
SPECIFICATION Spec
CONSTANTS
  Span = 1000
  MaxTransitions = 2
  Tolerance = 100
  LumaFloor = 1000
  DarkerCeiling = 8000
  RedFloor = 2000
  AreaFloor = 2500
  Pixels = 4
  Linear <- LinearTable
  LumaThreshold = 1000
  Picture <- Pictures
  Rates = {500, 6000}
  Masters <- SomeMasters
  NoMaster = NoMaster
  MaxClip = 5
CHECK_DEADLOCK FALSE
INVARIANTS
  TypeOK WholeClipIsJudged VerdictMatchesFindings FlashIsReported RedFlashIsReported
  BrightIsNoFlash ConversionIsNeutral

\* Half a screen alternates between red and teal while the other half brightens.
SPECIFICATION Spec
CONSTANTS
  Span = 1000
  MaxTransitions = 2
  Tolerance = 100
  LumaFloor = 1000
  DarkerCeiling = 8000
  RedFloor = 2000
  AreaFloor = 2500
  Pixels = 4
  Linear <- LinearTable
  LumaThreshold = 1000
  Picture <- SlowDawn
  Rates = {6000}
  Masters = {}
  NoMaster = NoMaster
  MaxClip = 4
CHECK_DEADLOCK FALSE
INVARIANT RedOpposesInRed

\* A rendition with the master's burst and a later one of its own.
SPECIFICATION Spec
CONSTANTS
  Span = 2
  MaxTransitions = 1
  Tolerance = 1
  LumaFloor = 1
  DarkerCeiling = 1
  RedFloor = 1
  AreaFloor = 1
  Times = {0, 1, 3, 4}
  Samples <- Swings
  Masters <- EarlyBurst
  MaxRows = 4
  InOrder = TRUE
CHECK_DEADLOCK FALSE
INVARIANT IntroducedIsReported

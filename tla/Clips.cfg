\* A rendition with its transitions in any order and with ties, beside two masters.
SPECIFICATION Spec
CONSTANTS
  Span = 3
  MaxTransitions = 2
  Tolerance = 1
  LumaFloor = 1
  DarkerCeiling = 1
  RedFloor = 1
  AreaFloor = 1
  Times = {0, 1, 2, 3}
  Samples <- AllSamples
  Masters <- QuietOrNot
  MaxRows = 4
  InOrder = FALSE
CHECK_DEADLOCK FALSE
INVARIANTS DetectorMatchesSql NoBurstMissed IsolationsAgree ChartsShowViolations
PROPERTY StaysViolated

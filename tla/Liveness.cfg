\* Two operations with failures and cancellations under fairness.
SPECIFICATION FairSpec
CONSTANTS
  a = a
  b = b
  c3 = c3
  NoOne = NoOne
  Callers <- TwoCallers
  Op <- TwoOps
  Cancellable <- TwoCallers
  MaxSessions = 5
  MaxDeaths = 1
  IdleDeaths = TRUE
  MaxRefusals = 1
PROPERTIES EveryCallEnds DroppedSessionsEnd

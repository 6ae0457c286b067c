\* A tool not advertised, a query and a tool list; one death, one failed start, two cancellable.
SPECIFICATION Spec
CONSTANTS
  a = a
  b = b
  c3 = c3
  NoOne = NoOne
  Callers <- MixedCallers
  Op <- MixedOps
  Cancellable <- TwoCallers
  MaxSessions = 8
  MaxDeaths = 1
  IdleDeaths = TRUE
  MaxRefusals = 1
INVARIANTS TypeOK NoOrphanSession EveryRequestIsKept QueueIsAttended StartIsWatched
PROPERTIES ResolvedOnce ServiceSpec

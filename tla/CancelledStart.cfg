\* Two operations, nothing fails, one caller may be cancelled: mcp_worker.py:15-17.
SPECIFICATION Spec
CONSTANTS
  a = a
  b = b
  c3 = c3
  NoOne = NoOne
  Callers <- TwoCallers
  Op <- TwoOps
  Cancellable <- OnlyA
  MaxSessions = 4
  MaxDeaths = 0
  IdleDeaths = FALSE
  MaxRefusals = 0
INVARIANT CancellationIsLocal

\* Three calls, one session death, no cancellation: the claim of mcp_worker.py:126.
SPECIFICATION Spec
CONSTANTS
  a = a
  b = b
  c3 = c3
  NoOne = NoOne
  Callers <- MixedCallers
  Op <- AllCalls
  Cancellable <- Nobody
  MaxSessions = 6
  MaxDeaths = 1
  IdleDeaths = FALSE
  MaxRefusals = 0
INVARIANT OneDeathIsTransparent

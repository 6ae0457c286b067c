\* Two addresses, one of which is the id of a key; two keys, two secrets, a redeploy, a
\* clock set back.
SPECIFICATION MCSpec
CONSTANTS
  mint = mint
  triage = triage
  here = here
  k1 = k1
  k2 = k2
  s1 = s1
  s2 = s2
  NoSecret = NoSecret
  Buckets <- BothBuckets
  MintBucket = mint
  None = None
  Broken = Broken
  Limit <- BothLimits
  Multiplier = 2
  Window = 2
  Addresses = {here, k1}
  KeyIds = {k1, k2}
  Secrets = {s1, s2}
  MaxAge = 1
  MaxClock = 2
  MaxWall = 3
  MaxCalls = 6
  MaxChanges = 2
SYMMETRY Symmetric
INVARIANTS TypeOK WindowBound RefusedOnlyWhenFull

\* Scans of pairs that share assets, overlapping, repeated and failing.
SPECIFICATION Spec
CONSTANTS
  s1 = s1
  s2 = s2
  s3 = s3
  master = master
  web = web
  Scans = {s1, s2, s3}
  Assets = {master, web}
  l1 = l1
  l2 = l2
  Lineages = {l1, l2}
  Starts = {0, 1, 3}
  Findings <- Few
  MaxFaults = 2
  Span = 3
  MaxTransitions = 2
  Tolerance = 1
  LumaFloor = 1
  DarkerCeiling = 1
  RedFloor = 1
  AreaFloor = 1
SYMMETRY Symmetric
INVARIANTS TypeOK   

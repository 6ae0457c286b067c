\* Three requests overlap; ClickHouse goes down or comes back once.
SPECIFICATION Spec
CONSTANTS
  r1 = r1
  r2 = r2
  r3 = r3
  Requests = {r1, r2, r3}
  Configured = {"clickhouse"}
  TTL = 2
  MaxClock = 3
  MaxChanges = 1
SYMMETRY Symmetric
INVARIANTS ChangesShow LiveIsOfTheMinute

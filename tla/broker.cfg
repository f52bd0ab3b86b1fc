SPECIFICATION Spec
CONSTANTS
  Users = {"u1", "u2", "+"}
  Forbidden = {"+"}
  ClientIds = {a, b}
  Topics <- MCTopics
  Filters <- MCFilters
  Lifetime = 1
  Interval = 2
  MaxTime = 4
  MaxConnects = 4
  MaxPublished = 1
  MaxFailures = 1
SYMMETRY MCClientIds
INVARIANTS
  DeliversOnlyToEntitled
  ExpiredAreDisconnected
CHECK_DEADLOCK FALSE

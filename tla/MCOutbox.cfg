SPECIFICATION Spec
CONSTANTS
  w1 = w1
  w2 = w2
  d1 = d1
  d2 = d2
  d3 = d3
  Events = {e1}
  UnknownTypes = {}
  Workers = {w1, w2}
  Drains = {d1, d2, d3}
  OwnerOf <- MCOwnerOf
  Requests = {r1}
  Codes = {c1}
  MaxAttempts = 2
  BatchSize = 1
  MaxSetbacks = 2
SYMMETRY Alike
INVARIANTS
  TypeOK
  SettledByLatestRun
  AttemptsAreRunsOfTheirOwn
PROPERTIES
  ImplementsContract
CHECK_DEADLOCK FALSE

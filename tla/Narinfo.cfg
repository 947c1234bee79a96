SPECIFICATION Spec
CONSTANTS
  Paths = {p1, p2}
  Readers = {r1, r2}
  Putters = {c1}
  Worker = Worker
  Upstream = TRUE
  ServiceV2 = FALSE
  NoPath = NoPath
SYMMETRY Symmetry
INVARIANTS TypeOK StaleOnlyByRace ErrorsNeverCached
PROPERTIES SubstitutesWholePaths
CHECK_DEADLOCK FALSE

SPECIFICATION Spec
CONSTANTS
  Paths = {p1}
  Readers = {r1}
  Putters = {c1}
  Worker = Worker
  Upstream = TRUE
  ServiceV2 = FALSE
  NoPath = NoPath
SYMMETRY Symmetry
INVARIANTS NegativeIsAbsent
CHECK_DEADLOCK FALSE

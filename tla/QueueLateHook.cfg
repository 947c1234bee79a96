SPECIFICATION Spec
CONSTANTS
  Paths = {p1}
  Hooks = {h1}
  Finishers = {f1}
  DiffStore = FALSE
  Nobody = Nobody
SYMMETRY Symmetry
INVARIANTS AcceptedHandled
CHECK_DEADLOCK FALSE

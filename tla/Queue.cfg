SPECIFICATION FairSpec
CONSTANTS
  Paths = {p1}
  Hooks = {h1}
  Finishers = {f1, f2}
  DiffStore = TRUE
  Nobody = Nobody
INVARIANTS TypeOK NoShutdownPanic CancelAfterDrain AcceptedQueued WaitsEnd
PROPERTIES DrainsGracefully CallsReturn ExitFollows
CHECK_DEADLOCK FALSE

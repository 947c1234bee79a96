SPECIFICATION Spec
CONSTANTS
  MaxRuns = 2
INVARIANTS TypeOK ConfigIsSafe NotifiedMeansReady
CHECK_DEADLOCK FALSE

SPECIFICATION Spec
CONSTANTS
  out = out
  dev = dev
  Paths <- MCPaths
  Closure <- MCClosure
  Way <- MCWay
  Target <- MCTarget
  Outside = Outside
  Specials = {links}
  Starts = {s1, s2}
  Finishers = {f1, f2}
  Nobody = Nobody
SYMMETRY Symmetry
INVARIANTS TypeOK
PROPERTIES NewPathsPushed OldPathsSkipped FinishFailsForAReason
CHECK_DEADLOCK FALSE

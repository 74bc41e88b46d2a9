SPECIFICATION Spec
CONSTANTS
  Callers = {c1, c2}
  Ticks = 1
  MaxRuns = 2
  MaxTicks = 2
  Env <- NoEnv
PROPERTIES
  StopWaits
CHECK_DEADLOCK FALSE

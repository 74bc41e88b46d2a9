SPECIFICATION FairSpec
CONSTANTS
  Callers = {c1, c2}
  Ticks = 2
  MaxRuns = 2
  MaxTicks = 3
  Env <- AllEnv
INVARIANTS
  TypeOK
  BlocksWithinTicks
  RunningIsTruthful
PROPERTIES
  StopWaitsOnce
  StopReturns
  TicksEnd

SPECIFICATION FairSpec
CONSTANTS
  Callers = {c1, c2}
  NoCaller = none
  AutoMining = TRUE
  Initialized = FALSE
  Env <- AllEnv
INVARIANTS
  WaitsEnd
  RunningIsUsable
  LoopHasItsNode
  StoreUsedOpen
PROPERTIES
  ImplementsOneShotServer
  SuccessMeansReleased
  StopReturns
  CancelledLoopEnds

SPECIFICATION FairSpec
CONSTANTS
  Generators = {native, erc20}
  Tokens = {erc20}
  AutoMining = TRUE
  Env <- AllEnv
INVARIANTS
  TypeOK
  WaitMeansOver
  ClosedOnlyWhenTold
  SuccessMeansSignal
PROPERTIES
  ShutdownEnds

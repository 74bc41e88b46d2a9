SPECIFICATION FairSpec
CONSTANTS
  Payloads = {empty}
  Empty = empty
  TxsIn <- OneTx
  MaxBatch = 1
  MaxBlockNum = 2
  StartHeight = 0
  ReorgEnabled = TRUE
  ReorgDepthMin = 1
  ReorgDepthMax = 1
  Clients = {c1, c2}
  Runner = run
  Loop = loop
  NoActor = none
  AutoMining = TRUE
  Initialized = FALSE
  Word = 1
  Env <- AllEnv
PROPERTIES
  CallsReturn
  LoopStopsAfterMaxDuration
  MinesUpToLimit

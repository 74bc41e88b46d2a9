SPECIFICATION Spec
CONSTANTS
  Payloads = {empty, tx}
  Empty = empty
  TxsIn <- OneTx
  MaxBatch = 2
  MaxBlockNum = 3
  StartHeight = 0
  ReorgEnabled = TRUE
  ReorgDepthMin = 2
  ReorgDepthMax = 3
  Clients = {c1, c2}
  Runner = run
  Loop = loop
  NoActor = none
  AutoMining = TRUE
  Initialized = FALSE
  Word = 2
  Env <- AllEnv
SYMMETRY ClientSymmetry
INVARIANTS
  TypeOK
  HeightWithinLimit
  ReturnedBlocksCanonical
  StatsExact
PROPERTIES
  ReorgInRange
  OnlyForksOrphan
  ImplementsLimitedChain

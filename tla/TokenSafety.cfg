SPECIFICATION Spec
CONSTANTS
  Kinds <- AllKinds
  Senders <- TwoSenders
  NoAccount = nobody
  Mints = 2
  MaxHeight = 4
  MaxBroken = 2
  Others <- AliceOnly
  Env <- AllEnv
INVARIANTS
  TypeOK
  ReadyMeansMinted
  MintedOnce
  MappingIsCurrent

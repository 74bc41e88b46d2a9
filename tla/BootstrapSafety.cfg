SPECIFICATION Spec
CONSTANTS
  Geneses = {g1, g2}
  NoGenesis = none
  Modes <- BothModes
  MaxHeight = 4
  Env <- AllEnv
SYMMETRY GenesisSymmetry
INVARIANTS
  TypeOK
  CreatedForGood
  StoredOnChain
PROPERTIES
  ChainKept

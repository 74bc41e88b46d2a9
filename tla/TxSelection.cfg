SPECIFICATION FairSpec
CONSTANTS
  modest = modest
  greedy = greedy
  confused = confused
  Accounts = {a1, a2}
  Operators <- AllOperators
  PerBlock <- TxsPerBlock
  MinPerBlock <- MinTxs
  MaxPerBlock <- MaxTxs
  GasLimit = 4
  Gas = {1, 4}
  OpGas = 3
  OpUsed = {1, 3}
  Fees = {1, 2}
  MaxNonce = 2
INVARIANTS
  TypeOK
  PanicExplained
PROPERTIES
  PoolDrains

SPECIFICATION Spec
CONSTANTS
  Generators = {native}
  Tokens = {}
  AutoMining = FALSE
  Env <- CloseEnv
INVARIANTS
  UncleanStopReported

SPECIFICATION Spec
CONSTANTS
  Callers = {c1, c2}
  NoCaller = none
  AutoMining = FALSE
  Initialized = TRUE
  Env <- NoEnv
INVARIANTS
  NoNilNode

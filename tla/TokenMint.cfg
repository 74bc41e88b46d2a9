SPECIFICATION Spec
CONSTANTS
  Kinds <- UniqueOnly
  Senders <- TwoSenders
  NoAccount = nobody
  Mints = 2
  MaxHeight = 5
  MaxBroken = 2
  Others <- NoOne
  Env <- CleanStops
INVARIANTS
  MintsForEachSender

SPECIFICATION Spec
CONSTANTS
  a = a
  b = b
  Keys = {a, b}
  NoKey = NoKey
  Affinity <- Verbatim
  Deps <- SomeDeps
  Procs = {p, q}
  NoProc = NoProc
  MaxID = 2
  MaxFiles = 3
  MaxBuilds = 2
  MaxFaults = 0
SYMMETRY Symmetry
INVARIANT OpenIsReady
CHECK_DEADLOCK FALSE

SPECIFICATION Spec
CONSTANTS
  a = a
  b = b
  Keys = {a, b}
  NoKey = NoKey
  Affinity <- Verbatim
  Deps <- OneRule
  Procs = {p, q}
  NoProc = NoProc
  MaxID = 2
  MaxFiles = 3
  MaxBuilds = 2
  MaxFaults = 1
PROPERTY IDIsOfItsKey
SYMMETRY Symmetry
CHECK_DEADLOCK FALSE

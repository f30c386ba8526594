SPECIFICATION Spec
CONSTANTS
  Jobs <- OnlyInteractive
  NumLanes = 2
  OpenFileLimits = {16}
  BackgroundTaskMax = {1}
  Algorithm = "NamePriority"
  Interruptible = {}
  Console <- OnlyInteractive
  HasDeps = {}
  Faults = {}
  CancelOnFailure = FALSE
INVARIANTS
  KilledAfterTimeout
CHECK_DEADLOCK FALSE

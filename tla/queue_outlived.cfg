SPECIFICATION Spec
CONSTANTS
  Jobs <- QuietJobs
  NumLanes = 2
  OpenFileLimits = {16}
  BackgroundTaskMax = {1}
  Algorithm = "NamePriority"
  Interruptible <- OnlyCompile
  Console = {}
  HasDeps <- OnlyCompile
  Faults = {}
  CancelOnFailure = FALSE
INVARIANTS
  ReleaseWaitsForThreads
CHECK_DEADLOCK FALSE

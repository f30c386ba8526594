SPECIFICATION Spec
CONSTANTS
  Jobs <- AllJobs
  NumLanes = 2
  OpenFileLimits = {13, 16}
  BackgroundTaskMax = {}
  Algorithm = "NamePriority"
  Interruptible <- OnlyCompile
  Console <- OnlyInteractive
  HasDeps <- OnlyCompile
  Faults <- AllFaults
  CancelOnFailure = TRUE
INVARIANTS
  WakeupsMatchJobs
  FilesAreBounded
  CancelReachesProcesses
  NothingRunsOn
CHECK_DEADLOCK FALSE

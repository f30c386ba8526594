SPECIFICATION FairSpec
CONSTANTS
  Jobs <- QuietJobs
  NumLanes = 2
  OpenFileLimits = {16}
  BackgroundTaskMax = {1}
  Algorithm = "NamePriority"
  Interruptible <- OnlyCompile
  Console = {}
  HasDeps <- OnlyCompile
  Faults = {"pipe"}
  CancelOnFailure = TRUE
PROPERTIES
  StartedJobsFinish
CHECK_DEADLOCK FALSE

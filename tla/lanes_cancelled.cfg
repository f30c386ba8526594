SPECIFICATION FairSpec
CONSTANTS
  Jobs <- QuietJobs
  NumLanes = 2
  OpenFileLimits = {14, 16}
  BackgroundTaskMax = {}
  Algorithm = "FIFO"
  Interruptible <- OnlyCompile
  Console = {}
  HasDeps <- OnlyCompile
  Faults = {"spawn", "wait"}
  CancelOnFailure = TRUE
PROPERTIES
  CancelEnds
CHECK_DEADLOCK FALSE

CONSTANTS
  Keys = {1, 2, 3}
  Values = {0, 1, 2}
  Cancelled = Cancelled
  NoValue = NoValue
  Worlds = {0, 2}
  Manifests = {1}
  StartRequests <- MCStartRequests
  MoreRequests <- MCMoreRequests
  Discovers <- MCDiscovers
  Compute <- MCCompute
  IsResultValid <- MCIsResultValid
  ForceChange <- MCForceChange
  Signature <- MCSignature
  ChecksBefore <- MCChecksBefore
  MustCheck <- MCMustCheck
  MaxEpoch = 3
  MaxCancels = 1
  MaxRestarts = 0
  MaxFaults = 0
  BuildKeys = {1, 3}
  ResolveCycle = {TRUE, FALSE}
SPECIFICATION FairSpec
INVARIANTS
  WaitCountIsExact
  ScanRequestsAreLive
  CycleIsFound
  NoScanLeftOver
PROPERTIES
  BuildTerminates

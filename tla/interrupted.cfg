CONSTANTS
  Keys = {1, 2, 3, 4}
  Values = {0, 1, 2, 3}
  Cancelled = Cancelled
  NoValue = NoValue
  Worlds <- MCWorlds
  Manifests = {1}
  StartRequests <- MCStartRequests
  MoreRequests <- MCMoreRequests
  Discovers <- MCDiscovers
  Compute <- MCCompute
  IsResultValid <- MCIsResultValid
  ForceChange <- MCForceChange
  Signature <- MCSignature
  ChecksBefore <- MCChecksBefore
  MustCheck <- MCMustCheck
  MaxEpoch = 2
  MaxCancels = 1
  MaxRestarts = 0
  MaxFaults = 1
  BuildKeys = {4}
  ResolveCycle = {TRUE, FALSE}
SPECIFICATION FairSpec
INVARIANTS
  OutstandingIsExact
  NoLostWakeup
  NothingLeftOver
PROPERTIES
  CompleteIsFinal
  BuildTerminates

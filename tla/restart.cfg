CONSTANTS
  Keys = {1, 2, 3, 4, 5}
  Values = {0, 1, 2, 3}
  Cancelled = Cancelled
  NoValue = NoValue
  Worlds <- MCWorlds
  Manifests = {1, 2}
  StartRequests <- MCStartRequests
  MoreRequests <- MCMoreRequests
  Discovers <- MCDiscovers
  Compute <- MCCompute
  IsResultValid <- MCIsResultValid
  ForceChange <- MCForceChange
  Signature <- MCSignature
  ChecksBefore <- MCChecksBefore
  MustCheck <- MCMustCheck
  MaxEpoch = 2
  MaxCancels = 0
  MaxRestarts = 1
  MaxFaults = 0
  BuildKeys = {5}
  ResolveCycle = {TRUE, FALSE}
SPECIFICATION Spec
INVARIANTS
  EpochsAreBounded
PROPERTIES
  ImplementsCleanBuild

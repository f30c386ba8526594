CONSTANTS
  Keys = {1, 2, 3}
  Values = {0, 1, 2}
  Cancelled = Cancelled
  NoValue = NoValue
  Worlds = {0, 1}
  Manifests = {1}
  StartRequests <- MCStartRequests
  MoreRequests <- MCMoreRequests
  Discovers <- MCDiscovers
  Compute <- MCCompute
  IsResultValid <- MCIsResultValid
  ForceChange <- MCForceChange
  Signature <- MCSignature
  ChecksBefore <- MCChecksBefore
  MustCheck <- MCMustCheck
  MaxEpoch = 3
  MaxCancels = 0
  MaxRestarts = 0
  MaxFaults = 0
  BuildKeys = {1}
  ResolveCycle = {TRUE, FALSE}
SPECIFICATION Spec
INVARIANTS
  NoUndiagnosedCycle

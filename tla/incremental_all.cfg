CONSTANTS
  Keys = {1, 2, 3, 4, 5}
  Values = {0, 1, 2, 3}
  Cancelled = Cancelled
  NoValue = NoValue
  Worlds <- MCWorlds
  Manifests = {1}
  StartRequests <- MCStartRequests
  MoreRequests <- MCMoreRequests
  Discovers <- MCDiscovers
  Compute <- MCCompute
  IsResultValid <- MCIsResultValid
  ForceChange <- MCForceChange
  Signature <- MCSignature
  ChecksBefore <- MCChecksBefore
  MustCheck <- MCMustCheck
  MaxEpoch = 3
  MaxCancels = 0
  MaxRestarts = 0
  MaxFaults = 0
  BuildKeys = {3, 5}
  ResolveCycle = {TRUE, FALSE}
SPECIFICATION Spec
INVARIANTS
  TypeOK
  SuccessfulBuildIsClean
  ComputesAfterInputs
  BuiltAfterComputed
PROPERTIES
  ImplementsCleanBuild
  RunsForAReason
  ComputesOnce

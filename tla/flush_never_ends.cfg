SPECIFICATION Spec
CONSTANTS
  EntryLimits = {1, 4}
  BufferSize = 2
  WordSize = 16
  WriteSizes = {1, 2}
  Channels = {0}
  MaxBytes = 4
  MaxAppends = 5
  MaxInFlight = 3
  MaxFaults = 1
INVARIANTS
  FlushIsPending
CHECK_DEADLOCK FALSE

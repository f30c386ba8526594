SPECIFICATION FairSpec
CONSTANTS
  Works = {w1, w2}
  NoWork = NoWork
  Lanes = {l1, l2}
  Kinds = {"subtask", "async", "subprocess", "volatile", "function", "remote"}
  MaxAsync = 1
INVARIANTS
  TypeOK
  PendingIsFound
  NothingElseLeaks
  LanesKeepUp
  InflightIsExact
  SubtasksAreDrained
PROPERTIES
  KeepsContract
  AcceptedIsCompleted
CHECK_DEADLOCK FALSE

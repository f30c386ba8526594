SPECIFICATION FairSpec
CONSTANTS
  Works = {w1, w2}
  NoWork = NoWork
  Lanes = {l1, l2}
  Kinds = {"subtask", "async", "subprocess", "volatile", "function", "remote"}
  MaxAsync = 1
INVARIANTS
  PendingIsFound
  LanesKeepUp
  SubtasksAreDrained
PROPERTIES
  KeepsContract
  AcceptedIsCompleted
CHECK_DEADLOCK FALSE

SPECIFICATION Spec
CONSTANTS
  Works = {w1, w2}
  NoWork = NoWork
  Lanes = {l1, l2}
  Kinds = {"subtask", "async", "subprocess", "volatile", "function", "remote"}
  MaxAsync = 1
INVARIANT
  AsyncLaneKeepsUp
CHECK_DEADLOCK FALSE

SPECIFICATION Spec
CONSTANTS
  h1 = h1
  j1 = j1
  j2 = j2
  None = None
  Host = {h1}
  Job = {j1, j2}
  Client = {}
  Ops = {"stop"}
  Returned = {"nonneg"}
  MaxLines = 1
INVARIANTS IgnoredAreReplies
CHECK_DEADLOCK FALSE

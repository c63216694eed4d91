SPECIFICATION Spec
CONSTANTS
  h1 = h1
  j1 = j1
  j2 = j2
  c1 = c1
  None = None
  Host = {h1}
  Job = {j1, j2}
  Client = {c1}
  Ops = {"stop", "abort", "delete", "list", "gui", "pause", "crash"}
  Returned = {"nonneg"}
  MaxLines = 1
SYMMETRY Perms
INVARIANTS StartedOnce CleanDispatch FreeIsIdle AnswerOwed
PROPERTY LostOnlyIfCrossed
CHECK_DEADLOCK FALSE

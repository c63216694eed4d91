SPECIFICATION Spec
CONSTANTS
  h1 = h1
  j1 = j1
  j2 = j2
  j3 = j3
  None = None
  Host = {h1}
  Job = {j1, j2, j3}
  Client = {}
  Ops = {"stop", "abort", "delete", "crash"}
  Returned = {"neg", "nonneg"}
  MaxLines = 1
SYMMETRY Perms
INVARIANTS TypeOK QueueInOrder StartedOnce RunningStarted CleanDispatch FreeIsIdle OneAtATime
CHECK_DEADLOCK FALSE

SPECIFICATION FairSpec
CONSTANTS
  h1 = h1
  h2 = h2
  j1 = j1
  j2 = j2
  j3 = j3
  None = None
  Host = {h1, h2}
  Job = {j1, j2, j3}
  Client = {}
  Ops = {"delete"}
  Returned = {"nonneg"}
  MaxLines = 1
PROPERTY BoardSpec
CHECK_DEADLOCK FALSE

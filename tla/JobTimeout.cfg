SPECIFICATION FairSpec
CONSTANTS
  h1 = h1
  j1 = j1
  c1 = c1
  None = None
  Host = {h1}
  Job = {j1}
  Client = {c1}
  Ops = {"gui", "pause"}
  Returned = {"nonneg"}
  MaxLines = 1
PROPERTIES ReadsReturn
CHECK_DEADLOCK FALSE

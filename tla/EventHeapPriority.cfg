CONSTANTS
  MaxEvent = 7
  maxsimtime = 2
  MaxTimeStamp = 2
  Prio <- MCPrio
SPECIFICATION HeapSpec
INVARIANT PriorityOrder
CHECK_DEADLOCK FALSE

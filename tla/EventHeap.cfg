CONSTANTS
  MaxEvent = 7
  maxsimtime = 3
  MaxTimeStamp = 4
  Prio <- MCPrio
SPECIFICATION HeapSpec
PROPERTY IsAgenda
CHECK_DEADLOCK FALSE

SPECIFICATION Spec
CONSTANTS
  Node = {1, 2, 3}
  Packet = {1, 2}
  Src <- First
  Dst <- Third
  LinkAtStart <- Line3
  MayMove <- Line3
  None = None
  RetryMax = 1
  Diameter = 4
  Ttl = 4
  QueueMax = 2
  Below = 1
  BufferMax = 2
  Unset = {0, 9}
  Troubles = {"aged"}
  MaxTrouble = 1
INVARIANTS LoopFree
CHECK_DEADLOCK FALSE

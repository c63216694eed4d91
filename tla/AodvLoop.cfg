SPECIFICATION Spec
CONSTANTS
  Node = {1, 2, 3, 4}
  Packet = {1, 2}
  Src <- Across
  Dst <- Back
  LinkAtStart <- Ring4
  MayMove <- Ring4
  None = None
  RetryMax = 1
  Diameter = 4
  Ttl = 4
  QueueMax = 1
  Below = 1
  BufferMax = 2
  Unset = {0, 9}
  Troubles = {"moved", "lost"}
  MaxTrouble = 2
INVARIANTS LoopFree
CHECK_DEADLOCK FALSE

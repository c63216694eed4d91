SPECIFICATION Spec
CONSTANTS
  Node = {1, 2, 3, 4, 5, 6}
  Packet = {1}
  Src <- One
  Dst <- Six
  LinkAtStart <- Line5
  MayMove <- Shortcut
  None = None
  RetryMax = 1
  Diameter = 6
  Ttl = 4
  QueueMax = 1
  Below = 1
  BufferMax = 2
  Unset = {0, 9}
  Troubles = {"moved", "lost", "aged", "greeted", "early"}
  MaxTrouble = 1
PROPERTIES ShorterPasses
CHECK_DEADLOCK FALSE

SPECIFICATION FairSpec
CONSTANTS
  Node = {1, 2, 3, 4, 5}
  Packet = {1, 2}
  Src <- Out
  Dst <- Home
  LinkAtStart <- Tail5
  MayMove <- Tail5
  None = None
  RetryMax = 1
  Diameter = 5
  Ttl = 5
  QueueMax = 2
  Below = 1
  BufferMax = 2
  Unset = {0, 9}
  Troubles = {"moved", "lost", "aged", "greeted", "early"}
  MaxTrouble = 1
INVARIANTS LeadsOn RepairGuarded PacketOnce
PROPERTIES Arrives Ends
CHECK_DEADLOCK FALSE

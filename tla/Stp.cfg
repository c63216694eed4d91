SPECIFICATION FairSpec
CONSTANTS
  Bridge = {1, 2, 3, 4}
  Port = {11, 12, 13, 21, 22, 23, 31, 32, 33, 41, 42, 43}
  At <- PortOf
  Peer <- Square
  Hops <- Distance
  None = None
  Cases <- Some
  MaxAge = 3
  MaxCost = 12
INVARIANTS NoLoop NeverTooClose
PROPERTIES Settles

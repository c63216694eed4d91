SPECIFICATION FairSpec
CONSTANTS
  Bridge = {1, 2, 3, 4, 5, 6}
  Port = {11, 12, 13, 21, 22, 31, 32, 41, 42, 43, 51, 52, 53, 61, 62}
  At <- PortOf
  Peer <- Grid
  Hops <- Distance
  None = None
  MaxAge = 3
  Cases <- Steady
  MaxCost = 12
INVARIANTS NoLoop
PROPERTIES Converges

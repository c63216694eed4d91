SPECIFICATION Spec
CONSTANTS
  Bridge = {1, 2, 3, 4, 5, 6, 7}
  Port = {11, 12, 21, 22, 31, 32, 41, 42, 51, 52, 61, 62, 71, 72}
  At <- PortOf
  Peer <- Ring7
  Hops <- Distance
  None = None
  MaxAge = 3
  Cases <- Steady
  MaxCost = 12
INVARIANTS NoLoop

SPECIFICATION FairSpec
CONSTANTS
  n1 = n1
  n2 = n2
  n3 = n3
  Node = {n1, n2}
  NoMac = NoMac
  Static = {}
  Listed = {}
  FlushInterval = 2
  MaxEntries = 1
  Lossy = FALSE
  Prompt = TRUE
  Talks <- BothWays
  MaxPackets = 4
PROPERTY Delivered

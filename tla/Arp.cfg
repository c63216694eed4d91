SPECIFICATION Spec
CONSTANTS
  n1 = n1
  n2 = n2
  n3 = n3
  Node = {n1, n2, n3}
  NoMac = NoMac
  Static = {n3}
  Listed = {n1}
  FlushInterval = 2
  MaxEntries = 2
  Lossy = TRUE
  Prompt = FALSE
  Talks <- WithThird
  MaxPackets = 3
INVARIANTS NoCrash NoStaleEntry PacketsConserved OvertakenOnlyIfEarly WaitsForAnswer

SPECIFICATION Spec
CONSTANTS
  m1 = m1
  m2 = m2
  m3 = m3
  p1 = p1
  p2 = p2
  p3 = p3
  Mac = {m1, m2}
  Port = {p1, p2}
  Broadcast = Broadcast
  None = None
  TblMax = 2
  FlushInterval = 2
  Modes = {"learning"}
  TableFiles <- Files
  MaxTime = 3
INVARIANT PermanentIsCurrent

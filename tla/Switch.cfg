SPECIFICATION Spec
CONSTANTS
  m1 = m1
  m2 = m2
  m3 = m3
  p1 = p1
  p2 = p2
  p3 = p3
  Mac = {m1, m2}
  Port = {p1, p2}
  Broadcast = Broadcast
  None = None
  TblMax = 2
  FlushInterval = 1
  Modes = {"learning", "known", "stp"}
  TableFiles <- Files
  MaxTime = 3
SYMMETRY Perms
INVARIANT StaleBounded
PROPERTY Directed

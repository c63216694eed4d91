CONSTANTS
  n1 = n1
  n2 = n2
  n3 = n3
  Station = {n1, n2, n3}
  CtlTime = 203
  RtsTime = 207
  HdrTime = 25
  DataTime <- Times
  ShortLimit = 2
  LongLimit = 1
  CacheSize = 20
  SeqSpace = 4096
  Louder <- N1DrownsN3
  Prop = 1
  Cases <- Mixed
  Offsets = {0, 210}
  Rand = {0, 20}
  MaxTrouble = 1
SPECIFICATION Spec
INVARIANTS NoFault BackoffFrozen AckTruthful PassedOnce
PROPERTIES StuckByRefusedCTSOnly
CHECK_DEADLOCK FALSE

CONSTANTS
  Station = {a, b, c}
  IFS = 3
  Slot = 4
  ALIMIT = 2
  BLIMIT = 1
  IfqMaxLen = 1
  TxTime = {4, 5}
  Prop = 1
  MaxPackets = 3
SPECIFICATION FairSpec
INVARIANTS NoFault PacketsConserved NeverStuck AttemptsCounted
PROPERTIES StrandedByReceptionOnly BinderDrains
CHECK_DEADLOCK FALSE

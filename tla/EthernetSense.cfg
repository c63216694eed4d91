CONSTANTS
  Station = {a, b}
  IFS = 3
  Slot = 4
  ALIMIT = 2
  BLIMIT = 1
  IfqMaxLen = 1
  TxTime = {5}
  Prop = 1
  MaxPackets = 2
SPECIFICATION Spec
PROPERTY CarrierSense
CHECK_DEADLOCK FALSE

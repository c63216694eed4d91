CONSTANTS
  Timer = {t1, t2, t3}
  NULL = NULL
  MaxStamp = 3
SPECIFICATION ListSpec
INVARIANT UnlinkedPointNowhere
PROPERTY IsQueue

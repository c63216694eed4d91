CONSTANTS
  Timer = {t1, t2}
  Ev = {e1, e2}
  SimTime = 3
  IpcInterval = 2
  TicksPerMicro = 2
  MaxDelay = 2
  MaxCalls = 3
SPECIFICATION FairSpec
INVARIANTS NoExit FlagsMatchList DelayConserved AllDueExecuted
PROPERTY Terminates
CHECK_DEADLOCK FALSE

CONSTANTS
  c1 = c1
  r1 = r1
  Main = Main
  Nobody = Nobody
  Caller <- MCCaller
  Request <- MCRequest
  KeepAlive = {1, 2}
  MaxStarts = 2
SPECIFICATION Spec
INVARIANTS NoOrphan CleanExit
PROPERTIES TakeoverShutsDown IdleSessionEnds
CHECK_DEADLOCK FALSE

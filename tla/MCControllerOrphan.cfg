CONSTANTS
  c1 = c1
  r1 = r1
  Main = Main
  Nobody = Nobody
  Caller <- MCCaller
  Request <- MCRequest
  KeepAlive = {1}
  MaxStarts = 3
SPECIFICATION Spec
INVARIANTS OneBackend
CHECK_DEADLOCK FALSE

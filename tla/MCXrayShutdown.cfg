CONSTANTS
  Email = {"e1"}
  Tag = {"vm", "ss", "ex"}
  Excluded = {"ex"}
  Cred = {1, 2}
  NoCred = 0
  Protocol <- MCProtocol
  Request <- MCRequest
  MaxFailures = 2
  MaxOps = 0
  MaxFaults = 2
SPECIFICATION Spec
INVARIANTS ShutdownIsFinal
CHECK_DEADLOCK FALSE

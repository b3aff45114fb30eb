CONSTANTS
  Email = {"e1"}
  Tag = {"vm", "ss", "ex"}
  Excluded = {"ex"}
  Cred = {1, 2}
  NoCred = 0
  Protocol <- MCProtocol
  Request <- MCRequest
  MaxFailures = 2
  MaxOps = 1
  MaxFaults = 2
SPECIFICATION Spec
INVARIANTS NoFalseAlarm RejectedNeverServed DriftOnlyByHealth AckedAccountsServed
PROPERTIES HealthRecovers OperationsReturn
CHECK_DEADLOCK FALSE

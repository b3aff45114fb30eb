CONSTANTS
  s1 = s1
  s2 = s2
  Stream <- MCStream
  User <- MCUser
  Plans <- MCPlans
  LogBufferSize = 1
  MaxSessions = 2
  MaxFrames = 4
SPECIFICATION Spec
INVARIANTS NeverSendsOnClosed UploadIsWhole
PROPERTIES LogStreamsEnd
CHECK_DEADLOCK FALSE

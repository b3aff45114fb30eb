SPECIFICATION Spec
CONSTANTS
    MaxPid = 4
    RingSize = 1
    RuntimeSize = 2
    ChanSize = 1
    Scenarios <- MCScenarios
INVARIANTS TailIsRecent OneLateLine StartupFailureVisible NoRivalChild
PROPERTIES OnlyOwnKilled StartedGetsReady OutputIsRead
CHECK_DEADLOCK FALSE

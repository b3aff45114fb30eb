SPECIFICATION Spec
CONSTANTS
    Sessions = {"s1", "s2"}
    Deployments <- MCDeployments
    Nodes = {"n1", "n2"}
    Ifaces = {"wg0", "wg1"}
    Tables = {"t1", "t2"}
    ChainInfo <- MCChainInfo
    Outs = {"eth0"}
    NoIface = "none"
    Operator = "operator"
    MaxMishaps <- MCMaxMishaps
INVARIANTS RunningIsRouted NothingUnreported
PROPERTIES ForeignRulesKept SessionsSettle
CHECK_DEADLOCK FALSE

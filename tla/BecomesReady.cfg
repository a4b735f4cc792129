SPECIFICATION FairSpec
CONSTANTS
    k1 = k1
    k2 = k2
    c1 = c1
    c2 = c2
    w1 = w1
    w2 = w2
    n1 = n1
    n2 = n2
    None = None
    NoNode = NoNode
    AnyNode = AnyNode
    WarmupGate <- GateName
    Pods = {k1, k2}
    Controllers = {c1}
    Workers = {w1}
    CtrlOf <- OneWorker
    Nodes = {n1}
    WatchedNode <- WatchAll
    MaxConcurrentWarmups = 1
    PodSpecs <- Looked
    StatusReports <- OnlyReady
    MaxRev = 3
    MaxFaults = 2
PROPERTIES
    PodsBecomeReady
CHECK_DEADLOCK FALSE

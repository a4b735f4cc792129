SPECIFICATION Spec
CONSTANTS
    k1 = k1
    k2 = k2
    c1 = c1
    c2 = c2
    w1 = w1
    w2 = w2
    n1 = n1
    n2 = n2
    None = None
    NoNode = NoNode
    AnyNode = AnyNode
    WarmupGate <- GateName
    Pods = {k1}
    Controllers = {c1, c2}
    Workers = {w1, w2}
    CtrlOf <- OneWorkerEach
    Nodes = {n1, n2}
    WatchedNode <- WatchOwn
    MaxConcurrentWarmups = 0
    PodSpecs <- Annotated
    StatusReports <- FewReports
    MaxRev = 6
    MaxFaults = 1
INVARIANTS
    NodeLocalExclusive
CHECK_DEADLOCK FALSE

SPECIFICATION Spec
CONSTANTS
    k1 = k1
    k2 = k2
    c1 = c1
    c2 = c2
    w1 = w1
    w2 = w2
    n1 = n1
    n2 = n2
    None = None
    NoNode = NoNode
    AnyNode = AnyNode
    WarmupGate <- GateName
    Pods = {k1}
    Controllers = {c1, c2}
    Workers = {w1, w2}
    CtrlOf <- OneWorkerEach
    Nodes = {n1}
    WatchedNode <- WatchAll
    MaxConcurrentWarmups = 1
    PodSpecs <- Annotated
    StatusReports <- FewReports
    MaxRev = 4
    MaxFaults = 1
PROPERTIES
    OutcomeIsFinal
    KeepsGatePromise
CHECK_DEADLOCK FALSE

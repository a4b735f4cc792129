SPECIFICATION Spec
CONSTANTS
    k1 = k1
    k2 = k2
    c1 = c1
    c2 = c2
    w1 = w1
    w2 = w2
    n1 = n1
    n2 = n2
    None = None
    NoNode = NoNode
    AnyNode = AnyNode
    WarmupGate <- GateName
    Pods = {k1}
    Controllers = {c1}
    Workers = {w1}
    CtrlOf <- OneWorker
    Nodes = {n1}
    WatchedNode <- WatchAll
    MaxConcurrentWarmups = 1
    PodSpecs <- AnySpec
    StatusReports <- AllReports
    MaxRev = 5
    MaxFaults = 2
INVARIANTS
    TypeOK
    NoPodForgotten
PROPERTIES
    CompleteMeansWarmed
    GateOpensOnReadyPod
    NoLostUpdate
    OutcomeIsFinal
    ShutdownNeverOpensGate
    KeepsGatePromise
CHECK_DEADLOCK FALSE

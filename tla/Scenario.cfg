SPECIFICATION FairSpec
CONSTANTS
    Scenarios <- Mixed
    Variables <- TokenAndId
    Statuses <- FewStatuses
    GRPCMethods <- Methods
    BadMethods <- Malformed
    NoMethod = NoMethod
    None = None
CHECK_DEADLOCK FALSE
INVARIANTS
    TypeOK
    ScenarioContinues
    ExtractedFromOwnResponse
    NoConnectionLeak
    OneLookupPerStep
PROPERTIES
    KeepsContract
    ScenarioReturns

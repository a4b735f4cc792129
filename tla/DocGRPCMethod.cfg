SPECIFICATION Spec
CONSTANTS
    Scenarios <- TwoMethods
    Variables <- TokenAndId
    Statuses <- FewStatuses
    GRPCMethods <- Methods
    BadMethods <- Malformed
    NoMethod = NoMethod
    None = None
CHECK_DEADLOCK FALSE
INVARIANTS
    GRPCMethodHonoured

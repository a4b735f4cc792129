SPECIFICATION FairSpec
CONSTANTS
    u1 = u1
    u2 = u2
    Warmups = {u1, u2}
    Plans <- MixedPlans
    QuarterRates <- ManyRates
    MaxBurst = 3
    MaxInt = 4
    Grace = 1
    DefaultScenarioTimeout = 6
    MaxScenarioTimeout = 7
    DefaultStepTimeout = 2
    LastStart = 1
    Horizon = 6
CHECK_DEADLOCK FALSE
INVARIANTS
    TypeOK
    RateBounded
    FairShare
    OnlyUpdateOutlastsTimeout
PROPERTIES
    RefusedOnlyNearDeadline
    WarmupsReturn

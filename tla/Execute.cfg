SPECIFICATION FairSpec
CONSTANTS
    RequestCounts <- OneToFive
INVARIANTS
    TypeOK
    CountsBounded
    ShortfallHasError
    MessageTruthful
    PercentilesNearestRank
PROPERTIES
    KeepsContract
    ExecuteReturns
CHECK_DEADLOCK FALSE

SPECIFICATION Spec
CONSTANTS
    GlobalFiles <- WellKnown
    GlobalMessages <- WellKnownMessages
    maxReflectionResponseBytes = 4
    Keys <- ABC
    SortedKeys <- Alphabetical
    PodInputs <- SomePods
    Responses <- SomeResponses
    Services <- ServiceNames
    Methods <- MethodNames
    Sessions <- SomeSessions
    Texts <- ShortTexts
    SessionsBefore <- FewSessions
    Documents <- SomeDocuments
    Extracts <- SomeExtracts
INVARIANTS
    ValuesNotResubstituted

SPECIFICATION FairSpec
CONSTANTS
    Clients <- MCClients
    Known <- MCKnown
    Path <- MixedPath
    Size <- MCSize
    Chunk = 2
    MaxThreads = 1
    MaxPending = 2
    Settings <- AllSettings
INVARIANTS
    TypeOK
    InlineOwnAnswer
PROPERTIES
    ImplementsFileService
    EveryClientAnswered
    HandlerGateSpec
    ThreadsEnd

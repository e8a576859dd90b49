SPECIFICATION Spec
CONSTANTS
    Clients <- MCClients
    Known <- MCKnown
    Path <- MixedPath
    Size <- MCSize
    Chunk = 2
    MaxThreads = 2
    MaxPending = 2
    Settings <- ThreadSettings
INVARIANT
    OwnAnswer

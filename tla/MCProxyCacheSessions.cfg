SPECIFICATION Spec
CONSTANTS
    Reqs <- MCReqs
    Keys <- MCKeys
    Cached <- MCCached
    Want <- EmptyWant
    Size <- MCSize
    Chunk = 2
    NThread = 3
    MaxThreads = 2
    NSeg = 2
    Backlog = 2
    Aborts = {1, 3}
INVARIANTS
    TypeOK
    SegmentsAccounted
    SharedBufferExclusive
    FreeSegmentIsReset
    OwnFileOnly
    LoopsInStep
PROPERTIES
    ImplementsFileService
\* a request whose client is gone may block for ever
CHECK_DEADLOCK FALSE

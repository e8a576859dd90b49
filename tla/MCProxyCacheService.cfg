SPECIFICATION FairSpec
CONSTANTS
    Reqs <- MCReqs
    Keys <- MCKeys
    Cached <- MCCached
    Want <- PairWant
    Size <- MCSize
    Chunk = 2
    NThread = 2
    MaxThreads = 1
    NSeg = 1
    Backlog = 1
    Aborts = {}
INVARIANT
    NobodyStuck
PROPERTIES
    ProxyGateSpec
    CacheGateSpec
    SegmentGateSpec
    ImplementsFileService
    EveryRequestCompletes

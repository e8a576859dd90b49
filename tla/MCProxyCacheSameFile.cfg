SPECIFICATION Spec
CONSTANTS
    Reqs <- MCReqs
    Keys <- MCKeys
    Cached <- MCCached
    Want <- PairWant
    Size <- MCSize
    Chunk = 2
    NThread = 2
    MaxThreads = 2
    NSeg = 2
    Backlog = 1
    Aborts = {}
INVARIANT
    BodyInOrder

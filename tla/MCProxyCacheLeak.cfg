SPECIFICATION FairSpec
CONSTANTS
    Reqs <- MCReqs
    Keys <- MCKeys
    Cached <- MCCached
    Want <- DistinctWant
    Size <- MCSize
    Chunk = 2
    NThread = 2
    MaxThreads = 1
    NSeg = 1
    Backlog = 1
    Aborts = {2}
PROPERTY
    SegmentReturned
\* a request whose client is gone may block for ever
CHECK_DEADLOCK FALSE

SPECIFICATION FairSpec
CONSTANTS
    NThreads = {1, 2, 3}
    NRequests = 2
    Want <- MCWant
    Reply <- MCReply
    Size <- MCSize
    HeadLen = 3
    Extra = 0
    Buffer = 5
    Flaky = {1, 4}
INVARIANTS
    TypeOK
    NothingForeignWritten
    SuccessIsTrue
    ReceivedFilesKept
PROPERTY
    EveryRoundEnds

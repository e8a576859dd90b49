SPECIFICATION Spec
CONSTANTS
    NThreads = {2}
    NRequests = 2
    Want <- MCWant
    Reply <- MCReply
    Size <- MCSize
    HeadLen = 3
    Extra = 1
    Buffer = 5
    Flaky = {}
INVARIANT
    NothingForeignWritten

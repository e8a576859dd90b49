SPECIFICATION Spec
CONSTANTS
    NThreads = {3}
    NRequests = 2
    Want <- MCWant
    Reply <- MCReply
    Size <- MCSize
    HeadLen = 3
    Extra = 0
    Buffer = 5
    Flaky = {}
INVARIANT
    FailedFileRemoved

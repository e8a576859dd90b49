SPECIFICATION ProgramsSpec
CONSTANTS
    Proxies = {1, 2, 3}
    Workers = {1}
    NSeg = 2
    EchoClients = {1, 2, 3}
    EchoLength <- MCEchoLength
    EchoWidth = 3
    EchoPending = 2
    EchoDescriptors = 2
    FileClients = {1, 2}
    FileSize = 4
    FileBufSize = 2
    FilePending = 2
    Fetches = {1, 2, 3}
    Framed = {1, 2}
    Origin <- MCOrigin
    Chunk = 2
    Threads = 2
    Callers = {1, 2, 3}
    Work = 1
    Wire = 1
    Timeout = 7
INVARIANTS
    ProgramTypes
    FreshSemaphores
    CacheOutlives
    OwnObjects
    EchoOfOwnMessage
    WholeFileTransferred
    CurlAnswerTrue
    CurlHandlesReturned
    OwnImage
    TimesOutUnderLoad
PROPERTIES
    EchoClientsEnd
    TransferClientsEnd
CHECK_DEADLOCK FALSE
